---------------------------- MODULE NoteArchive ----------------------------
(***************************************************************************)
(* What dissolve and materialize promise together, with no calls, threads  *)
(* or lost answers: no text of the vault or of the store comes from        *)
(* nowhere.                                                                *)
(*                                                                         *)
(* A text is in the vault because someone saved it at its path or because  *)
(* a stored row was written back there; it is copied to the store only     *)
(* under its own path, and leaves the vault only when the store has a copy *)
(* of a text of that path.  The store forgets nothing.  Dissolve.tla is    *)
(* shown to implement this (property ImplementsArchive of that module).    *)
(*                                                                         *)
(* Two things are not promised, because the code does not keep them: that  *)
(* the NEWEST text is stored before it leaves (a save between the read and *)
(* the unlink), and that a copy is whole (Carried: of an entity with a     *)
(* description the store is sent no body, and no entity is written back).  *)
(***************************************************************************)
CONSTANTS
  Paths,         \* paths of the vault
  Notes,         \* what a file can hold
  Absent,        \* no note
  Routed,        \* where the stored rows of a path are written back
  Legacy,        \* rows that were in the store before
  Carried(_),    \* the part of a note the store keeps
  Restorable(_), \* is this row ever written back?
  Rendered(_)    \* the note written back from it

VARIABLES
  vault,         \* Paths -> note or Absent
  archive,       \* Paths -> set of stored rows
  authored       \* Paths -> every note someone has saved there

vars == <<vault, archive, authored>>

Init ==
  /\ vault \in [Paths -> Notes \cup {Absent}]
  /\ archive = Legacy
  /\ authored = [p \in Paths |-> {vault[p]} \ {Absent}]

\* The texts of a path: saved there by someone, or written back there.
Texts(p) ==
  authored[p] \cup
  UNION {{Rendered(d) : d \in {e \in archive[q] : Restorable(e)}}
           : q \in {r \in Paths : Routed[r] = p}}

\* Someone saves a note: the only way a new text enters.
Save(p, n) ==
  /\ vault' = [vault EXCEPT ![p] = n]
  /\ authored' = [authored EXCEPT ![p] = @ \cup {n}]
  /\ UNCHANGED archive

\* A text of the path is copied to the store.
Keep(p) ==
  /\ \E n \in Texts(p) : archive' = [archive EXCEPT ![p] = @ \cup {Carried(n)}]
  /\ UNCHANGED <<vault, authored>>

\* The note leaves the vault.
Remove(p) ==
  /\ \E n \in Texts(p) : Carried(n) \in archive[p]
  /\ vault' = [vault EXCEPT ![p] = Absent]
  /\ UNCHANGED <<archive, authored>>

\* A stored row is written back; nobody has authored it.
Restore(p) ==
  /\ \E d \in archive[p] :
       Restorable(d) /\ vault' = [vault EXCEPT ![Routed[p]] = Rendered(d)]
  /\ UNCHANGED <<archive, authored>>

Next ==
  \E p \in Paths :
    \/ \E n \in Notes : Save(p, n)
    \/ Keep(p)
    \/ Remove(p)
    \/ Restore(p)

Spec == Init /\ [][Next]_vars
=============================================================================
