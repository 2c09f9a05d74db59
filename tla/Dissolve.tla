------------------------------ MODULE Dissolve ------------------------------
(***************************************************************************)
(* The lifecycle verbs: dissolve copies a note to the store and unlinks    *)
(* it, dissolve_sweep does that to every note its scope policy names, and  *)
(* materialize writes a stored copy back as a note.                        *)
(*                                                                         *)
(* A tool call is a thread of the server.  Between its reads, its POST and *)
(* its unlink anything may happen: a save in Obsidian, another call for    *)
(* the same note, a crash.  A POST may be refused, or kept with its answer *)
(* lost.                                                                   *)
(*                                                                         *)
(* Abstracted: a note is its kind, its body and whether its frontmatter    *)
(* carries a description (the translator drops the body of an entity note  *)
(* that does); a stored copy is what the translator sends.  The store      *)
(* (Calliope, behind Hades) keeps every generation of a source path, each  *)
(* a row of its own; rows of the retired plans table (phdb) are older than *)
(* the model.  Git is VaultGit.tla, the write of the Gate is GateWrites.tla *)
(* and directories are left out: of the commit and the pruning after an    *)
(* unlink only their failing is modelled.                                  *)
(***************************************************************************)
EXTENDS Naturals, FiniteSets

CONSTANTS
  Paths,        \* vault-relative paths
  Notes,        \* what a file can hold: see NoteSpace
  NotesOf,      \* Paths -> the notes people keep there
  Bodies,       \* bodies of notes
  Absent,       \* no file, no body, no stored copy, no limit
  Calls,        \* tool calls that run at the same time
  Sweeper,      \* the call that runs dissolve_sweep
  Dissolving,   \* paths under a pillar of the policy's allowlist
  Protected,    \* paths under a pillar the policy protects
  Routed,       \* Paths -> Paths: the schema's route and title of a copy
  Legacy,       \* Paths -> rows of the plans table, written long ago
  Limits,       \* values of the sweep's limit argument, Absent by default
  MaxSaves      \* bound: saves in Obsidian

NoteSpace ==
  [kind : {"document", "entity"}, described : BOOLEAN, body : Bodies]

CopySpace ==
  [kind : {"document", "entity", "plan"}, body : Bodies \cup {Absent}]

PlanRows == [kind : {"plan"}, body : Bodies]

ASSUME NotesAssumption == Notes \subseteq NoteSpace
ASSUME NotesOfAssumption == NotesOf \in [Paths -> SUBSET Notes]
ASSUME AbsentAssumption == /\ Absent \notin NoteSpace \cup CopySpace
                           /\ Absent \notin Bodies \cup Paths \cup Nat
ASSUME SweeperAssumption == Sweeper \in Calls
ASSUME RoutedAssumption == Routed \in [Paths -> Paths]
ASSUME LegacyAssumption == Legacy \in [Paths -> SUBSET PlanRows]
ASSUME MaxSavesAssumption == MaxSaves \in Nat
ASSUME LimitsAssumption == Limits \subseteq Nat \cup {Absent}
\* A written-back note is a plain document (its frontmatter is {}).
ASSUME RenderedAssumption ==
  \A b \in Bodies : [kind |-> "document", described |-> FALSE, body |-> b]
                      \in Notes

VARIABLES
  disk,         \* Paths -> note or Absent: the vault
  store,        \* Paths -> set of copies kept under that source path
  authored,     \* Paths -> every note someone has saved there (history)
  saves,        \* how many saves there have been
  pc,           \* Calls -> where the call is
  target,       \* Calls -> the path it works on, or Absent
  seen,         \* Calls -> the text dissolve read, or Absent
  row,          \* Calls -> the copy materialize read, or Absent
  sweep,        \* "off", "dry" or "live"
  listed,       \* the sweep's listing
  todo,         \* paths of it that it has not reached
  limit,        \* its limit argument
  report        \* Paths -> what its report says of the path

vault  == <<disk, authored, saves>>
call   == <<pc, target, seen, row>>
survey == <<sweep, listed, todo, limit, report>>
vars   == <<vault, store, call, survey>>

-----------------------------------------------------------------------------
\* The translator.

\* What the store is sent of a note.
Carried(n) ==
  [kind |-> n.kind,
   body |-> IF n.kind = "entity" /\ n.described THEN Absent ELSE n.body]

\* The tables materialize reads: documents and plans, no entities.
Restorable(d) == d.kind # "entity"

\* The note written back from such a copy.
Rendered(d) == [kind |-> "document", described |-> FALSE, body |-> d.body]

\* Every text the path can have held: saved there, or written back there.
Known(p) ==
  authored[p] \cup
  UNION {{Rendered(d) : d \in {e \in store[q] : Restorable(e)}}
           : q \in {r \in Paths : Routed[r] = p}}

-----------------------------------------------------------------------------
\* What the sweep decides about a listed path.

\* Wrong: the allowlist beats the protection.
AllowlistWins(p) == p \in Dissolving

Dissolvable(p) == p \in Dissolving \ Protected

Acted == {p \in Paths : report[p] \in {"would", "dissolved", "failed", "taken"}}

\* Wrong: one file too many.
WithinLimitByOne == limit # Absent => Cardinality(Acted) <= limit

WithinLimit == limit # Absent => Cardinality(Acted) < limit

\* The sweep's entry for the path of a call that ends.
Reported(c, outcome) ==
  IF c = Sweeper THEN [report EXCEPT ![target[c]] = outcome] ELSE report

-----------------------------------------------------------------------------
Init ==
  /\ disk \in [Paths -> Notes \cup {Absent}]
  /\ \A p \in Paths : disk[p] \in NotesOf[p] \cup {Absent}
  /\ authored = [p \in Paths |-> {disk[p]} \ {Absent}]
  /\ saves = 0
  /\ store = Legacy
  /\ pc = [c \in Calls |-> "idle"]
  /\ target = [c \in Calls |-> Absent]
  /\ seen = [c \in Calls |-> Absent]
  /\ row = [c \in Calls |-> Absent]
  /\ sweep = "off"
  /\ listed = {}
  /\ todo = {}
  /\ limit = Absent
  /\ report = [p \in Paths |-> "none"]

\* Someone saves a note in Obsidian.
Save(p, n) ==
  /\ disk[p] # n
  /\ saves < MaxSaves
  /\ saves' = saves + 1
  /\ disk' = [disk EXCEPT ![p] = n]
  /\ authored' = [authored EXCEPT ![p] = @ \cup {n}]
  /\ UNCHANGED <<store, call, survey>>

\* The end of a call.
Finish(c) ==
  /\ pc' = [pc EXCEPT ![c] = "idle"]
  /\ seen' = [seen EXCEPT ![c] = Absent]
  /\ row' = [row EXCEPT ![c] = Absent]
  /\ target' = [target EXCEPT ![c] = Absent]

-----------------------------------------------------------------------------
\* dissolve: read, post, unlink.

\* The file is there and is read; a path with no file ends the call at once.
ReadNote(c, p) ==
  /\ pc[c] = "idle"
  /\ disk[p] # Absent
  /\ pc' = [pc EXCEPT ![c] = "post"]
  /\ target' = [target EXCEPT ![c] = p]
  /\ seen' = [seen EXCEPT ![c] = disk[p]]
  /\ UNCHANGED <<vault, store, row>>

BeginDissolve(c, p) ==
  /\ c # Sweeper
  /\ ReadNote(c, p)
  /\ UNCHANGED survey

\* Wrong: the copy is kept under the path it would be written back to.
StoredUnderRoute(c) ==
  store' = [store EXCEPT ![Routed[target[c]]] = @ \cup {Carried(seen[c])}]

\* The store keeps a copy of what was read.
Stored(c) ==
  store' = [store EXCEPT ![target[c]] = @ \cup {Carried(seen[c])}]

\* Wrong: the answer of the POST is not looked at.
PostOkUnchecked(c) ==
  /\ pc[c] = "post"
  /\ Stored(c) \/ UNCHANGED store
  /\ pc' = [pc EXCEPT ![c] = "unlink"]
  /\ UNCHANGED <<vault, target, seen, row, survey>>

\* The POST is answered ok; dissolve goes on to the unlink.
PostOk(c) ==
  /\ pc[c] = "post"
  /\ Stored(c)
  /\ pc' = [pc EXCEPT ![c] = "unlink"]
  /\ UNCHANGED <<vault, target, seen, row, survey>>

\* The POST is not answered ok, whether or not the store kept the copy: the
\* call ends at stage "write" and the file stays.
PostFails(c) ==
  /\ pc[c] = "post"
  /\ Stored(c) \/ UNCHANGED store
  /\ report' = Reported(c, "failed")
  /\ Finish(c)
  /\ UNCHANGED <<vault, sweep, listed, todo, limit>>

\* The file is unlinked, whatever it holds by now.  The commit and the pruning
\* that follow may raise, and a sweep then calls it failed.
Unlink(c) ==
  /\ pc[c] = "unlink"
  /\ disk[target[c]] # Absent
  /\ disk' = [disk EXCEPT ![target[c]] = Absent]
  /\ \E outcome \in {"dissolved", "failed"} : report' = Reported(c, outcome)
  /\ Finish(c)
  /\ UNCHANGED <<authored, saves, store, sweep, listed, todo, limit>>

\* Wrong: the call waits for a file that is gone.
UnlinkRaisesPresent(c) ==
  /\ pc[c] = "unlink"
  /\ disk[target[c]] # Absent
  /\ report' = Reported(c, "failed")
  /\ Finish(c)
  /\ UNCHANGED <<vault, store, sweep, listed, todo, limit>>

\* unlink raises: the file is gone, or may not be removed.
UnlinkRaises(c) ==
  /\ pc[c] = "unlink"
  /\ report' = Reported(c, "failed")
  /\ Finish(c)
  /\ UNCHANGED <<vault, store, sweep, listed, todo, limit>>

-----------------------------------------------------------------------------
\* materialize: read a row by its id, write it through the Gate.

\* Wrong: a row of any table is written back.
ReadRowAnyTable(c, p) ==
  /\ c # Sweeper
  /\ pc[c] = "idle"
  /\ \E d \in store[p] : row' = [row EXCEPT ![c] = d]
  /\ pc' = [pc EXCEPT ![c] = "write"]
  /\ target' = [target EXCEPT ![c] = p]
  /\ UNCHANGED <<vault, store, seen, survey>>

\* Any generation, and a row of the plans table too.
ReadRow(c, p) ==
  /\ c # Sweeper
  /\ pc[c] = "idle"
  /\ \E d \in store[p] : Restorable(d) /\ row' = [row EXCEPT ![c] = d]
  /\ pc' = [pc EXCEPT ![c] = "write"]
  /\ target' = [target EXCEPT ![c] = p]
  /\ UNCHANGED <<vault, store, seen, survey>>

\* The note lands where its type routes it, over whatever is there: a COMPUTE
\* create does not probe for a note of that title.
WriteNote(c) ==
  /\ pc[c] = "write"
  /\ disk' = [disk EXCEPT ![Routed[target[c]]] = Rendered(row[c])]
  /\ Finish(c)
  /\ UNCHANGED <<authored, saves, store, survey>>

WriteRefused(c) ==
  /\ pc[c] = "write"
  /\ Finish(c)
  /\ UNCHANGED <<vault, store, survey>>

-----------------------------------------------------------------------------
\* dissolve_sweep: one listing, then one dissolve after the other.

\* The store is wired (HADES_URL) and a live sweep was confirmed.
SweepStart(mode, l) ==
  /\ sweep = "off"
  /\ pc[Sweeper] = "idle"
  /\ sweep' = mode
  /\ listed' = {p \in Paths : disk[p] # Absent}
  /\ todo' = listed'
  /\ limit' = l
  /\ report' = [p \in Paths |-> "none"]
  /\ UNCHANGED <<vault, store, call>>

\* The sweep reaches the next path of its listing.
Reach(p) ==
  /\ p \in todo
  /\ pc[Sweeper] = "idle"
  /\ todo' = todo \ {p}
  /\ UNCHANGED <<sweep, listed, limit>>

SweepSkip(p) ==
  /\ Reach(p)
  /\ ~ (Dissolvable(p) /\ WithinLimit)
  /\ report' = [report EXCEPT ![p] = "skipped"]
  /\ UNCHANGED <<vault, store, call>>

SweepWould(p) ==
  /\ Reach(p)
  /\ sweep = "dry" /\ Dissolvable(p) /\ WithinLimit
  /\ report' = [report EXCEPT ![p] = "would"]
  /\ UNCHANGED <<vault, store, call>>

SweepTake(p) ==
  /\ Reach(p)
  /\ sweep = "live" /\ Dissolvable(p) /\ WithinLimit
  /\ report' = [report EXCEPT ![p] = "taken"]
  /\ ReadNote(Sweeper, p)

\* Wrong: a listed file that is gone is tried again.
SweepMissRetries(p) ==
  /\ p \in todo /\ pc[Sweeper] = "idle"
  /\ sweep = "live" /\ Dissolvable(p) /\ WithinLimit
  /\ disk[p] = Absent
  /\ UNCHANGED vars

\* Wrong: a listed file that is gone is left off the report.
SweepMissSilent(p) ==
  /\ Reach(p)
  /\ sweep = "live" /\ Dissolvable(p) /\ WithinLimit
  /\ disk[p] = Absent
  /\ UNCHANGED <<vault, store, call, report>>

\* A listed file that is gone by now: not_found.
SweepMiss(p) ==
  /\ Reach(p)
  /\ sweep = "live" /\ Dissolvable(p) /\ WithinLimit
  /\ disk[p] = Absent
  /\ report' = [report EXCEPT ![p] = "failed"]
  /\ UNCHANGED <<vault, store, call>>

\* The report is returned.
SweepEnd ==
  /\ sweep # "off" /\ todo = {} /\ pc[Sweeper] = "idle"
  /\ sweep' = "off"
  /\ listed' = {}
  /\ limit' = Absent
  /\ report' = [p \in Paths |-> "none"]
  /\ UNCHANGED <<vault, store, call, todo>>

\* The server stops: every call and the sweep are gone, with no trace.
Crash ==
  /\ sweep # "off" \/ \E c \in Calls : pc[c] # "idle"
  /\ pc' = [c \in Calls |-> "idle"]
  /\ target' = [c \in Calls |-> Absent]
  /\ seen' = [c \in Calls |-> Absent]
  /\ row' = [c \in Calls |-> Absent]
  /\ sweep' = "off"
  /\ listed' = {}
  /\ todo' = {}
  /\ limit' = Absent
  /\ report' = [p \in Paths |-> "none"]
  /\ UNCHANGED <<vault, store>>

-----------------------------------------------------------------------------
Step(c) ==
  PostOk(c) \/ PostFails(c) \/ Unlink(c) \/ UnlinkRaises(c)
    \/ WriteNote(c) \/ WriteRefused(c)

SweepStep ==
  \/ \E p \in Paths : SweepSkip(p) \/ SweepWould(p) \/ SweepTake(p)
                        \/ SweepMiss(p)
  \/ SweepEnd

Next ==
  \/ \E p \in Paths : \E n \in NotesOf[p] : Save(p, n)
  \/ \E c \in Calls, p \in Paths : BeginDissolve(c, p) \/ ReadRow(c, p)
  \/ \E c \in Calls : Step(c)
  \/ \E mode \in {"dry", "live"}, l \in Limits : SweepStart(mode, l)
  \/ SweepStep
  \/ Crash

Spec == Init /\ [][Next]_vars

\* A thread of the server goes on until its call returns, and a sweep until
\* its listing is done (every call has a timeout).
FairSpec ==
  /\ Spec
  /\ \A c \in Calls : WF_vars(Step(c))
  /\ WF_vars(SweepStep)

-----------------------------------------------------------------------------
\* What the store keeps, and what of it is written back.
Copies == {d \in CopySpace : d.kind # "entity" => d.body \in Bodies}
Rows == {d \in Copies : Restorable(d)}

\* Types, what a call holds at each of its steps, and what a sweep may have
\* reported.
TypeOK ==
  /\ disk \in [Paths -> Notes \cup {Absent}]
  /\ authored \in [Paths -> SUBSET Notes]
  /\ saves \in 0..MaxSaves
  /\ store \in [Paths -> SUBSET Copies]
  /\ pc \in [Calls -> {"idle", "post", "unlink", "write"}]
  /\ target \in [Calls -> Paths \cup {Absent}]
  /\ seen \in [Calls -> Notes \cup {Absent}]
  /\ row \in [Calls -> Rows \cup {Absent}]
  /\ \A c \in Calls :
       /\ pc[c] # "idle" => target[c] \in Paths
       /\ pc[c] \in {"post", "unlink"} => seen[c] \in Notes
       /\ pc[c] = "write" => row[c] \in Rows
  /\ sweep \in {"off", "dry", "live"}
  /\ listed \subseteq Paths /\ todo \subseteq listed
  /\ limit \in Limits \cup {Absent}
  /\ report \in [Paths -> {"none", "skipped", "would", "taken", "dissolved",
                            "failed"}]

\* A note leaves the vault only in a call that read a text of that path, and
\* the copy of what that call read is in the store: no refused, lost or crashed
\* POST, and no other call for the same note, lets an unlink run ahead of its
\* write (dissolve_note).
RemovedIsStored ==
  [][\A p \in Paths :
       disk[p] # Absent /\ disk'[p] = Absent =>
         \E c \in Calls : /\ target[c] = p /\ seen[c] # Absent
                          /\ seen[c] \in Known(p)
                          /\ Carried(seen[c]) \in store[p]]_vars

\* The report never claims too much: a path reported dissolved has a copy in
\* the store, no more paths are acted on than a limit allows, and a dry sweep
\* has no call of its own (bulk_carve).
ReportIsTrue ==
  /\ \A p \in Paths : report[p] = "dissolved" => store[p] \ Legacy[p] # {}
  /\ limit # Absent => Cardinality(Acted) <= limit
  /\ sweep # "live" => pc[Sweeper] = "idle"

\* Nothing drops out of the report: every path of the listing the sweep has
\* passed has an outcome, but for the one its own call is working on, and no
\* other path has any (bulk_carve's files and totals).
ReportIsWhole ==
  /\ \A p \in Paths : report[p] # "none" <=> p \in listed \ todo
  /\ \A p \in Paths :
       report[p] = "taken" <=> pc[Sweeper] # "idle" /\ target[Sweeper] = p

\* A sweep takes nothing from a protected pillar or one the policy does not
\* name: such a note leaves the vault only in a dissolve of its own.
SweepStaysInScope ==
  [][\A p \in Paths :
       /\ disk[p] # Absent /\ disk'[p] = Absent
       /\ p \in Protected \/ p \notin Dissolving
       => \E c \in Calls \ {Sweeper} : target[c] = p]_vars

\* Every call returns, whatever the store answers and whatever becomes of the
\* file meanwhile.
CallsEnd == \A c \in Calls : pc[c] # "idle" ~> pc[c] = "idle"

\* A sweep ends: it works through one listing, however many notes are saved,
\* refused or restored meanwhile.
SweepsEnd == sweep # "off" ~> sweep = "off"

\* dissolve and materialize together implement the archive.
Archive == INSTANCE NoteArchive WITH vault <- disk, archive <- store
ImplementsArchive == Archive!Spec
=============================================================================
