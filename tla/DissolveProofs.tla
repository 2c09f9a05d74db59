--------------------------- MODULE DissolveProofs ---------------------------
(***************************************************************************)
(* Proofs about Dissolve for any vault, any set of calls and any limits:   *)
(* the inductive invariant IInv (TypeOK and what every call may rely on),  *)
(* the two action properties about notes that leave the vault, the sweep's *)
(* report, and the refinement of NoteArchive.                              *)
(***************************************************************************)
EXTENDS Dissolve, FiniteSetTheorems, TLAPS

\* What is on disk is a text of its path; so is what a call read.
TextsKnown ==
  /\ \A p \in Paths : disk[p] # Absent => disk[p] \in Known(p)
  /\ \A c \in Calls : seen[c] # Absent => /\ pc[c] \in {"post", "unlink"}
                                         /\ seen[c] \in Known(target[c])

\* A call about to unlink has stored what it read, and a call about to write
\* holds a stored row.
StoreCovers ==
  \A c \in Calls :
    /\ pc[c] = "unlink" => Carried(seen[c]) \in store[target[c]]
    /\ pc[c] = "write" => row[c] \in store[target[c]]

\* The sweep's call works on a path of its scope.
SweeperInScope ==
  pc[Sweeper] # "idle" => pc[Sweeper] # "write" /\ Dissolvable(target[Sweeper])

IInv == TypeOK /\ TextsKnown /\ StoreCovers /\ SweeperInScope

-----------------------------------------------------------------------------
\* A stored row is written back as a note of the vault.
LEMMA RenderedIsNote ==
  ASSUME NEW d \in Rows
  PROVE  Rendered(d) \in Notes
<1>1. d.body \in Bodies
  BY DEF Rows, Copies, CopySpace, Restorable
<1>2. QED
  BY <1>1, RenderedAssumption DEF Rendered

\* What the store is sent of a note is a copy, and no row of the plans table.
LEMMA CarriedIsCopy ==
  ASSUME NEW n \in Notes
  PROVE  Carried(n) \in Copies /\ Carried(n).kind # "plan"
<1>1. n \in NoteSpace
  BY NotesAssumption
<1>2. QED
  BY <1>1 DEF Carried, Copies, CopySpace, NoteSpace

\* The rows of the plans table are copies of a kind of their own.
LEMMA LegacyIsPlans ==
  /\ Legacy \in [Paths -> SUBSET Copies]
  /\ \A p \in Paths : \A d \in Legacy[p] : d.kind = "plan"
<1>1. \A d \in PlanRows : d \in Copies /\ d.kind = "plan"
  BY DEF PlanRows, Copies, CopySpace
<1>2. QED
  BY <1>1, LegacyAssumption

\* No note is Absent.
LEMMA NothingIsAbsent == Absent \notin Notes /\ Absent \notin Paths
BY NotesAssumption, AbsentAssumption

\* A path loses none of its texts while history and store only grow.
LEMMA KnownGrows ==
  ASSUME NEW p \in Paths,
         authored[p] \subseteq authored'[p],
         \A q \in Paths : store[q] \subseteq store'[q]
  PROVE  Known(p) \subseteq Known(p)'
BY DEF Known

\* The initial state satisfies the invariant.
LEMMA InitIInv == Init => IInv
<1> SUFFICES ASSUME Init PROVE IInv
  OBVIOUS
<1>1. TypeOK
  BY LegacyIsPlans, MaxSavesAssumption DEF Init, TypeOK
<1>2. TextsKnown
  BY DEF Init, TextsKnown, Known
<1>3. StoreCovers
  BY DEF Init, StoreCovers
<1>4. SweeperInScope
  BY SweeperAssumption DEF Init, SweeperInScope
<1>5. QED
  BY <1>1, <1>2, <1>3, <1>4 DEF IInv

\* The call that ends holds nothing; the others go on.
LEMMA FinishKeeps ==
  ASSUME IInv, NEW c \in Calls, Finish(c)
  PROVE  /\ pc' \in [Calls -> {"idle", "post", "unlink", "write"}]
         /\ target' \in [Calls -> Paths \cup {Absent}]
         /\ seen' \in [Calls -> Notes \cup {Absent}]
         /\ row' \in [Calls -> Rows \cup {Absent}]
         /\ pc'[c] = "idle" /\ seen'[c] = Absent
         /\ \A e \in Calls \ {c} :
              /\ pc'[e] = pc[e] /\ target'[e] = target[e]
              /\ seen'[e] = seen[e] /\ row'[e] = row[e]
BY DEF IInv, TypeOK, Finish

\* A save adds to the texts of its path and touches no call.
LEMMA SaveKeeps ==
  ASSUME IInv, NEW q \in Paths, NEW n \in NotesOf[q], Save(q, n)
  PROVE  IInv'
<1>1. n \in Notes
  BY NotesOfAssumption
<1>2. /\ disk' = [disk EXCEPT ![q] = n]
      /\ authored' = [authored EXCEPT ![q] = @ \cup {n}]
      /\ saves' \in 0..MaxSaves
      /\ UNCHANGED <<store, call, survey>>
  BY MaxSavesAssumption DEF Save, IInv, TypeOK
<1>3. \A p \in Paths : Known(p) \subseteq Known(p)'
  BY <1>2, KnownGrows DEF IInv, TypeOK
<1>4. n \in Known(q)'
  BY <1>2 DEF Known, IInv, TypeOK
<1>5. TypeOK'
  BY <1>1, <1>2 DEF IInv, TypeOK, call, survey
<1>6. TextsKnown'
  BY <1>2, <1>3, <1>4 DEF IInv, TypeOK, TextsKnown, call
<1>7. StoreCovers'
  BY <1>2 DEF IInv, StoreCovers, call
<1>8. SweeperInScope'
  BY <1>2 DEF IInv, SweeperInScope, call
<1>9. QED
  BY <1>5, <1>6, <1>7, <1>8 DEF IInv

\* A dissolve starts with the text that is on disk.
LEMMA BeginKeeps ==
  ASSUME IInv, NEW c \in Calls, NEW q \in Paths, ReadNote(c, q),
         UNCHANGED <<sweep, listed, limit>>,
         todo' \subseteq listed,
         report' = report \/ report' = [report EXCEPT ![q] = "taken"],
         c = Sweeper => Dissolvable(q)
  PROVE  IInv'
<1> USE NothingIsAbsent, SweeperAssumption DEF ReadNote, vault
<1>0. \A p \in Paths : Known(p) \subseteq Known(p)'
  BY KnownGrows
<1>1. TypeOK'
  BY DEF IInv, TypeOK
<1>2. TextsKnown'
  BY <1>0 DEF IInv, TypeOK, TextsKnown
<1>3. StoreCovers'
  BY DEF IInv, TypeOK, StoreCovers
<1>4. SweeperInScope'
  BY DEF IInv, TypeOK, SweeperInScope
<1>5. QED
  BY <1>1, <1>2, <1>3, <1>4 DEF IInv

\* A materialize starts with a row the store keeps.
LEMMA ReadRowKeeps ==
  ASSUME IInv, NEW c \in Calls, NEW q \in Paths, ReadRow(c, q)
  PROVE  IInv'
<1> USE NothingIsAbsent DEF ReadRow, vault, survey
<1>0. \A p \in Paths : Known(p) \subseteq Known(p)'
  BY KnownGrows
<1>1. TypeOK'
  <2>1. PICK d \in store[q] : Restorable(d) /\ row' = [row EXCEPT ![c] = d]
    OBVIOUS
  <2>2. d \in Rows
    BY <2>1 DEF IInv, TypeOK, Rows
  <2>3. QED
    BY <2>1, <2>2 DEF IInv, TypeOK
<1>2. TextsKnown'
  BY <1>0 DEF IInv, TypeOK, TextsKnown
<1>3. StoreCovers'
  BY DEF IInv, TypeOK, StoreCovers
<1>4. SweeperInScope'
  BY DEF IInv, TypeOK, SweeperInScope
<1>5. QED
  BY <1>1, <1>2, <1>3, <1>4 DEF IInv

\* The copy that a POST adds to the store.
LEMMA StoredKeeps ==
  ASSUME IInv, NEW c \in Calls, pc[c] = "post", Stored(c)
  PROVE  /\ store' \in [Paths -> SUBSET Copies]
         /\ \A p \in Paths : store[p] \subseteq store'[p]
         /\ Carried(seen[c]) \in store'[target[c]]
<1>1. seen[c] \in Notes /\ target[c] \in Paths
  BY DEF IInv, TypeOK
<1>2. Carried(seen[c]) \in Copies
  BY <1>1, CarriedIsCopy
<1>3. QED
  BY <1>1, <1>2 DEF Stored, IInv, TypeOK

\* The POST puts the copy in the store before the call goes on.
LEMMA PostOkKeeps ==
  ASSUME IInv, NEW c \in Calls, PostOk(c)
  PROVE  IInv'
<1> USE NothingIsAbsent, StoredKeeps DEF PostOk, vault, survey
<1>0. \A p \in Paths : Known(p) \subseteq Known(p)'
  BY KnownGrows
<1>1. TypeOK'
  BY DEF IInv, TypeOK
<1>2. TextsKnown'
  BY <1>0 DEF IInv, TypeOK, TextsKnown
<1>3. StoreCovers'
  BY DEF IInv, TypeOK, StoreCovers
<1>4. SweeperInScope'
  BY DEF IInv, TypeOK, SweeperInScope
<1>5. QED
  BY <1>1, <1>2, <1>3, <1>4 DEF IInv

\* What materialize writes is a text of the path it writes to.
LEMMA WrittenIsKnown ==
  ASSUME IInv, NEW c \in Calls, pc[c] = "write"
  PROVE  /\ Rendered(row[c]) \in Notes /\ Routed[target[c]] \in Paths
         /\ Rendered(row[c]) \in Known(Routed[target[c]])
<1>1. /\ row[c] \in Rows /\ target[c] \in Paths
      /\ row[c] \in store[target[c]] /\ Restorable(row[c])
  BY DEF IInv, TypeOK, StoreCovers, Rows
<1>2. Rendered(row[c]) \in Notes /\ Routed[target[c]] \in Paths
  BY <1>1, RenderedIsNote, RoutedAssumption
<1>3. Rendered(row[c]) \in {Rendered(d) : d \in {e \in store[target[c]] : Restorable(e)}}
  BY <1>1
<1>4. QED
  BY <1>1, <1>2, <1>3 DEF Known

\* A call that ends leaves the invariant, whatever it did last.
LEMMA EndKeeps ==
  ASSUME IInv, NEW c \in Calls, Finish(c),
         UNCHANGED <<authored, saves, sweep, listed, todo, limit>>,
         UNCHANGED store \/ (pc[c] = "post" /\ Stored(c)),
         \/ UNCHANGED disk
         \/ pc[c] = "unlink" /\ disk' = [disk EXCEPT ![target[c]] = Absent]
         \/ /\ pc[c] = "write"
            /\ disk' = [disk EXCEPT ![Routed[target[c]]] = Rendered(row[c])],
         report' = report \/ \E r \in {"failed", "dissolved"} : report' = Reported(c, r)
  PROVE  IInv'
<1> USE NothingIsAbsent, FinishKeeps
<1>6. /\ store' \in [Paths -> SUBSET Copies]
      /\ \A p \in Paths : store[p] \subseteq store'[p]
  BY StoredKeeps DEF IInv, TypeOK
<1>7. \A p \in Paths : Known(p) \subseteq Known(p)'
  BY <1>6, KnownGrows
<1>8. /\ disk' \in [Paths -> Notes \cup {Absent}]
      /\ \A p \in Paths : disk'[p] # Absent => disk'[p] \in Known(p)
  BY WrittenIsKnown DEF IInv, TypeOK, TextsKnown
<1>9. report' \in [Paths -> {"none", "skipped", "would", "taken", "dissolved",
                             "failed"}]
  BY DEF IInv, TypeOK, Reported
<1>1. TypeOK'
  BY <1>6, <1>8, <1>9 DEF IInv, TypeOK
<1>2. TextsKnown'
  BY <1>7, <1>8 DEF IInv, TypeOK, TextsKnown
<1>3. StoreCovers'
  BY <1>6 DEF IInv, TypeOK, StoreCovers
<1>4. SweeperInScope'
  BY SweeperAssumption DEF IInv, SweeperInScope
<1>5. QED
  BY <1>1, <1>2, <1>3, <1>4 DEF IInv

\* The sweep never touches a call or a note by itself, and a crash ends every
\* call.
LEMMA SweepKeeps ==
  ASSUME IInv, 
         \/ \E mode \in {"dry", "live"}, l \in Limits : SweepStart(mode, l)
         \/ SweepStep
         \/ Crash
  PROVE  IInv'
<1>0. UNCHANGED <<authored, store>>
  BY DEF SweepStart, SweepStep, SweepSkip, SweepWould, SweepTake, SweepMiss,
         SweepEnd, ReadNote, Crash, vault
<1>1. \A p \in Paths : Known(p) \subseteq Known(p)'
  BY <1>0, KnownGrows
<1> USE <1>1 DEF IInv, TypeOK, TextsKnown, StoreCovers, SweeperInScope, vault, call
<1>2. CASE \E mode \in {"dry", "live"}, l \in Limits : SweepStart(mode, l)
  BY <1>2 DEF SweepStart
<1>3. CASE \E p \in Paths : SweepSkip(p) \/ SweepWould(p) \/ SweepMiss(p)
  BY <1>3 DEF SweepSkip, SweepWould, SweepMiss, Reach
<1>4. CASE \E p \in Paths : SweepTake(p)
  <2>1. PICK p \in Paths : SweepTake(p)
    BY <1>4
  <2>2. /\ ReadNote(Sweeper, p) /\ UNCHANGED <<sweep, listed, limit>>
        /\ todo' \subseteq listed /\ Dissolvable(p)
        /\ report' = [report EXCEPT ![p] = "taken"]
    BY <2>1 DEF SweepTake, Reach
  <2>3. QED
    BY <2>2, BeginKeeps, SweeperAssumption
<1>5. CASE SweepEnd
  BY <1>5 DEF SweepEnd
<1>6. CASE Crash
  BY <1>6, NothingIsAbsent, SweeperAssumption DEF Crash
<1>7. QED
  BY <1>2, <1>3, <1>4, <1>5, <1>6 DEF SweepStep

\* Every step keeps the invariant.
LEMMA NextIInv == IInv /\ [Next]_vars => IInv'
<1> SUFFICES ASSUME IInv, [Next]_vars PROVE IInv'
  OBVIOUS
<1>1. ASSUME NEW p \in Paths, NEW n \in NotesOf[p], Save(p, n) PROVE IInv'
  BY <1>1, SaveKeeps
<1>2. ASSUME NEW c \in Calls, NEW p \in Paths, BeginDissolve(c, p) PROVE IInv'
  <2>1. ReadNote(c, p) /\ c # Sweeper /\ UNCHANGED survey
    BY <1>2 DEF BeginDissolve
  <2>2. UNCHANGED <<sweep, listed, limit>> /\ todo' \subseteq listed /\ report' = report
    BY <2>1 DEF survey, IInv, TypeOK
  <2>3. QED
    BY <2>1, <2>2, BeginKeeps
<1>3. ASSUME NEW c \in Calls, NEW p \in Paths, ReadRow(c, p) PROVE IInv'
  BY <1>3, ReadRowKeeps
<1>4. ASSUME NEW c \in Calls, Step(c) PROVE IInv'
  <2>1. CASE PostOk(c)
    BY <2>1, PostOkKeeps
  <2>2. CASE PostFails(c)
    BY <2>2, EndKeeps DEF PostFails, vault
  <2>3. CASE Unlink(c)
    BY <2>3, EndKeeps DEF Unlink
  <2>4. CASE UnlinkRaises(c)
    BY <2>4, EndKeeps DEF UnlinkRaises, vault
  <2>5. CASE WriteNote(c)
    BY <2>5, EndKeeps DEF WriteNote, survey
  <2>6. CASE WriteRefused(c)
    BY <2>6, EndKeeps DEF WriteRefused, survey, vault
  <2>7. QED
    BY <1>4, <2>1, <2>2, <2>3, <2>4, <2>5, <2>6 DEF Step
<1>5. CASE UNCHANGED vars
  <2>1. \A p \in Paths : Known(p) \subseteq Known(p)'
    BY <1>5, KnownGrows DEF vars, vault
  <2>2. QED
    BY <1>5, <2>1 DEF IInv, TypeOK, TextsKnown, StoreCovers, SweeperInScope,
                      vars, vault, call, survey
<1>6. QED
  BY <1>1, <1>2, <1>3, <1>4, <1>5, SweepKeeps DEF Next

-----------------------------------------------------------------------------
\* IInv holds in every state of the program.
THEOREM InvariantHolds == Spec => []IInv
BY InitIInv, NextIInv, PTL DEF Spec

\* Types, and what a call holds at each step (TypeOK).
THEOREM TypeCorrect == Spec => []TypeOK
<1>1. IInv => TypeOK
  BY DEF IInv
<1>2. QED
  BY <1>1, InvariantHolds, PTL

-----------------------------------------------------------------------------
\* What a step does to notes and copies: one of the four actions of the
\* archive, or nothing.
LEMMA StepShapes ==
  ASSUME IInv, [Next]_vars
  PROVE  \/ UNCHANGED <<disk, authored, store>>
         \/ \E q \in Paths : \E n \in NotesOf[q] : Save(q, n)
         \/ \E c \in Calls : /\ pc[c] = "post" /\ Stored(c)
                             /\ UNCHANGED <<disk, authored>>
         \/ \E c \in Calls : Unlink(c)
         \/ \E c \in Calls : WriteNote(c)
<1>1. ASSUME NEW c \in Calls, NEW p \in Paths,
             BeginDissolve(c, p) \/ ReadRow(c, p)
      PROVE  UNCHANGED <<disk, authored, store>>
  BY <1>1 DEF BeginDissolve, ReadNote, ReadRow, vault
<1>2. ASSUME NEW c \in Calls, Step(c)
      PROVE  \/ UNCHANGED <<disk, authored, store>>
             \/ pc[c] = "post" /\ Stored(c) /\ UNCHANGED <<disk, authored>>
             \/ Unlink(c)
             \/ WriteNote(c)
  BY <1>2 DEF Step, PostOk, PostFails, UnlinkRaises, WriteRefused, vault
<1>3. ASSUME \/ \E mode \in {"dry", "live"}, l \in Limits : SweepStart(mode, l)
             \/ SweepStep
             \/ Crash
             \/ UNCHANGED vars
      PROVE  UNCHANGED <<disk, authored, store>>
  BY <1>3 DEF SweepStart, SweepStep, SweepSkip, SweepWould, SweepTake, SweepMiss,
              SweepEnd, ReadNote, Crash, vars, vault
<1>4. QED
  BY <1>1, <1>2, <1>3 DEF Next

\* A note leaves the vault only by an unlink of its path.
LEMMA LeavesByUnlink ==
  ASSUME IInv, [Next]_vars, NEW p \in Paths,
         disk[p] # Absent, disk'[p] = Absent
  PROVE  \E c \in Calls : pc[c] = "unlink" /\ target[c] = p
<1>1. ASSUME NEW q \in Paths, NEW n \in NotesOf[q], Save(q, n) PROVE FALSE
  BY <1>1, NotesOfAssumption, NothingIsAbsent DEF Save, IInv, TypeOK
<1>2. ASSUME NEW c \in Calls, Unlink(c)
      PROVE  pc[c] = "unlink" /\ target[c] = p
  BY <1>2 DEF Unlink, IInv, TypeOK
<1>3. ASSUME NEW c \in Calls, WriteNote(c) PROVE FALSE
  BY <1>3, WrittenIsKnown, NothingIsAbsent DEF WriteNote, IInv, TypeOK
<1>4. QED
  BY <1>1, <1>2, <1>3, StepShapes

\* Whatever is saved, refused or crashed meanwhile, and whoever else dissolves
\* the note, an unlink comes after a kept copy of what its call read
\* (RemovedIsStored).
THEOREM RemovalsAreBacked == Spec => RemovedIsStored
<1>1. ASSUME IInv, [Next]_vars, NEW p \in Paths,
             disk[p] # Absent, disk'[p] = Absent
      PROVE  \E c \in Calls : /\ target[c] = p /\ seen[c] # Absent
                              /\ seen[c] \in Known(p)
                              /\ Carried(seen[c]) \in store[p]
  <2>1. PICK c \in Calls : pc[c] = "unlink" /\ target[c] = p
    BY <1>1, LeavesByUnlink
  <2>2. seen[c] # Absent /\ seen[c] \in Known(p) /\ Carried(seen[c]) \in store[p]
    BY <1>1, <2>1, NothingIsAbsent DEF IInv, TypeOK, TextsKnown, StoreCovers
  <2>3. QED
    BY <2>1, <2>2
<1>2. IInv /\ [Next]_vars =>
        [\A p \in Paths :
           disk[p] # Absent /\ disk'[p] = Absent =>
             \E c \in Calls : /\ target[c] = p /\ seen[c] # Absent
                              /\ seen[c] \in Known(p)
                              /\ Carried(seen[c]) \in store[p]]_vars
  BY <1>1
<1>3. QED
  BY <1>2, InvariantHolds, PTL DEF Spec, RemovedIsStored

\* A sweep never takes a note of a protected or unnamed pillar
\* (SweepStaysInScope).
THEOREM ScopeHolds == Spec => SweepStaysInScope
<1>1. ASSUME IInv, [Next]_vars, NEW p \in Paths,
             disk[p] # Absent, disk'[p] = Absent,
             p \in Protected \/ p \notin Dissolving
      PROVE  \E c \in Calls \ {Sweeper} : target[c] = p
  <2>1. PICK c \in Calls : pc[c] = "unlink" /\ target[c] = p
    BY <1>1, LeavesByUnlink
  <2>2. c # Sweeper
    BY <1>1, <2>1 DEF IInv, SweeperInScope, Dissolvable
  <2>3. QED
    BY <2>1, <2>2
<1>2. IInv /\ [Next]_vars =>
        [\A p \in Paths :
           /\ disk[p] # Absent /\ disk'[p] = Absent
           /\ p \in Protected \/ p \notin Dissolving
           => \E c \in Calls \ {Sweeper} : target[c] = p]_vars
  BY <1>1
<1>3. QED
  BY <1>2, InvariantHolds, PTL DEF Spec, SweepStaysInScope

\* Every step is a step of the archive or leaves it unchanged.
LEMMA StepsOfArchive == IInv /\ [Next]_vars => [Archive!Next]_(Archive!vars)
<1> SUFFICES ASSUME IInv, [Next]_vars PROVE [Archive!Next]_(Archive!vars)
  OBVIOUS
<1>0. \A p \in Paths : Archive!Texts(p) = Known(p)
  BY DEF Archive!Texts, Known
<1>1. CASE UNCHANGED <<disk, authored, store>>
  BY <1>1 DEF Archive!vars
<1>2. ASSUME NEW q \in Paths, NEW n \in NotesOf[q], Save(q, n)
      PROVE  Archive!Next
  <2>1. n \in Notes /\ Archive!Save(q, n)
    BY <1>2, NotesOfAssumption DEF Save, Archive!Save
  <2>2. QED
    BY <2>1 DEF Archive!Next
<1>3. ASSUME NEW c \in Calls, pc[c] = "post", Stored(c), UNCHANGED <<disk, authored>>
      PROVE  Archive!Next
  <2>1. target[c] \in Paths /\ seen[c] \in Archive!Texts(target[c])
    BY <1>0, <1>3, NothingIsAbsent DEF IInv, TypeOK, TextsKnown
  <2>2. Archive!Keep(target[c])
    BY <1>3, <2>1 DEF Stored, Archive!Keep
  <2>3. QED
    BY <2>1, <2>2 DEF Archive!Next
<1>4. ASSUME NEW c \in Calls, Unlink(c) PROVE Archive!Next
  <2>1. /\ target[c] \in Paths /\ seen[c] \in Archive!Texts(target[c])
        /\ Carried(seen[c]) \in store[target[c]]
    BY <1>0, <1>4, NothingIsAbsent DEF Unlink, IInv, TypeOK, TextsKnown, StoreCovers
  <2>2. Archive!Remove(target[c])
    BY <1>4, <2>1 DEF Unlink, Archive!Remove
  <2>3. QED
    BY <2>1, <2>2 DEF Archive!Next
<1>5. ASSUME NEW c \in Calls, WriteNote(c) PROVE Archive!Next
  <2>1. /\ target[c] \in Paths /\ row[c] \in store[target[c]]
        /\ Restorable(row[c])
    BY <1>5 DEF WriteNote, IInv, TypeOK, StoreCovers, Rows
  <2>2. Archive!Restore(target[c])
    BY <1>5, <2>1 DEF WriteNote, Archive!Restore
  <2>3. QED
    BY <2>1, <2>2 DEF Archive!Next
<1>6. QED
  BY <1>1, <1>2, <1>3, <1>4, <1>5, StepShapes

\* dissolve, dissolve_sweep and materialize implement the archive: a text of
\* the vault was saved there or written back from a stored row routed there, a
\* new row is what the store is sent of a text of its own path, a note leaves
\* only once there is one, and the store forgets nothing (ImplementsArchive).
THEOREM Refinement == Spec => ImplementsArchive
<1>1. Init => Archive!Init
  BY DEF Init, Archive!Init
<1>2. QED
  BY <1>1, InvariantHolds, StepsOfArchive, PTL
     DEF Spec, ImplementsArchive, Archive!Spec

-----------------------------------------------------------------------------
\* The report of a sweep.

\* The paths acted on are finitely many, however large the vault.
ReportInv == ReportIsWhole /\ ReportIsTrue /\ IsFiniteSet(Acted)

\* A set stays within a bound when it loses elements, or gains one below it.
LEMMA BoundKept ==
  ASSUME NEW S, IsFiniteSet(S), NEW n \in Nat, Cardinality(S) <= n, NEW x, NEW T,
         T \subseteq S \/ (T \subseteq S \cup {x} /\ Cardinality(S) < n)
  PROVE  IsFiniteSet(T) /\ Cardinality(T) <= n
<1>1. Cardinality(S) \in Nat
  BY FS_CardinalityType
<1>2. CASE T \subseteq S
  <2>1. IsFiniteSet(T) /\ Cardinality(T) <= Cardinality(S)
    BY <1>2, FS_Subset
  <2>2. Cardinality(T) \in Nat
    BY <2>1, FS_CardinalityType
  <2>3. QED
    BY <1>1, <2>1, <2>2
<1>3. CASE T \subseteq S \cup {x} /\ Cardinality(S) < n
  <2>1. /\ IsFiniteSet(S \cup {x})
        /\ Cardinality(S \cup {x}) <= Cardinality(S) + 1
    BY <1>1, FS_AddElement
  <2>2. IsFiniteSet(T) /\ Cardinality(T) <= Cardinality(S \cup {x})
    BY <1>3, <2>1, FS_Subset
  <2>3. Cardinality(T) \in Nat /\ Cardinality(S \cup {x}) \in Nat
    BY <2>1, <2>2, FS_CardinalityType
  <2>4. QED
    BY <1>1, <1>3, <2>1, <2>2, <2>3
<1>4. QED
  BY <1>2, <1>3

\* What ReportIsTrue says of the limit, and that it can be counted.
Bounded == IsFiniteSet(Acted) /\ (limit # Absent => Cardinality(Acted) <= limit)

\* The limit is respected by a report that acts on no more paths, or on one
\* more while there was room.
LEMMA ActedWithin ==
  ASSUME IInv, ReportInv, NEW p, limit' = limit,
         \/ Acted' \subseteq Acted
         \/ Acted' \subseteq Acted \cup {p} /\ WithinLimit
  PROVE  Bounded'
<1>1. limit = Absent \/ limit \in Nat
  BY LimitsAssumption DEF IInv, TypeOK
<1>2. IsFiniteSet(Acted) /\ (limit # Absent => Cardinality(Acted) <= limit)
  BY DEF ReportInv, ReportIsTrue
<1>3. IsFiniteSet(Acted')
  BY <1>2, FS_AddElement, FS_Subset
<1>4. CASE limit = Absent
  BY <1>3, <1>4 DEF Bounded
<1>5. CASE limit \in Nat
  <2>1. limit # Absent
    BY <1>5, AbsentAssumption
  <2>2. Cardinality(Acted') <= limit
    BY <1>2, <1>5, <2>1, BoundKept DEF WithinLimit
  <2>3. QED
    BY <1>3, <2>2 DEF Bounded
<1>6. QED
  BY <1>1, <1>4, <1>5

\* The store forgets nothing.
LEMMA StoreGrows ==
  ASSUME IInv, [Next]_vars, NEW p \in Paths
  PROVE  store[p] \subseteq store'[p]
BY StepShapes DEF IInv, TypeOK, Stored, Save, Unlink, WriteNote

\* A step that touches neither the report nor the sweep's call.
LEMMA AsideKeepsReport ==
  ASSUME IInv, ReportInv, [Next]_vars, UNCHANGED survey,
         target'[Sweeper] = target[Sweeper],
         pc'[Sweeper] = "idle" <=> pc[Sweeper] = "idle"
  PROVE  ReportInv'
<1>1. Acted' \subseteq Acted /\ limit' = limit
  BY DEF Acted, survey
<1>2. Bounded'
  BY <1>1, ActedWithin
<1>3. ReportIsWhole'
  BY DEF ReportInv, ReportIsWhole, survey
<1>4. \A p \in Paths : report'[p] = "dissolved" => store'[p] \ Legacy[p] # {}
  BY StoreGrows DEF ReportInv, ReportIsTrue, survey
<1>5. sweep' # "live" => pc'[Sweeper] = "idle"
  BY DEF ReportInv, ReportIsTrue, survey
<1>6. QED
  BY <1>2, <1>3, <1>4, <1>5 DEF ReportInv, ReportIsTrue, Bounded

\* The sweep's call ends: the path it was taken for gets its outcome.
LEMMA OutcomeKeepsReport ==
  ASSUME IInv, ReportInv, [Next]_vars, pc[Sweeper] # "idle", Finish(Sweeper),
         UNCHANGED <<sweep, listed, todo, limit>>,
         NEW r \in {"failed", "dissolved"},
         report' = Reported(Sweeper, r),
         r = "dissolved" => pc[Sweeper] = "unlink"
  PROVE  ReportInv'
<1> DEFINE t == target[Sweeper]
<1>1. /\ t \in Paths /\ report[t] = "taken"
      /\ report' = [report EXCEPT ![t] = r]
      /\ report \in [Paths -> {"none", "skipped", "would", "taken", "dissolved",
                               "failed"}]
      /\ pc'[Sweeper] = "idle"
  BY SweeperAssumption DEF IInv, TypeOK, ReportInv, ReportIsWhole, Reported, Finish
<1>2. \A p \in Paths : report[p] = "taken" <=> p = t
  BY DEF ReportInv, ReportIsWhole
<1>3. r = "dissolved" => store[t] \ Legacy[t] # {}
  <2>1. ASSUME pc[Sweeper] = "unlink" PROVE store[t] \ Legacy[t] # {}
    <3>1. seen[Sweeper] \in Notes /\ Carried(seen[Sweeper]) \in store[t]
      BY <2>1, SweeperAssumption DEF IInv, TypeOK, StoreCovers
    <3>2. Carried(seen[Sweeper]) \notin Legacy[t]
      BY <1>1, <3>1, CarriedIsCopy, LegacyIsPlans
    <3>3. QED
      BY <3>1, <3>2
  <2>2. QED
    BY <2>1
<1> HIDE DEF t
<1>4. Acted' \subseteq Acted
  BY <1>1 DEF Acted
<1>5. Bounded'
  BY <1>4, ActedWithin
<1>6. ReportIsWhole'
  BY <1>1, <1>2 DEF ReportInv, ReportIsWhole
<1>7. \A p \in Paths : report'[p] = "dissolved" => store'[p] \ Legacy[p] # {}
  BY <1>1, <1>3, StoreGrows DEF ReportInv, ReportIsTrue
<1>8. QED
  BY <1>1, <1>5, <1>6, <1>7 DEF ReportInv, ReportIsTrue, Bounded

\* The sweep reaches a path and puts it on the report.
LEMMA ReachKeepsReport ==
  ASSUME IInv, ReportInv, [Next]_vars, NEW p \in Paths, Reach(p),
         NEW r \in {"skipped", "would", "taken", "failed"},
         report' = [report EXCEPT ![p] = r],
         r # "skipped" => WithinLimit,
         IF r = "taken" THEN sweep = "live" /\ ReadNote(Sweeper, p)
                        ELSE UNCHANGED call
  PROVE  ReportInv'
<1>1. /\ report \in [Paths -> {"none", "skipped", "would", "taken", "dissolved",
                               "failed"}]
      /\ pc[Sweeper] = "idle" /\ UNCHANGED <<sweep, listed, limit>>
      /\ p \in listed \ todo' /\ todo \ {p} = todo' /\ p \in todo
  BY DEF IInv, TypeOK, Reach
<1>2. \A q \in Paths : report[q] # "taken"
  BY <1>1 DEF ReportInv, ReportIsWhole
<1>3. \/ Acted' \subseteq Acted
      \/ Acted' \subseteq Acted \cup {p} /\ WithinLimit
  <2>1. CASE r = "skipped"
    BY <1>1, <2>1 DEF Acted
  <2>2. CASE r # "skipped"
    BY <1>1, <2>2 DEF Acted
  <2>3. QED
    BY <2>1, <2>2
<1>4. Bounded'
  BY <1>1, <1>3, ActedWithin
<1>5. IF r = "taken" THEN pc'[Sweeper] = "post" /\ target'[Sweeper] = p
                     ELSE pc'[Sweeper] = "idle"
  BY <1>1, SweeperAssumption DEF IInv, TypeOK, ReadNote, call
<1>6. ReportIsWhole'
  <2>1. \A q \in Paths : report'[q] # "none" <=> q \in listed' \ todo'
    BY <1>1 DEF ReportInv, ReportIsWhole
  <2>2. \A q \in Paths :
          report'[q] = "taken" <=> pc'[Sweeper] # "idle" /\ target'[Sweeper] = q
    BY <1>1, <1>2, <1>5
  <2>3. QED
    BY <2>1, <2>2 DEF ReportIsWhole
<1>7. \A q \in Paths : report'[q] = "dissolved" => store'[q] \ Legacy[q] # {}
  BY <1>1, StoreGrows DEF ReportInv, ReportIsTrue
<1>8. sweep' # "live" => pc'[Sweeper] = "idle"
  BY <1>1, <1>5
<1>9. QED
  BY <1>4, <1>6, <1>7, <1>8 DEF ReportInv, ReportIsTrue, Bounded

\* No report: a sweep begins, has ended, or was crashed.
LEMMA NoReport ==
  ASSUME report' = [p \in Paths |-> "none"], pc'[Sweeper] = "idle",
         listed' = todo', limit' \in Nat \cup {Absent}
  PROVE  ReportInv'
<1>1. Acted' = {}
  BY DEF Acted
<1>2. IsFiniteSet(Acted') /\ (limit' # Absent => Cardinality(Acted') <= limit')
  BY <1>1, FS_EmptySet
<1>3. QED
  BY <1>2 DEF ReportInv, ReportIsTrue, ReportIsWhole

LEMMA NextReport == IInv /\ ReportInv /\ [Next]_vars => ReportInv'
<1> SUFFICES ASSUME IInv, ReportInv, [Next]_vars PROVE ReportInv'
  OBVIOUS
<1>1. ASSUME NEW p \in Paths, NEW n \in NotesOf[p], Save(p, n) PROVE ReportInv'
  BY <1>1, AsideKeepsReport DEF Save, call
<1>2. ASSUME NEW c \in Calls, NEW p \in Paths, BeginDissolve(c, p) \/ ReadRow(c, p)
      PROVE  ReportInv'
  <2>1. /\ UNCHANGED survey /\ target'[Sweeper] = target[Sweeper]
        /\ pc'[Sweeper] = pc[Sweeper]
    BY <1>2, SweeperAssumption DEF BeginDissolve, ReadNote, ReadRow, IInv, TypeOK
  <2>2. QED
    BY <2>1, AsideKeepsReport
<1>3. ASSUME NEW c \in Calls \ {Sweeper}, Step(c) PROVE ReportInv'
  <2>1. /\ target'[Sweeper] = target[Sweeper] /\ pc'[Sweeper] = pc[Sweeper]
        /\ UNCHANGED survey
    BY <1>3, SweeperAssumption
       DEF Step, PostOk, PostFails, Unlink, UnlinkRaises, WriteNote, WriteRefused,
           Finish, Reported, survey, IInv, TypeOK
  <2>2. QED
    BY <2>1, AsideKeepsReport
<1>4. CASE Step(Sweeper)
  <2>1. CASE PostOk(Sweeper)
    <3>1. /\ UNCHANGED survey /\ target'[Sweeper] = target[Sweeper]
          /\ pc[Sweeper] # "idle" /\ pc'[Sweeper] # "idle"
      BY <2>1, SweeperAssumption DEF PostOk, IInv, TypeOK
    <3>2. QED
      BY <3>1, AsideKeepsReport
  <2>2. CASE PostFails(Sweeper) \/ UnlinkRaises(Sweeper)
    BY <2>2, OutcomeKeepsReport DEF PostFails, UnlinkRaises
  <2>3. CASE Unlink(Sweeper)
    BY <2>3, OutcomeKeepsReport DEF Unlink
  <2>4. CASE WriteNote(Sweeper) \/ WriteRefused(Sweeper)
    BY <2>4 DEF WriteNote, WriteRefused, IInv, SweeperInScope
  <2>5. QED
    BY <1>4, <2>1, <2>2, <2>3, <2>4 DEF Step
<1>5. ASSUME NEW mode \in {"dry", "live"}, NEW l \in Limits, SweepStart(mode, l)
      PROVE  ReportInv'
  BY <1>5, NoReport, LimitsAssumption DEF SweepStart, call
<1>6. ASSUME NEW p \in Paths, SweepSkip(p) \/ SweepWould(p) \/ SweepTake(p) \/ SweepMiss(p)
      PROVE  ReportInv'
  <2>1. CASE SweepSkip(p)
    BY <2>1, ReachKeepsReport DEF SweepSkip
  <2>2. CASE SweepWould(p)
    BY <2>2, ReachKeepsReport DEF SweepWould
  <2>3. CASE SweepTake(p)
    BY <2>3, ReachKeepsReport DEF SweepTake
  <2>4. CASE SweepMiss(p)
    BY <2>4, ReachKeepsReport DEF SweepMiss
  <2>5. QED
    BY <1>6, <2>1, <2>2, <2>3, <2>4
<1>7. CASE SweepEnd
  BY <1>7, NoReport DEF SweepEnd, call, IInv, TypeOK
<1>8. CASE Crash
  BY <1>8, NoReport, SweeperAssumption DEF Crash
<1>9. CASE UNCHANGED vars
  BY <1>9, AsideKeepsReport DEF vars, call
<1>10. QED
  BY <1>1, <1>2, <1>3, <1>4, <1>5, <1>6, <1>7, <1>8, <1>9 DEF Next, SweepStep

THEOREM ReportInvHolds == Spec => []ReportInv
<1>1. Init => ReportInv
  <2> SUFFICES ASSUME Init PROVE ReportInv
    OBVIOUS
  <2>1. Acted = {}
    BY DEF Init, Acted
  <2>2. IsFiniteSet(Acted) /\ limit = Absent
    BY <2>1, FS_EmptySet DEF Init
  <2>3. QED
    BY <2>2, SweeperAssumption DEF Init, ReportInv, ReportIsTrue, ReportIsWhole
<1>2. QED
  BY <1>1, NextReport, InvariantHolds, PTL DEF Spec

\* For a vault of any size and any limit, the report of a sweep claims nothing
\* that is not so: what it calls dissolved is stored, and no more is acted on
\* than a limit allows (ReportIsTrue).
THEOREM ReportsAreTrue == Spec => []ReportIsTrue
BY ReportInvHolds, PTL DEF ReportInv

\* Every listed path the sweep has passed is on the report, whatever failed
\* under its dissolve, and no other path is (ReportIsWhole).
THEOREM ReportsAreWhole == Spec => []ReportIsWhole
BY ReportInvHolds, PTL DEF ReportInv
=============================================================================
