--------------------------- MODULE VaultGitProofs ---------------------------
(***************************************************************************)
(* VaultGit for any files, verbs and faults.  Type correctness: both       *)
(* branches are at commits that exist, every commit's parents are older    *)
(* than itself, what a merge is computed from is a commit.  Neither branch *)
(* ever loses a commit.  A merge removes no note from disk.  And the       *)
(* checkpoint handshake: a verb's commit holds the verb's texts.           *)
(***************************************************************************)
EXTENDS VaultGit, TLAPS

By == Writer \cup {"seed", "sweep", "merge", "remote"}

\* Who merges has fetched.
Fetched == sw.pc \in {"check", "update", "head"} => sw.theirs \in 1 .. Len(log)

IInv == TypeOK /\ Fetched

-----------------------------------------------------------------------------
\* Trees and commits.

LEMMA WithType ==
  ASSUME NEW t \in Tree, NEW f \in File, NEW x \in Text
  PROVE  With(t, f, x) \in Tree
BY DEF Tree, With

LEMMA LogIs ==
  ASSUME TypeOK
  PROVE  /\ Len(log) \in Nat /\ DOMAIN log = 1 .. Len(log)
         /\ head \in 1 .. Len(log) /\ origin \in 1 .. Len(log)
         /\ \A c \in 1 .. Len(log) : log[c] \in CommitType
         /\ HeadTree \in Tree
<1>1. /\ log \in Seq(CommitType) /\ Len(log) \in Nat
      /\ DOMAIN log = 1 .. Len(log)
      /\ \A c \in 1 .. Len(log) : log[c] \in CommitType
  BY DEF TypeOK
<1>2. head \in 1 .. Len(log) /\ origin \in 1 .. Len(log)
  BY <1>1 DEF TypeOK
<1>3. log[head].tree \in Tree
  BY <1>1, <1>2 DEF CommitType
<1> QED
  BY <1>1, <1>2, <1>3 DEF HeadTree

\* A commit on commits that exist.
LEMMA CommitKeeps ==
  ASSUME TypeOK, NEW t \in Tree, NEW P, P \subseteq 1 .. Len(log), NEW by \in By,
         Commit(t, P, by)
  PROVE  /\ log' \in Seq(CommitType)
         /\ Len(log') = Len(log) + 1
         /\ Len(log') \in DOMAIN log'
         /\ DOMAIN log \subseteq DOMAIN log'
         /\ \A c \in DOMAIN log' : log'[c].parents \subseteq 1 .. (c - 1)
<1> DEFINE new == [tree |-> t, parents |-> P, by |-> by]
<1>1. P \in SUBSET Nat
  BY LogIs
<1>2. new \in CommitType /\ new.parents = P
  BY <1>1 DEF CommitType, By
<1> HIDE DEF new
<1>3. log' = Append(log, new) /\ log \in Seq(CommitType)
  BY DEF Commit, TypeOK, new
<1>4. /\ log' \in Seq(CommitType) /\ Len(log') = Len(log) + 1
      /\ DOMAIN log' = 1 .. Len(log) + 1
      /\ log'[Len(log) + 1] = new
      /\ \A c \in 1 .. Len(log) : log'[c] = log[c]
  BY <1>2, <1>3
<1>5. ASSUME NEW c \in 1 .. Len(log) + 1
      PROVE  log'[c].parents \subseteq 1 .. (c - 1)
  <2>1. CASE c \in 1 .. Len(log)
    BY <1>4, <2>1, LogIs DEF TypeOK
  <2>2. CASE c = Len(log) + 1
    <3>1. c - 1 = Len(log)
      BY <2>2, LogIs
    <3>2. log'[c].parents = P
      BY <1>2, <1>4, <2>2
    <3> QED
      BY <3>1, <3>2
  <2> QED
    BY <2>1, <2>2, LogIs
<1> QED
  BY <1>4, <1>5, LogIs

\* What a merge makes of three trees.
LEMMA MergeType ==
  ASSUME NEW b, NEW o \in Tree, NEW t \in Tree, NEW x \in Text
  PROVE  MergeTree(b, o, t, x) \in Tree
BY DEF MergeTree, MergedText, Tree

\* A verb and a sweep keep their types field by field.
LEMMA WriterFields ==
  ASSUME NEW r \in WriterType
  PROVE  /\ \A p \in {"idle", "gate", "lock", "stage", "commit", "end"} :
              /\ [r EXCEPT !.pc = p] \in WriterType
              /\ [r EXCEPT !.pc = p].sha = r.sha
              /\ \A L \in SUBSET File :
                   /\ [r EXCEPT !.pc = p, !.late = L] \in WriterType
                   /\ [r EXCEPT !.pc = p, !.late = L].sha = r.sha
         /\ \A n \in Nat : /\ [r EXCEPT !.pc = "end", !.sha = n] \in WriterType
                           /\ [r EXCEPT !.pc = "end", !.sha = n].sha = n
         /\ r.todo \in Seq(File \X Text) /\ Pending(r) \subseteq File
         /\ r.todo # <<>> => /\ [r EXCEPT !.todo = Tail(@)] \in WriterType
                             /\ [r EXCEPT !.todo = Tail(@)].sha = r.sha
                             /\ r.todo[1][1] \in File /\ r.todo[1][2] \in Text
<1>1. \A p \in {"idle", "gate", "lock", "stage", "commit", "end"} :
         /\ [r EXCEPT !.pc = p] \in WriterType
         /\ [r EXCEPT !.pc = p].sha = r.sha
         /\ \A L \in SUBSET File :
              /\ [r EXCEPT !.pc = p, !.late = L] \in WriterType
              /\ [r EXCEPT !.pc = p, !.late = L].sha = r.sha
  BY DEF WriterType
<1>2. \A n \in Nat : /\ [r EXCEPT !.pc = "end", !.sha = n] \in WriterType
                    /\ [r EXCEPT !.pc = "end", !.sha = n].sha = n
  BY DEF WriterType
<1>3. r.todo \in Seq(File \X Text) /\ Pending(r) \subseteq File
  <2>1. r.todo \in Seq(File \X Text)
    BY DEF WriterType
  <2>2. \A i \in DOMAIN r.todo : r.todo[i] \in File \X Text
    BY <2>1
  <2> QED
    BY <2>1, <2>2 DEF Pending
<1>4. ASSUME r.todo # <<>>
      PROVE  /\ [r EXCEPT !.todo = Tail(@)] \in WriterType
             /\ [r EXCEPT !.todo = Tail(@)].sha = r.sha
             /\ r.todo[1][1] \in File /\ r.todo[1][2] \in Text
  <2> DEFINE q == Tail(r.todo)
  <2>1. q \in Seq(File \X Text) /\ r.todo[1] \in File \X Text
    BY <1>3, <1>4
  <2> HIDE DEF q
  <2>2. [r EXCEPT !.todo = q] \in WriterType /\ [r EXCEPT !.todo = q].sha = r.sha
    BY <2>1 DEF WriterType
  <2> QED
    BY <2>1, <2>2 DEF q
<1> QED
  BY <1>1, <1>2, <1>3, <1>4

LEMMA RestingType ==
  /\ Resting \in WriterType /\ Resting.sha = 0 /\ NoTree \in Tree
  /\ \A q \in Seq(File \X Text) : /\ [Resting EXCEPT !.todo = q] \in WriterType
                                  /\ [Resting EXCEPT !.todo = q].sha = 0
<1>1. NoTree \in Tree
  BY DEF NoTree, Tree, Text
<1>2. <<>> \in Seq(File \X Text)
  OBVIOUS
<1> QED
  BY <1>1, <1>2 DEF Resting, WriterType, OpKind

LEMMA AsleepType == Asleep \in SweepType /\ Asleep.pc = "idle"
BY RestingType DEF Asleep, SweepType

\* One verb's record changes, and the log does not shrink.
LEMMA VerbRecord ==
  ASSUME TypeOK, NEW w \in Writer, NEW r \in WriterType,
         wr' = [wr EXCEPT ![w] = r],
         r.sha \in 0 .. Len(log'), Len(log') \in Nat, Len(log) <= Len(log')
  PROVE  /\ wr' \in [Writer -> WriterType]
         /\ \A v \in Writer : wr'[v].sha \in 0 .. Len(log')
<1>1. wr' \in [Writer -> WriterType] /\ wr'[w] = r
      /\ \A v \in Writer \ {w} : wr'[v] = wr[v]
  BY DEF TypeOK
<1>2. ASSUME NEW v \in Writer PROVE wr'[v].sha \in 0 .. Len(log')
  <2>1. wr[v].sha \in 0 .. Len(log)
    BY DEF TypeOK
  <2>2. CASE v = w
    BY <1>1, <2>2
  <2>3. CASE v # w
    BY <1>1, <2>1, <2>3, LogIs
  <2> QED
    BY <2>2, <2>3
<1> QED
  BY <1>1, <1>2

\* What others touched is a set of files.
LEMMA TouchType ==
  ASSUME TypeOK, NEW a, NEW S, S \subseteq File, Touch(a, S)
  PROVE  touched' \in [Actor -> SUBSET File]
BY DEF TypeOK, Touch

\* The log stays: so do the branches and whatever refers to commits.
LEMMA SameLog ==
  ASSUME TypeOK, UNCHANGED log
  PROVE  /\ log' \in Seq(CommitType) /\ DOMAIN log' = DOMAIN log
         /\ Len(log') = Len(log) /\ Len(log') \in Nat /\ Len(log) <= Len(log')
         /\ \A c \in DOMAIN log' : log'[c].parents \subseteq 1 .. (c - 1)
         /\ head \in DOMAIN log' /\ origin \in DOMAIN log'
         /\ \A w \in Writer : wr[w].sha \in 0 .. Len(log')
BY LogIs DEF TypeOK

LEMMA NextType ==
  ASSUME TypeOK
  PROVE  Changed => next' \in Nat /\ next' \in Text
BY DEF TypeOK, Changed, Text

-----------------------------------------------------------------------------
\* The actions, by actor.

LEMMA InitIInv == Init => IInv
<1> SUFFICES ASSUME Init PROVE IInv
  OBVIOUS
<1>1. disk \in Tree
  BY DEF Init, Tree, Text
<1> DEFINE seed == [tree |-> disk, parents |-> {}, by |-> "seed"]
<1>2. seed \in CommitType /\ seed.parents = {}
  BY <1>1 DEF CommitType
<1>3. log = <<seed>>
  BY DEF Init
<1> HIDE DEF seed
<1>4. /\ log \in Seq(CommitType) /\ DOMAIN log = {1} /\ Len(log) = 1
      /\ log[1] = seed
  BY <1>2, <1>3
<1>5. \A c \in DOMAIN log : log[c].parents \subseteq 1 .. (c - 1)
  BY <1>2, <1>4
<1>6. wr \in [Writer -> WriterType] /\ \A w \in Writer : wr[w].sha \in 0 .. Len(log)
  BY <1>4, RestingType DEF Init
<1>7. touched \in [Actor -> SUBSET File]
  BY DEF Init
<1>8. TypeOK
  BY <1>1, <1>4, <1>5, <1>6, <1>7, AsleepType DEF Init, TypeOK, Actor
<1>9. Fetched
  BY AsleepType DEF Init, Fetched
<1> QED
  BY <1>8, <1>9 DEF IInv

LEMMA StartKeeps ==
  ASSUME IInv, NEW w \in Writer, NEW op \in OpKind, NEW f \in File, NEW g \in File,
         Start(w, op, f, g)
  PROVE  IInv'
<1> DEFINE paths == IF op = "move" THEN {f, g} ELSE {f}
           want == IF op = "put" THEN With(NoTree, f, next')
                   ELSE IF op = "move" THEN With(NoTree, g, disk[f]) ELSE NoTree
           before == With(NoTree, f, disk[f])
           r == [pc |-> "gate", op |-> op, sha |-> 0, todo |-> Plan(op, f, g), late |-> {},
                 before |-> before, paths |-> paths, want |-> want]
<1>1. next' \in Nat /\ next' \in Text /\ disk[f] \in Text /\ None \in Text
  BY NextType DEF IInv, TypeOK, Start, Tree, Text
<1>2. Plan(op, f, g) \in Seq(File \X Text)
  <2>1. /\ <<f, next'>> \in File \X Text /\ <<f, None>> \in File \X Text
        /\ <<g, disk[f]>> \in File \X Text
    BY <1>1
  <2>2. \A c \in File \X Text : <<c>> \in Seq(File \X Text)
    OBVIOUS
  <2>3. \A c, d \in File \X Text : <<c, d>> \in Seq(File \X Text)
    OBVIOUS
  <2>4. \/ Plan(op, f, g) = <<<<f, next'>>>>
        \/ Plan(op, f, g) = <<<<f, None>>>>
        \/ Plan(op, f, g) = <<<<g, disk[f]>>, <<f, None>>>>
    BY DEF Plan
  <2> QED
    BY <2>1, <2>2, <2>3, <2>4
<1>3. want \in Tree /\ before \in Tree /\ paths \subseteq File
  BY <1>1, WithType, RestingType
<1>4. wr' = [wr EXCEPT ![w] = r]
  BY DEF Start
<1>5. r \in WriterType /\ r.sha = 0
  <2> HIDE DEF want, before, paths
  <2> QED
    BY <1>2, <1>3 DEF WriterType
<1>6. UNCHANGED <<disk, index, log, head, origin, lock, inflight, sw>>
  BY DEF Start
<1>7. touched' \in [Actor -> SUBSET File]
  BY DEF Start, IInv, TypeOK
<1>8. /\ wr' \in [Writer -> WriterType]
      /\ \A v \in Writer : wr'[v].sha \in 0 .. Len(log')
  <2> HIDE DEF r
  <2>1. r.sha \in 0 .. Len(log')
    BY <1>5, <1>6, SameLog DEF IInv
  <2> QED
    BY <1>4, <1>5, <1>6, <2>1, SameLog, VerbRecord DEF IInv
<1>9. TypeOK'
  BY <1>1, <1>6, <1>7, <1>8, SameLog DEF IInv, TypeOK, Tree, Text, CommitType,
     WriterType, SweepType, Actor
<1>10. Fetched'
  BY <1>6 DEF IInv, Fetched
<1> QED
  BY <1>9, <1>10 DEF IInv

\* A step that is of one verb and commits nothing.
LEMMA VerbStep ==
  ASSUME IInv, NEW w \in Writer, NEW r \in WriterType,
         wr' = [wr EXCEPT ![w] = r], r.sha \in 0 .. Len(log),
         UNCHANGED <<log, head, origin, next, sw>>,
         disk' \in Tree, index' \in Tree, lock' \in Actor \cup {"free"},
         inflight' \in Nat, touched' \in [Actor -> SUBSET File]
  PROVE  IInv'
<1>1. /\ wr' \in [Writer -> WriterType]
      /\ \A v \in Writer : wr'[v].sha \in 0 .. Len(log')
  BY SameLog, VerbRecord DEF IInv
<1>2. TypeOK'
  BY <1>1, SameLog DEF IInv, TypeOK, Tree, Text, CommitType, WriterType,
     SweepType, Actor
<1> QED
  BY <1>2 DEF IInv, Fetched

\* A step of a verb.
LEMMA VerbKeeps ==
  ASSUME IInv, NEW w \in Writer, Verb(w)
  PROVE  IInv'
<1>v. wr[w] \in WriterType /\ wr[w].sha \in 0 .. Len(log)
  BY DEF IInv, TypeOK
<1>t. /\ disk \in Tree /\ index \in Tree /\ lock \in Actor \cup {"free"}
      /\ inflight \in Nat /\ touched \in [Actor -> SUBSET File]
  BY DEF IInv, TypeOK
<1>1. CASE Land(w)
  <2> DEFINE f == wr[w].todo[1][1]
             x == wr[w].todo[1][2]
             r == [wr[w] EXCEPT !.todo = Tail(@)]
  <2>1. f \in File /\ x \in Text /\ r \in WriterType /\ r.sha \in 0 .. Len(log)
    BY <1>1, <1>v, WriterFields DEF Land
  <2>2. /\ disk' = With(disk, f, x) /\ Touch(w, {f}) /\ wr' = [wr EXCEPT ![w] = r]
        /\ UNCHANGED <<index, log, head, origin, next, lock, inflight, sw>>
    BY <1>1 DEF Land
  <2> HIDE DEF f, x, r
  <2>3. disk' \in Tree /\ touched' \in [Actor -> SUBSET File]
    BY <1>t, <2>1, <2>2, WithType, TouchType DEF IInv
  <2> QED
    BY <1>t, <2>1, <2>2, <2>3, VerbStep
<1>2. CASE GateFails(w)
  <2>1. wr' = [wr EXCEPT ![w] = Resting] /\ Resting.sha \in 0 .. Len(log)
    BY <1>2, RestingType, LogIs DEF GateFails, IInv
  <2> QED
    BY <1>2, <1>t, <2>1, RestingType, VerbStep DEF GateFails
<1>3. CASE BeginWrite(w) \/ Acquire(w)
  <2>1. PICK p \in {"lock", "stage"} : wr' = [wr EXCEPT ![w] = [wr[w] EXCEPT !.pc = p]]
    BY <1>3 DEF BeginWrite, Acquire
  <2> DEFINE r == [wr[w] EXCEPT !.pc = p]
  <2>2. r \in WriterType /\ r.sha \in 0 .. Len(log)
    BY <1>v, WriterFields
  <2> HIDE DEF r
  <2>3. lock' \in Actor \cup {"free"} /\ inflight' \in Nat
    BY <1>3, <1>t DEF BeginWrite, Acquire, Actor
  <2>4. UNCHANGED <<disk, index, log, head, origin, next, sw, touched>>
    BY <1>3 DEF BeginWrite, Acquire
  <2> QED
    BY <1>t, <2>1, <2>2, <2>3, <2>4, VerbStep DEF r
<1>4. CASE Stage(w) \/ CommitFails(w)
  <2>1. PICK p \in {"commit", "end"} :
             \/ wr' = [wr EXCEPT ![w] = [wr[w] EXCEPT !.pc = p]]
             \/ wr' = [wr EXCEPT ![w] = [wr[w] EXCEPT !.pc = p, !.late = Pending(wr[w])]]
    BY <1>4 DEF Stage, StageAs, CommitFails
  <2> DEFINE r == IF wr' = [wr EXCEPT ![w] = [wr[w] EXCEPT !.pc = p]]
                  THEN [wr[w] EXCEPT !.pc = p]
                  ELSE [wr[w] EXCEPT !.pc = p, !.late = Pending(wr[w])]
  <2>a. /\ [wr[w] EXCEPT !.pc = p] \in WriterType
        /\ [wr[w] EXCEPT !.pc = p].sha = wr[w].sha
        /\ [wr[w] EXCEPT !.pc = p, !.late = Pending(wr[w])] \in WriterType
        /\ [wr[w] EXCEPT !.pc = p, !.late = Pending(wr[w])].sha = wr[w].sha
    <3> DEFINE L == Pending(wr[w])
    <3>1. L \in SUBSET File
      BY <1>v, WriterFields
    <3> HIDE DEF L
    <3>2. /\ [wr[w] EXCEPT !.pc = p, !.late = L] \in WriterType
          /\ [wr[w] EXCEPT !.pc = p, !.late = L].sha = wr[w].sha
      BY <1>v, <3>1 DEF WriterType
    <3> QED
      BY <1>v, <3>2, WriterFields DEF L
  <2>2. r \in WriterType /\ r.sha \in 0 .. Len(log) /\ wr' = [wr EXCEPT ![w] = r]
    BY <1>v, <2>1, <2>a
  <2> HIDE DEF r
  <2>3. index' \in Tree
    BY <1>4, <1>t DEF Stage, StageAs, CommitFails, Tree
  <2>4. lock' \in Actor \cup {"free"}
    BY <1>4, <1>t DEF Stage, StageAs, CommitFails
  <2>5. UNCHANGED <<disk, log, head, origin, next, inflight, sw, touched>>
    BY <1>4 DEF Stage, StageAs, CommitFails
  <2> QED
    BY <1>t, <2>2, <2>3, <2>4, <2>5, VerbStep
<1>5. CASE CommitPaths(w)
  <2> DEFINE r == [wr[w] EXCEPT !.pc = "end", !.sha = head']
  <2>1. /\ log' \in Seq(CommitType) /\ Len(log') = Len(log) + 1
        /\ Len(log') \in DOMAIN log' /\ DOMAIN log \subseteq DOMAIN log'
        /\ \A c \in DOMAIN log' : log'[c].parents \subseteq 1 .. (c - 1)
    BY <1>5, <1>t, LogIs, CommitKeeps DEF CommitPaths, IInv, By
  <2>2. head' = Len(log')
    BY <1>5 DEF CommitPaths
  <2>3. Len(log') \in Nat /\ Len(log) <= Len(log') /\ Len(log') \in 0 .. Len(log')
    BY <2>1, LogIs DEF IInv
  <2>4. r \in WriterType /\ r.sha = head'
    <3>1. head' \in Nat
      BY <2>2, <2>3
    <3>2. \A n \in Nat : /\ [wr[w] EXCEPT !.pc = "end", !.sha = n] \in WriterType
                        /\ [wr[w] EXCEPT !.pc = "end", !.sha = n].sha = n
      BY <1>v, WriterFields
    <3> QED
      BY <3>1, <3>2
  <2>5. wr' = [wr EXCEPT ![w] = r]
    BY <1>5 DEF CommitPaths
  <2> HIDE DEF r
  <2>6. /\ wr' \in [Writer -> WriterType]
        /\ \A v \in Writer : wr'[v].sha \in 0 .. Len(log')
    BY <2>2, <2>3, <2>4, <2>5, VerbRecord DEF IInv
  <2>7. /\ lock' = "free"
        /\ UNCHANGED <<disk, index, origin, next, inflight, sw, touched>>
    BY <1>5 DEF CommitPaths
  <2>8. {head', origin'} \subseteq DOMAIN log'
    BY <2>1, <2>2, <2>7 DEF IInv, TypeOK
  <2>9. TypeOK'
    BY <2>1, <2>6, <2>7, <2>8 DEF IInv, TypeOK, Tree, Text, CommitType,
       WriterType, SweepType, Actor
  <2>10. Fetched'
    BY <2>1, <2>7, LogIs DEF IInv, Fetched
  <2> QED
    BY <2>9, <2>10 DEF IInv
<1>6. CASE EndWrite(w)
  <2> DEFINE r == [Resting EXCEPT !.todo = wr[w].todo]
  <2>1. r \in WriterType /\ r.sha = 0
    BY <1>v, WriterFields, RestingType
  <2>2. wr' = [wr EXCEPT ![w] = r]
    BY <1>6 DEF EndWrite
  <2> HIDE DEF r
  <2>3. inflight' \in Nat
    BY <1>6, <1>t DEF EndWrite
  <2>4. r.sha \in 0 .. Len(log)
    BY <2>1, LogIs DEF IInv
  <2> QED
    BY <1>6, <1>t, <2>1, <2>2, <2>3, <2>4, VerbStep DEF EndWrite
<1> QED
  BY <1>1, <1>2, <1>3, <1>4, <1>5, <1>6 DEF Verb

\* A step of the sweep that commits nothing.
LEMMA SweepStep ==
  ASSUME IInv, UNCHANGED <<log, head, inflight, wr>>,
         origin' \in {origin, head}, next' \in Nat,
         disk' \in Tree, index' \in Tree, lock' \in Actor \cup {"free"},
         touched' \in [Actor -> SUBSET File], sw' \in SweepType,
         sw'.pc \in {"check", "update", "head"} => sw'.theirs \in 1 .. Len(log)
  PROVE  IInv'
<1>1. TypeOK'
  BY SameLog DEF IInv, TypeOK, Tree, Text, CommitType, WriterType, SweepType, Actor
<1> QED
  BY <1>1 DEF IInv, Fetched

\* A commit of the sweep.
LEMMA SweepCommits ==
  ASSUME IInv, UNCHANGED <<disk, index, origin, next, inflight, wr, touched>>,
         NEW t \in Tree, NEW P, P \subseteq 1 .. Len(log), NEW by \in By,
         Commit(t, P, by), head' = Len(log'),
         lock' \in Actor \cup {"free"}, sw' \in SweepType,
         sw'.pc \notin {"check", "update", "head"}
  PROVE  IInv'
<1>1. /\ log' \in Seq(CommitType) /\ Len(log') = Len(log) + 1
      /\ Len(log') \in DOMAIN log' /\ DOMAIN log \subseteq DOMAIN log'
      /\ \A c \in DOMAIN log' : log'[c].parents \subseteq 1 .. (c - 1)
  BY CommitKeeps DEF IInv
<1>2. \A w \in Writer : wr'[w].sha \in 0 .. Len(log')
  <2> TAKE w \in Writer
  <2>1. wr[w].sha \in 0 .. Len(log)
    BY DEF IInv, TypeOK
  <2> QED
    BY <1>1, <2>1, LogIs DEF IInv
<1>3. {head', origin'} \subseteq DOMAIN log'
  BY <1>1 DEF IInv, TypeOK
<1>4. TypeOK'
  BY <1>1, <1>2, <1>3 DEF IInv, TypeOK, Tree, Text, CommitType, WriterType,
     SweepType, Actor
<1> QED
  BY <1>4 DEF IInv, Fetched

\* What the steps make of the sweep's record.
Stages == {"idle", "lock", "status", "stage", "commit", "fetch", "check", "update",
           "head", "push"}

LEMMA SweepAt ==
  ASSUME NEW r \in SweepType, NEW p \in Stages
  PROVE  /\ [r EXCEPT !.pc = p] \in SweepType
         /\ [r EXCEPT !.pc = p].pc = p
         /\ [r EXCEPT !.pc = p].theirs = r.theirs
         /\ r.theirs \in Nat /\ r.merged \in Tree
BY DEF SweepType, Stages

LEMMA SweepChanged ==
  ASSUME NEW r \in SweepType, NEW p \in Stages, NEW C \in SUBSET File
  PROVE  /\ [r EXCEPT !.pc = p, !.changed = C] \in SweepType
         /\ [r EXCEPT !.pc = p, !.changed = C].pc = p
BY DEF SweepType, Stages

LEMMA SweepKeeps ==
  ASSUME IInv, Sweep
  PROVE  IInv'
<1>s. sw \in SweepType
  BY DEF IInv, TypeOK
<1>t. /\ disk \in Tree /\ index \in Tree /\ lock \in Actor \cup {"free"}
      /\ touched \in [Actor -> SUBSET File] /\ next \in Nat
      /\ "sweep" \in Actor /\ {} \in SUBSET File /\ NoTree \in Tree
  BY RestingType DEF IInv, TypeOK, Actor
<1>1. CASE Wake \/ SweepAcquire
  <2>1. PICK p \in {"lock", "status"} : sw' = [sw EXCEPT !.pc = p]
    BY <1>1 DEF Wake, SweepAcquire
  <2> DEFINE r == [sw EXCEPT !.pc = p]
  <2>a. p \in Stages
    BY DEF Stages
  <2>b. r \in SweepType /\ r.pc = p
    BY <1>s, <2>a, SweepAt
  <2> HIDE DEF r
  <2>2. sw' \in SweepType /\ sw'.pc \in {"lock", "status"}
    BY <2>1, <2>b DEF r
  <2> QED
    BY <1>1, <1>t, <2>2, SweepStep DEF Wake, SweepAcquire
<1>2. CASE SweepStatus
  <2> DEFINE C == {f \in File : disk[f] # index[f]}
  <2>1. C \in SUBSET File /\ sw' = [sw EXCEPT !.pc = "stage", !.changed = C]
    BY <1>2 DEF SweepStatus
  <2> HIDE DEF C
  <2>2. sw' \in SweepType /\ sw'.pc = "stage"
    BY <1>s, <1>t, <2>1, SweepChanged DEF Stages
  <2> QED
    BY <1>2, <1>t, <2>2, SweepStep DEF SweepStatus
<1>3. CASE SweepStage
  <2>1. sw' = Asleep \/ sw' = [sw EXCEPT !.pc = "commit"]
    BY <1>3 DEF SweepStage
  <2>a. /\ [sw EXCEPT !.pc = "commit"] \in SweepType
        /\ [sw EXCEPT !.pc = "commit"].pc = "commit"
    BY <1>s, SweepAt DEF Stages
  <2>2. sw' \in SweepType /\ sw'.pc \in {"idle", "commit"}
    BY <2>1, <2>a, AsleepType
  <2>3. index' \in Tree
    BY <1>3, <1>t DEF SweepStage, Tree
  <2>4. lock' \in Actor \cup {"free"}
    BY <1>3, <1>t DEF SweepStage
  <2> QED
    BY <1>3, <1>t, <2>2, <2>3, <2>4, SweepStep DEF SweepStage
<1>4. CASE SweepCommit
  <2>1. sw' = Asleep \/ sw' = [sw EXCEPT !.pc = "fetch"]
    BY <1>4 DEF SweepCommit
  <2>a. /\ [sw EXCEPT !.pc = "fetch"] \in SweepType
        /\ [sw EXCEPT !.pc = "fetch"].pc = "fetch"
    BY <1>s, SweepAt DEF Stages
  <2>2. sw' \in SweepType /\ sw'.pc \in {"idle", "fetch"}
    BY <2>1, <2>a, AsleepType
  <2>3. lock' \in Actor \cup {"free"}
    BY <1>4, <1>t DEF SweepCommit
  <2>4. Commit(index, {head}, "sweep") /\ head' = Len(log')
        /\ UNCHANGED <<disk, index, origin, next, inflight, wr, touched>>
    BY <1>4 DEF SweepCommit
  <2>5. {head} \subseteq 1 .. Len(log) /\ "sweep" \in By
    BY LogIs DEF IInv, By
  <2> QED
    BY <1>t, <2>2, <2>3, <2>4, <2>5, SweepCommits
<1>5. CASE SweepFails
  BY <1>5, <1>t, AsleepType, SweepStep DEF SweepFails
<1>6. CASE Fetch
  <2>1. PICK p \in {"push", "check"} : sw' = [sw EXCEPT !.theirs = origin, !.pc = p]
    BY <1>6 DEF Fetch
  <2>2. origin \in 1 .. Len(log) /\ origin \in Nat
    BY LogIs DEF IInv
  <2> DEFINE r == [sw EXCEPT !.theirs = origin, !.pc = p]
  <2>a. p \in Stages
    BY DEF Stages
  <2>b. r \in SweepType /\ r.theirs = origin
    <3>1. origin \in Nat
      BY <2>2
    <3> QED
      BY <1>s, <2>a, <3>1 DEF SweepType, Stages
  <2> HIDE DEF r
  <2>3. sw' \in SweepType /\ sw'.theirs = origin
    BY <2>1, <2>b DEF r
  <2> QED
    BY <1>6, <1>t, <2>2, <2>3, SweepStep DEF Fetch
<1>7. CASE Check
  <2>1. sw.theirs \in 1 .. Len(log)
    BY <1>7 DEF Check, IInv, Fetched
  <2>2. touched' \in [Actor -> SUBSET File]
    BY <1>7, <1>t DEF Check
  <2>3. UNCHANGED <<disk, index, log, head, origin, inflight, wr>>
    BY <1>7 DEF Check
  <2>4. CASE lock' = "free" /\ sw' = Asleep /\ UNCHANGED next
    BY <1>t, <2>2, <2>3, <2>4, AsleepType, SweepStep
  <2>5. CASE \E b \in MergeBases(head, sw.theirs) :
               LET m == MergeTree(log[b].tree, HeadTree, log[sw.theirs].tree, next') IN
               /\ UNCHANGED next \/ Changed
               /\ sw' = [sw EXCEPT !.pc = "update", !.merged = m,
                                   !.changed = {f \in File : m[f] # HeadTree[f]}]
               /\ UNCHANGED lock
    <3>1. PICK b \in MergeBases(head, sw.theirs) :
               LET m == MergeTree(log[b].tree, HeadTree, log[sw.theirs].tree, next') IN
               /\ UNCHANGED next \/ Changed
               /\ sw' = [sw EXCEPT !.pc = "update", !.merged = m,
                                   !.changed = {f \in File : m[f] # HeadTree[f]}]
               /\ UNCHANGED lock
      BY <2>5
    <3>2. next' \in Nat /\ next' \in Text
      BY <1>t, <3>1 DEF Changed, Text
    <3> DEFINE m == MergeTree(log[b].tree, HeadTree, log[sw.theirs].tree, next')
               C == {f \in File : m[f] # HeadTree[f]}
    <3>3. log[sw.theirs].tree \in Tree /\ HeadTree \in Tree
      BY <2>1, LogIs DEF IInv, CommitType
    <3>4. m \in Tree /\ C \in SUBSET File
      BY <3>2, <3>3, MergeType
    <3>5. sw' = [sw EXCEPT !.pc = "update", !.merged = m, !.changed = C]
      BY <3>1
    <3> HIDE DEF m, C
    <3>6. sw' \in SweepType /\ sw'.theirs = sw.theirs
      BY <1>s, <3>4, <3>5 DEF SweepType
    <3> QED
      BY <1>t, <2>1, <2>2, <2>3, <3>1, <3>2, <3>6, SweepStep
  <2> QED
    BY <1>7, <2>4, <2>5 DEF Check
<1>8. ASSUME NEW f \in File, UpdateFile(f)
      PROVE  IInv'
  <2>1. sw.theirs \in 1 .. Len(log) /\ sw.merged[f] \in Text
    <3>1. sw.merged \in Tree /\ sw.pc = "update"
      BY <1>8, <1>s DEF UpdateFile, SweepType
    <3> QED
      BY <3>1 DEF IInv, Fetched, Tree
  <2>2. disk' \in Tree /\ touched' \in [Actor -> SUBSET File]
    BY <1>8, <1>t, <2>1, WithType, TouchType DEF UpdateFile, IInv
  <2>3. sw' \in SweepType /\ sw'.theirs = sw.theirs
    BY <1>8, <1>s DEF UpdateFile, SweepType
  <2> QED
    BY <1>8, <1>t, <2>1, <2>2, <2>3, SweepStep DEF UpdateFile
<1>11. CASE UpdateIndex
  <2>1. sw.theirs \in 1 .. Len(log) /\ sw.merged \in Tree
    BY <1>11, <1>s, <1>t, SweepAt DEF Stages, UpdateIndex, IInv, Fetched
  <2>2. index' \in Tree
    BY <1>11, <1>t, <2>1 DEF UpdateIndex, Tree
  <2>3. sw' \in SweepType /\ sw'.theirs = sw.theirs
    BY <1>11, <1>s, <1>t, SweepAt DEF Stages, UpdateIndex
  <2> QED
    BY <1>11, <1>t, <2>1, <2>2, <2>3, SweepStep DEF UpdateIndex
<1>9. CASE MoveHead
  <2>1. sw.theirs \in 1 .. Len(log) /\ sw.merged \in Tree
    BY <1>9, <1>s, <1>t, SweepAt DEF Stages, MoveHead, IInv, Fetched
  <2>2. sw' \in SweepType /\ sw'.pc = "push"
    BY <1>9, <1>s, <1>t, SweepAt DEF Stages, MoveHead
  <2>3. {head, sw.theirs} \subseteq 1 .. Len(log) /\ "merge" \in By
    BY <2>1, LogIs DEF IInv, By
  <2>4. /\ Commit(sw.merged, {head, sw.theirs}, "merge") /\ head' = Len(log')
        /\ UNCHANGED <<disk, index, origin, next, lock, inflight, wr, touched>>
    BY <1>9 DEF MoveHead
  <2> QED
    BY <1>t, <2>1, <2>2, <2>3, <2>4, SweepCommits
<1>10. CASE PushHead
  <2>1. origin' \in {origin, head}
    BY <1>10 DEF PushHead
  <2> QED
    BY <1>10, <1>t, <2>1, AsleepType, SweepStep DEF PushHead
<1> QED
  BY <1>1, <1>2, <1>3, <1>4, <1>5, <1>6, <1>7, <1>8, <1>9, <1>10, <1>11 DEF Sweep

\* What the world does, a crash included.
LEMMA WorldKeeps ==
  ASSUME IInv, (\E f \in File : HumanSave(f) \/ RemotePush(f)) \/ Crash
  PROVE  IInv'
<1>1. ASSUME NEW f \in File, HumanSave(f)
      PROVE  IInv'
  <2>1. next' \in Nat /\ {next', None} \subseteq Text
    BY <1>1, NextType DEF HumanSave, IInv, Text
  <2>2. disk' \in Tree
    <3>1. PICK x \in {next', None} : disk' = With(disk, f, x)
      BY <1>1 DEF HumanSave
    <3> QED
      BY <2>1, <3>1, WithType DEF IInv, TypeOK
  <2>3. touched' \in [Actor -> SUBSET File]
    BY <1>1, TouchType DEF HumanSave, IInv
  <2>4. UNCHANGED <<index, log, head, origin, lock, inflight, wr, sw>>
    BY <1>1 DEF HumanSave
  <2>5. TypeOK'
    BY <2>1, <2>2, <2>3, <2>4, SameLog DEF IInv, TypeOK, Tree, Text, CommitType,
       WriterType, SweepType, Actor
  <2> QED
    BY <2>4, <2>5 DEF IInv, Fetched
<1>2. ASSUME NEW f \in File, RemotePush(f)
      PROVE  IInv'
  <2>1. next' \in Nat /\ {next', None} \subseteq Text
    BY <1>2, NextType DEF RemotePush, IInv, Text
  <2>2. log[origin].tree \in Tree /\ {origin} \subseteq 1 .. Len(log)
    BY LogIs DEF IInv, CommitType
  <2>3. PICK x \in {next', None} :
           Commit(With(log[origin].tree, f, x), {origin}, "remote")
    BY <1>2 DEF RemotePush
  <2>4. With(log[origin].tree, f, x) \in Tree /\ "remote" \in By
    BY <2>1, <2>2, WithType DEF By
  <2>5. /\ log' \in Seq(CommitType) /\ Len(log') = Len(log) + 1
        /\ Len(log') \in DOMAIN log' /\ DOMAIN log \subseteq DOMAIN log'
        /\ \A c \in DOMAIN log' : log'[c].parents \subseteq 1 .. (c - 1)
    BY <2>2, <2>3, <2>4, CommitKeeps DEF IInv
  <2>6. /\ origin' = Len(log')
        /\ UNCHANGED <<disk, index, head, lock, inflight, wr, sw, touched>>
    BY <1>2 DEF RemotePush
  <2>7. {head', origin'} \subseteq DOMAIN log'
    BY <2>5, <2>6 DEF IInv, TypeOK
  <2>8. \A w \in Writer : wr'[w].sha \in 0 .. Len(log')
    <3> TAKE w \in Writer
    <3>1. wr[w].sha \in 0 .. Len(log)
      BY DEF IInv, TypeOK
    <3> QED
      BY <2>5, <2>6, <3>1, LogIs DEF IInv
  <2>9. TypeOK'
    BY <2>1, <2>5, <2>6, <2>7, <2>8 DEF IInv, TypeOK, Tree, Text, CommitType,
       WriterType, SweepType, Actor
  <2>10. Fetched'
    BY <2>5, <2>6, LogIs DEF IInv, Fetched
  <2> QED
    BY <2>9, <2>10 DEF IInv
<1>3. CASE Crash
  <2>1. /\ wr' \in [Writer -> WriterType]
        /\ \A w \in Writer : wr'[w].sha \in 0 .. Len(log')
    BY <1>3, RestingType, LogIs DEF Crash, IInv
  <2>2. /\ lock' = "free" /\ inflight' = 0 /\ sw' = Asleep
        /\ UNCHANGED <<disk, index, log, head, origin, next, touched>>
    BY <1>3 DEF Crash
  <2>3. TypeOK'
    BY <2>1, <2>2, AsleepType, SameLog DEF IInv, TypeOK, Tree, Text, CommitType,
       WriterType, SweepType, Actor
  <2> QED
    BY <2>2, <2>3, AsleepType DEF IInv, Fetched
<1> QED
  BY <1>1, <1>2, <1>3

LEMMA IInvKept == IInv /\ [Next]_vars => IInv'
<1> SUFFICES ASSUME IInv, [Next]_vars PROVE IInv'
  OBVIOUS
<1>1. CASE UNCHANGED vars
  BY <1>1 DEF vars, IInv, Fetched, TypeOK, Tree, Text, CommitType, WriterType, SweepType, Actor
<1> QED
  BY <1>1, StartKeeps, VerbKeeps, SweepKeeps, WorldKeeps DEF Next

-----------------------------------------------------------------------------
\* Every variable keeps its type: whatever fails, crashes or crosses, both
\* branches are at commits that exist and parents are older than their
\* commits (gitops.py).
THEOREM TypeCorrect == Spec => []TypeOK
<1>1. Init => IInv
  BY InitIInv
<1>2. IInv /\ [Next]_vars => IInv'
  BY IInvKept
<1>3. IInv => TypeOK
  BY DEF IInv
<1> QED
  BY <1>1, <1>2, <1>3, PTL DEF Spec

-----------------------------------------------------------------------------
\* The history.  That the recursion of Reach has one solution is an invariant of the steps:
\* each commit extends it, by parents that are older.

\* r sends every commit of history l to the commits it reaches.
Solves(r, l) == r = [c \in 1 .. Len(l) |-> {c} \cup UNION {r[q] : q \in l[c].parents}]

\* What is reached when history l, in which R says who reaches what, has one commit more, m[n].
Extended(R, m, n) ==
  [c \in 1 .. n |-> IF c = n THEN {n} \cup UNION {R[q] : q \in m[n].parents} ELSE R[c]]

\* The recursion of Reach has a solution: then Reach is one.
LEMMA SolvesReach == /\ (\E r : Solves(r, log)) => Solves(Reach, log)
                     /\ (\E r : Solves(r, log')) => Solves(Reach', log')
BY DEF Reach, Solves

\* One commit more: if there is exactly one solution before, there is exactly one after.
LEMMA OneMore ==
  ASSUME NEW l, NEW m, NEW n \in Nat, Len(l) = n, Len(m) = n + 1,
         \A c \in 1 .. n : m[c] = l[c],
         \A c \in 1 .. n + 1 : m[c].parents \subseteq 1 .. c - 1,
         NEW R, Solves(R, l), \A r : Solves(r, l) => r = R
  PROVE  /\ Solves(Extended(R, m, n + 1), m)
         /\ \A r : Solves(r, m) => r = Extended(R, m, n + 1)
<1> DEFINE E == Extended(R, m, n + 1)
<1>1. \A c \in 1 .. n : E[c] = R[c]
  BY DEF Extended
<1>2. E[n + 1] = {n + 1} \cup UNION {R[q] : q \in m[n + 1].parents}
  BY DEF Extended
<1>3. E = [c \in 1 .. n + 1 |-> E[c]]
  BY DEF Extended
<1> HIDE DEF E
<1>4. ASSUME NEW c \in 1 .. n + 1
      PROVE  E[c] = {c} \cup UNION {E[q] : q \in m[c].parents}
  <2>1. \A q \in m[c].parents : q \in 1 .. n /\ E[q] = R[q]
    BY <1>1
  <2>2. UNION {E[q] : q \in m[c].parents} = UNION {R[q] : q \in m[c].parents}
    BY <2>1
  <2>3. CASE c = n + 1
    BY <1>2, <2>2, <2>3
  <2>4. CASE c \in 1 .. n
    <3>1. R[c] = {c} \cup UNION {R[q] : q \in l[c].parents}
      BY <2>4 DEF Solves
    <3> QED
      BY <1>1, <2>2, <2>4, <3>1
  <2> QED
    BY <2>3, <2>4
<1>5. Solves(E, m)
  BY <1>3, <1>4 DEF Solves
<1>6. ASSUME NEW r, Solves(r, m)
      PROVE  r = E
  <2> DEFINE s == [c \in 1 .. n |-> r[c]]
  <2>1. \A c \in 1 .. n + 1 : r[c] = {c} \cup UNION {r[q] : q \in m[c].parents}
    BY <1>6 DEF Solves
  <2>2. r = [c \in 1 .. n + 1 |-> r[c]]
    BY <1>6 DEF Solves
  <2>3. \A c \in 1 .. n : s[c] = r[c]
    OBVIOUS
  <2>4. s = [c \in 1 .. n |-> s[c]]
    OBVIOUS
  <2> HIDE DEF s
  <2>5. ASSUME NEW c \in 1 .. n
        PROVE  s[c] = {c} \cup UNION {s[q] : q \in l[c].parents}
    <3>1. \A q \in m[c].parents : s[q] = r[q]
      BY <2>3
    <3>2. UNION {s[q] : q \in m[c].parents} = UNION {r[q] : q \in m[c].parents}
      BY <3>1
    <3> QED
      BY <2>1, <2>3, <3>2
  <2>6. Solves(s, l)
    BY <2>4, <2>5 DEF Solves
  <2>7. \A c \in 1 .. n : r[c] = R[c]
    BY <2>3, <2>6
  <2>8. r[n + 1] = E[n + 1]
    <3>1. \A q \in m[n + 1].parents : r[q] = R[q]
      BY <2>7
    <3>2. UNION {r[q] : q \in m[n + 1].parents} = UNION {R[q] : q \in m[n + 1].parents}
      BY <3>1
    <3>3. r[n + 1] = {n + 1} \cup UNION {r[q] : q \in m[n + 1].parents}
      BY <2>1
    <3> QED
      BY <1>2, <3>2, <3>3
  <2>9. \A c \in 1 .. n + 1 : r[c] = E[c]
    BY <1>1, <2>7, <2>8
  <2> QED
    BY <1>3, <2>2, <2>9
<1> QED
  BY <1>5, <1>6 DEF E

\* Reach is what its definition says, and the only function that is.
ReachFits == Solves(Reach, log) /\ \A r : Solves(r, log) => r = Reach

\* Reaching is reflexive and transitive.
Older == \A c \in 1 .. Len(log) :
            /\ c \in Reach[c] /\ Reach[c] \subseteq 1 .. Len(log)
            /\ \A d \in Reach[c] : Reach[d] \subseteq Reach[c]

HistoryFits == ReachFits /\ Older

LEMMA InitHistory == Init => HistoryFits
<1> SUFFICES ASSUME Init PROVE HistoryFits
  OBVIOUS
<1>1. Len(log) = 1 /\ log[1].parents = {}
  BY DEF Init
<1> DEFINE one == [c \in 1 .. 1 |-> {1}]
<1>2. \A r : Solves(r, log) <=> r = one
  <2>1. ASSUME NEW r, r = [c \in 1 .. 1 |-> {c} \cup UNION {r[q] : q \in log[c].parents}]
        PROVE  r = one
    <3>1. r[1] = {1}
      BY <1>1, <2>1
    <3> QED
      BY <2>1, <3>1
  <2>2. one = [c \in 1 .. 1 |-> {c} \cup UNION {one[q] : q \in log[c].parents}]
    <3>1. ASSUME NEW c \in 1 .. 1 PROVE {c} \cup UNION {one[q] : q \in log[c].parents} = {1}
      BY <1>1
    <3> QED
      BY <3>1
  <2> HIDE DEF one
  <2> QED
    BY <1>1, <2>1, <2>2 DEF Solves
<1>3. Reach = one
  BY <1>2, SolvesReach
<1> QED
  BY <1>1, <1>2, <1>3 DEF HistoryFits, ReachFits, Older

\* The same history: the same commits are reached.
LEMMA SameHistory ==
  ASSUME UNCHANGED log
  PROVE  Reach' = Reach /\ (HistoryFits => HistoryFits')
<1>1. Reach' = Reach
  BY DEF Reach
<1> QED
  BY <1>1 DEF HistoryFits, ReachFits, Older, Solves

\* A new commit reaches what its parents reach; for the old ones nothing changes.
LEMMA HistoryGrows ==
  ASSUME IInv, HistoryFits, NEW t \in Tree, NEW P \in SUBSET (1 .. Len(log)), NEW by \in By,
         Commit(t, P, by)
  PROVE  /\ HistoryFits'
         /\ Len(log') = Len(log) + 1
         /\ \A c \in 1 .. Len(log) : Reach'[c] = Reach[c] /\ log'[c] = log[c]
         /\ Reach'[Len(log')] = {Len(log')} \cup UNION {Reach[q] : q \in P}
         /\ log'[Len(log')].tree = t
<1> DEFINE n == Len(log)
           E == Extended(Reach, log', n + 1)
           new == [tree |-> t, parents |-> P, by |-> by]
<1>1. /\ log \in Seq(CommitType) /\ n \in Nat
      /\ Len(log') = n + 1
      /\ \A c \in 1 .. n + 1 : log'[c].parents \subseteq 1 .. c - 1
  <2>1. /\ log' \in Seq(CommitType) /\ Len(log') = Len(log) + 1
        /\ \A c \in DOMAIN log' : log'[c].parents \subseteq 1 .. (c - 1)
    BY CommitKeeps DEF IInv
  <2>2. DOMAIN log' = 1 .. Len(log')
    BY <2>1
  <2> QED
    BY <2>1, <2>2, LogIs DEF IInv, TypeOK
<1>2. /\ \A c \in 1 .. n : log'[c] = log[c]
      /\ log'[n + 1].tree = t /\ log'[n + 1].parents = P
  <2>1. log' = Append(log, new) /\ new.tree = t /\ new.parents = P
    BY DEF Commit
  <2> HIDE DEF new
  <2>2. log'[n + 1] = new /\ \A c \in 1 .. n : log'[c] = log[c]
    BY <1>1, <2>1
  <2> QED
    BY <2>1, <2>2
<1> HIDE DEF n, new
<1>3. Solves(E, log') /\ \A r : Solves(r, log') => r = E
  <2>1. Solves(Reach, log) /\ \A r : Solves(r, log) => r = Reach
    BY DEF HistoryFits, ReachFits
  <2> HIDE DEF E
  <2> QED
    BY <1>1, <1>2, <2>1, OneMore DEF n, E
<1> HIDE DEF E
<1>4. Reach' = E
  BY <1>3, SolvesReach
<1>5. \A c \in 1 .. n : E[c] = Reach[c]
  BY <1>1 DEF E, Extended
<1>6. E[n + 1] = {n + 1} \cup UNION {Reach[q] : q \in P}
  BY <1>1, <1>2 DEF E, Extended
<1>7. ReachFits'
  BY <1>3, <1>4 DEF ReachFits
<1>8. ASSUME NEW c \in 1 .. n + 1
      PROVE  /\ c \in E[c] /\ E[c] \subseteq 1 .. n + 1
             /\ \A d \in E[c] : E[d] \subseteq E[c]
  <2>o. \A d \in 1 .. n : /\ d \in Reach[d] /\ Reach[d] \subseteq 1 .. n
                          /\ \A e \in Reach[d] : Reach[e] \subseteq Reach[d]
    BY DEF HistoryFits, Older, n
  <2>1. CASE c \in 1 .. n
    <3>1. E[c] = Reach[c] /\ c \in Reach[c] /\ Reach[c] \subseteq 1 .. n
      BY <1>5, <2>1, <2>o
    <3>2. ASSUME NEW d \in E[c] PROVE E[d] \subseteq E[c]
      <4>1. d \in 1 .. n /\ E[d] = Reach[d]
        BY <1>5, <3>1
      <4> QED
        BY <2>1, <2>o, <3>1, <4>1
    <3> QED
      BY <1>1, <3>1, <3>2
  <2>2. CASE c = n + 1
    <3>1. \A q \in P : q \in 1 .. n
      BY DEF n
    <3>2. E[c] \subseteq 1 .. n + 1 /\ c \in E[c]
      BY <1>1, <1>6, <2>2, <2>o, <3>1
    <3>3. ASSUME NEW d \in E[c], d # c
          PROVE  E[d] \subseteq E[c]
      <4>1. PICK q \in P : d \in Reach[q]
        BY <1>6, <2>2, <3>3
      <4>2. d \in 1 .. n /\ Reach[d] \subseteq Reach[q]
        BY <2>o, <3>1, <4>1
      <4> QED
        BY <1>5, <1>6, <2>2, <4>2
    <3> QED
      BY <3>2, <3>3
  <2> QED
    BY <1>1, <2>1, <2>2
<1>9. Older'
  BY <1>1, <1>4, <1>8 DEF Older
<1> QED
  BY <1>1, <1>2, <1>4, <1>5, <1>6, <1>7, <1>9 DEF HistoryFits, n

\* What a step does to the history: nothing but perhaps a push that origin takes, or one
\* commit, on top of the branch it moves.
LEMMA LogSteps ==
  ASSUME IInv, [Next]_vars
  PROVE  \/ /\ UNCHANGED <<log, head>>
            /\ origin' = origin \/ (origin \in Reach[head] /\ origin' = head)
         \/ \E t \in Tree, P \in SUBSET (1 .. Len(log)), by \in By :
               /\ Commit(t, P, by)
               /\ \/ head \in P /\ head' = Len(log') /\ origin' = origin
                  \/ origin \in P /\ origin' = Len(log') /\ head' = head
<1> DEFINE Goal == \E t \in Tree, P \in SUBSET (1 .. Len(log)), by \in By :
               /\ Commit(t, P, by)
               /\ \/ head \in P /\ head' = Len(log') /\ origin' = origin
                  \/ origin \in P /\ origin' = Len(log') /\ head' = head
<1>1. /\ index \in Tree /\ sw.merged \in Tree
      /\ {head} \in SUBSET (1 .. Len(log)) /\ {origin} \in SUBSET (1 .. Len(log))
  BY LogIs DEF IInv, TypeOK, SweepType
<1>2. ASSUME NEW w \in Writer, CommitPaths(w)
      PROVE  Goal
  <2>1. w \in By
    BY DEF By
  <2> QED
    BY <1>1, <1>2, <2>1 DEF CommitPaths
<1>3. ASSUME SweepCommit
      PROVE  Goal
  <2>1. "sweep" \in By
    BY DEF By
  <2> QED
    BY <1>1, <1>3, <2>1 DEF SweepCommit
<1>4. ASSUME MoveHead
      PROVE  Goal
  <2>1. "merge" \in By
    BY DEF By
  <2>2. sw.theirs \in 1 .. Len(log) /\ head \in 1 .. Len(log)
    BY <1>4, LogIs DEF MoveHead, IInv, Fetched
  <2>3. {head, sw.theirs} \in SUBSET (1 .. Len(log))
    BY <2>2
  <2> QED
    BY <1>1, <1>4, <2>1, <2>3 DEF MoveHead
<1>5. ASSUME NEW f \in File, RemotePush(f)
      PROVE  Goal
  <2> DEFINE T(x) == With(log[origin].tree, f, x)
  <2>1. PICK x \in {next', None} : Commit(T(x), {origin}, "remote")
    BY <1>5 DEF RemotePush
  <2>2. T(x) \in Tree
    <3>1. x \in Text
      BY <1>5, NextType DEF RemotePush, IInv, Text
    <3>2. log[origin].tree \in Tree
      BY LogIs DEF IInv, CommitType
    <3> QED
      BY <3>1, <3>2, WithType
  <2>3. "remote" \in By /\ origin' = Len(log') /\ head' = head
    BY <1>5 DEF By, RemotePush
  <2> HIDE DEF T
  <2> QED
    BY <1>1, <2>1, <2>2, <2>3
<1>6. ASSUME PushHead
      PROVE  UNCHANGED <<log, head>> /\ (origin' = origin \/ (origin \in Reach[head] /\ origin' = head))
  BY <1>6 DEF PushHead
<1>7. ASSUME NEW w \in Writer, Verb(w), ~ CommitPaths(w)
      PROVE  UNCHANGED <<log, head, origin>>
  BY <1>7 DEF Verb, Land, GateFails, BeginWrite, Acquire, Stage, StageAs, CommitFails, EndWrite
<1>8. ASSUME Sweep, ~ SweepCommit, ~ MoveHead, ~ PushHead
      PROVE  UNCHANGED <<log, head, origin>>
  BY <1>8 DEF Sweep, Wake, SweepAcquire, SweepStatus, SweepStage, SweepFails, Fetch, Check,
     UpdateFile, UpdateIndex
<1>9. ASSUME (\E w \in Writer, op \in OpKind, f, g \in File : Start(w, op, f, g))
             \/ (\E f \in File : HumanSave(f)) \/ Crash \/ UNCHANGED vars
      PROVE  UNCHANGED <<log, head, origin>>
  BY <1>9 DEF Start, HumanSave, Crash, vars
<1> HIDE DEF Goal
<1>10. QED
  BY <1>2, <1>3, <1>4, <1>5, <1>6, <1>7, <1>8, <1>9 DEF Next, Goal

\* No step takes anything out of the history.
LEMMA HistorySteps ==
  ASSUME IInv, HistoryFits, [Next]_vars
  PROVE  /\ HistoryFits'
         /\ Len(log') \in Nat /\ Len(log) <= Len(log')
         /\ \A c \in 1 .. Len(log) : log'[c] = log[c]
         /\ Reach[head] \subseteq Reach'[head']
         /\ Reach[origin] \subseteq Reach'[origin']
<1>1. /\ Len(log) \in Nat /\ head \in 1 .. Len(log) /\ origin \in 1 .. Len(log)
      /\ \A c \in 1 .. Len(log) : /\ c \in Reach[c]
                                  /\ \A d \in Reach[c] : Reach[d] \subseteq Reach[c]
  BY LogIs DEF IInv, HistoryFits, Older
<1>2. CASE /\ UNCHANGED <<log, head>>
           /\ origin' = origin \/ (origin \in Reach[head] /\ origin' = head)
  BY <1>1, <1>2, SameHistory
<1>3. CASE \E t \in Tree, P \in SUBSET (1 .. Len(log)), by \in By :
               /\ Commit(t, P, by)
               /\ \/ head \in P /\ head' = Len(log') /\ origin' = origin
                  \/ origin \in P /\ origin' = Len(log') /\ head' = head
  <2>1. PICK t \in Tree, P \in SUBSET (1 .. Len(log)), by \in By :
               /\ Commit(t, P, by)
               /\ \/ head \in P /\ head' = Len(log') /\ origin' = origin
                  \/ origin \in P /\ origin' = Len(log') /\ head' = head
    BY <1>3
  <2>2. /\ HistoryFits'
        /\ Len(log') = Len(log) + 1
        /\ \A c \in 1 .. Len(log) : Reach'[c] = Reach[c] /\ log'[c] = log[c]
        /\ Reach'[Len(log')] = {Len(log')} \cup UNION {Reach[q] : q \in P}
    BY <2>1, HistoryGrows
  <2>3. \A q \in P : Reach[q] \subseteq Reach'[Len(log')]
    BY <2>2
  <2> QED
    BY <1>1, <2>1, <2>2, <2>3
<1> QED
  BY <1>2, <1>3, LogSteps

\* Neither branch ever loses a commit, whatever is merged, pushed across, fails halfway or is
\* restarted (gitops.py _push_outcome, _integrate_origin).
THEOREM BranchesOnlyGrow == Spec => HistoryOnlyGrows
<1>1. Init => IInv /\ HistoryFits
  BY InitIInv, InitHistory
<1>2. IInv /\ HistoryFits /\ [Next]_vars => (IInv /\ HistoryFits)'
  BY IInvKept, HistorySteps
<1>3. IInv /\ HistoryFits /\ [Next]_vars =>
        [Reach[head] \subseteq (Reach[head])' /\ Reach[origin] \subseteq (Reach[origin])']_vars
  BY HistorySteps
<1> QED
  BY <1>1, <1>2, <1>3, PTL DEF Spec, HistoryOnlyGrows

-----------------------------------------------------------------------------
\* The lock, and what it protects.

\* Whoever is at the index or the branch holds the git lock.
LockFits ==
  /\ \A w \in Writer : wr[w].pc \in {"stage", "commit"} => lock = w
  /\ sw.pc \in {"status", "stage", "commit", "fetch", "check", "update", "head", "push"} =>
        lock = "sweep"

\* A merge that is being written removes no note of the branch, and what it has still to
\* write is on disk as the branch says, but for files somebody has saved since the check.
MergeFits ==
  sw.pc = "update" =>
    \A f \in File : /\ sw.merged[f] = None => HeadTree[f] = None
                    /\ f \in sw.changed \ touched["sweep"] => disk[f] = HeadTree[f]

\* A verb's step is its own.
LEMMA VerbIsOwn ==
  ASSUME IInv, NEW w \in Writer, Verb(w)
  PROVE  /\ UNCHANGED sw
         /\ \A v \in Writer \ {w} : wr'[v] = wr[v]
<1>1. wr \in [Writer -> WriterType]
  BY DEF IInv, TypeOK
<1> QED
  BY <1>1 DEF Verb, Land, GateFails, BeginWrite, Acquire, Stage, StageAs, CommitPaths,
     CommitFails, EndWrite

LEMMA VerbKeepsLock ==
  ASSUME IInv, LockFits, NEW w \in Writer, Verb(w)
  PROVE  LockFits'
<1>1. wr \in [Writer -> WriterType] /\ wr[w] \in WriterType
  BY DEF IInv, TypeOK
<1>2. w # "sweep" /\ "sweep" # "free" /\ "free" \notin Writer
  BY GitAssumption
<1>3. UNCHANGED sw /\ \A v \in Writer \ {w} : wr'[v] = wr[v]
  BY VerbIsOwn
<1>4. ASSUME UNCHANGED lock, wr'[w].pc \in {"stage", "commit"} => lock = w
      PROVE  LockFits'
  BY <1>3, <1>4 DEF LockFits
<1>5. ASSUME lock' = "free", lock = w, wr'[w].pc \notin {"stage", "commit"}
      PROVE  LockFits'
  BY <1>2, <1>3, <1>5 DEF LockFits
<1>6. ASSUME lock' = w, lock = "free"
      PROVE  LockFits'
  BY <1>2, <1>3, <1>6 DEF LockFits
<1>7. CASE Land(w)
  <2>1. wr'[w].pc = wr[w].pc /\ UNCHANGED lock
    BY <1>1, <1>7 DEF Land, WriterType
  <2> QED
    BY <1>4, <2>1 DEF LockFits
<1>8. CASE GateFails(w) \/ BeginWrite(w) \/ EndWrite(w)
  <2>1. UNCHANGED lock /\ wr'[w].pc \notin {"stage", "commit"}
    BY <1>1, <1>8 DEF GateFails, BeginWrite, EndWrite, Resting, WriterType
  <2> QED
    BY <1>4, <2>1
<1>9. CASE Acquire(w)
  BY <1>6, <1>9 DEF Acquire
<1>10. CASE Stage(w) \/ CommitPaths(w) \/ CommitFails(w)
  <2>1. lock = w
    BY <1>10 DEF LockFits, Stage, CommitPaths, CommitFails
  <2>2. \/ UNCHANGED lock
        \/ lock' = "free" /\ wr'[w].pc = "end"
    BY <1>1, <1>10 DEF Stage, StageAs, CommitPaths, CommitFails, WriterType
  <2> QED
    BY <1>4, <1>5, <2>1, <2>2
<1> QED
  BY <1>7, <1>8, <1>9, <1>10 DEF Verb

\* Where the sweep is after its step.
LEMMA SweepKeepsLock ==
  ASSUME IInv, LockFits, Sweep
  PROVE  LockFits'
<1>1. UNCHANGED wr
  BY DEF Sweep, Wake, SweepAcquire, SweepStatus, SweepStage, SweepCommit, SweepFails, Fetch,
     Check, UpdateFile, UpdateIndex, MoveHead, PushHead
<1>2. sw \in SweepType /\ "sweep" \notin Writer /\ "free" \notin Writer
  BY GitAssumption DEF IInv, TypeOK
<1>3. CASE Wake
  BY <1>1, <1>2, <1>3 DEF Wake, LockFits, SweepType
<1>4. CASE SweepAcquire
  BY <1>1, <1>2, <1>4 DEF SweepAcquire, LockFits
<1>5. ASSUME lock = "sweep",
             UNCHANGED lock \/ (lock' = "free" /\ sw' = Asleep)
      PROVE  LockFits'
  BY <1>1, <1>2, <1>5 DEF LockFits, Asleep
<1>6. ASSUME ~ Wake, ~ SweepAcquire
      PROVE  /\ sw.pc \in {"status", "stage", "commit", "fetch", "check", "update", "head",
                           "push"}
             /\ UNCHANGED lock \/ (lock' = "free" /\ sw' = Asleep)
  BY <1>6 DEF Sweep, SweepStatus, SweepStage, SweepCommit, SweepFails, Fetch, Check,
     UpdateFile, UpdateIndex, MoveHead, PushHead
<1> QED
  BY <1>3, <1>4, <1>5, <1>6 DEF LockFits

LEMMA LockKept == IInv /\ LockFits /\ [Next]_vars => LockFits'
<1> SUFFICES ASSUME IInv, LockFits, [Next]_vars PROVE LockFits'
  OBVIOUS
<1>1. ASSUME NEW w \in Writer, NEW op \in OpKind, NEW f \in File, NEW g \in File,
             Start(w, op, f, g)
      PROVE  LockFits'
  <2>1. /\ UNCHANGED <<lock, sw>>
        /\ \A v \in Writer : wr'[v] = wr[v] \/ wr'[v].pc = "gate"
    BY <1>1 DEF Start, IInv, TypeOK
  <2> QED
    BY <2>1 DEF LockFits
<1>2. ASSUME (\E f \in File : HumanSave(f) \/ RemotePush(f)) \/ UNCHANGED vars
      PROVE  LockFits'
  BY <1>2 DEF HumanSave, RemotePush, vars, LockFits
<1>3. CASE Crash
  BY <1>3 DEF Crash, LockFits, Resting, Asleep
<1> QED
  BY <1>1, <1>2, <1>3, VerbKeepsLock, SweepKeepsLock DEF Next

\* A clean merge removes nothing.
LEMMA MergeRemovesNone ==
  ASSUME NEW b, NEW o \in Tree, NEW t, NEW x, NEW f \in File,
         x # None \/ ~ Conflicting(b[f], o[f], t[f]),
         MergeTree(b, o, t, x)[f] = None
  PROVE  o[f] = None
BY DEF MergeTree, MergedText

LEMMA SweepKeepsMerge ==
  ASSUME IInv, MergeFits, Sweep
  PROVE  MergeFits'
<1>s. sw \in SweepType
  BY DEF IInv, TypeOK
<1>1. CASE Check
  <2>1. CASE sw' = Asleep
    BY <2>1, AsleepType DEF MergeFits
  <2>2. CASE sw' # Asleep
    <3>1. PICK b \in MergeBases(head, sw.theirs) :
             LET clash == {f \in File : Conflicting(log[b].tree[f], HeadTree[f],
                                                    log[sw.theirs].tree[f])}
             IN  /\ disk = index /\ index = HeadTree
                 /\ clash = {} \/ Changed
                 /\ \E C : sw' = [sw EXCEPT !.pc = "update",
                             !.merged = MergeTree(log[b].tree, HeadTree,
                                                  log[sw.theirs].tree, next'),
                             !.changed = C]
      BY <1>1, <2>2 DEF Check
    <3> DEFINE B == log[b].tree
               T == log[sw.theirs].tree
               M == MergeTree(B, HeadTree, T, next')
    <3>2. UNCHANGED <<disk, log, head>>
      BY <1>1 DEF Check
    <3>3. HeadTree' = HeadTree /\ HeadTree \in Tree /\ disk' = HeadTree
      BY <3>1, <3>2, LogIs DEF HeadTree, IInv
    <3>4. sw'.merged = M
      BY <1>s, <3>1 DEF SweepType
    <3>5. ASSUME NEW f \in File, M[f] = None
          PROVE  HeadTree[f] = None
      <4>1. next' # None \/ ~ Conflicting(B[f], HeadTree[f], T[f])
        <5>1. Changed => next' \in Nat
          BY NextType DEF IInv
        <5> QED
          BY <3>1, <5>1, GitAssumption
      <4> QED
        BY <3>3, <3>5, <4>1, MergeRemovesNone
    <3> HIDE DEF M
    <3> QED
      BY <3>3, <3>4, <3>5 DEF MergeFits
  <2> QED
    BY <2>1, <2>2
<1>3. ASSUME NEW g \in File, UpdateFile(g)
      PROVE  MergeFits'
  <2>1. /\ sw.pc = "update" /\ sw'.merged = sw.merged /\ sw'.changed = sw.changed \ {g}
        /\ disk' = With(disk, g, sw.merged[g]) /\ UNCHANGED <<log, head>>
        /\ Touch("sweep", {g}) /\ disk \in Tree
    BY <1>s, <1>3 DEF UpdateFile, SweepType, IInv, TypeOK
  <2>2. touched'["sweep"] = touched["sweep"]
    BY <2>1 DEF Touch, Actor
  <2>3. \A f \in File \ {g} : disk'[f] = disk[f]
    BY <2>1 DEF With, Tree
  <2> QED
    BY <2>1, <2>2, <2>3 DEF MergeFits, HeadTree
<1>2. CASE ~ Check /\ ~ \E g \in File : UpdateFile(g)
  <2>1. ASSUME SweepStage \/ SweepCommit \/ SweepFails \/ PushHead
        PROVE  sw'.pc # "update"
    BY <1>s, <2>1 DEF SweepStage, SweepCommit, SweepFails, PushHead, SweepType, Asleep
  <2>2. ASSUME Wake \/ SweepAcquire \/ UpdateIndex \/ MoveHead
        PROVE  sw'.pc # "update"
    BY <1>s, <2>2 DEF Wake, SweepAcquire, UpdateIndex, MoveHead, SweepType
  <2>3. ASSUME SweepStatus \/ Fetch
        PROVE  sw'.pc # "update"
    BY <1>s, <2>3 DEF SweepStatus, Fetch, SweepType
  <2> QED
    BY <1>2, <2>1, <2>2, <2>3 DEF MergeFits, Sweep
<1> QED
  BY <1>1, <1>2, <1>3

\* What others do while a merge is about to be written: they leave the branch alone, and the
\* files they save are touched.
LEMMA MergeOthers ==
  ASSUME IInv, MergeFits, UNCHANGED <<log, head, sw>>,
         \A f \in File : /\ f \notin touched'["sweep"] => f \notin touched["sweep"]
                         /\ disk'[f] = disk[f] \/ f \in touched'["sweep"]
  PROVE  MergeFits'
BY DEF MergeFits, HeadTree

LEMMA Touched ==
  ASSUME IInv, NEW a, NEW b \in Actor, a # b, NEW g \in File, NEW x,
         disk' = With(disk, g, x), Touch(a, {g})
  PROVE  \A f \in File : /\ f \notin touched'[b] => f \notin touched[b]
                         /\ disk'[f] = disk[f] \/ f \in touched'[b]
BY DEF IInv, TypeOK, Tree, With, Touch

LEMMA MergeKept == IInv /\ LockFits /\ MergeFits /\ [Next]_vars => MergeFits'
<1> SUFFICES ASSUME IInv, LockFits, MergeFits, [Next]_vars PROVE MergeFits'
  OBVIOUS
<1>s. "sweep" \in Actor /\ touched \in [Actor -> SUBSET File] /\ "sweep" \notin Writer
  BY GitAssumption DEF IInv, TypeOK, Actor
<1>1. ASSUME NEW w \in Writer, NEW op \in OpKind, NEW f \in File, NEW g \in File,
             Start(w, op, f, g)
      PROVE  MergeFits'
  <2>1. UNCHANGED <<log, head, sw, disk>> /\ touched'["sweep"] = touched["sweep"]
    BY <1>1, <1>s DEF Start
  <2> QED
    BY <2>1, MergeOthers
<1>2. ASSUME NEW w \in Writer, Verb(w)
      PROVE  MergeFits'
  <2>1. CASE Land(w)
    <3> DEFINE g == wr[w].todo[1][1]
               x == wr[w].todo[1][2]
    <3>1. g \in File
      BY <2>1, WriterFields DEF Land, IInv, TypeOK
    <3>2. /\ disk' = With(disk, g, x) /\ Touch(w, {g}) /\ w # "sweep"
          /\ UNCHANGED <<log, head, sw>>
      BY <1>s, <2>1 DEF Land
    <3> HIDE DEF g, x
    <3> QED
      BY <1>s, <3>1, <3>2, Touched, MergeOthers
  <2>2. CASE CommitPaths(w)
    <3>1. sw'.pc # "update"
      BY <1>s, <2>2 DEF CommitPaths, LockFits
    <3> QED
      BY <3>1 DEF MergeFits
  <2>3. CASE ~ Land(w) /\ ~ CommitPaths(w)
    <3>1. UNCHANGED <<log, head, sw, disk, touched>>
      BY <1>2, <2>3 DEF Verb, GateFails, BeginWrite, Acquire, Stage, StageAs, CommitFails,
         EndWrite
    <3> QED
      BY <3>1, MergeOthers
  <2> QED
    BY <2>1, <2>2, <2>3
<1>3. ASSUME NEW f \in File, HumanSave(f)
      PROVE  MergeFits'
  <2>1. PICK x : disk' = With(disk, f, x)
    BY <1>3 DEF HumanSave
  <2>2. Touch("human", {f}) /\ UNCHANGED <<log, head, sw>>
    BY <1>3 DEF HumanSave
  <2>3. "human" # "sweep"
    OBVIOUS
  <2> QED
    BY <1>s, <2>1, <2>2, <2>3, Touched, MergeOthers
<1>4. ASSUME NEW f \in File, RemotePush(f)
      PROVE  MergeFits'
  <2>1. /\ UNCHANGED <<disk, head, sw, touched>>
        /\ \E c : log' = Append(log, c)
    BY <1>4 DEF RemotePush, Commit
  <2>2. log'[head] = log[head]
    BY <2>1, LogIs DEF IInv, TypeOK
  <2> QED
    BY <2>1, <2>2 DEF MergeFits, HeadTree
<1>5. CASE Crash
  BY <1>5, AsleepType DEF Crash, MergeFits
<1>6. CASE UNCHANGED vars
  BY <1>6, MergeOthers DEF vars
<1> QED
  BY <1>1, <1>2, <1>3, <1>4, <1>5, <1>6, SweepKeepsMerge DEF Next

\* Only a merge's writing a file is a step of the sweep that changes the disk.
LEMMA DiskSteps ==
  ASSUME IInv, [Next]_vars, sw' # sw, disk' # disk
  PROVE  \E f \in File : UpdateFile(f)
<1>1. ASSUME NEW w \in Writer, Verb(w) PROVE UNCHANGED sw
  BY <1>1, VerbIsOwn
<1>2. Sweep => \E f \in File : UpdateFile(f)
  BY DEF Sweep, Wake, SweepAcquire, SweepStatus, SweepStage, SweepCommit, SweepFails, Fetch,
     Check, UpdateIndex, MoveHead, PushHead
<1> QED
  BY <1>1, <1>2 DEF Next, vars, Start, HumanSave, RemotePush, Crash

\* Integrating origin removes no note the sweep has looked at, and replaces one only when its
\* text is in the branch's history (gitops.py _integrate_origin).
THEOREM MergesKeepDisk == Spec => MergeKeepsDisk
<1> DEFINE Inv == IInv /\ HistoryFits /\ LockFits /\ MergeFits
           Step == \A f \in File :
                     (sw' # sw /\ disk[f] # None /\ f \notin touched["sweep"])
                        => \/ disk'[f] = disk[f]
                           \/ disk'[f] # None /\ Committed(f, disk[f])
<1>1. Init => Inv
  <2>1. Init => LockFits /\ MergeFits
    BY DEF Init, LockFits, MergeFits, Resting, Asleep
  <2> QED
    BY <2>1, InitIInv, InitHistory
<1>2. Inv /\ [Next]_vars => Inv'
  BY IInvKept, HistorySteps, LockKept, MergeKept
<1>3. Inv /\ [Next]_vars => Step
  <2> SUFFICES ASSUME Inv, [Next]_vars, NEW f \in File,
                      sw' # sw, disk[f] # None, f \notin touched["sweep"],
                      disk'[f] # disk[f]
               PROVE  disk'[f] # None /\ Committed(f, disk[f])
    OBVIOUS
  <2>1. PICK g \in File : UpdateFile(g)
    BY DiskSteps
  <2>2. disk'[f] = sw.merged[f] /\ f \in sw.changed /\ sw.pc = "update"
    BY <2>1 DEF UpdateFile, With, IInv, TypeOK, Tree
  <2>3. disk[f] = HeadTree[f] /\ (sw.merged[f] = None => HeadTree[f] = None)
    BY <2>2 DEF MergeFits
  <2>4. head \in Reach[head]
    BY LogIs DEF IInv, HistoryFits, Older
  <2> QED
    BY <2>2, <2>3, <2>4 DEF Committed, HeadTree
<1>4. Inv /\ [Next]_vars => [Step]_vars
  BY <1>3
<1> HIDE DEF Inv
<1> QED
  BY <1>1, <1>2, <1>4, PTL DEF Spec, MergeKeepsDisk

-----------------------------------------------------------------------------
\* The checkpoint handshake, however late the disk has what a verb wrote.

\* What a commit of r is to hold at f, and when that may be what r found there.
Left(r, f) == IF f \in r.late THEN r.before[f] ELSE r.want[f]
Excused(r, f) == f \in r.late => Lag /\ (r.op = "put" => Fails \/ r.before[f] # None)

\* What verb r found at its paths is there until its change lands, and what it wants from then
\* on, for the files no other has changed: those outside T.  What it staged is in its commit.
VerbFits(r, T) ==
  /\ r.pc # "end" => r.sha = 0
  /\ r.pc \notin {"commit", "end"} => r.late = {}
  /\ r.pc # "gate" /\ r.todo # <<>> => Lag
  /\ r.pc = "idle" => r.paths = {}
  /\ r.pc # "idle" => \A i \in DOMAIN r.todo : r.todo[i][2] = r.want[r.todo[i][1]]
  /\ \A i, j \in DOMAIN r.todo : r.todo[i][1] = r.todo[j][1] => i = j
  /\ \A f \in r.paths \ T : disk[f] = IF f \in Pending(r) THEN r.before[f] ELSE r.want[f]
  /\ r.pc = "commit" => \A f \in r.paths \ T : index[f] = Left(r, f) /\ Excused(r, f)
  /\ r.pc = "end" => \A f \in r.paths \ T :
        /\ r.sha # 0 => log[r.sha].tree[f] = Left(r, f)
        /\ r.sha = 0 => Fails \/ Committed(f, Left(r, f))
        /\ Excused(r, f)

VerbsFit == \A w \in Writer : VerbFits(wr[w], touched[w])

\* Once in the branch's history, always.
LEMMA StillReached ==
  ASSUME IInv, HistoryFits, [Next]_vars, NEW c \in Reach[head]
  PROVE  c \in Reach'[head'] /\ log'[c] = log[c]
<1>1. c \in 1 .. Len(log)
  BY LogIs DEF IInv, HistoryFits, Older
<1> QED
  BY <1>1, HistorySteps

\* A verb that does not act: what others do to its files, they have touched.
LEMMA OthersFit ==
  ASSUME IInv, HistoryFits, [Next]_vars, NEW v \in Writer, VerbFits(wr[v], touched[v]),
         wr'[v] = wr[v], touched[v] \subseteq touched'[v],
         \A f \in File \ touched'[v] : disk'[f] = disk[f],
         wr[v].pc = "commit" => index' = index
  PROVE  VerbFits(wr[v], touched[v])'
<1> DEFINE r == wr[v]
<1>1. r \in WriterType /\ r.paths \subseteq File /\ r.sha \in 0 .. Len(log)
  BY DEF IInv, TypeOK, WriterType
<1>2. r.sha # 0 => log'[r.sha] = log[r.sha]
  BY <1>1, LogIs, HistorySteps DEF IInv
<1>3. wr'[v] = r
  OBVIOUS
<1> HIDE DEF r
<1>4. VerbFits(r, touched[v])
  BY DEF r
<1>5. r.pc = "commit" => index' = index
  BY DEF r
<1>6. \A f \in r.paths \ touched'[v] :
        /\ f \in r.paths \ touched[v]
        /\ disk'[f] = disk[f]
        /\ r.pc = "commit" => index'[f] = index[f]
  BY <1>1, <1>5
<1>7. \A c \in Reach[head] : c \in Reach'[head'] /\ log'[c] = log[c]
  BY StillReached
<1> QED
  BY <1>2, <1>3, <1>4, <1>6, <1>7 DEF VerbFits, Committed

\* A verb at rest wants nothing.
LEMMA RestFits == \A T : VerbFits(Resting, T)'
BY DEF VerbFits, Resting, Pending

LEMMA StartFits ==
  ASSUME IInv, NEW w \in Writer, NEW op \in OpKind, NEW f \in File, NEW g \in File,
         Start(w, op, f, g)
  PROVE  VerbFits(wr[w], touched[w])'
<1> DEFINE r == wr'[w]
<1>1. /\ r.pc = "gate" /\ r.sha = 0 /\ r.late = {}
      /\ r.paths = (IF op = "move" THEN {f, g} ELSE {f})
      /\ r.todo = Plan(op, f, g)
      /\ r.before = With(NoTree, f, disk[f])
      /\ r.want = (IF op = "put" THEN With(NoTree, f, next')
                   ELSE IF op = "move" THEN With(NoTree, g, disk[f]) ELSE NoTree)
      /\ UNCHANGED disk
  BY DEF Start, IInv, TypeOK
<1>2. \A h \in File : r.before[h] = IF h = f THEN disk[f] ELSE None
  BY <1>1 DEF With, NoTree
<1> HIDE DEF r
<1>3. CASE op # "move"
  <2> DEFINE x == IF op = "put" THEN next' ELSE None
  <2>1. r.todo = <<<<f, x>>>> /\ r.want[f] = x /\ r.paths = {f}
    BY <1>1, <1>3 DEF Plan, With, NoTree, OpKind
  <2> HIDE DEF x
  <2>2. DOMAIN r.todo = {1} /\ r.todo[1] = <<f, x>>
    BY <2>1
  <2>3. Pending(r) = {f}
    BY <2>2 DEF Pending
  <2> QED
    BY <1>1, <1>2, <2>1, <2>2, <2>3 DEF VerbFits, r
<1>4. CASE op = "move"
  <2> DEFINE y == disk[f]
  <2>1. f # g /\ disk[g] = None
    BY <1>4 DEF Start
  <2>2. /\ r.todo = <<<<g, y>>, <<f, None>>>> /\ r.paths = {f, g}
        /\ r.want[g] = y /\ r.want[f] = None
    BY <1>1, <1>4, <2>1 DEF Plan, With, NoTree
  <2>3. r.before[f] = y /\ r.before[g] = None
    BY <1>2, <2>1
  <2>4. \A h \in r.paths : disk'[h] = r.before[h]
    BY <1>1, <2>1, <2>2, <2>3
  <2> HIDE DEF y
  <2>5. DOMAIN r.todo = {1, 2} /\ r.todo[1] = <<g, y>> /\ r.todo[2] = <<f, None>>
    BY <2>2
  <2>6. Pending(r) = {f, g}
    BY <2>5 DEF Pending
  <2> QED
    BY <1>1, <2>1, <2>2, <2>4, <2>5, <2>6 DEF VerbFits, r
<1> QED
  BY <1>3, <1>4

LEMMA LandFits ==
  ASSUME IInv, HistoryFits, [Next]_vars, NEW w \in Writer, VerbFits(wr[w], touched[w]), Land(w)
  PROVE  VerbFits(wr[w], touched[w])'
<1> DEFINE r == wr[w]
           t == r.todo
           q == Tail(t)
           n == wr'[w]
<1>1. r \in WriterType /\ r.paths \subseteq File /\ t \in Seq(File \X Text) /\ t # <<>>
  BY DEF IInv, TypeOK, WriterType, Land
<1>2. /\ \A i \in DOMAIN q : i + 1 \in DOMAIN t /\ q[i] = t[i + 1]
      /\ \A i \in DOMAIN t \ {1} : i - 1 \in DOMAIN q /\ q[i - 1] = t[i]
      /\ 1 \in DOMAIN t
      /\ DOMAIN q \subseteq Nat \ {0} /\ DOMAIN t \subseteq Nat
  <2> HIDE DEF t
  <2> QED
    BY <1>1
<1>3. /\ n = [r EXCEPT !.todo = q]
      /\ touched'[w] = touched[w]
      /\ disk' = With(disk, t[1][1], t[1][2])
      /\ UNCHANGED <<index, log, head>>
      /\ r.pc = "gate" \/ Lag
  BY DEF Land, IInv, TypeOK, Touch, Actor
<1>4. /\ n.pc = r.pc /\ n.sha = r.sha /\ n.want = r.want /\ n.before = r.before
      /\ n.paths = r.paths /\ n.todo = q /\ n.late = r.late /\ n.op = r.op
  BY <1>1, <1>3 DEF WriterType
<1>5. VerbFits(r, touched[w])
  OBVIOUS
<1>6. \A c \in Reach[head] : c \in Reach'[head'] /\ log'[c] = log[c]
  BY StillReached
<1> HIDE DEF q, r, t, n
<1>7. r.todo = t
  BY DEF t
<1>8. \A i \in DOMAIN q : r.pc # "idle" => q[i][2] = r.want[q[i][1]]
  BY <1>2, <1>5, <1>7 DEF VerbFits
<1>9. \A i, j \in DOMAIN q : q[i][1] = q[j][1] => i = j
  <2>1. SUFFICES ASSUME NEW i \in DOMAIN q, NEW j \in DOMAIN q, q[i][1] = q[j][1]
                 PROVE  i + 1 = j + 1
    BY <1>2
  <2> QED
    BY <1>2, <1>5, <1>7, <2>1 DEF VerbFits
<1>10. Pending(n) = Pending(r) \ {t[1][1]}
  <2>1. \A i \in DOMAIN q : q[i][1] \in Pending(r) /\ q[i][1] # t[1][1]
    <3>1. SUFFICES ASSUME NEW i \in DOMAIN q
                   PROVE  q[i][1] \in Pending(r) /\ q[i][1] # t[1][1]
      OBVIOUS
    <3>2. i + 1 \in DOMAIN t /\ q[i] = t[i + 1] /\ i + 1 # 1 /\ 1 \in DOMAIN t
      BY <1>2
    <3>3. t[i + 1][1] # t[1][1]
      BY <1>5, <1>7, <3>2 DEF VerbFits
    <3> QED
      BY <1>7, <3>2, <3>3 DEF Pending
  <2>2. \A i \in DOMAIN t : t[i][1] # t[1][1] => t[i][1] \in Pending(n)
    <3>1. SUFFICES ASSUME NEW i \in DOMAIN t, t[i][1] # t[1][1]
                   PROVE  t[i][1] \in Pending(n)
      OBVIOUS
    <3>2. i - 1 \in DOMAIN q /\ q[i - 1] = t[i]
      BY <1>2, <3>1
    <3> QED
      BY <1>4, <3>2 DEF Pending
  <2> QED
    BY <1>4, <1>7, <2>1, <2>2 DEF Pending
<1>11. ASSUME NEW f \in r.paths \ touched[w]
       PROVE  disk'[f] = IF f \in Pending(n) THEN r.before[f] ELSE r.want[f]
  <2>1. disk \in Tree /\ f \in File /\ r.pc # "idle"
    BY <1>1, <1>5, <1>11 DEF IInv, TypeOK, VerbFits
  <2>2. CASE f = t[1][1]
    <3>1. t[1][2] = r.want[f]
      BY <1>2, <1>5, <1>7, <2>1, <2>2 DEF VerbFits
    <3> QED
      BY <1>3, <1>10, <2>1, <2>2, <3>1 DEF With, Tree
  <2>3. CASE f # t[1][1]
    <3>1. disk'[f] = disk[f] /\ (f \in Pending(n) <=> f \in Pending(r))
      BY <1>3, <1>10, <2>1, <2>3 DEF With, Tree
    <3> QED
      BY <1>5, <1>11, <3>1 DEF VerbFits
  <2> QED
    BY <2>2, <2>3
<1>12. \A f : Left(n, f) = Left(r, f) /\ Excused(n, f) = Excused(r, f)
  BY <1>4 DEF Left, Excused
<1>13. r.pc = "end" => \A f \in r.paths \ touched[w] :
         /\ r.sha # 0 => log'[r.sha].tree[f] = Left(n, f)
         /\ r.sha = 0 => Fails \/ \E c \in Reach'[head'] : log'[c].tree[f] = Left(n, f)
         /\ Excused(n, f)
  <2>1. \A f, x : Committed(f, x) => \E c \in Reach'[head'] : log'[c].tree[f] = x
    BY <1>6 DEF Committed
  <2>2. r.pc = "end" => \A f \in r.paths \ touched[w] :
         /\ r.sha # 0 => log[r.sha].tree[f] = Left(r, f)
         /\ r.sha = 0 => Fails \/ Committed(f, Left(r, f))
         /\ Excused(r, f)
    BY <1>5 DEF VerbFits
  <2> QED
    BY <1>3, <1>12, <2>1, <2>2
<1>14. r.pc = "commit" => \A f \in r.paths \ touched[w] :
         index'[f] = Left(n, f) /\ Excused(n, f)
  BY <1>3, <1>5, <1>12 DEF VerbFits
<1>15. /\ r.pc # "end" => r.sha = 0
       /\ r.pc \notin {"commit", "end"} => r.late = {}
       /\ r.pc = "idle" => r.paths = {}
  BY <1>5 DEF VerbFits
<1> QED
  BY <1>3, <1>4, <1>8, <1>9, <1>11, <1>13, <1>14, <1>15 DEF VerbFits, Committed, n

\* A verb goes on to its next step: what it staged is new only when it has just staged.
LEMMA StageFits ==
  ASSUME IInv, HistoryFits, NEW w \in Writer, VerbFits(wr[w], touched[w]), Stage(w)
  PROVE  VerbFits(wr[w], touched[w])'
<1> DEFINE r == wr[w]
           n == wr'[w]
<1>1. r \in WriterType /\ r.paths \subseteq File /\ wr \in [Writer -> WriterType]
  BY DEF IInv, TypeOK, WriterType
<1>2. /\ r.pc = "stage" /\ Waited(r)
      /\ UNCHANGED <<disk, log, head, touched>>
      /\ \A f \in r.paths : index'[f] = disk[f]
      /\ \/ n = [r EXCEPT !.pc = "end", !.late = Pending(r)] /\ index' = HeadTree
         \/ n = [r EXCEPT !.pc = "commit", !.late = Pending(r)]
  BY <1>1 DEF Stage, StageAs
<1>3. /\ n.sha = r.sha /\ n.want = r.want /\ n.before = r.before /\ n.op = r.op
      /\ n.paths = r.paths /\ n.todo = r.todo /\ n.late = Pending(r)
      /\ n.pc \in {"commit", "end"} /\ (n.pc = "end" => index' = HeadTree)
  BY <1>1, <1>2 DEF WriterType
<1>4. VerbFits(r, touched[w])
  OBVIOUS
<1> HIDE DEF r, n
<1>5. Pending(n) = Pending(r)
  BY <1>3 DEF Pending
<1>6. \A f \in r.paths \ touched[w] : index'[f] = Left(n, f)
  BY <1>2, <1>3, <1>4 DEF VerbFits, Left
<1>7. ASSUME NEW f \in r.paths \ touched[w]
      PROVE  Excused(n, f)
  <2>1. SUFFICES ASSUME f \in Pending(r)
                 PROVE  Lag /\ (r.op = "put" => Fails \/ r.before[f] # None)
    BY <1>3 DEF Excused
  <2>2. r.todo # <<>>
    BY <2>1 DEF Pending
  <2>3. disk[f] = r.before[f]
    BY <1>4, <1>7, <2>1 DEF VerbFits
  <2>4. Lag
    BY <1>2, <1>4, <2>2 DEF VerbFits
  <2> QED
    BY <1>2, <1>7, <2>2, <2>3, <2>4 DEF Waited
<1>8. n.pc = "end" => \A f \in r.paths \ touched[w] :
         \E c \in Reach'[head'] : log'[c].tree[f] = Left(n, f)
  <2>1. head \in Reach[head] /\ Reach' = Reach
    BY <1>2, LogIs, SameHistory DEF IInv, HistoryFits, Older
  <2> QED
    BY <1>2, <1>3, <1>6, <2>1 DEF HeadTree
<1>9. /\ r.sha = 0 /\ (r.todo # <<>> => Lag)
      /\ \A i \in DOMAIN r.todo : r.todo[i][2] = r.want[r.todo[i][1]]
      /\ \A i, j \in DOMAIN r.todo : r.todo[i][1] = r.todo[j][1] => i = j
      /\ \A f \in r.paths \ touched[w] :
           disk[f] = IF f \in Pending(r) THEN r.before[f] ELSE r.want[f]
  BY <1>2, <1>4 DEF VerbFits
<1> QED
  BY <1>2, <1>3, <1>5, <1>6, <1>7, <1>8, <1>9 DEF VerbFits, Committed, n

\* The verb that acts.
LEMMA ActorFits ==
  ASSUME IInv, HistoryFits, [Next]_vars, NEW w \in Writer, VerbFits(wr[w], touched[w]), Verb(w)
  PROVE  VerbFits(wr[w], touched[w])'
<1> DEFINE r == wr[w]
<1>1. r \in WriterType /\ r.paths \subseteq File /\ wr \in [Writer -> WriterType]
  BY DEF IInv, TypeOK, WriterType
<1>2. VerbFits(r, touched[w])
  OBVIOUS
<1>3. CASE Land(w)
  BY <1>3, LandFits
<1>4. CASE GateFails(w)
  <2>1. wr'[w] = Resting
    BY <1>1, <1>4 DEF GateFails
  <2> QED
    BY <2>1, RestFits
<1>5. CASE EndWrite(w)
  <2> DEFINE q == r.todo
             n == [Resting EXCEPT !.todo = q]
  <2>1. /\ q # <<>> => Lag
        /\ \A i, j \in DOMAIN q : q[i][1] = q[j][1] => i = j
    BY <1>2, <1>5 DEF VerbFits, EndWrite
  <2>2. wr'[w] = n
    BY <1>1, <1>5 DEF EndWrite
  <2> HIDE DEF q
  <2>3. n.pc = "idle" /\ n.todo = q /\ n.sha = 0 /\ n.paths = {} /\ n.late = {}
    BY DEF Resting
  <2> HIDE DEF n
  <2> QED
    BY <2>1, <2>2, <2>3 DEF VerbFits
<1>6. ASSUME NEW p, wr'[w] = [r EXCEPT !.pc = p]
      PROVE  /\ wr'[w].pc = p /\ wr'[w].sha = r.sha /\ wr'[w].want = r.want
             /\ wr'[w].paths = r.paths /\ wr'[w].todo = r.todo /\ wr'[w].late = r.late
             /\ wr'[w].before = r.before /\ wr'[w].op = r.op
  BY <1>1, <1>6 DEF WriterType
<1>7. CASE BeginWrite(w) \/ Acquire(w)
  <2>1. PICK p \in {"lock", "stage"} : wr'[w] = [r EXCEPT !.pc = p]
    BY <1>1, <1>7 DEF BeginWrite, Acquire
  <2>2. /\ r.todo # <<>> => Lag
        /\ r.pc \in {"gate", "lock"}
        /\ UNCHANGED <<disk, touched>>
    BY <1>2, <1>7 DEF BeginWrite, Acquire, VerbFits
  <2>3. Pending(wr'[w]) = Pending(r)
    BY <1>6, <2>1 DEF Pending
  <2> HIDE DEF r
  <2> QED
    BY <1>2, <1>6, <2>1, <2>2, <2>3 DEF VerbFits
<1>8. CASE Stage(w)
  BY <1>8, StageFits
<1>9. CASE CommitFails(w)
  <2>1. wr'[w] = [r EXCEPT !.pc = "end"] /\ Fails /\ UNCHANGED <<disk, touched>>
    BY <1>1, <1>9 DEF CommitFails
  <2>2. /\ r.pc \in {"stage", "commit"} /\ r.sha = 0 /\ (r.todo # <<>> => Lag)
        /\ \A f \in r.paths \ touched[w] : Excused(r, f)
    BY <1>2, <1>9 DEF CommitFails, VerbFits, Excused
  <2>3. /\ Pending(wr'[w]) = Pending(r)
        /\ \A f : Excused(r, f) => Excused(wr'[w], f)
    BY <1>6, <2>1 DEF Pending, Excused
  <2> HIDE DEF r
  <2> QED
    BY <1>2, <1>6, <2>1, <2>2, <2>3 DEF VerbFits
<1>10. CASE CommitPaths(w)
  <2> DEFINE n == wr'[w]
  <2>1. n = [r EXCEPT !.pc = "end", !.sha = head'] /\ UNCHANGED <<disk, touched>>
    BY <1>1, <1>10 DEF CommitPaths
  <2>2. /\ n.pc = "end" /\ n.sha = head' /\ n.want = r.want /\ n.before = r.before
        /\ n.paths = r.paths /\ n.todo = r.todo /\ n.late = r.late /\ n.op = r.op
    BY <1>1, <2>1 DEF WriterType
  <2>3. r.pc = "commit" /\ (r.todo # <<>> => Lag)
    BY <1>2, <1>10 DEF CommitPaths, VerbFits
  <2>4. head' # 0 /\ log'[head'].tree = index
    <3>1. /\ index \in Tree /\ {head} \in SUBSET (1 .. Len(log)) /\ w \in By
          /\ Commit(index, {head}, w) /\ head' = Len(log')
      BY <1>10, LogIs DEF CommitPaths, IInv, TypeOK, By
    <3>2. Len(log') = Len(log) + 1 /\ log'[Len(log')].tree = index
      BY <3>1, HistoryGrows
    <3>3. Len(log) \in Nat
      BY LogIs DEF IInv
    <3> QED
      BY <3>1, <3>2, <3>3
  <2>5. /\ Pending(n) = Pending(r)
        /\ \A f : Left(n, f) = Left(r, f) /\ (Excused(r, f) => Excused(n, f))
    BY <2>2 DEF Pending, Left, Excused
  <2>6. \A f \in r.paths \ touched[w] : index[f] = Left(r, f) /\ Excused(r, f)
    BY <1>2, <2>3 DEF VerbFits
  <2>7. /\ \A i \in DOMAIN r.todo : r.todo[i][2] = r.want[r.todo[i][1]]
        /\ \A i, j \in DOMAIN r.todo : r.todo[i][1] = r.todo[j][1] => i = j
        /\ \A f \in r.paths \ touched[w] :
             disk[f] = IF f \in Pending(r) THEN r.before[f] ELSE r.want[f]
    BY <1>2, <2>3 DEF VerbFits
  <2> HIDE DEF r, n
  <2> QED
    BY <2>1, <2>2, <2>3, <2>4, <2>5, <2>6, <2>7 DEF VerbFits, n
<1> QED
  BY <1>3, <1>4, <1>5, <1>7, <1>8, <1>9, <1>10 DEF Verb

LEMMA VerbsFitKept ==
  ASSUME IInv, HistoryFits, LockFits, VerbsFit, [Next]_vars
  PROVE  VerbsFit'
<1> SUFFICES ASSUME NEW v \in Writer PROVE VerbFits(wr[v], touched[v])'
  BY DEF VerbsFit
<1>1. VerbFits(wr[v], touched[v]) /\ v \in Actor
  BY DEF VerbsFit, Actor
<1>2. touched \in [Actor -> SUBSET File] /\ wr \in [Writer -> WriterType]
  BY DEF IInv, TypeOK
<1>3. ASSUME wr'[v] = wr[v], UNCHANGED touched, UNCHANGED disk,
             wr[v].pc = "commit" => index' = index
      PROVE  VerbFits(wr[v], touched[v])'
  BY <1>1, <1>3, OthersFit
<1>4. ASSUME NEW w \in Writer, NEW op \in OpKind, NEW f \in File, NEW g \in File,
             Start(w, op, f, g)
      PROVE  VerbFits(wr[v], touched[v])'
  <2>1. CASE v = w
    BY <1>4, <2>1, StartFits
  <2>2. CASE v # w
    <3>1. wr'[v] = wr[v] /\ touched'[v] = touched[v] /\ UNCHANGED <<disk, index>>
      BY <1>1, <1>2, <1>4, <2>2 DEF Start
    <3> QED
      BY <1>1, <3>1, OthersFit
  <2> QED
    BY <2>1, <2>2
<1>5. ASSUME NEW w \in Writer, Verb(w)
      PROVE  VerbFits(wr[v], touched[v])'
  <2>1. CASE v = w
    BY <1>1, <1>5, <2>1, ActorFits
  <2>2. CASE v # w /\ Land(w)
    <3> DEFINE g == wr[w].todo[1][1]
               x == wr[w].todo[1][2]
    <3>1. g \in File
      BY <1>2, <2>2, WriterFields DEF Land
    <3>2. /\ disk' = With(disk, g, x) /\ Touch(w, {g}) /\ UNCHANGED index
          /\ wr'[v] = wr[v]
      BY <1>2, <2>2 DEF Land
    <3> HIDE DEF g, x
    <3>3. \A f \in File : /\ f \notin touched'[v] => f \notin touched[v]
                          /\ disk'[f] = disk[f] \/ f \in touched'[v]
      BY <1>1, <2>2, <3>1, <3>2, Touched
    <3>4. touched[v] \subseteq touched'[v]
      BY <1>1, <1>2, <3>3
    <3> QED
      BY <1>1, <3>2, <3>3, <3>4, OthersFit
  <2>3. CASE v # w /\ ~ Land(w)
    <3>1. wr'[v] = wr[v]
      BY <1>5, <2>3, VerbIsOwn
    <3>2. UNCHANGED <<disk, touched>> /\ (index' = index \/ Stage(w))
      BY <1>5, <2>3 DEF Verb, GateFails, BeginWrite, Acquire, Stage, StageAs, CommitPaths,
         CommitFails, EndWrite
    <3>3. Stage(w) => wr[v].pc # "commit"
      BY <2>3 DEF Stage, LockFits
    <3> QED
      BY <1>3, <3>1, <3>2, <3>3
  <2> QED
    BY <2>1, <2>2, <2>3
<1>6. CASE Sweep
  <2>1. UNCHANGED wr
    BY <1>6 DEF Sweep, Wake, SweepAcquire, SweepStatus, SweepStage, SweepCommit, SweepFails,
       Fetch, Check, UpdateFile, UpdateIndex, MoveHead, PushHead
  <2>2. v # "sweep"
    BY GitAssumption
  <2>3. CASE SweepStage \/ UpdateIndex
    <3>1. wr[v].pc # "commit" /\ UNCHANGED <<disk, touched>>
      BY <2>2, <2>3 DEF SweepStage, UpdateIndex, LockFits
    <3> QED
      BY <1>3, <2>1, <3>1
  <2>5. ASSUME NEW g \in File, UpdateFile(g)
        PROVE  VerbFits(wr[v], touched[v])'
    <3>1. /\ disk' = With(disk, g, sw.merged[g]) /\ Touch("sweep", {g}) /\ UNCHANGED index
      BY <2>5 DEF UpdateFile
    <3>2. \A f \in File : /\ f \notin touched'[v] => f \notin touched[v]
                          /\ disk'[f] = disk[f] \/ f \in touched'[v]
      BY <1>1, <2>2, <3>1, Touched
    <3>3. touched[v] \subseteq touched'[v]
      BY <1>1, <1>2, <3>2
    <3> QED
      BY <1>1, <2>1, <3>1, <3>2, <3>3, OthersFit
  <2>4. CASE ~ SweepStage /\ ~ UpdateIndex /\ ~ \E g \in File : UpdateFile(g)
    <3>1. UNCHANGED <<disk, index>>
      BY <1>6, <2>4 DEF Sweep, Wake, SweepAcquire, SweepStatus, SweepCommit, SweepFails, Fetch,
         Check, MoveHead, PushHead
    <3>2. touched'[v] = touched[v]
      <4>1. CASE Check
        BY <1>1, <1>2, <2>2, <4>1 DEF Check
      <4>2. CASE ~ Check
        BY <1>6, <2>4, <4>2 DEF Sweep, Wake, SweepAcquire, SweepStatus, SweepCommit,
           SweepFails, Fetch, MoveHead, PushHead
      <4> QED
        BY <4>1, <4>2
    <3> QED
      BY <1>1, <2>1, <3>1, <3>2, OthersFit
  <2> QED
    BY <2>3, <2>4, <2>5
<1>7. ASSUME NEW g \in File, HumanSave(g)
      PROVE  VerbFits(wr[v], touched[v])'
  <2>1. PICK x : disk' = With(disk, g, x)
    BY <1>7 DEF HumanSave
  <2>2. Touch("human", {g}) /\ UNCHANGED <<index, wr>> /\ v # "human"
    BY <1>7, GitAssumption DEF HumanSave
  <2>3. \A f \in File : /\ f \notin touched'[v] => f \notin touched[v]
                        /\ disk'[f] = disk[f] \/ f \in touched'[v]
    BY <1>1, <2>1, <2>2, Touched
  <2>4. touched[v] \subseteq touched'[v]
    BY <1>1, <1>2, <2>3
  <2> QED
    BY <1>1, <2>2, <2>3, <2>4, OthersFit
<1>8. CASE (\E f \in File : RemotePush(f)) \/ UNCHANGED vars
  BY <1>3, <1>8 DEF RemotePush, vars
<1>9. CASE Crash
  <2>1. wr'[v] = Resting
    BY <1>9 DEF Crash
  <2> QED
    BY <2>1, RestFits
<1> QED
  BY <1>4, <1>5, <1>6, <1>7, <1>8, <1>9 DEF Next

\* The sha a verb returns names a tree with the verb's texts, and a verb that returns none
\* without a failure has them in the branch already, for every file nobody else has changed.
\* Where the disk has a change only after it was staged, that is so of what was there before,
\* and this never happens to a created note unless something fails
\* (server.py _commit_write, gitops.py commit_paths, _wait_for_path).
THEOREM CheckpointsHoldText == Spec => []CheckpointHoldsText
<1> DEFINE Inv == IInv /\ HistoryFits /\ LockFits /\ VerbsFit
<1>1. Init => Inv
  <2>1. Init => LockFits
    BY DEF Init, LockFits, Resting, Asleep
  <2>2. Init => VerbsFit
    BY DEF Init, VerbsFit, VerbFits, Resting, Pending
  <2> QED
    BY <2>1, <2>2, InitIInv, InitHistory
<1>2. Inv /\ [Next]_vars => Inv'
  BY IInvKept, HistorySteps, LockKept, VerbsFitKept
<1>3. Inv => CheckpointHoldsText
  BY DEF VerbsFit, VerbFits, Left, Excused, CheckpointHoldsText
<1> HIDE DEF Inv
<1> QED
  BY <1>1, <1>2, <1>3, PTL DEF Spec
=============================================================================
