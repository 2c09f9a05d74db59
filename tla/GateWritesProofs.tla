-------------------------- MODULE GateWritesProofs --------------------------
(***************************************************************************)
(* Theorems about GateWrites, for every set of directories, names and      *)
(* workers and every assignment of protection rules: type correctness for  *)
(* every choice of faults, and what a move keeps when PUTs lie (Alone      *)
(* names the choices that needs).                                          *)
(***************************************************************************)
EXTENDS GateWrites, TLAPS

(* The notes the Gate computes are notes. *)

LEMMA IdleType == Idle \in Task
<1>1. PICK d \in Dir, n \in Name : TRUE
  BY GateAssumption
<1>2. <<d, n>> \in Path
  BY DEF Path
<1>3. SomePath \in Path
  BY <1>2 DEF SomePath
<1> QED
  BY <1>3 DEF Idle, Task, PC, OpKind, Actor

LEMMA FreshType ==
    ASSUME NEW t, t.ver \in Nat, NEW d \in Dir
    PROVE  FreshNote(t, d) \in Note
  BY DEF FreshNote, Note, AuthorType

LEMMA MergedType ==
    ASSUME NEW n \in Note, NEW t \in Task
    PROVE  Merged(n, t) \in Note
  BY DEF Merged, NextAuthorType, Note, AuthorType, Task

LEMMA HealedType ==
    ASSUME NEW n \in Note
    PROVE  Healed(n) \in Note
  BY DEF Healed, Note

LEMMA HomePathType ==
    ASSUME NEW p \in Path, NEW n \in Note
    PROVE  HomePath(p, n) \in Path
  BY DEF HomePath, Path, Note

-----------------------------------------------------------------------------
(* Type correctness. *)

VaultType == file \in [Path -> Note \cup {None}] /\ trash \in [Path -> Seq(Note)] /\ next \in Nat
TaskType == wk \in [Worker -> Task] /\ unseen \in [Worker -> SUBSET Path]

\* The arguments a step takes from its task are there: a slug to probe, a note to store.
TaskFit(t) ==
    /\ t.pc = "slug" => t.slot > 0
    /\ t.pc = "put" => t.new \in Note
    /\ t.pc = "probe2" /\ t.op = "audit" => t.new \in Note
    /\ t.pc = "back" => t.new \in Note
    /\ t.pc = "dtrash" => t.copy \in Note

TypeInv == VaultType /\ TaskType /\ \A w \in Worker : TaskFit(wk[w])

\* A step that leaves the vault well typed and gives its own task a fit value keeps TypeInv.
LEMMA TaskStep ==
    ASSUME TypeInv, VaultType', NEW w \in Worker, NEW t \in Task, TaskFit(t),
           wk' = [wk EXCEPT ![w] = t], unseen' \in [Worker -> SUBSET Path]
    PROVE  TypeInv'
<1>1. TaskType'
  BY DEF TypeInv, TaskType
<1>2. ASSUME NEW v \in Worker PROVE TaskFit(wk'[v])
  BY DEF TypeInv, TaskType, TaskFit
<1>3. (\A v \in Worker : TaskFit(wk[v]))'
  BY <1>2 DEF TaskFit
<1> QED
  BY <1>1, <1>3 DEF TypeInv

LEMMA ReadOnStep ==
    ASSUME TypeInv, Keep, NEW w \in Worker, NEW p \in Path, NEW blind,
           NEW t \in Task, TaskFit(t), ReadOn(w, p, blind, t)
    PROVE  TypeInv'
<1>1. VaultType' /\ unseen' \in [Worker -> SUBSET Path]
  BY DEF TypeInv, VaultType, TaskType, Keep, ReadOn
<1> QED
  BY <1>1, TaskStep DEF ReadOn

LEMMA IdleFit == Idle \in Task /\ TaskFit(Idle)
  BY IdleType DEF Idle, TaskFit

LEMMA FinishStep ==
    ASSUME TypeInv, VaultType', NEW w \in Worker, Finish(w)
    PROVE  TypeInv'
<1>1. unseen' \in [Worker -> SUBSET Path]
  BY DEF TypeInv, TaskType, Finish
<1> QED
  BY <1>1, IdleFit, TaskStep DEF Finish

LEMMA StoreStep ==
    ASSUME TypeInv, NEW w \in Worker, NEW p \in Path, NEW n \in Note \cup {None},
           NEW t \in Task, TaskFit(t), wk' = [wk EXCEPT ![w] = t], Store(w, p, n),
           UNCHANGED <<trash, next>>
    PROVE  TypeInv'
<1>1. VaultType'
  BY DEF TypeInv, VaultType, Store
<1>2. unseen' \in [Worker -> SUBSET Path]
  BY DEF TypeInv, TaskType, Store
<1> QED
  BY <1>1, <1>2, TaskStep

LEMMA KeepVault == TypeInv /\ Keep => VaultType'
  BY DEF TypeInv, VaultType, Keep

-----------------------------------------------------------------------------
(* Requests arrive. *)

LEMMA BeginStep ==
    ASSUME TypeInv, NEW w \in Worker, NEW op, NEW t \in Task, TaskFit(t),
           Begin(w, op, t), next' \in Nat
    PROVE  TypeInv'
<1>1. VaultType' /\ unseen' \in [Worker -> SUBSET Path]
  BY DEF TypeInv, VaultType, TaskType, Begin
<1> QED
  BY <1>1, TaskStep DEF Begin

LEMMA StartTypes ==
    ASSUME TypeInv, NEW w \in Worker, Start(w)
    PROVE  TypeInv'
<1>0. next \in Nat /\ next + 1 \in Nat
  BY DEF TypeInv, VaultType
<1>1. ASSUME NEW p \in Path, NEW a \in Actors, NEW m \in {"upsert", "create", "update"},
             NEW b \in BOOLEAN, StartWrite(w, p, a, m, b)
      PROVE  TypeInv'
  <2> DEFINE t == [Idle EXCEPT !.pc = "probe", !.op = "write", !.actor = a, !.mode = m,
                               !.hasBody = b, !.src = p, !.dst = p, !.ver = next + 1]
  <2>1. t \in Task /\ TaskFit(t)
    BY <1>0, IdleType, GateAssumption DEF Task, PC, OpKind, TaskFit, Idle
  <2> QED
    BY <1>0, <1>1, <2>1, BeginStep DEF StartWrite
<1>2. ASSUME NEW a \in Actors, StartAtom(w, a)
      PROVE  TypeInv'
  <2> DEFINE t == [Idle EXCEPT !.pc = "slug", !.op = "atom", !.actor = a,
                               !.slot = 1, !.ver = next + 1]
  <2>0. t \in Task
    BY <1>0, IdleType, GateAssumption DEF Task, PC, OpKind
  <2>1. t \in Task /\ TaskFit(t)
    BY <2>0 DEF TaskFit, Idle
  <2> QED
    BY <1>0, <1>2, <2>1, BeginStep DEF StartAtom
<1>3. ASSUME NEW p \in Path, StartCompute(w, p)
      PROVE  TypeInv'
  <2> DEFINE n == FreshNote([actor |-> "agent", ver |-> next + 1], p[1])
             t == [Idle EXCEPT !.pc = "put", !.op = "compute", !.dst = p,
                               !.ver = next + 1, !.new = n]
  <2>1. p[1] \in Dir
    BY DEF Path
  <2>2. n \in Note
    BY <1>0, <2>1, FreshType
  <2> HIDE DEF n
  <2>3. t \in Task /\ TaskFit(t)
    BY <1>0, <2>2, IdleType DEF Task, PC, OpKind, TaskFit, Idle
  <2> QED
    BY <1>0, <1>3, <2>3, BeginStep DEF StartCompute, n
<1>4. ASSUME NEW p \in Path, NEW a \in Actors, StartDelete(w, p, a)
      PROVE  TypeInv'
  <2> DEFINE t == [Idle EXCEPT !.pc = "probe", !.op = "delete", !.actor = a, !.src = p]
  <2>1. t \in Task /\ TaskFit(t)
    BY IdleType, GateAssumption DEF Task, PC, OpKind, TaskFit, Idle
  <2> QED
    BY <1>0, <1>4, <2>1, BeginStep DEF StartDelete
<1>5. ASSUME NEW p \in Path, NEW q \in Path, NEW a \in Actors, StartMove(w, p, q, a)
      PROVE  TypeInv'
  <2> DEFINE t == [Idle EXCEPT !.pc = "probe", !.op = "move", !.actor = a,
                               !.src = p, !.dst = q]
  <2>1. t \in Task /\ TaskFit(t)
    BY IdleType, GateAssumption DEF Task, PC, OpKind, TaskFit, Idle
  <2> QED
    BY <1>0, <1>5, <2>1, BeginStep DEF StartMove
<1>6. ASSUME NEW s, StartAudit(w, s)
      PROVE  TypeInv'
  <2> DEFINE t == [Idle EXCEPT !.pc = "scan", !.op = "audit",
                               !.todo = {p \in Path : p[1] \in s /\ file[p] # None}]
  <2>1. t \in Task /\ TaskFit(t)
    BY IdleType DEF Task, PC, OpKind, TaskFit, Idle
  <2> QED
    BY <1>0, <1>6, <2>1, BeginStep DEF StartAudit
<1> QED
  BY <1>1, <1>2, <1>3, <1>4, <1>5, <1>6 DEF Start

-----------------------------------------------------------------------------
(* One step of a running verb. *)

\* What every case below needs of the task at hand.
LEMMA TaskAtHand ==
    ASSUME TypeInv, NEW w \in Worker
    PROVE  /\ wk[w] \in Task /\ TaskFit(wk[w])
           /\ wk[w].src \in Path /\ wk[w].dst \in Path /\ wk[w].del \in Path
           /\ wk[w].ver \in Nat /\ wk[w].slot \in Nat /\ wk[w].todo \in SUBSET Path
           /\ wk[w].actor \in Actor /\ wk[w].new \in Note \cup {None}
           /\ \A p \in Path : file[p] # None => file[p] \in Note
<1>1. wk[w] \in Task
  BY DEF TypeInv, TaskType
<1> QED
  BY <1>1 DEF TypeInv, VaultType, Task

LEMMA ProbeTypes ==
    ASSUME TypeInv, NEW w \in Worker,
           ProbeWrite(w) \/ ProbeDelete(w) \/ ProbeSource(w) \/ ProbeDestination(w)
    PROVE  TypeInv'
<1> DEFINE t == wk[w]
<1>0. t \in Task /\ TaskFit(t) /\ t.src \in Path /\ t.dst \in Path /\ t.ver \in Nat
  BY TaskAtHand
<1>1. CASE ProbeWrite(w)
  <2>1. VaultType'
    BY <1>1, KeepVault DEF ProbeWrite
  <2>2. CASE Finish(w)
    BY <2>1, <2>2, FinishStep
  <2>3. CASE \E blind : ReadOn(w, t.src, blind, [t EXCEPT !.pc = "read"])
    <3>1. [t EXCEPT !.pc = "read"] \in Task /\ TaskFit([t EXCEPT !.pc = "read"])
      BY <1>0 DEF Task, PC, TaskFit
    <3> QED
      BY <1>0, <1>1, <2>3, <3>1, ReadOnStep DEF ProbeWrite
  <2>4. CASE \E blind : ReadOn(w, t.src, blind,
                               [t EXCEPT !.pc = "put", !.new = FreshNote(t, t.src[1])])
    <3> DEFINE n == FreshNote(t, t.src[1])
               u == [t EXCEPT !.pc = "put", !.new = n]
    <3>1. n \in Note
      BY <1>0, FreshType DEF Path
    <3> HIDE DEF n
    <3>2. u \in Task /\ TaskFit(u)
      BY <1>0, <3>1 DEF Task, PC, TaskFit
    <3> QED
      BY <1>0, <1>1, <2>4, <3>2, ReadOnStep DEF ProbeWrite, n
  <2> QED
    BY <1>1, <2>2, <2>3, <2>4 DEF ProbeWrite
<1>2. CASE ProbeDelete(w)
  <2>1. VaultType'
    BY <1>2, KeepVault DEF ProbeDelete
  <2> DEFINE u == [t EXCEPT !.pc = "dread", !.del = t.src]
  <2>2. u \in Task /\ TaskFit(u)
    BY <1>0 DEF Task, PC, TaskFit
  <2> QED
    BY <1>0, <1>2, <2>1, <2>2, FinishStep, ReadOnStep DEF ProbeDelete
<1>3. CASE ProbeSource(w)
  <2>1. VaultType' /\ t.op = "move"
    BY <1>3, KeepVault DEF ProbeSource
  <2> DEFINE u == [t EXCEPT !.pc = "probe2"]
  <2>2. u \in Task /\ TaskFit(u)
    BY <1>0, <2>1 DEF Task, PC, TaskFit
  <2> QED
    BY <1>0, <1>3, <2>1, <2>2, FinishStep, ReadOnStep DEF ProbeSource
<1>4. CASE ProbeDestination(w)
  <2>1. VaultType'
    BY <1>4, KeepVault DEF ProbeDestination
  <2> DEFINE u == [t EXCEPT !.pc = "read"]
  <2>2. u \in Task /\ TaskFit(u)
    BY <1>0 DEF Task, PC, TaskFit
  <2> QED
    BY <1>0, <1>4, <2>1, <2>2, FinishStep, ReadOnStep DEF ProbeDestination
<1> QED
  BY <1>1, <1>2, <1>3, <1>4

LEMMA SlugTypes ==
    ASSUME TypeInv, NEW w \in Worker, ProbeSlug(w)
    PROVE  TypeInv'
<1> DEFINE t == wk[w]
           p == <<AtomDir, AtomNames[t.slot]>>
<1>0. t \in Task /\ TaskFit(t) /\ t.slot \in Nat /\ t.ver \in Nat
  BY TaskAtHand
<1>1. VaultType' /\ t.pc = "slug"
  BY KeepVault DEF ProbeSlug
<1>2. CASE Finish(w)
  BY <1>1, <1>2, FinishStep
<1>3. CASE ~Finish(w)
  <2> DEFINE n == FreshNote(t, AtomDir)
             on == [t EXCEPT !.slot = @ + 1]
             go == [t EXCEPT !.pc = "put", !.dst = p, !.new = n]
  <2>1. t.slot \in 1 .. Len(AtomNames)
    <3>1. t.slot > 0
      BY <1>0, <1>1 DEF TaskFit
    <3>2. ~(t.slot > Len(AtomNames))
      BY <1>3 DEF ProbeSlug
    <3> QED
      BY <1>0, <3>1, <3>2, GateAssumption
  <2>2. PICK blind \in Blind : ReadOn(w, p, blind, on) \/ ReadOn(w, p, blind, go)
    BY <1>3 DEF ProbeSlug
  <2>3. AtomDir \in Dir /\ AtomNames[t.slot] \in Name /\ p \in Path
    BY <2>1, GateAssumption DEF Path
  <2>4. n \in Note
    BY <1>0, FreshType, GateAssumption
  <2> HIDE DEF n
  <2>5. on \in Task /\ TaskFit(on)
    <3>1. on \in Task
      BY <1>0 DEF Task
    <3>2. on.slot = t.slot + 1 /\ on.pc = "slug"
      BY <1>0, <1>1 DEF Task
    <3> QED
      BY <1>0, <3>1, <3>2 DEF TaskFit
  <2>6. go \in Task /\ TaskFit(go)
    BY <1>0, <2>3, <2>4 DEF Task, PC, TaskFit
  <2>7. Keep
    BY DEF ProbeSlug
  <2> HIDE DEF on, go, p
  <2> QED
    BY <2>2, <2>3, <2>5, <2>6, <2>7, ReadOnStep
<1> QED
  BY <1>2, <1>3

\* Steps that read a note: what they read is a note.
LEMMA ReadTypes ==
    ASSUME TypeInv, NEW w \in Worker, ReadSource(w) \/ ReadBack(w) \/ DeleteRead(w)
    PROVE  TypeInv'
<1> DEFINE t == wk[w]
<1>0. /\ t \in Task /\ TaskFit(t) /\ t.src \in Path /\ t.dst \in Path /\ t.del \in Path
      /\ t.ver \in Nat /\ \A p \in Path : file[p] # None => file[p] \in Note
  BY TaskAtHand
<1>1. CASE Finish(w)
  <2>1. VaultType'
    BY KeepVault DEF ReadSource, ReadBack, DeleteRead
  <2> QED
    BY <1>1, <2>1, FinishStep
<1>2. CASE ReadSource(w) /\ ~Finish(w)
  <2> DEFINE n == file[t.src]
             m == IF t.op = "move" THEN n ELSE Merged(n, t)
             u == [t EXCEPT !.pc = "put", !.new = m]
  <2>1. PICK blind \in Blind : n # None /\ ReadOn(w, t.src, blind, u)
    BY <1>2 DEF ReadSource
  <2>2. m \in Note
    BY <1>0, <2>1, MergedType
  <2> HIDE DEF m
  <2>3. u \in Task /\ TaskFit(u)
    BY <1>0, <2>2 DEF Task, PC, TaskFit
  <2> QED
    BY <1>0, <1>2, <2>1, <2>3, ReadOnStep DEF ReadSource
<1>3. CASE ReadBack(w) /\ ~Finish(w)
  <2> DEFINE d == IF file[t.dst] = t.new THEN t.src ELSE t.dst
             u == [t EXCEPT !.pc = "dread", !.del = d]
  <2>1. PICK blind \in Blind : ReadOn(w, t.dst, blind, u)
    BY <1>3 DEF ReadBack
  <2>2. d \in Path
    BY <1>0
  <2> HIDE DEF d
  <2>3. u \in Task /\ TaskFit(u)
    BY <1>0, <2>2 DEF Task, PC, TaskFit
  <2> QED
    BY <1>0, <1>3, <2>1, <2>3, ReadOnStep DEF ReadBack
<1>4. CASE DeleteRead(w) /\ ~Finish(w)
  <2> DEFINE n == file[t.del]
             u == [t EXCEPT !.pc = "dtrash", !.copy = n]
  <2>1. PICK blind \in Blind : n # None /\ ReadOn(w, t.del, blind, u)
    BY <1>4 DEF DeleteRead
  <2>2. n \in Note
    BY <1>0, <2>1
  <2> HIDE DEF n
  <2>3. u \in Task /\ TaskFit(u)
    BY <1>0, <2>2 DEF Task, PC, TaskFit
  <2> QED
    BY <1>0, <1>4, <2>1, <2>3, ReadOnStep DEF DeleteRead
<1> QED
  BY <1>1, <1>2, <1>3, <1>4

\* Steps that write: PUT, trash copy, removal.
LEMMA AfterPutType ==
    ASSUME NEW t \in Task
    PROVE  AfterPut(t) \in Task /\ (t.new \in Note => TaskFit(AfterPut(t)))
<1> DEFINE b == [t EXCEPT !.pc = "back"]
           d == [t EXCEPT !.pc = "dread", !.del = t.src]
           s == [t EXCEPT !.pc = "scan", !.new = None]
<1>1. b \in Task /\ (t.new \in Note => TaskFit(b))
  BY DEF Task, PC, TaskFit
<1>2. d \in Task /\ TaskFit(d)
  BY DEF Task, PC, TaskFit
<1>3. s \in Task /\ TaskFit(s)
  BY DEF Task, PC, TaskFit
<1>4. AfterPut(t) \in {b, d, s, Idle}
  BY DEF AfterPut
<1> QED
  BY <1>1, <1>2, <1>3, <1>4, IdleFit

LEMMA AfterDeleteType ==
    ASSUME NEW t \in Task
    PROVE  AfterDelete(t) \in Task /\ TaskFit(AfterDelete(t))
<1> DEFINE s == [t EXCEPT !.pc = "scan", !.new = None, !.copy = None]
<1>1. s \in Task /\ TaskFit(s)
  BY DEF Task, PC, TaskFit
<1> QED
  BY <1>1, IdleFit DEF AfterDelete

LEMMA PutTypes ==
    ASSUME TypeInv, NEW w \in Worker, PutLands(w) \/ PutFails(w) \/ PutLandsNowhere(w)
    PROVE  TypeInv'
<1> DEFINE t == wk[w]
<1>0. t \in Task /\ TaskFit(t) /\ t.dst \in Path
  BY TaskAtHand
<1>1. t.pc = "put" /\ t.new \in Note
  BY <1>0 DEF PutLands, PutFails, PutLandsNowhere, TaskFit
<1>2. AfterPut(t) \in Task /\ TaskFit(AfterPut(t))
  BY <1>0, <1>1, AfterPutType
<1>3. CASE PutLands(w)
  BY <1>0, <1>1, <1>2, <1>3, StoreStep DEF PutLands
<1>4. CASE PutFails(w)
  <2>1. CASE Finish(w) /\ UNCHANGED <<file, trash, next>>
    BY <2>1, KeepVault, FinishStep DEF Keep
  <2> QED
    BY <1>0, <1>1, <1>4, <2>1, IdleFit, StoreStep DEF PutFails
<1>5. CASE PutLandsNowhere(w)
  <2>1. VaultType'
    BY <1>5, KeepVault DEF PutLandsNowhere
  <2>2. unseen' \in [Worker -> SUBSET Path]
    BY <1>5 DEF PutLandsNowhere, TypeInv, TaskType
  <2> QED
    BY <1>2, <1>5, <2>1, <2>2, TaskStep DEF PutLandsNowhere
<1> QED
  BY <1>3, <1>4, <1>5

LEMMA TrashTypes ==
    ASSUME TypeInv, NEW w \in Worker, TrashLands(w) \/ TrashFails(w) \/ TrashLandsNowhere(w)
    PROVE  TypeInv'
<1> DEFINE t == wk[w]
           u == [t EXCEPT !.pc = "drm"]
<1>0. t \in Task /\ TaskFit(t) /\ t.del \in Path
  BY TaskAtHand
<1>1. u \in Task /\ TaskFit(u)
  BY <1>0 DEF Task, PC, TaskFit
<1>2. CASE TrashLands(w)
  <2>1. t.copy \in Note
    BY <1>0, <1>2 DEF TrashLands, TaskFit
  <2>2. VaultType'
    <3>1. trash' \in [Path -> Seq(Note)]
      BY <1>0, <1>2, <2>1 DEF TrashLands, TypeInv, VaultType
    <3> QED
      BY <1>2, <3>1 DEF TrashLands, TypeInv, VaultType
  <2>3. CASE wk' = [wk EXCEPT ![w].pc = "drm"] /\ UNCHANGED unseen
    <3>1. unseen' \in [Worker -> SUBSET Path]
      BY <2>3 DEF TypeInv, TaskType
    <3> QED
      BY <1>1, <2>2, <2>3, <3>1, TaskStep
  <2> QED
    BY <1>2, <2>2, <2>3, FinishStep DEF TrashLands
<1>3. CASE TrashFails(w)
  BY <1>3, KeepVault, FinishStep DEF TrashFails
<1>4. CASE TrashLandsNowhere(w)
  <2>1. VaultType' /\ unseen' \in [Worker -> SUBSET Path]
    BY <1>4 DEF TrashLandsNowhere, TypeInv, VaultType, TaskType
  <2> QED
    BY <1>1, <1>4, <2>1, TaskStep DEF TrashLandsNowhere
<1> QED
  BY <1>2, <1>3, <1>4

LEMMA RemoveTypes ==
    ASSUME TypeInv, NEW w \in Worker, Remove(w) \/ RemoveFails(w)
    PROVE  TypeInv'
<1> DEFINE t == wk[w]
<1>0. t \in Task /\ t.del \in Path
  BY TaskAtHand
<1>1. CASE Remove(w)
  BY <1>0, <1>1, AfterDeleteType, IdleFit, StoreStep DEF Remove
<1>2. CASE RemoveFails(w)
  BY <1>2, KeepVault, FinishStep DEF RemoveFails
<1> QED
  BY <1>1, <1>2

\* The audit's own steps.
LEMMA AuditTypes ==
    ASSUME TypeInv, NEW w \in Worker, Scan(w) \/ ScanDone(w) \/ ProbeCollision(w)
    PROVE  TypeInv'
<1> DEFINE t == wk[w]
<1>0. /\ t \in Task /\ TaskFit(t) /\ t.src \in Path /\ t.dst \in Path
      /\ t.todo \in SUBSET Path /\ \A p \in Path : file[p] # None => file[p] \in Note
  BY TaskAtHand
<1>1. CASE Scan(w)
  <2>1. PICK p \in t.todo, blind \in Blind :
          LET n == file[p]
              skip == [t EXCEPT !.todo = @ \ {p}]
          IN  \/ ReadOn(w, p, blind, skip)
              \/ n # None /\ ReadOn(w, p, blind, [skip EXCEPT !.pc = "probe2", !.src = p,
                                !.dst = HomePath(p, n), !.new = Healed(n), !.copy = n])
              \/ n # None /\ ReadOn(w, p, blind, [skip EXCEPT !.pc = "put", !.src = p,
                                !.dst = p, !.new = Healed(n)])
    BY <1>1 DEF Scan
  <2> DEFINE n == file[p]
             skip == [t EXCEPT !.todo = @ \ {p}]
  <2>2. skip \in Task /\ TaskFit(skip)
    <3>1. t.pc = "scan"
      BY <1>1 DEF Scan
    <3> QED
      BY <1>0, <3>1 DEF Task, TaskFit
  <2>3. p \in Path /\ Keep
    BY <1>0, <1>1 DEF Scan
  <2>4. ASSUME n # None,
               ReadOn(w, p, blind, [skip EXCEPT !.pc = "probe2", !.src = p,
                                !.dst = HomePath(p, n), !.new = Healed(n), !.copy = n])
        PROVE  TypeInv'
    <3> DEFINE h == Healed(n)
               q == HomePath(p, n)
               u == [skip EXCEPT !.pc = "probe2", !.src = p, !.dst = q, !.new = h, !.copy = n]
    <3>1. n \in Note /\ h \in Note /\ q \in Path
      BY <1>0, <2>3, <2>4, HealedType, HomePathType
    <3> HIDE DEF h, q, n, skip
    <3>2. u \in Task /\ TaskFit(u)
      BY <2>2, <2>3, <3>1 DEF Task, PC, TaskFit
    <3> QED
      BY <2>3, <2>4, <3>2, ReadOnStep DEF h, q
  <2>5. ASSUME n # None,
               ReadOn(w, p, blind, [skip EXCEPT !.pc = "put", !.src = p,
                                !.dst = p, !.new = Healed(n)])
        PROVE  TypeInv'
    <3> DEFINE h == Healed(n)
               u == [skip EXCEPT !.pc = "put", !.src = p, !.dst = p, !.new = h]
    <3>1. h \in Note
      BY <1>0, <2>3, <2>5, HealedType
    <3> HIDE DEF h, n, skip
    <3>2. u \in Task /\ TaskFit(u)
      BY <2>2, <2>3, <3>1 DEF Task, PC, TaskFit
    <3> QED
      BY <2>3, <2>5, <3>2, ReadOnStep DEF h
  <2> QED
    BY <2>1, <2>2, <2>3, <2>4, <2>5, ReadOnStep
<1>2. CASE ScanDone(w)
  BY <1>2, KeepVault, FinishStep DEF ScanDone
<1>3. CASE ProbeCollision(w)
  <2>1. t.pc = "probe2" /\ t.new \in Note /\ Keep
    BY <1>0, <1>3 DEF ProbeCollision, TaskFit
  <2>2. PICK blind \in Blind, target \in {t.src, t.dst} :
          \/ ReadOn(w, t.dst, blind, [t EXCEPT !.pc = "put", !.dst = target, !.copy = None])
          \/ ReadOn(w, t.dst, blind, [t EXCEPT !.pc = "scan", !.new = None, !.copy = None])
    BY <1>3 DEF ProbeCollision
  <2> DEFINE u == [t EXCEPT !.pc = "put", !.dst = target, !.copy = None]
             s == [t EXCEPT !.pc = "scan", !.new = None, !.copy = None]
  <2>3. u \in Task /\ TaskFit(u)
    BY <1>0, <2>1, <2>2 DEF Task, PC, TaskFit
  <2>4. s \in Task /\ TaskFit(s)
    BY <1>0 DEF Task, PC, TaskFit
  <2> QED
    BY <1>0, <2>1, <2>2, <2>3, <2>4, ReadOnStep
<1> QED
  BY <1>1, <1>2, <1>3

LEMMA StepTypes ==
    ASSUME TypeInv, NEW w \in Worker, Step(w)
    PROVE  TypeInv'
  BY ProbeTypes, SlugTypes, ReadTypes, PutTypes, TrashTypes, RemoveTypes, AuditTypes DEF Step

\* The human and the crash leave every task as it is or idle.
LEMMA WorldTypes ==
    ASSUME TypeInv, Human \/ Crash
    PROVE  TypeInv'
<1>1. ASSUME NEW p \in Path, HumanSave(p)
      PROVE  TypeInv'
  <2>1. PICK k \in HumanKinds :
          file' = [file EXCEPT ![p] =
                     IF file[p] = None
                     THEN [ver |-> next + 1, body |-> next + 1, at |-> k.at,
                           home |-> k.home, clean |-> k.clean, article |-> k.article]
                     ELSE [file[p] EXCEPT !.ver = next + 1, !.body = next + 1]]
    BY <1>1 DEF HumanSave
  <2> DEFINE new == [ver |-> next + 1, body |-> next + 1, at |-> k.at,
                     home |-> k.home, clean |-> k.clean, article |-> k.article]
             old == [file[p] EXCEPT !.ver = next + 1, !.body = next + 1]
  <2>2. new \in Note
    <3>1. k \in Kind /\ next + 1 \in Nat
      BY GateAssumption DEF TypeInv, VaultType
    <3> QED
      BY <3>1 DEF Kind, Note
  <2>3. file[p] # None => old \in Note
    <3>1. next + 1 \in Nat /\ (file[p] # None => file[p] \in Note)
      BY DEF TypeInv, VaultType
    <3> QED
      BY <3>1 DEF Note
  <2>4. VaultType'
    <3> HIDE DEF new, old
    <3>1. file' \in [Path -> Note \cup {None}]
      BY <2>1, <2>2, <2>3 DEF TypeInv, VaultType, new, old
    <3> QED
      BY <1>1, <3>1 DEF HumanSave, TypeInv, VaultType
  <2>5. unseen' \in [Worker -> SUBSET Path] /\ wk' = wk
    BY <1>1 DEF HumanSave, TypeInv, TaskType
  <2> QED
    BY <2>4, <2>5 DEF TypeInv, TaskType, TaskFit
<1>2. ASSUME NEW p \in Path, HumanDelete(p)
      PROVE  TypeInv'
  <2>1. VaultType'
    BY <1>2 DEF HumanDelete, TypeInv, VaultType
  <2>2. unseen' \in [Worker -> SUBSET Path] /\ wk' = wk
    BY <1>2 DEF HumanDelete, TypeInv, TaskType
  <2> QED
    BY <2>1, <2>2 DEF TypeInv, TaskType, TaskFit
<1>3. CASE Crash
  <2>1. VaultType'
    BY <1>3, KeepVault DEF Crash
  <2>2. TaskType' /\ \A v \in Worker : wk'[v] = Idle
    BY <1>3, IdleType DEF Crash, TaskType
  <2> QED
    BY <2>1, <2>2, IdleFit DEF TypeInv, TaskFit
<1> QED
  BY <1>1, <1>2, <1>3 DEF Human

LEMMA InitTypes == Init => TypeInv
<1> SUFFICES ASSUME Init PROVE TypeInv
  OBVIOUS
<1>1. ASSUME NEW k \in HumanKinds PROVE SeedNote(k) \in Note
  <2>1. k \in Kind
    BY GateAssumption
  <2> QED
    BY <2>1 DEF SeedNote, Kind, Note
<1>2. VaultType
  <2>1. <<>> \in Seq(Note)
    OBVIOUS
  <2> QED
    BY <1>1, <2>1 DEF Init, VaultType
<1>3. TaskType /\ \A w \in Worker : wk[w] = Idle
  BY IdleType DEF Init, TaskType
<1> QED
  BY <1>2, <1>3, IdleFit DEF TypeInv

LEMMA NextTypes == TypeInv /\ [Next]_vars => TypeInv'
<1> SUFFICES ASSUME TypeInv, [Next]_vars PROVE TypeInv'
  OBVIOUS
<1>1. CASE UNCHANGED vars
  BY <1>1 DEF vars, TypeInv, VaultType, TaskType, TaskFit
<1> QED
  BY <1>1, StartTypes, StepTypes, WorldTypes DEF Next

THEOREM Typed == Spec => []TypeInv
  BY InitTypes, NextTypes, PTL DEF Spec

\* The Gate's calls always find the arguments they need: no step stores anything but a note.
THEOREM TypeCorrect == Spec => []TypeOK
<1>1. TypeInv => TypeOK
  BY DEF TypeInv, VaultType, TaskType, TypeOK
<1> QED
  BY <1>1, Typed, PTL

-----------------------------------------------------------------------------
(* A move and a vault that lies to it: alone with the vault, a move takes   *)
(* a text away only once it has read the same text at the destination.      *)

\* No other request and no human writes while a request runs, and a GET answers truly.
Alone == ~ReadFaults /\ ~HumanActs /\ \A v, w \in Worker : v = w

\* Up to the PUT the destination is empty; after the read-back source and destination hold
\* one text, and the source is what goes.  f is the vault.
MoveFits(t, f) ==
    t.op = "move" =>
        /\ t.pc \notin {"slug", "scan"}
        /\ t.pc \in {"read", "put"} => f[t.dst] = None
        /\ t.pc = "put" => t.new = f[t.src]
        /\ t.pc = "back" => t.src # t.dst /\ f[t.src] = t.new
        /\ t.pc \in {"dread", "dtrash", "drm"} =>
              t.del = t.src /\ t.src # t.dst /\ f[t.src] = f[t.dst]

\* The vault a move reads back: the PUT landed or it did not.
BackFits(t, f) == (t.op = "move" /\ t.pc = "back") => f[t.dst] \in {None, t.new}

MovesFit == \A w \in Worker : MoveFits(wk[w], file) /\ BackFits(wk[w], file)

LEMMA MoveStep ==
    ASSUME TypeInv, Alone, NEW w \in Worker, NEW t, wk' = [wk EXCEPT ![w] = t],
           MoveFits(t, file'), BackFits(t, file')
    PROVE  MovesFit'
<1>1. \A v \in Worker : wk'[v] = t
  BY DEF Alone, TypeInv, TaskType
<1>2. \A v \in Worker : MoveFits(wk'[v], file') /\ BackFits(wk'[v], file')
  BY <1>1
<1> QED
  BY <1>2 DEF MovesFit, MoveFits, BackFits

\* Every task but a move's own at its later calls is fit.
LEMMA NoMove == \A t, f : t.op # "move" => MoveFits(t, f) /\ BackFits(t, f)
  BY DEF MoveFits, BackFits

LEMMA EarlyMove ==
    \A t, f : t.pc \in {"idle", "probe", "probe2"} => MoveFits(t, f) /\ BackFits(t, f)
  BY DEF MoveFits, BackFits

LEMMA FinishMoves ==
    ASSUME TypeInv, Alone, NEW w \in Worker, wk' = [wk EXCEPT ![w] = Idle]
    PROVE  MovesFit'
<1>1. MoveFits(Idle, file') /\ BackFits(Idle, file')
  BY DEF Idle, MoveFits, BackFits
<1> QED
  BY <1>1, MoveStep

LEMMA StartMoves ==
    ASSUME TypeInv, Alone, NEW w \in Worker, Start(w)
    PROVE  MovesFit'
<1>1. ASSUME NEW op, NEW t, Begin(w, op, t), t.op # "move" \/ t.pc = "probe"
      PROVE  MovesFit'
  <2>1. MoveFits(t, file') /\ BackFits(t, file')
    BY <1>1, NoMove, EarlyMove
  <2> QED
    BY <1>1, <2>1, MoveStep DEF Begin
<1>2. ASSUME NEW p, NEW a, NEW m, NEW b, StartWrite(w, p, a, m, b) PROVE MovesFit'
  BY <1>1, <1>2 DEF StartWrite, Idle
<1>3. ASSUME NEW a, StartAtom(w, a) PROVE MovesFit'
  BY <1>1, <1>3 DEF StartAtom, Idle
<1>4. ASSUME NEW p \in Path, StartCompute(w, p) PROVE MovesFit'
  BY <1>1, <1>4 DEF StartCompute, Idle
<1>5. ASSUME NEW p, NEW a, StartDelete(w, p, a) PROVE MovesFit'
  BY <1>1, <1>5 DEF StartDelete, Idle
<1>6. ASSUME NEW p, NEW q, NEW a, StartMove(w, p, q, a) PROVE MovesFit'
  BY <1>1, <1>6 DEF StartMove, Idle
<1>7. ASSUME NEW s, StartAudit(w, s) PROVE MovesFit'
  BY <1>1, <1>7 DEF StartAudit, Idle
<1> QED
  BY <1>2, <1>3, <1>4, <1>5, <1>6, <1>7 DEF Start

\* The probes and reads of a verb leave the vault as it is.
LEMMA ReadMoves ==
    ASSUME TypeInv, Alone, MovesFit, NEW w \in Worker,
           \/ ProbeWrite(w) \/ ProbeDelete(w) \/ ProbeSource(w) \/ ProbeDestination(w)
           \/ ReadSource(w) \/ ReadBack(w) \/ DeleteRead(w)
    PROVE  MovesFit'
<1> DEFINE t == wk[w]
<1>0. /\ t \in Task /\ TaskFit(t) /\ MoveFits(t, file) /\ BackFits(t, file)
      /\ file' = file /\ Blind = {FALSE}
  BY TaskAtHand DEF MovesFit, Alone, Blind, Keep, ProbeWrite, ProbeDelete, ProbeSource,
                    ProbeDestination, ReadSource, ReadBack, DeleteRead
<1>1. CASE Finish(w)
  BY <1>1, FinishMoves DEF Finish
<1>2. ASSUME NEW u, NEW p, NEW blind, ReadOn(w, p, blind, u),
             MoveFits(u, file), BackFits(u, file)
      PROVE  MovesFit'
  BY <1>0, <1>2, MoveStep DEF ReadOn
<1>3. CASE (ProbeWrite(w) \/ ProbeDelete(w)) /\ ~Finish(w)
  <2>1. t.op # "move"
    BY <1>3 DEF ProbeWrite, ProbeDelete
  <2> DEFINE u == [t EXCEPT !.pc = "read"]
             v == [t EXCEPT !.pc = "put", !.new = FreshNote(t, t.src[1])]
             d == [t EXCEPT !.pc = "dread", !.del = t.src]
  <2>2. u.op = t.op /\ v.op = t.op /\ d.op = t.op
    BY <1>0 DEF Task
  <2>3. PICK blind \in Blind : \E x \in {u, v, d} : ReadOn(w, t.src, blind, x)
    BY <1>3 DEF ProbeWrite, ProbeDelete
  <2> HIDE DEF u, v, d
  <2>4. PICK x \in {u, v, d} : ReadOn(w, t.src, blind, x)
    BY <2>3
  <2>5. MoveFits(x, file) /\ BackFits(x, file)
    BY <2>1, <2>2, NoMove
  <2> QED
    BY <1>2, <2>4, <2>5
<1>4. CASE ProbeSource(w) /\ ~Finish(w)
  <2> DEFINE u == [t EXCEPT !.pc = "probe2"]
  <2>1. PICK blind \in Blind : ReadOn(w, t.src, blind, u)
    BY <1>4 DEF ProbeSource
  <2>2. MoveFits(u, file) /\ BackFits(u, file)
    BY <1>0 DEF Task, MoveFits, BackFits
  <2> QED
    BY <1>2, <2>1, <2>2
<1>5. CASE ProbeDestination(w) /\ ~Finish(w)
  <2> DEFINE u == [t EXCEPT !.pc = "read"]
  <2>1. PICK blind \in Blind : ~Exists(t.dst, blind) /\ ReadOn(w, t.dst, blind, u)
    BY <1>5 DEF ProbeDestination
  <2>2. file[t.dst] = None
    BY <1>0, <2>1 DEF Exists
  <2>3. MoveFits(u, file) /\ BackFits(u, file)
    BY <1>0, <2>2 DEF MoveFits, BackFits, Task
  <2> QED
    BY <1>2, <2>1, <2>3
<1>6. CASE ReadSource(w) /\ ~Finish(w)
  <2> DEFINE m == IF t.op = "move" THEN file[t.src] ELSE Merged(file[t.src], t)
             u == [t EXCEPT !.pc = "put", !.new = m]
  <2>1. PICK blind \in Blind : ReadOn(w, t.src, blind, u)
    BY <1>0, <1>6 DEF ReadSource
  <2>2. t.op = "move" => m = file[t.src]
    OBVIOUS
  <2> HIDE DEF m
  <2>3. MoveFits(u, file) /\ BackFits(u, file)
    BY <1>0, <1>6, <2>2 DEF MoveFits, BackFits, Task, ReadSource
  <2> QED
    BY <1>2, <2>1, <2>3
<1>7. CASE ReadBack(w) /\ ~Finish(w)
  <2> DEFINE d == IF file[t.dst] = t.new THEN t.src ELSE t.dst
             u == [t EXCEPT !.pc = "dread", !.del = d]
  <2>1. PICK blind \in Blind : file[t.dst] # None /\ ReadOn(w, t.dst, blind, u)
    BY <1>0, <1>7 DEF ReadBack
  <2>2. t.op = "move" => file[t.dst] = t.new /\ d = t.src
    BY <1>0, <1>7, <2>1 DEF BackFits, ReadBack
  <2> HIDE DEF d
  <2>3. MoveFits(u, file) /\ BackFits(u, file)
    BY <1>0, <1>7, <2>2 DEF MoveFits, BackFits, Task, ReadBack
  <2> QED
    BY <1>2, <2>1, <2>3
<1>8. CASE DeleteRead(w) /\ ~Finish(w)
  <2> DEFINE u == [t EXCEPT !.pc = "dtrash", !.copy = file[t.del]]
  <2>1. PICK blind \in Blind : ReadOn(w, t.del, blind, u)
    BY <1>0, <1>8 DEF DeleteRead
  <2>2. MoveFits(u, file) /\ BackFits(u, file)
    BY <1>0, <1>8 DEF MoveFits, BackFits, Task, DeleteRead
  <2> QED
    BY <1>2, <2>1, <2>2
<1> QED
  BY <1>1, <1>3, <1>4, <1>5, <1>6, <1>7, <1>8

LEMMA SlugMoves ==
    ASSUME TypeInv, Alone, MovesFit, NEW w \in Worker, ProbeSlug(w)
    PROVE  MovesFit'
<1> DEFINE t == wk[w]
           p == <<AtomDir, AtomNames[t.slot]>>
<1>0. t \in Task /\ t.op # "move" /\ Keep
  BY TaskAtHand DEF ProbeSlug, MovesFit, MoveFits
<1>1. CASE Finish(w)
  BY <1>1, FinishMoves DEF Finish
<1>2. CASE ~Finish(w)
  <2> DEFINE on == [t EXCEPT !.slot = @ + 1]
             go == [t EXCEPT !.pc = "put", !.dst = p, !.new = FreshNote(t, AtomDir)]
  <2>1. PICK blind \in Blind : ReadOn(w, p, blind, on) \/ ReadOn(w, p, blind, go)
    BY <1>2 DEF ProbeSlug
  <2>2. on.op # "move" /\ go.op # "move"
    BY <1>0 DEF Task
  <2> HIDE DEF on, go
  <2> QED
    BY <2>1, <2>2, NoMove, MoveStep DEF ReadOn
<1> QED
  BY <1>1, <1>2

LEMMA AuditMoves ==
    ASSUME TypeInv, Alone, MovesFit, NEW w \in Worker,
           Scan(w) \/ ScanDone(w) \/ ProbeCollision(w)
    PROVE  MovesFit'
<1> DEFINE t == wk[w]
<1>0. t \in Task /\ (~ScanDone(w) => t.op # "move")
  BY TaskAtHand DEF Scan, ProbeCollision, MovesFit, MoveFits
<1>1. CASE ScanDone(w)
  BY <1>1, FinishMoves DEF ScanDone, Finish
<1>2. ASSUME NEW u, wk' = [wk EXCEPT ![w] = u], u.op = t.op, ~ScanDone(w)
      PROVE  MovesFit'
  BY <1>0, <1>2, NoMove, MoveStep
<1>3. CASE Scan(w)
  <2> DEFINE skip(p) == [t EXCEPT !.todo = @ \ {p}]
             away(p) == [skip(p) EXCEPT !.pc = "probe2", !.src = p,
                                        !.dst = HomePath(p, file[p]),
                                        !.new = Healed(file[p]), !.copy = file[p]]
             here(p) == [skip(p) EXCEPT !.pc = "put", !.src = p, !.dst = p,
                                        !.new = Healed(file[p])]
  <2>1. PICK p \in t.todo : \E u \in {skip(p), away(p), here(p)} : wk' = [wk EXCEPT ![w] = u]
    BY <1>3 DEF Scan, ReadOn
  <2>2. \A u \in {skip(p), away(p), here(p)} : u.op = t.op
    BY <1>0 DEF Task
  <2>3. ~ScanDone(w)
    BY <1>3 DEF Scan, ScanDone
  <2> HIDE DEF skip, away, here
  <2> QED
    BY <1>2, <2>1, <2>2, <2>3
<1>4. CASE ProbeCollision(w)
  <2> DEFINE s == [t EXCEPT !.pc = "scan", !.new = None, !.copy = None]
             go(q) == [t EXCEPT !.pc = "put", !.dst = q, !.copy = None]
  <2>1. PICK q : wk' = [wk EXCEPT ![w] = s] \/ wk' = [wk EXCEPT ![w] = go(q)]
    BY <1>4 DEF ProbeCollision, ReadOn
  <2>2. s.op = t.op /\ go(q).op = t.op
    BY <1>0 DEF Task
  <2>3. ~ScanDone(w)
    BY <1>4 DEF ProbeCollision, ScanDone
  <2> HIDE DEF s, go
  <2> QED
    BY <1>2, <2>1, <2>2, <2>3
<1> QED
  BY <1>1, <1>3, <1>4

\* A PUT that lands, fails late or lands nowhere is one the read-back tells apart.
LEMMA PutMoves ==
    ASSUME TypeInv, Alone, MovesFit, NEW w \in Worker,
           PutLands(w) \/ PutFails(w) \/ PutLandsNowhere(w)
    PROVE  MovesFit'
<1> DEFINE t == wk[w]
           u == AfterPut(t)
<1>0. /\ t \in Task /\ t.pc = "put" /\ t.new \in Note /\ t.src \in Path /\ t.dst \in Path
      /\ MoveFits(t, file)
  BY TaskAtHand DEF MovesFit, TaskFit, PutLands, PutFails, PutLandsNowhere
<1>1. CASE PutFails(w)
  BY <1>1, FinishMoves DEF PutFails, Finish
<1>2. CASE PutLands(w) \/ PutLandsNowhere(w)
  <2>1. wk' = [wk EXCEPT ![w] = u]
    BY <1>2 DEF PutLands, PutLandsNowhere
  <2>2. CASE t.op # "move"
    <3>1. u.op # "move"
      BY <1>0, <2>2 DEF AfterPut, Idle, Task
    <3> QED
      BY <2>1, <3>1, NoMove, MoveStep
  <2>3. CASE t.op = "move"
    <3>1. t.new = file[t.src] /\ file[t.dst] = None /\ t.src # t.dst
      BY <1>0, <2>3, NoneAssumption DEF MoveFits
    <3>2. file' = file \/ file' = [file EXCEPT ![t.dst] = t.new]
      BY <1>2 DEF PutLands, PutLandsNowhere, Store, Keep
    <3>3. file'[t.src] = t.new /\ file'[t.dst] \in {None, t.new}
      BY <1>0, <3>1, <3>2 DEF TypeInv, VaultType
    <3>4. u.pc = "back" /\ u.src = t.src /\ u.dst = t.dst /\ u.new = t.new
      BY <1>0, <2>3 DEF AfterPut, Task
    <3>5. MoveFits(u, file') /\ BackFits(u, file')
      BY <3>1, <3>3, <3>4 DEF MoveFits, BackFits
    <3> QED
      BY <2>1, <3>5, MoveStep
  <2> QED
    BY <2>2, <2>3
<1> QED
  BY <1>1, <1>2

LEMMA RemovalMoves ==
    ASSUME TypeInv, Alone, MovesFit, NEW w \in Worker,
           \/ TrashLands(w) \/ TrashFails(w) \/ TrashLandsNowhere(w)
           \/ Remove(w) \/ RemoveFails(w)
    PROVE  MovesFit'
<1> DEFINE t == wk[w]
           u == [t EXCEPT !.pc = "drm"]
<1>0. t \in Task /\ MoveFits(t, file)
  BY TaskAtHand DEF MovesFit
<1>1. CASE wk' = [wk EXCEPT ![w] = Idle]
  BY <1>1, FinishMoves
<1>2. CASE (TrashLands(w) \/ TrashLandsNowhere(w)) /\ wk' = [wk EXCEPT ![w] = u]
  <2>1. MoveFits(u, file') /\ BackFits(u, file')
    BY <1>0, <1>2 DEF TrashLands, TrashLandsNowhere, MoveFits, BackFits, Task
  <2> QED
    BY <1>2, <2>1, MoveStep
<1>3. CASE Remove(w) /\ wk' = [wk EXCEPT ![w] = AfterDelete(t)]
  <2> DEFINE s == [t EXCEPT !.pc = "scan", !.new = None, !.copy = None]
  <2>1. CASE AfterDelete(t) = Idle
    BY <1>1, <1>3, <2>1
  <2>2. CASE t.op = "audit"
    <3>1. s.op # "move"
      BY <1>0, <2>2 DEF Task
    <3>2. MoveFits(s, file') /\ BackFits(s, file')
      BY <3>1, NoMove
    <3>3. AfterDelete(t) = s
      BY <2>2 DEF AfterDelete
    <3> QED
      BY <1>3, <3>2, <3>3, MoveStep
  <2> QED
    BY <2>1, <2>2 DEF AfterDelete
<1>4. \/ wk' = [wk EXCEPT ![w] = Idle]
      \/ (TrashLands(w) \/ TrashLandsNowhere(w)) /\ wk' = [wk EXCEPT ![w] = u]
      \/ Remove(w) /\ wk' = [wk EXCEPT ![w] = AfterDelete(t)]
  BY DEF TrashLands, TrashFails, TrashLandsNowhere, Remove, RemoveFails, Finish
<1> QED
  BY <1>1, <1>2, <1>3, <1>4

LEMMA NextMoves == Alone /\ TypeInv /\ MovesFit /\ [Next]_vars => MovesFit'
<1> SUFFICES ASSUME Alone, TypeInv, MovesFit, [Next]_vars PROVE MovesFit'
  OBVIOUS
<1>1. CASE UNCHANGED vars
  BY <1>1 DEF vars, MovesFit, MoveFits, BackFits
<1>2. CASE Crash
  <2>1. PICK w \in Worker : TRUE
    BY <1>2 DEF Crash
  <2>2. wk' = [wk EXCEPT ![w] = Idle]
    BY <1>2 DEF Crash, Alone, TypeInv, TaskType
  <2> QED
    BY <2>2, FinishMoves
<1>3. ~Human
  BY DEF Alone, Human, HumanSave, HumanDelete
<1>4. ASSUME NEW w \in Worker, Step(w)
      PROVE  MovesFit'
  BY <1>4, ReadMoves, SlugMoves, AuditMoves, PutMoves, RemovalMoves DEF Step
<1> QED
  BY <1>1, <1>2, <1>3, <1>4, StartMoves DEF Next

\* What MoveSurvivesLies asks of one step, one request and one path.
MoveHoldsAt(w, p) ==
    (Changes(w) /\ wk[w].op = "move" /\ file[p] # None) => HeldAfter(file[p])

LEMMA StepHoldsMoved ==
    ASSUME TypeInv, Alone, MovesFit, [Next]_vars, NEW w \in Worker, NEW p \in Path
    PROVE  MoveHoldsAt(w, p)
<1> DEFINE t == wk[w]
<1>1. CASE file'[p] = file[p]
  BY <1>1 DEF MoveHoldsAt, HeldAfter
<1>2. CASE file'[p] # file[p]
  <2> SUFFICES ASSUME t.op = "move", file[p] # None PROVE HeldAfter(file[p])
    BY DEF MoveHoldsAt
  <2>0. /\ t \in Task /\ t.src \in Path /\ t.dst \in Path /\ t.del \in Path
        /\ MoveFits(t, file)
    BY TaskAtHand DEF MovesFit
  <2>1. PutLands(w) \/ PutFails(w) \/ Remove(w)
    <3>1. PICK v \in Worker : Start(v) \/ Step(v)
      BY <1>2 DEF Next, vars, Alone, Human, HumanSave, HumanDelete, Crash, Keep
    <3>2. v = w
      BY DEF Alone
    <3>3. ~Start(w)
      BY <1>2 DEF Start, StartWrite, StartAtom, StartCompute, StartDelete, StartMove,
                  StartAudit, Begin
    <3> QED
      BY <1>2, <3>1, <3>2, <3>3
         DEF Step, Keep, ProbeWrite, ProbeDelete, ProbeSource, ProbeDestination, ProbeSlug,
             ReadSource, PutLandsNowhere, ReadBack, DeleteRead, TrashLands, TrashFails,
             TrashLandsNowhere, RemoveFails, Scan, ScanDone, ProbeCollision
  <2>2. CASE PutLands(w) \/ PutFails(w)
    <3>1. t.pc = "put" /\ file' = [file EXCEPT ![t.dst] = t.new]
      BY <1>2, <2>2 DEF PutLands, PutFails, Store
    <3>2. p = t.dst
      BY <1>2, <3>1 DEF TypeInv, VaultType
    <3>3. file[p] = None
      BY <2>0, <3>1, <3>2 DEF MoveFits
    <3> QED
      BY <3>3
  <2>3. CASE Remove(w)
    <3>1. t.pc = "drm" /\ file' = [file EXCEPT ![t.del] = None]
      BY <2>3 DEF Remove, Store
    <3>2. p = t.del /\ p = t.src /\ t.src # t.dst /\ file[t.src] = file[t.dst]
      BY <1>2, <2>0, <3>1 DEF TypeInv, VaultType, MoveFits
    <3>3. file'[t.dst] = file[p]
      BY <2>0, <3>1, <3>2 DEF TypeInv, VaultType
    <3> QED
      BY <2>0, <3>3 DEF HeldAfter
  <2> QED
    BY <2>1, <2>2, <2>3
<1> QED
  BY <1>1, <1>2

\* Alone with the vault, and with reads that answer truly, a move never makes a text
\* unrecoverable -- whatever its PUTs claim, whichever of its writes fails and wherever the
\* process dies: the read-back is what lets go of the source.
THEOREM LiesLoseNoMove == Alone => (Spec => MoveSurvivesLies)
<1> SUFFICES ASSUME Alone PROVE Spec => MoveSurvivesLies
  OBVIOUS
<1>1. Init => TypeInv /\ MovesFit
  <2>1. Init => MovesFit
    BY DEF Init, MovesFit, MoveFits, BackFits, Idle
  <2> QED
    BY <2>1, InitTypes
<1>2. TypeInv /\ MovesFit /\ [Next]_vars => (TypeInv /\ MovesFit)'
  BY NextTypes, NextMoves
<1>3. TypeInv /\ MovesFit /\ [Next]_vars =>
        [\A w \in Worker, p \in Path :
          (Changes(w) /\ wk[w].op = "move" /\ file[p] # None) => HeldAfter(file[p])]_vars
  BY StepHoldsMoved DEF MoveHoldsAt
<1> QED
  BY <1>1, <1>2, <1>3, PTL DEF Spec, MoveSurvivesLies
=============================================================================
