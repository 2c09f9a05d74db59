---------------------------- MODULE GateWritesLoss ----------------------------
(***************************************************************************)
(* When no PUT is acknowledged without effect, no request loses a text it  *)
(* has seen: ViewsFit is inductive, and NothingSeenIsLost follows from it. *)
(* With what the checks allowed a verb (Allowed) and the body it may send  *)
(* (BodyFits), so do ProtectionHolds and AgentKeepsGuardedBodies.          *)
(***************************************************************************)
EXTENDS GateWritesProofs

Inv == TypeInv /\ ViewsFit

\* The trash only grows, in the middle of whatever else a step does.
TrashGrows ==
    \A p \in Path : \A i \in DOMAIN trash[p] : i \in DOMAIN trash'[p] /\ trash'[p][i] = trash[p][i]

\* A view survives a step that leaves the paths it still counts as seen alone.
LEMMA ViewKept ==
    ASSUME NEW t \in Task, NEW U \in SUBSET Path, NEW U2 \in SUBSET Path,
           ViewFits(t, U, file, trash), U \subseteq U2, TrashGrows,
           \A p \in Path \ U2 : file'[p] = file[p]
    PROVE  ViewFits(t, U2, file', trash')
<1>1. /\ t.src \in Path /\ t.dst \in Path /\ t.del \in Path
      /\ \A p \in Path : p \notin U2 => p \notin U /\ file'[p] = file[p]
  BY DEF Task
<1>2. t.pc = "idle" => U2 = Path
  BY DEF ViewFits
<1>3. (t.pc = "drm" /\ t.del \notin U2) =>
          file'[t.del] = t.copy /\ \E i \in DOMAIN trash'[t.del] : trash'[t.del][i] = t.copy
  BY <1>1 DEF ViewFits, TrashGrows
<1>4. (t.pc = "put" /\ t.dst \notin U2 /\ file'[t.dst] # None) =>
          t.new = file'[t.dst] \/ DerivedFrom(file'[t.dst], t)
  BY <1>1 DEF ViewFits
<1>5. (t.pc = "probe2" /\ t.op = "audit") =>
          /\ t.src # t.dst
          /\ t.src \notin U2 => file'[t.src] # None /\ t.new = Healed(file'[t.src])
  BY <1>1 DEF ViewFits
<1> QED
  BY <1>1, <1>2, <1>3, <1>4, <1>5 DEF ViewFits

\* How the task that moves and the others share the burden.
LEMMA ViewStep ==
    ASSUME Inv, TypeInv', TrashGrows, NEW w \in Worker,
           \A v \in Worker \ {w} : /\ wk'[v] = wk[v] /\ unseen[v] \subseteq unseen'[v]
                                   /\ \A p \in Path \ unseen'[v] : file'[p] = file[p],
           ViewFits(wk'[w], unseen'[w], file', trash')
    PROVE  ViewsFit'
<1>1. ASSUME NEW v \in Worker PROVE ViewFits(wk'[v], unseen'[v], file', trash')
  <2>1. CASE v = w
    BY <2>1
  <2>2. CASE v # w
    <3>1. wk[v] \in Task /\ unseen[v] \in SUBSET Path /\ unseen'[v] \in SUBSET Path
      BY DEF Inv, TypeInv, TaskType
    <3>2. ViewFits(wk[v], unseen[v], file, trash)
      BY DEF Inv, ViewsFit
    <3>3. v \in Worker \ {w}
      BY <2>2
    <3>4. /\ wk'[v] = wk[v] /\ unseen[v] \subseteq unseen'[v]
          /\ \A p \in Path \ unseen'[v] : file'[p] = file[p]
      BY <3>3
    <3>5. ViewFits(wk[v], unseen'[v], file', trash')
      BY <3>1, <3>2, <3>4, ViewKept
    <3> QED
      BY <3>4, <3>5
  <2> QED
    BY <2>1, <2>2
<1> QED
  BY <1>1 DEF ViewsFit, ViewFits, DerivedFrom, Merged, NextAuthorType, Healed

\* A request that has read nothing has nothing to keep current.
LEMMA BlindFits ==
    ASSUME NEW t \in Task, NEW f, NEW tr, t.op = "write" => t.src = t.dst,
           t.pc \notin {"read", "probe2"}, t.pc = "slug" => t.op = "atom",
           t.pc = "scan" => t.op = "audit"
    PROVE  ViewFits(t, Path, f, tr)
  BY DEF ViewFits, Task

LEMMA IdleFits == \A f, tr : ViewFits(Idle, Path, f, tr)
<1>1. Idle.pc = "idle" /\ Idle.op = "write" /\ Idle.src = Idle.dst
  BY DEF Idle
<1> QED
  BY <1>1, IdleType, BlindFits

LEMMA KeepGrows == UNCHANGED trash => TrashGrows
  BY DEF TrashGrows

LEMMA FinishFits ==
    ASSUME Inv, TypeInv', NEW w \in Worker, Finish(w), UNCHANGED file, TrashGrows
    PROVE  ViewsFit'
<1>1. wk'[w] = Idle /\ unseen'[w] = Path
  BY DEF Finish, Inv, TypeInv, TaskType
<1>2. \A v \in Worker \ {w} : /\ wk'[v] = wk[v] /\ unseen[v] \subseteq unseen'[v]
                              /\ \A p \in Path \ unseen'[v] : file'[p] = file[p]
  BY DEF Finish, Inv, TypeInv, TaskType
<1> QED
  BY <1>1, <1>2, IdleFits, ViewStep

LEMMA ReadOnFits ==
    ASSUME Inv, TypeInv', NEW w \in Worker, NEW p \in Path, NEW blind, NEW t,
           ReadOn(w, p, blind, t), Keep,
           blind => ViewFits(t, unseen[w] \cup {p}, file, trash),
           ~blind => ViewFits(t, unseen[w] \ {p}, file, trash)
    PROVE  ViewsFit'
<1>1. /\ wk'[w] = t
      /\ unseen'[w] = IF blind THEN unseen[w] \cup {p} ELSE unseen[w] \ {p}
      /\ UNCHANGED <<file, trash>>
  BY DEF ReadOn, Keep, Inv, TypeInv, TaskType
<1>2. \A v \in Worker \ {w} : /\ wk'[v] = wk[v] /\ unseen[v] \subseteq unseen'[v]
                              /\ \A q \in Path \ unseen'[v] : file'[q] = file[q]
  BY <1>1 DEF ReadOn, Inv, TypeInv, TaskType
<1>3. ViewFits(wk'[w], unseen'[w], file', trash')
  BY <1>1
<1> QED
  BY <1>1, <1>2, <1>3, KeepGrows, ViewStep

LEMMA StoreFits ==
    ASSUME Inv, TypeInv', NEW w \in Worker, NEW p \in Path, NEW n, NEW t,
           wk' = [wk EXCEPT ![w] = t], Store(w, p, n), UNCHANGED trash,
           t = Idle \/ ViewFits(t, unseen[w], file', trash)
    PROVE  ViewsFit'
<1>1. /\ wk'[w] = t
      /\ unseen'[w] = IF t = Idle THEN Path ELSE unseen[w]
  BY DEF Store, Inv, TypeInv, TaskType
<1>2. \A v \in Worker \ {w} : /\ wk'[v] = wk[v] /\ unseen[v] \subseteq unseen'[v]
                              /\ \A q \in Path \ unseen'[v] : file'[q] = file[q]
  BY DEF Store, Inv, TypeInv, TaskType, VaultType
<1>3. ViewFits(wk'[w], unseen'[w], file', trash')
  BY <1>1, IdleFits
<1> QED
  BY <1>2, <1>3, KeepGrows, ViewStep

-----------------------------------------------------------------------------
(* Requests arrive having read nothing. *)

LEMMA BeginFits ==
    ASSUME Inv, TypeInv', NEW w \in Worker, NEW op, NEW t, Begin(w, op, t),
           t.op = "write" => t.src = t.dst, t.pc \notin {"read", "probe2"},
           t.pc = "slug" => t.op = "atom", t.pc = "scan" => t.op = "audit"
    PROVE  ViewsFit'
<1>1. wk'[w] = t /\ t \in Task /\ unseen'[w] = Path
  <2>1. wk[w].pc = "idle" /\ wk' = [wk EXCEPT ![w] = t] /\ unseen' = unseen
    BY DEF Begin
  <2>2. wk'[w] = t
    BY <2>1 DEF Inv, TypeInv, TaskType
  <2>3. t \in Task
    BY <2>2 DEF TypeInv, TaskType
  <2>4. unseen[w] = Path
    BY <2>1 DEF Inv, ViewsFit, ViewFits
  <2> QED
    BY <2>1, <2>2, <2>3, <2>4
<1>2. \A v \in Worker \ {w} : /\ wk'[v] = wk[v] /\ unseen[v] \subseteq unseen'[v]
                              /\ \A p \in Path \ unseen'[v] : file'[p] = file[p]
  BY DEF Begin, Inv, TypeInv, TaskType
<1>3. TrashGrows
  BY KeepGrows DEF Begin
<1>4. ViewFits(t, Path, file', trash')
  BY <1>1, BlindFits
<1> QED
  BY <1>1, <1>2, <1>3, <1>4, ViewStep

LEMMA StartFits ==
    ASSUME Inv, TypeInv', NEW w \in Worker, Start(w)
    PROVE  ViewsFit'
<1>1. ASSUME NEW p \in Path, NEW a \in Actors, NEW m, NEW b, StartWrite(w, p, a, m, b)
      PROVE  ViewsFit'
  BY <1>1, BeginFits DEF StartWrite, Idle
<1>2. ASSUME NEW a \in Actors, StartAtom(w, a)
      PROVE  ViewsFit'
  BY <1>2, BeginFits DEF StartAtom, Idle
<1>3. ASSUME NEW p \in Path, StartCompute(w, p)
      PROVE  ViewsFit'
  BY <1>3, BeginFits DEF StartCompute, Idle
<1>4. ASSUME NEW p \in Path, NEW a \in Actors, StartDelete(w, p, a)
      PROVE  ViewsFit'
  BY <1>4, BeginFits DEF StartDelete, Idle
<1>5. ASSUME NEW p \in Path, NEW q \in Path, NEW a \in Actors, StartMove(w, p, q, a)
      PROVE  ViewsFit'
  BY <1>5, BeginFits DEF StartMove, Idle
<1>6. ASSUME NEW s, StartAudit(w, s)
      PROVE  ViewsFit'
  BY <1>6, BeginFits DEF StartAudit, Idle
<1> QED
  BY <1>1, <1>2, <1>3, <1>4, <1>5, <1>6 DEF Start

-----------------------------------------------------------------------------
(* The steps of a running verb. *)

LEMMA ProbeFits ==
    ASSUME Inv, TypeInv', NEW w \in Worker,
           ProbeWrite(w) \/ ProbeDelete(w) \/ ProbeSource(w) \/ ProbeDestination(w)
    PROVE  ViewsFit'
<1> DEFINE t == wk[w]
<1>0. t \in Task /\ t.src \in Path /\ t.dst \in Path /\ ViewFits(t, unseen[w], file, trash)
  BY TaskAtHand DEF Inv, ViewsFit
<1>1. Keep /\ TrashGrows /\ UNCHANGED file
  BY KeepGrows DEF Keep, ProbeWrite, ProbeDelete, ProbeSource, ProbeDestination
<1>2. CASE Finish(w)
  BY <1>1, <1>2, FinishFits
<1>3. CASE ProbeWrite(w) /\ ~Finish(w)
  <2> DEFINE u == [t EXCEPT !.pc = "read"]
             v == [t EXCEPT !.pc = "put", !.new = FreshNote(t, t.src[1])]
  <2>1. PICK blind \in Blind : \/ ReadOn(w, t.src, blind, u)
                               \/ ~Exists(t.src, blind) /\ ReadOn(w, t.src, blind, v)
    BY <1>3 DEF ProbeWrite
  <2>2. t.op = "write" /\ t.src = t.dst
    BY <1>0, <1>3 DEF ProbeWrite, ViewFits
  <2>3. \A U : ViewFits(u, U, file, trash)
    BY <1>0, <2>2 DEF ViewFits, Task
  <2>4. CASE ReadOn(w, t.src, blind, u)
    BY <1>0, <1>1, <2>3, <2>4, ReadOnFits
  <2>5. CASE ~Exists(t.src, blind) /\ ReadOn(w, t.src, blind, v)
    <3>1. blind => ViewFits(v, unseen[w] \cup {t.src}, file, trash)
      BY <1>0, <2>2 DEF ViewFits, Task
    <3>2. ~blind => ViewFits(v, unseen[w] \ {t.src}, file, trash)
      BY <1>0, <2>2, <2>5 DEF ViewFits, Task, Exists
    <3> QED
      BY <1>0, <1>1, <2>5, <3>1, <3>2, ReadOnFits
  <2> QED
    BY <2>1, <2>4, <2>5
<1>4. CASE ProbeDelete(w) /\ ~Finish(w)
  <2> DEFINE u == [t EXCEPT !.pc = "dread", !.del = t.src]
  <2>1. PICK blind \in Blind : ReadOn(w, t.src, blind, u)
    BY <1>4 DEF ProbeDelete
  <2>2. \A U : ViewFits(u, U, file, trash)
    BY <1>0, <1>4 DEF ViewFits, Task, ProbeDelete
  <2> QED
    BY <1>0, <1>1, <2>1, <2>2, ReadOnFits
<1>5. CASE ProbeSource(w) /\ ~Finish(w)
  <2> DEFINE u == [t EXCEPT !.pc = "probe2"]
  <2>1. PICK blind \in Blind : ReadOn(w, t.src, blind, u)
    BY <1>5 DEF ProbeSource
  <2>2. \A U : ViewFits(u, U, file, trash)
    BY <1>0, <1>5 DEF ViewFits, Task, ProbeSource
  <2> QED
    BY <1>0, <1>1, <2>1, <2>2, ReadOnFits
<1>6. CASE ProbeDestination(w) /\ ~Finish(w)
  <2> DEFINE u == [t EXCEPT !.pc = "read"]
  <2>1. PICK blind \in Blind : ~Exists(t.dst, blind) /\ ReadOn(w, t.dst, blind, u)
    BY <1>6 DEF ProbeDestination
  <2>2. t.op = "move"
    BY <1>6 DEF ProbeDestination
  <2>3. blind => ViewFits(u, unseen[w] \cup {t.dst}, file, trash)
    BY <1>0, <2>2 DEF ViewFits, Task
  <2>4. ~blind => ViewFits(u, unseen[w] \ {t.dst}, file, trash)
    BY <1>0, <2>1, <2>2 DEF ViewFits, Task, Exists
  <2> QED
    BY <1>0, <1>1, <2>1, <2>3, <2>4, ReadOnFits
<1> QED
  BY <1>2, <1>3, <1>4, <1>5, <1>6

LEMMA SlugFits ==
    ASSUME Inv, TypeInv', NEW w \in Worker, ProbeSlug(w)
    PROVE  ViewsFit'
<1> DEFINE t == wk[w]
           p == <<AtomDir, AtomNames[t.slot]>>
           on == [t EXCEPT !.slot = @ + 1]
           go == [t EXCEPT !.pc = "put", !.dst = p, !.new = FreshNote(t, AtomDir)]
<1>0. t \in Task /\ ViewFits(t, unseen[w], file, trash) /\ t.pc = "slug" /\ Keep
  BY TaskAtHand DEF Inv, ViewsFit, ProbeSlug
<1>1. CASE Finish(w)
  BY <1>0, <1>1, FinishFits, KeepGrows DEF Keep
<1>2. CASE ~Finish(w)
  <2>1. PICK blind \in Blind : \/ ReadOn(w, p, blind, on)
                               \/ ~Exists(p, blind) /\ ReadOn(w, p, blind, go)
    BY <1>2 DEF ProbeSlug
  <2>2. t.slot \in Nat /\ t.slot > 0 /\ ~(t.slot > Len(AtomNames))
    <3>1. t.slot \in Nat /\ t.slot > 0
      BY <1>0 DEF Inv, TypeInv, TaskFit, Task
    <3> QED
      BY <1>2, <3>1 DEF ProbeSlug
  <2>3. AtomNames[t.slot] \in Name
    BY <2>2, GateAssumption
  <2>4. p \in Path
    BY <2>3, GateAssumption DEF Path
  <2>5. \A U : ViewFits(on, U, file, trash)
    BY <1>0 DEF ViewFits, Task
  <2>6. CASE ReadOn(w, p, blind, on)
    BY <1>0, <2>4, <2>5, <2>6, ReadOnFits
  <2>7. CASE ~Exists(p, blind) /\ ReadOn(w, p, blind, go)
    <3>1. t.op = "atom"
      BY <1>0 DEF ViewFits
    <3>2. blind => ViewFits(go, unseen[w] \cup {p}, file, trash)
      BY <1>0, <3>1 DEF ViewFits, Task
    <3>3. ~blind => ViewFits(go, unseen[w] \ {p}, file, trash)
      BY <1>0, <2>7, <3>1 DEF ViewFits, Task, Exists
    <3> QED
      BY <1>0, <2>4, <2>7, <3>2, <3>3, ReadOnFits
  <2> QED
    BY <2>1, <2>6, <2>7
<1> QED
  BY <1>1, <1>2

LEMMA ReadFits ==
    ASSUME Inv, TypeInv', NEW w \in Worker, ReadSource(w) \/ ReadBack(w) \/ DeleteRead(w)
    PROVE  ViewsFit'
<1> DEFINE t == wk[w]
           U == unseen[w]
<1>0. /\ t \in Task /\ t.src \in Path /\ t.dst \in Path /\ t.del \in Path
      /\ ViewFits(t, U, file, trash) /\ Keep /\ TrashGrows /\ UNCHANGED file
  BY TaskAtHand, KeepGrows DEF Inv, ViewsFit, Keep, ReadSource, ReadBack, DeleteRead
<1>1. CASE Finish(w)
  BY <1>0, <1>1, FinishFits
<1>2. CASE ReadSource(w) /\ ~Finish(w)
  <2> DEFINE n == file[t.src]
             m == IF t.op = "move" THEN n ELSE Merged(n, t)
             u == [t EXCEPT !.pc = "put", !.new = m]
  <2>1. PICK blind \in Blind : ~blind /\ n # None /\ ReadOn(w, t.src, blind, u)
    BY <1>2 DEF ReadSource
  <2>2. /\ t.pc = "read" /\ t.op \in {"write", "move"}
        /\ t.op = "write" => t.src = t.dst
        /\ (t.op = "move" /\ t.dst \notin U) => file[t.dst] = None
    BY <1>0, <1>2 DEF ReadSource, ViewFits
  <2>3. ViewFits(u, U \ {t.src}, file, trash)
    <3>1. CASE t.op = "move"
      BY <1>0, <2>2, <3>1 DEF ViewFits, Task
    <3>2. CASE t.op = "write"
      <4>1. m = Merged(file[t.dst], u)
        BY <1>0, <2>2, <3>2 DEF Merged, Task
      <4> HIDE DEF m
      <4>2. DerivedFrom(file[t.dst], u)
        BY <1>0, <4>1 DEF DerivedFrom, Task
      <4> QED
        BY <1>0, <2>2, <3>2, <4>2 DEF ViewFits, Task
    <3> QED
      BY <2>2, <3>1, <3>2
  <2> QED
    BY <1>0, <2>1, <2>3, ReadOnFits
<1>3. CASE ReadBack(w) /\ ~Finish(w)
  <2> DEFINE u == [t EXCEPT !.pc = "dread",
                            !.del = IF file[t.dst] = t.new THEN t.src ELSE t.dst]
  <2>1. PICK blind \in Blind : ReadOn(w, t.dst, blind, u)
    BY <1>3 DEF ReadBack
  <2>2. \A V : ViewFits(u, V, file, trash)
    BY <1>0 DEF ViewFits, Task
  <2> QED
    BY <1>0, <2>1, <2>2, ReadOnFits
<1>4. CASE DeleteRead(w) /\ ~Finish(w)
  <2> DEFINE n == file[t.del]
             u == [t EXCEPT !.pc = "dtrash", !.copy = n]
  <2>1. PICK blind \in Blind : ReadOn(w, t.del, blind, u)
    BY <1>4 DEF DeleteRead
  <2>2. \A V : ViewFits(u, V, file, trash)
    BY <1>0 DEF ViewFits, Task
  <2> QED
    BY <1>0, <2>1, <2>2, ReadOnFits
<1> QED
  BY <1>1, <1>2, <1>3, <1>4

LEMMA PutFits ==
    ASSUME Inv, TypeInv', NEW w \in Worker, PutLands(w) \/ PutFails(w) \/ PutLandsNowhere(w)
    PROVE  ViewsFit'
<1> DEFINE t == wk[w]
<1>0. /\ t \in Task /\ t.src \in Path /\ t.dst \in Path /\ t.pc = "put"
      /\ ViewFits(t, unseen[w], file, trash) /\ TrashGrows /\ UNCHANGED trash
  BY TaskAtHand, KeepGrows DEF Inv, ViewsFit, Keep, PutLands, PutFails, PutLandsNowhere
<1>1. AfterPut(t) = Idle \/ \A U, f : ViewFits(AfterPut(t), U, f, trash)
  BY <1>0 DEF AfterPut, ViewFits, Task
<1>2. CASE PutLands(w)
  BY <1>0, <1>1, <1>2, StoreFits DEF PutLands
<1>3. CASE PutFails(w)
  <2>1. CASE Finish(w) /\ UNCHANGED file
    BY <1>0, <2>1, FinishFits
  <2> QED
    BY <1>0, <1>3, <2>1, StoreFits DEF PutFails
<1>4. CASE PutLandsNowhere(w)
  <2>1. /\ wk'[w] = AfterPut(t)
        /\ unseen'[w] = IF AfterPut(t) = Idle THEN Path ELSE unseen[w]
        /\ UNCHANGED file
    BY <1>4 DEF PutLandsNowhere, Keep, Inv, TypeInv, TaskType
  <2>2. \A v \in Worker \ {w} : /\ wk'[v] = wk[v] /\ unseen[v] \subseteq unseen'[v]
                                /\ \A p \in Path \ unseen'[v] : file'[p] = file[p]
    BY <1>4, <2>1 DEF PutLandsNowhere, Inv, TypeInv, TaskType
  <2>3. ViewFits(wk'[w], unseen'[w], file', trash')
    BY <1>0, <1>1, <2>1, IdleFits
  <2> QED
    BY <1>0, <2>2, <2>3, ViewStep
<1> QED
  BY <1>2, <1>3, <1>4

LEMMA AppendKeeps ==
    ASSUME NEW s \in Seq(Note), NEW n \in Note, NEW r, r = Append(s, n)
    PROVE  /\ \A i \in DOMAIN s : i \in DOMAIN r /\ r[i] = s[i]
           /\ \E i \in DOMAIN r : r[i] = n
<1>1. DOMAIN s = 1 .. Len(s) /\ Len(s) \in Nat
  OBVIOUS
<1>2. DOMAIN r = 1 .. (Len(s) + 1)
  OBVIOUS
<1>3. r[Len(s) + 1] = n /\ \A i \in 1 .. Len(s) : r[i] = s[i]
  OBVIOUS
<1> QED
  BY <1>1, <1>2, <1>3

LEMMA TrashFits ==
    ASSUME ~PutLies, Inv, TypeInv', NEW w \in Worker,
           TrashLands(w) \/ TrashFails(w) \/ TrashLandsNowhere(w)
    PROVE  ViewsFit'
<1> DEFINE t == wk[w]
           u == [t EXCEPT !.pc = "drm"]
<1>0. /\ t \in Task /\ t.del \in Path /\ t.pc = "dtrash" /\ UNCHANGED file
      /\ ViewFits(t, unseen[w], file, trash)
  BY TaskAtHand DEF Inv, ViewsFit, Keep, TrashLands, TrashFails, TrashLandsNowhere
<1>1. CASE TrashLands(w)
  <2>1. trash \in [Path -> Seq(Note)] /\ t.copy \in Note
    BY <1>0 DEF Inv, TypeInv, VaultType, TaskFit
  <2>2. /\ \A p \in Path \ {t.del} : trash'[p] = trash[p]
        /\ trash'[t.del] = Append(trash[t.del], t.copy)
        /\ trash[t.del] \in Seq(Note)
    BY <1>0, <1>1, <2>1 DEF TrashLands
  <2>3. /\ \A i \in DOMAIN trash[t.del] :
             i \in DOMAIN trash'[t.del] /\ trash'[t.del][i] = trash[t.del][i]
        /\ \E i \in DOMAIN trash'[t.del] : trash'[t.del][i] = t.copy
    <3> DEFINE r == trash'[t.del]
               q == trash[t.del]
    <3>1. q \in Seq(Note) /\ t.copy \in Note /\ r = Append(q, t.copy)
      BY <2>1, <2>2
    <3> HIDE DEF r, q
    <3>2. /\ \A i \in DOMAIN q : i \in DOMAIN r /\ r[i] = q[i]
          /\ \E i \in DOMAIN r : r[i] = t.copy
      BY <3>1, AppendKeeps
    <3> QED
      BY <3>2 DEF r, q
  <2>4. TrashGrows
    BY <2>2, <2>3 DEF TrashGrows
  <2>5. CASE Finish(w)
    BY <1>0, <2>4, <2>5, FinishFits
  <2>6. CASE wk' = [wk EXCEPT ![w].pc = "drm"] /\ UNCHANGED unseen
    <3>1. wk'[w] = u
      BY <2>6 DEF Inv, TypeInv, TaskType
    <3>2. \A v \in Worker \ {w} : /\ wk'[v] = wk[v] /\ unseen[v] \subseteq unseen'[v]
                                  /\ \A p \in Path \ unseen'[v] : file'[p] = file[p]
      BY <1>0, <2>6 DEF Inv, TypeInv, TaskType
    <3>3. ViewFits(u, unseen[w], file, trash')
      BY <1>0, <2>3 DEF ViewFits, Task
    <3>4. ViewFits(wk'[w], unseen'[w], file', trash')
      BY <1>0, <2>6, <3>1, <3>3
    <3> QED
      BY <2>4, <3>2, <3>4, ViewStep
  <2> QED
    BY <1>1, <2>5, <2>6 DEF TrashLands
<1>2. CASE TrashFails(w)
  BY <1>2, FinishFits, KeepGrows DEF TrashFails, Keep
<1>3. CASE TrashLandsNowhere(w)
  BY <1>3 DEF TrashLandsNowhere
<1> QED
  BY <1>1, <1>2, <1>3

LEMMA RemoveFits ==
    ASSUME Inv, TypeInv', NEW w \in Worker, Remove(w) \/ RemoveFails(w)
    PROVE  ViewsFit'
<1> DEFINE t == wk[w]
<1>0. t \in Task /\ t.del \in Path /\ t.pc = "drm" /\ ViewFits(t, unseen[w], file, trash)
  BY TaskAtHand DEF Inv, ViewsFit, Remove, RemoveFails
<1>1. CASE Remove(w)
  <2>1. AfterDelete(t) = Idle \/ \A U, f : ViewFits(AfterDelete(t), U, f, trash)
    BY <1>0 DEF AfterDelete, ViewFits, Task
  <2> QED
    BY <1>0, <1>1, <2>1, StoreFits DEF Remove
<1>2. CASE RemoveFails(w)
  BY <1>2, FinishFits, KeepGrows DEF RemoveFails, Keep
<1> QED
  BY <1>1, <1>2

LEMMA AuditFits ==
    ASSUME Inv, TypeInv', NEW w \in Worker, Scan(w) \/ ScanDone(w) \/ ProbeCollision(w)
    PROVE  ViewsFit'
<1> DEFINE t == wk[w]
           U == unseen[w]
<1>0. /\ t \in Task /\ t.src \in Path /\ t.dst \in Path /\ t.todo \in SUBSET Path
      /\ ViewFits(t, U, file, trash) /\ Keep /\ TrashGrows /\ UNCHANGED file
  BY TaskAtHand, KeepGrows DEF Inv, ViewsFit, Keep, Scan, ScanDone, ProbeCollision
<1>1. CASE Finish(w)
  BY <1>0, <1>1, FinishFits
<1>2. CASE Scan(w)
  <2>1. t.pc = "scan" /\ t.op = "audit"
    BY <1>0, <1>2 DEF Scan, ViewFits
  <2>2. PICK p \in t.todo, blind \in Blind :
          LET n == file[p]
              skip == [t EXCEPT !.todo = @ \ {p}]
          IN  \/ ReadOn(w, p, blind, skip)
              \/ /\ n # None /\ ~blind /\ n.home # p[1]
                 /\ ReadOn(w, p, blind, [skip EXCEPT !.pc = "probe2", !.src = p,
                                !.dst = HomePath(p, n), !.new = Healed(n), !.copy = n])
              \/ n # None /\ ~blind
                 /\ ReadOn(w, p, blind, [skip EXCEPT !.pc = "put", !.src = p,
                                !.dst = p, !.new = Healed(n)])
    BY <1>2 DEF Scan
  <2> DEFINE n == file[p]
             skip == [t EXCEPT !.todo = @ \ {p}]
             away == [skip EXCEPT !.pc = "probe2", !.src = p,
                                  !.dst = HomePath(p, n), !.new = Healed(n), !.copy = n]
             here == [skip EXCEPT !.pc = "put", !.src = p, !.dst = p, !.new = Healed(n)]
  <2>3. p \in Path
    BY <1>0
  <2>4. \A V : ViewFits(skip, V, file, trash)
    BY <1>0, <2>1 DEF ViewFits, Task
  <2>5. CASE n # None /\ ~blind /\ n.home # p[1] /\ ReadOn(w, p, blind, away)
    <3>1. HomePath(p, n) # p
      BY <2>3, <2>5 DEF HomePath, Path
    <3>2. ViewFits(away, U \ {p}, file, trash)
      BY <1>0, <2>1, <2>5, <3>1 DEF ViewFits, Task
    <3> QED
      BY <1>0, <2>3, <2>5, <3>2, ReadOnFits
  <2>6. CASE n # None /\ ~blind /\ ReadOn(w, p, blind, here)
    <3>1. ViewFits(here, U \ {p}, file, trash)
      BY <1>0, <2>1, <2>6 DEF ViewFits, Task, DerivedFrom
    <3> QED
      BY <1>0, <2>3, <2>6, <3>1, ReadOnFits
  <2> QED
    BY <1>0, <2>2, <2>3, <2>4, <2>5, <2>6, ReadOnFits
<1>3. CASE ScanDone(w)
  BY <1>1, <1>3 DEF ScanDone
<1>4. CASE ProbeCollision(w)
  <2>1. /\ t.pc = "probe2" /\ t.op = "audit" /\ t.src # t.dst
        /\ t.src \notin U => file[t.src] # None /\ t.new = Healed(file[t.src])
    BY <1>0, <1>4 DEF ProbeCollision, ViewFits
  <2> DEFINE put(q) == [t EXCEPT !.pc = "put", !.dst = q, !.copy = None]
             skip == [t EXCEPT !.pc = "scan", !.new = None, !.copy = None]
  <2>2. PICK blind \in Blind :
          \/ Exists(t.dst, blind) /\ ReadOn(w, t.dst, blind, put(t.src))
          \/ ~Exists(t.dst, blind) /\ ReadOn(w, t.dst, blind, put(t.dst))
          \/ ReadOn(w, t.dst, blind, skip)
    BY <1>4 DEF ProbeCollision
  <2>3. CASE Exists(t.dst, blind) /\ ReadOn(w, t.dst, blind, put(t.src))
    <3>1. ViewFits(put(t.src), U \ {t.dst}, file, trash)
      BY <1>0, <2>1 DEF ViewFits, Task, DerivedFrom
    <3> QED
      BY <1>0, <2>3, <3>1, ReadOnFits DEF Exists
  <2>4. CASE ~Exists(t.dst, blind) /\ ReadOn(w, t.dst, blind, put(t.dst))
    <3>1. blind => ViewFits(put(t.dst), U \cup {t.dst}, file, trash)
      BY <1>0, <2>1 DEF ViewFits, Task
    <3>2. ~blind => ViewFits(put(t.dst), U \ {t.dst}, file, trash)
      BY <1>0, <2>1, <2>4 DEF ViewFits, Task, Exists
    <3> QED
      BY <1>0, <2>4, <3>1, <3>2, ReadOnFits
  <2>5. CASE ReadOn(w, t.dst, blind, skip)
    <3>1. \A V : ViewFits(skip, V, file, trash)
      BY <1>0, <2>1 DEF ViewFits, Task
    <3> QED
      BY <1>0, <2>5, <3>1, ReadOnFits
  <2> QED
    BY <2>2, <2>3, <2>4, <2>5
<1> QED
  BY <1>2, <1>3, <1>4

LEMMA StepFits ==
    ASSUME ~PutLies, Inv, TypeInv', NEW w \in Worker, Step(w)
    PROVE  ViewsFit'
  BY ProbeFits, SlugFits, ReadFits, PutFits, TrashFits, RemoveFits, AuditFits DEF Step

LEMMA WorldFits ==
    ASSUME Inv, TypeInv', Human \/ Crash
    PROVE  ViewsFit'
<1>1. CASE Human
  <2>0. PICK q \in Path : HumanSave(q) \/ HumanDelete(q)
    BY <1>1 DEF Human
  <2>1. /\ UNCHANGED <<trash, wk>>
        /\ \A v \in Worker : /\ unseen[v] \subseteq unseen'[v]
                             /\ \A p \in Path \ unseen'[v] : file'[p] = file[p]
    <3>1. UNCHANGED <<trash, wk>> /\ unseen' = [v \in Worker |-> unseen[v] \cup {q}]
      BY <2>0 DEF HumanSave, HumanDelete
    <3>2. \A p \in Path \ {q} : file'[p] = file[p]
      BY <2>0 DEF HumanSave, HumanDelete, Inv, TypeInv, VaultType
    <3> QED
      BY <3>1, <3>2
  <2>2. ASSUME NEW v \in Worker PROVE ViewFits(wk'[v], unseen'[v], file', trash')
    <3>1. wk[v] \in Task /\ unseen[v] \in SUBSET Path /\ unseen'[v] \in SUBSET Path
      BY DEF Inv, TypeInv, TaskType
    <3>2. ViewFits(wk[v], unseen[v], file, trash)
      BY DEF Inv, ViewsFit
    <3>3. ViewFits(wk[v], unseen'[v], file', trash')
      BY <2>1, <3>1, <3>2, KeepGrows, ViewKept
    <3> QED
      BY <2>1, <3>3
  <2> QED
    BY <2>2 DEF ViewsFit, ViewFits, DerivedFrom, Merged, NextAuthorType, Healed
<1>2. CASE Crash
  <2>1. \A v \in Worker : ViewFits(wk'[v], unseen'[v], file', trash')
    BY <1>2, IdleFits DEF Crash
  <2> QED
    BY <2>1 DEF ViewsFit, ViewFits, DerivedFrom, Merged, NextAuthorType, Healed
<1> QED
  BY <1>1, <1>2

LEMMA InitFits == Init => ViewsFit
  BY IdleFits DEF Init, ViewsFit

LEMMA NextFits == ~PutLies /\ Inv /\ [Next]_vars => Inv'
<1> SUFFICES ASSUME ~PutLies, Inv, [Next]_vars PROVE ViewsFit' /\ TypeInv'
  BY DEF Inv
<1>1. TypeInv'
  BY NextTypes DEF Inv
<1>2. CASE UNCHANGED vars
  <2>1. \A v \in Worker : ViewFits(wk'[v], unseen'[v], file', trash')
    BY <1>2 DEF vars, Inv, ViewsFit
  <2> QED
    BY <1>1, <2>1 DEF ViewsFit, ViewFits, DerivedFrom, Merged, NextAuthorType, Healed
<1> QED
  BY <1>1, <1>2, StartFits, StepFits, WorldFits DEF Next

\* With PUTs that do what they say, what a request knows of a path nobody touched since it
\* read it stays true, through every interleaving, failure and crash.
THEOREM ViewsHold == ~PutLies => (Spec => []ViewsFit)
<1> SUFFICES ASSUME ~PutLies PROVE Spec => []ViewsFit
  OBVIOUS
<1>1. Init => Inv
  BY InitTypes, InitFits DEF Inv
<1>2. Inv => ViewsFit
  BY DEF Inv
<1>3. Inv /\ [Next]_vars => Inv'
  BY NextFits
<1> QED
  BY <1>1, <1>2, <1>3, PTL DEF Spec

-----------------------------------------------------------------------------
(* Nothing seen is lost. *)

\* What NothingSeenIsLost asks of one step, one request and one path.
SafeAt(w, p) ==
    (Changes(w) /\ file[p] # None /\ p \notin unseen[w])
       => \/ HeldAfter(file[p])
          \/ DerivedFrom(file[p], wk[w]) /\ file'[p] = wk[w].new

LEMMA StillThere ==
    ASSUME NEW w \in Worker, NEW p \in Path, file'[p] = file[p]
    PROVE  SafeAt(w, p)
<1>1. \E q \in Path : file'[q] = file[p] \/ \E i \in DOMAIN trash'[q] : trash'[q][i] = file[p]
  OBVIOUS
<1> QED
  BY <1>1 DEF SafeAt, HeldAfter

LEMMA StoreSafe ==
    ASSUME Inv, NEW w \in Worker, wk[w].pc = "put", Store(w, wk[w].dst, wk[w].new),
           NEW p \in Path
    PROVE  SafeAt(w, p)
<1> DEFINE t == wk[w]
<1>0. t.dst \in Path /\ ViewFits(t, unseen[w], file, trash)
  BY TaskAtHand DEF Inv, ViewsFit
<1>1. /\ file'[t.dst] = t.new
      /\ p # t.dst => file'[p] = file[p]
  BY <1>0 DEF Store, Inv, TypeInv, VaultType
<1>2. CASE p = t.dst
  BY <1>0, <1>1, <1>2 DEF SafeAt, HeldAfter, ViewFits
<1> QED
  BY <1>1, <1>2, StillThere

LEMMA RemoveSafe ==
    ASSUME Inv, NEW w \in Worker, Remove(w), NEW p \in Path
    PROVE  SafeAt(w, p)
<1> DEFINE t == wk[w]
<1>0. t.del \in Path /\ t.pc = "drm" /\ ViewFits(t, unseen[w], file, trash) /\ trash' = trash
  BY TaskAtHand DEF Inv, ViewsFit, Remove
<1>1. p # t.del => file'[p] = file[p]
  BY <1>0 DEF Remove, Store, Inv, TypeInv, VaultType
<1>2. CASE p = t.del
  <2>1. CASE p \notin unseen[w]
    <3>1. file[p] = t.copy /\ \E i \in DOMAIN trash'[p] : trash'[p][i] = t.copy
      BY <1>0, <1>2, <2>1 DEF ViewFits
    <3>2. \E q \in Path : file'[q] = file[p] \/ \E i \in DOMAIN trash'[q] : trash'[q][i] = file[p]
      BY <3>1
    <3> QED
      BY <3>2 DEF SafeAt, HeldAfter
  <2> QED
    BY <2>1 DEF SafeAt
<1> QED
  BY <1>1, <1>2, StillThere

LEMMA StepSafe ==
    ASSUME Inv, NEW w \in Worker, Start(w) \/ Step(w), NEW p \in Path
    PROVE  SafeAt(w, p)
<1>1. CASE Start(w)
  BY <1>1, StillThere DEF Start, StartWrite, StartAtom, StartCompute, StartDelete, StartMove,
                          StartAudit, Begin
<1>2. CASE PutLands(w) \/ PutFails(w)
  BY <1>2, StoreSafe, StillThere DEF PutLands, PutFails
<1>3. CASE Remove(w)
  BY <1>3, RemoveSafe
<1>4. CASE Step(w) /\ ~PutLands(w) /\ ~PutFails(w) /\ ~Remove(w)
  <2>1. file' = file
    BY <1>4 DEF Step, Keep, ProbeWrite, ProbeDelete, ProbeSource, ProbeDestination, ProbeSlug,
                ReadSource, PutLandsNowhere, ReadBack, DeleteRead, TrashLands, TrashFails,
                TrashLandsNowhere, RemoveFails, Scan, ScanDone, ProbeCollision
  <2> QED
    BY <2>1, StillThere
<1> QED
  BY <1>1, <1>2, <1>3, <1>4

\* Only the task of the worker that moves changes.
LEMMA OthersStill ==
    ASSUME Inv, NEW w \in Worker, Start(w) \/ Step(w), NEW v \in Worker \ {w}
    PROVE  ~Changes(v)
<1>1. wk'[v] = wk[v]
  BY DEF Inv, TypeInv, TaskType, Start, Begin, StartWrite, StartAtom, StartCompute,
         StartDelete, StartMove, StartAudit, Step, ReadOn, Finish, ProbeWrite, ProbeDelete,
         ProbeSource, ProbeDestination, ProbeSlug, ReadSource, PutLands, PutFails,
         PutLandsNowhere, ReadBack, DeleteRead, TrashLands, TrashFails, TrashLandsNowhere,
         Remove, RemoveFails, Scan, ScanDone, ProbeCollision
<1> QED
  BY <1>1 DEF Changes

LEMMA NextSafe ==
    ASSUME Inv, [Next]_vars, NEW w \in Worker, NEW p \in Path
    PROVE  SafeAt(w, p)
<1>1. CASE UNCHANGED vars
  BY <1>1, StillThere DEF vars
<1>2. CASE \E v \in Worker : Start(v) \/ Step(v)
  <2>1. PICK v \in Worker : Start(v) \/ Step(v)
    BY <1>2
  <2> QED
    BY <2>1, StepSafe, OthersStill DEF SafeAt
<1>3. CASE Human
  BY <1>3 DEF Human, HumanSave, HumanDelete, SafeAt, Changes
<1>4. CASE Crash
  BY <1>4, StillThere DEF Crash, Keep
<1> QED
  BY <1>1, <1>2, <1>3, <1>4 DEF Next

\* No text a request has seen is lost, for any vault, any number of concurrent requests, any
\* failures of the REST calls and crashes of the server: the promise behind update_note's
\* read before write, move_note's order and delete_note's trash copy.
THEOREM SeenTextsSurvive == ~PutLies => (Spec => NothingSeenIsLost)
<1> SUFFICES ASSUME ~PutLies PROVE Spec => NothingSeenIsLost
  OBVIOUS
<1>1. Inv /\ [Next]_vars => \A w \in Worker, p \in Path : SafeAt(w, p)
  BY NextSafe
<1>2. Init => Inv
  BY InitTypes, InitFits DEF Inv
<1>3. Inv /\ [Next]_vars =>
        [\A w \in Worker, p \in Path :
          (Changes(w) /\ file[p] # None /\ p \notin unseen[w])
             => \/ HeldAfter(file[p])
                \/ DerivedFrom(file[p], wk[w]) /\ file'[p] = wk[w].new]_vars
  BY <1>1 DEF SafeAt
<1>4. Inv /\ [Next]_vars => Inv'
  BY NextFits
<1> QED
  BY <1>2, <1>3, <1>4, PTL DEF Spec, NothingSeenIsLost

-----------------------------------------------------------------------------
(* What the checks of a verb allow it to do, until it is done. *)

\* The requests the linter or check_protection let pass: at every call a verb has still to
\* make, the directories it is about to write to or to remove from were asked about.
Allowed(t) ==
    /\ t.hasBody => t.op = "write"
    /\ t.pc \in {"probe2", "scan"} => t.op \in {"move", "audit"}
    /\ t.op = "audit" => t.actor = "agent"
    /\ (t.op = "write" /\ t.pc \in {"read", "put"}) =>
          ~Barred(t.dst[1], t.actor, FALSE, t.hasBody)
    /\ (t.op \in {"atom", "audit"} /\ t.pc = "put") => ~Barred(t.dst[1], t.actor, FALSE, TRUE)
    /\ (t.op = "compute" /\ t.pc = "put" /\ LintOnCompute) =>
          ~Barred(t.dst[1], t.actor, TRUE, TRUE)
    /\ (t.op = "move" /\ t.pc \in {"read", "put", "back", "dread", "dtrash", "drm"}) =>
          /\ ~Barred(t.src[1], t.actor, FALSE, TRUE)
          /\ ~Barred(t.dst[1], t.actor, FALSE, FALSE)
    /\ t.pc \in {"read", "put", "back"} => t.op # "delete"
    /\ t.pc = "back" => t.op = "move"
    /\ t.pc \in {"dread", "dtrash", "drm"} =>
          \/ t.op = "delete" /\ t.del = t.src /\ ~Barred(t.src[1], t.actor, FALSE, TRUE)
          \/ t.op = "move" /\ t.del \in {t.src, t.dst}
          \/ /\ t.op = "audit" /\ t.del = t.src /\ t.src # t.dst
             /\ ~Barred(t.dst[1], t.actor, FALSE, TRUE)

\* A new body is on its way only to a note the caller may rewrite.
BodyFits(t, U, f) ==
    (t.pc = "put" /\ t.hasBody /\ t.dst \notin U /\ f[t.dst] # None) =>
        ~BodyGuarded(f[t.dst], t.actor)

AllAllowed == \A w \in Worker : Allowed(wk[w])
BodiesFit == \A w \in Worker : BodyFits(wk[w], unseen[w], file)

\* Where the step of a worker leaves its task.
Moves(w, t) == wk' = [wk EXCEPT ![w] = t]

LEMMA AllowedStep ==
    ASSUME Inv, AllAllowed, NEW w \in Worker, NEW t, Moves(w, t), Allowed(t)
    PROVE  AllAllowed'
<1>1. wk \in [Worker -> Task]
  BY DEF Inv, TypeInv, TaskType
<1>2. \A v \in Worker : Allowed(wk'[v])
  BY <1>1 DEF Moves, AllAllowed
<1> QED
  BY <1>2 DEF AllAllowed, Allowed, Barred

\* Whoever may touch a body may leave it alone.
LEMMA BarredLess ==
    ASSUME NEW d, NEW a, NEW c, NEW b \in BOOLEAN, ~Barred(d, a, c, TRUE)
    PROVE  ~Barred(d, a, c, b)
  BY DEF Barred

LEMMA IdleAllowed == Allowed(Idle)
  BY DEF Allowed, Idle

LEMMA BeginAllowed ==
    ASSUME NEW w, NEW op, NEW t, Begin(w, op, t), t.pc \in {"probe", "slug", "scan"},
           t.hasBody => t.op = "write", t.pc = "scan" => t.op = "audit",
           t.op = "audit" => t.actor = "agent"
    PROVE  \E u : Moves(w, u) /\ Allowed(u)
<1>1. Moves(w, t)
  BY DEF Begin, Moves
<1>2. Allowed(t)
  BY DEF Allowed
<1> QED
  BY <1>1, <1>2

LEMMA StartAllowed ==
    ASSUME NEW w \in Worker, Start(w)
    PROVE  \E t : Moves(w, t) /\ Allowed(t)
<1>1. ASSUME NEW p \in Path, NEW a, NEW m, NEW b, StartWrite(w, p, a, m, b)
      PROVE  \E t : Moves(w, t) /\ Allowed(t)
  BY <1>1, BeginAllowed DEF StartWrite, Idle
<1>2. ASSUME NEW a, StartAtom(w, a)
      PROVE  \E t : Moves(w, t) /\ Allowed(t)
  BY <1>2, BeginAllowed DEF StartAtom, Idle
<1>3. ASSUME NEW p \in Path, StartCompute(w, p)
      PROVE  \E t : Moves(w, t) /\ Allowed(t)
  <2> DEFINE n == FreshNote([actor |-> "agent", ver |-> next + 1], p[1])
             u == [Idle EXCEPT !.pc = "put", !.op = "compute", !.dst = p,
                               !.ver = next + 1, !.new = n]
  <2>1. Moves(w, u) /\ (LintOnCompute => ~Barred(p[1], "agent", TRUE, TRUE))
    BY <1>3 DEF StartCompute, Begin, Moves, LintPasses
  <2> HIDE DEF n
  <2>2. /\ u.pc = "put" /\ u.op = "compute" /\ u.actor = "agent" /\ u.dst = p
        /\ u.hasBody = FALSE
    BY DEF Idle
  <2> HIDE DEF u
  <2>3. Allowed(u)
    BY <2>1, <2>2 DEF Allowed
  <2> QED
    BY <2>1, <2>3
<1>4. ASSUME NEW p \in Path, NEW a, StartDelete(w, p, a)
      PROVE  \E t : Moves(w, t) /\ Allowed(t)
  BY <1>4, BeginAllowed DEF StartDelete, Idle
<1>5. ASSUME NEW p \in Path, NEW q \in Path, NEW a, StartMove(w, p, q, a)
      PROVE  \E t : Moves(w, t) /\ Allowed(t)
  BY <1>5, BeginAllowed DEF StartMove, Idle
<1>6. ASSUME NEW s, StartAudit(w, s)
      PROVE  \E t : Moves(w, t) /\ Allowed(t)
  BY <1>6, BeginAllowed DEF StartAudit, Idle
<1> QED
  BY <1>1, <1>2, <1>3, <1>4, <1>5, <1>6 DEF Start

LEMMA ProbeAllowed ==
    ASSUME Inv, AllAllowed, NEW w \in Worker,
           ProbeWrite(w) \/ ProbeDelete(w) \/ ProbeSource(w) \/ ProbeDestination(w)
    PROVE  \E t : Moves(w, t) /\ Allowed(t)
<1> DEFINE t == wk[w]
<1>0. t \in Task /\ Allowed(t) /\ t.hasBody \in BOOLEAN /\ (t.op = "write" => t.src = t.dst)
  BY TaskAtHand DEF Inv, ViewsFit, ViewFits, AllAllowed, Task
<1>1. CASE Finish(w)
  BY <1>1, IdleAllowed DEF Finish, Moves
<1>2. CASE ProbeWrite(w) /\ ~Finish(w)
  <2> DEFINE u == [t EXCEPT !.pc = "read"]
             v == [t EXCEPT !.pc = "put", !.new = FreshNote(t, t.src[1])]
  <2>1. \/ Moves(w, u) /\ ~Barred(t.src[1], t.actor, FALSE, t.hasBody)
        \/ Moves(w, v) /\ ~Barred(t.src[1], t.actor, FALSE, TRUE)
    BY <1>2 DEF ProbeWrite, ReadOn, Moves, LintPasses
  <2>2. t.op = "write" /\ ~(t.op \in {"atom", "audit", "compute", "move"})
    BY <1>2 DEF ProbeWrite
  <2>3. ~Barred(t.src[1], t.actor, FALSE, t.hasBody) => Allowed(u) /\ Allowed(v)
    BY <1>0, <2>2 DEF Allowed, Task
  <2> QED
    BY <1>0, <2>1, <2>3, BarredLess
<1>3. CASE ProbeDelete(w) /\ ~Finish(w)
  <2> DEFINE u == [t EXCEPT !.pc = "dread", !.del = t.src]
  <2>1. Moves(w, u) /\ ~Barred(t.src[1], t.actor, FALSE, TRUE) /\ t.op = "delete"
    BY <1>3 DEF ProbeDelete, ReadOn, Moves
  <2>2. Allowed(u)
    BY <1>0, <2>1 DEF Allowed, Task
  <2> QED
    BY <2>1, <2>2
<1>4. CASE ProbeSource(w) /\ ~Finish(w)
  <2> DEFINE u == [t EXCEPT !.pc = "probe2"]
  <2>1. Moves(w, u) /\ t.op = "move"
    BY <1>4 DEF ProbeSource, ReadOn, Moves
  <2>2. Allowed(u)
    BY <1>0, <2>1 DEF Allowed, Task
  <2> QED
    BY <2>1, <2>2
<1>5. CASE ProbeDestination(w) /\ ~Finish(w)
  <2> DEFINE u == [t EXCEPT !.pc = "read"]
  <2>1. /\ Moves(w, u) /\ t.op = "move"
        /\ ~Barred(t.src[1], t.actor, FALSE, TRUE) /\ ~Barred(t.dst[1], t.actor, FALSE, FALSE)
    BY <1>5 DEF ProbeDestination, ReadOn, Moves
  <2>2. Allowed(u)
    BY <1>0, <2>1 DEF Allowed, Task
  <2> QED
    BY <2>1, <2>2
<1> QED
  BY <1>1, <1>2, <1>3, <1>4, <1>5

LEMMA SlugAllowed ==
    ASSUME Inv, AllAllowed, NEW w \in Worker, ProbeSlug(w)
    PROVE  \E t : Moves(w, t) /\ Allowed(t)
<1> DEFINE t == wk[w]
           p == <<AtomDir, AtomNames[t.slot]>>
           on == [t EXCEPT !.slot = @ + 1]
           go == [t EXCEPT !.pc = "put", !.dst = p, !.new = FreshNote(t, AtomDir)]
<1>0. t \in Task /\ Allowed(t) /\ t.pc = "slug" /\ t.op = "atom"
  BY TaskAtHand DEF Inv, ViewsFit, ViewFits, AllAllowed, ProbeSlug
<1>1. CASE Finish(w)
  BY <1>1, IdleAllowed DEF Finish, Moves
<1>2. CASE ~Finish(w)
  <2>1. \/ Moves(w, on)
        \/ Moves(w, go) /\ ~Barred(AtomDir, t.actor, FALSE, TRUE)
    BY <1>2 DEF ProbeSlug, ReadOn, Moves, LintPasses
  <2>2. Allowed(on)
    BY <1>0 DEF Allowed, Task
  <2>3. go.dst[1] = AtomDir
    BY <1>0 DEF Task
  <2>4. ~Barred(AtomDir, t.actor, FALSE, TRUE) => Allowed(go)
    BY <1>0, <2>3 DEF Allowed, Task
  <2> QED
    BY <2>1, <2>2, <2>4
<1> QED
  BY <1>1, <1>2

LEMMA ReadAllowed ==
    ASSUME Inv, AllAllowed, NEW w \in Worker, ReadSource(w) \/ ReadBack(w) \/ DeleteRead(w)
    PROVE  \E t : Moves(w, t) /\ Allowed(t)
<1> DEFINE t == wk[w]
<1>0. /\ t \in Task /\ Allowed(t) /\ (t.op = "write" => t.src = t.dst)
      /\ t.pc = "read" => t.op \in {"write", "move"}
  BY TaskAtHand DEF Inv, ViewsFit, ViewFits, AllAllowed
<1>1. CASE Finish(w)
  BY <1>1, IdleAllowed DEF Finish, Moves
<1>2. CASE ReadSource(w) /\ ~Finish(w)
  <2>1. t.pc = "read" /\ \E n : Moves(w, [t EXCEPT !.pc = "put", !.new = n])
    BY <1>2 DEF ReadSource, ReadOn, Moves
  <2>2. \A n : Allowed([t EXCEPT !.pc = "put", !.new = n])
    BY <1>0, <2>1 DEF Allowed, Task
  <2> QED
    BY <2>1, <2>2
<1>3. CASE ReadBack(w) /\ ~Finish(w)
  <2>1. t.pc = "back" /\ \E q \in {t.src, t.dst} : Moves(w, [t EXCEPT !.pc = "dread", !.del = q])
    BY <1>3 DEF ReadBack, ReadOn, Moves
  <2>2. \A q \in {t.src, t.dst} : Allowed([t EXCEPT !.pc = "dread", !.del = q])
    BY <1>0, <2>1 DEF Allowed, Task
  <2> QED
    BY <2>1, <2>2
<1>4. CASE DeleteRead(w) /\ ~Finish(w)
  <2>1. t.pc = "dread" /\ \E n : Moves(w, [t EXCEPT !.pc = "dtrash", !.copy = n])
    BY <1>4 DEF DeleteRead, ReadOn, Moves
  <2>2. \A n : Allowed([t EXCEPT !.pc = "dtrash", !.copy = n])
    BY <1>0, <2>1 DEF Allowed, Task
  <2> QED
    BY <2>1, <2>2
<1> QED
  BY <1>1, <1>2, <1>3, <1>4

LEMMA PutAllowed ==
    ASSUME Inv, AllAllowed, NEW w \in Worker, PutLands(w) \/ PutFails(w) \/ PutLandsNowhere(w)
    PROVE  \E t : Moves(w, t) /\ Allowed(t)
<1> DEFINE t == wk[w]
<1>0. t \in Task /\ Allowed(t) /\ t.pc = "put"
  BY TaskAtHand DEF Inv, AllAllowed, PutLands, PutFails, PutLandsNowhere
<1>1. Moves(w, Idle) \/ Moves(w, AfterPut(t))
  <2>1. CASE PutLands(w)
    BY <2>1 DEF PutLands, Moves
  <2>2. CASE PutFails(w)
    BY <2>2 DEF PutFails, Finish, Moves
  <2>3. CASE PutLandsNowhere(w)
    BY <2>3 DEF PutLandsNowhere, Moves
  <2> QED
    BY <2>1, <2>2, <2>3
<1>2. Allowed(AfterPut(t))
  <2>1. CASE t.op = "move"
    BY <1>0, <2>1 DEF AfterPut, Allowed, Task
  <2>2. CASE t.op = "audit"
    BY <1>0, <2>2 DEF AfterPut, Allowed, Task
  <2> QED
    BY <2>1, <2>2, IdleAllowed DEF AfterPut
<1> QED
  BY <1>1, <1>2, IdleAllowed

LEMMA RemovalAllowed ==
    ASSUME Inv, AllAllowed, NEW w \in Worker,
           \/ TrashLands(w) \/ TrashFails(w) \/ TrashLandsNowhere(w)
           \/ Remove(w) \/ RemoveFails(w)
    PROVE  \E t : Moves(w, t) /\ Allowed(t)
<1> DEFINE t == wk[w]
           u == [t EXCEPT !.pc = "drm"]
<1>0. t \in Task /\ Allowed(t) /\ t.pc \in {"dtrash", "drm"}
  BY TaskAtHand DEF Inv, AllAllowed, TrashLands, TrashFails, TrashLandsNowhere, Remove, RemoveFails
<1>1. Moves(w, Idle) \/ Moves(w, u) \/ Moves(w, AfterDelete(t))
  <2>1. CASE TrashLands(w)
    BY <2>1 DEF TrashLands, Finish, Moves
  <2>2. CASE TrashFails(w) \/ RemoveFails(w)
    BY <2>2 DEF TrashFails, RemoveFails, Finish, Moves
  <2>3. CASE TrashLandsNowhere(w)
    BY <2>3 DEF TrashLandsNowhere, Moves
  <2>4. CASE Remove(w)
    BY <2>4 DEF Remove, Moves
  <2> QED
    BY <2>1, <2>2, <2>3, <2>4
<1>2. Allowed(u)
  BY <1>0 DEF Allowed, Task
<1>3. Allowed(AfterDelete(t))
  <2>1. CASE t.op = "audit"
    BY <1>0, <2>1 DEF AfterDelete, Allowed, Task
  <2> QED
    BY <2>1, IdleAllowed DEF AfterDelete
<1> QED
  BY <1>1, <1>2, <1>3, IdleAllowed

LEMMA AuditAllowed ==
    ASSUME Inv, AllAllowed, NEW w \in Worker, Scan(w) \/ ScanDone(w) \/ ProbeCollision(w)
    PROVE  \E t : Moves(w, t) /\ Allowed(t)
<1> DEFINE t == wk[w]
<1>0. t \in Task /\ Allowed(t) /\ (t.pc = "scan" => t.op = "audit")
  BY TaskAtHand DEF Inv, ViewsFit, ViewFits, AllAllowed
<1>1. CASE Finish(w)
  BY <1>1, IdleAllowed DEF Finish, Moves
<1>2. CASE Scan(w)
  <2> DEFINE skip(p) == [t EXCEPT !.todo = @ \ {p}]
             away(p) == [skip(p) EXCEPT !.pc = "probe2", !.src = p, !.dst = HomePath(p, file[p]),
                                        !.new = Healed(file[p]), !.copy = file[p]]
             here(p) == [skip(p) EXCEPT !.pc = "put", !.src = p, !.dst = p,
                                        !.new = Healed(file[p])]
  <2>1. t.op = "audit" /\ t.actor = "agent" /\ t.pc = "scan"
    BY <1>0, <1>2 DEF Scan, Allowed
  <2>2. PICK p \in t.todo : \/ Moves(w, skip(p)) \/ Moves(w, away(p))
                            \/ Moves(w, here(p)) /\ ~Barred(p[1], "agent", FALSE, TRUE)
    BY <1>2 DEF Scan, ReadOn, Moves, LintPasses
  <2>3. Allowed(skip(p)) /\ Allowed(away(p))
    BY <1>0, <2>1 DEF Allowed, Task
  <2>4. ~Barred(p[1], "agent", FALSE, TRUE) => Allowed(here(p))
    BY <1>0, <2>1 DEF Allowed, Task
  <2> QED
    BY <2>2, <2>3, <2>4
<1>3. CASE ScanDone(w)
  BY <1>1, <1>3 DEF ScanDone
<1>4. CASE ProbeCollision(w)
  <2> DEFINE put(q) == [t EXCEPT !.pc = "put", !.dst = q, !.copy = None]
             skip == [t EXCEPT !.pc = "scan", !.new = None, !.copy = None]
  <2>1. t.op = "audit" /\ t.actor = "agent" /\ t.pc = "probe2"
    BY <1>0, <1>4 DEF ProbeCollision, Allowed
  <2>2. \/ Moves(w, skip)
        \/ \E q \in {t.src, t.dst} : Moves(w, put(q)) /\ ~Barred(q[1], "agent", FALSE, TRUE)
    BY <1>4 DEF ProbeCollision, ReadOn, Moves, LintPasses
  <2>3. Allowed(skip)
    BY <1>0, <2>1 DEF Allowed, Task
  <2>4. \A q \in {t.src, t.dst} : ~Barred(q[1], "agent", FALSE, TRUE) => Allowed(put(q))
    BY <1>0, <2>1 DEF Allowed, Task
  <2> QED
    BY <2>2, <2>3, <2>4
<1> QED
  BY <1>2, <1>3, <1>4

LEMMA NextAllowed ==
    ASSUME Inv, AllAllowed, [Next]_vars
    PROVE  AllAllowed'
<1>1. CASE UNCHANGED vars
  BY <1>1 DEF vars, AllAllowed, Allowed, Barred
<1>2. CASE \E w \in Worker : Start(w) \/ Step(w)
  <2>1. PICK w \in Worker : Start(w) \/ Step(w)
    BY <1>2
  <2>2. \E t : Moves(w, t) /\ Allowed(t)
    BY <2>1, StartAllowed, ProbeAllowed, SlugAllowed, ReadAllowed, PutAllowed, RemovalAllowed,
       AuditAllowed DEF Step
  <2> QED
    BY <2>2, AllowedStep
<1>3. CASE Human
  BY <1>3 DEF Human, HumanSave, HumanDelete, AllAllowed, Allowed, Barred
<1>4. CASE Crash
  <2>1. \A w \in Worker : wk'[w] = Idle
    BY <1>4 DEF Crash
  <2>2. \A w \in Worker : Allowed(wk'[w])
    BY <2>1, IdleAllowed
  <2> QED
    BY <2>2 DEF AllAllowed, Allowed, Barred
<1> QED
  BY <1>1, <1>2, <1>3, <1>4 DEF Next

-----------------------------------------------------------------------------
(* Protection holds. *)

\* What ProtectionHolds asks of one step, one request and one path.
ProtectedAt(w, p) ==
    (Changes(w) /\ file'[p] # file[p])
       => \/ ~Barred(p[1], wk[w].actor, wk[w].op = "compute", TouchesBody(w, p))
          \/ RemovedUnasked(w, p)

LEMMA TouchesType ==
    ASSUME NEW w, NEW p
    PROVE  TouchesBody(w, p) \in BOOLEAN
  BY DEF TouchesBody

\* A body changes only by an update that came with one.
LEMMA PutTouches ==
    ASSUME Inv, AllAllowed, NEW w \in Worker, wk[w].pc = "put",
           file'[wk[w].dst] = wk[w].new, TouchesBody(w, wk[w].dst)
    PROVE  wk[w].op = "write" /\ wk[w].hasBody
<1> DEFINE t == wk[w]
           n == file[t.dst]
<1>0. /\ t \in Task /\ t.dst \in Path /\ t.new \in Note /\ n \in Note
      /\ ViewFits(t, unseen[w], file, trash) /\ (t.hasBody => t.op = "write")
  <2>1. t \in Task /\ t.dst \in Path /\ TaskFit(t)
    BY TaskAtHand DEF Inv, TypeInv
  <2>2. n \in Note \cup {None} /\ n # None
    BY <2>1 DEF Inv, TypeInv, VaultType, TouchesBody
  <2> QED
    BY <2>1, <2>2 DEF Inv, ViewsFit, TaskFit, AllAllowed, Allowed
<1>1. t.new # None /\ t.new.body # n.body /\ t.dst \notin unseen[w] /\ n # None
  BY <1>0, NoneAssumption DEF TouchesBody
<1>2. t.new = Merged(n, t) \/ t.new = Healed(n)
  BY <1>0, <1>1 DEF ViewFits, DerivedFrom
<1>3. Healed(n).body = n.body
  BY <1>0 DEF Healed, Note
<1>4. ~t.hasBody => Merged(n, t).body = n.body
  BY <1>0 DEF Merged, Note
<1> QED
  BY <1>0, <1>1, <1>2, <1>3, <1>4

LEMMA PutProtected ==
    ASSUME LintOnCompute, Inv, AllAllowed, NEW w \in Worker, wk[w].pc = "put",
           Store(w, wk[w].dst, wk[w].new), NEW p \in Path
    PROVE  ProtectedAt(w, p)
<1> DEFINE t == wk[w]
<1>0. /\ t \in Task /\ t.dst \in Path /\ Allowed(t) /\ t.op \in OpKind /\ t.hasBody \in BOOLEAN
  BY TaskAtHand DEF Inv, AllAllowed, Task
<1>1. /\ file'[t.dst] = t.new
      /\ p # t.dst => file'[p] = file[p]
  BY <1>0 DEF Store, Inv, TypeInv, VaultType
<1>2. CASE p = t.dst
  <2> DEFINE b == TouchesBody(w, p)
  <2>1. b \in BOOLEAN /\ (b => t.op = "write" /\ t.hasBody)
    BY <1>1, <1>2, TouchesType, PutTouches
  <2> HIDE DEF b
  <2>2. CASE t.op = "write"
    <3>1. ~Barred(p[1], t.actor, FALSE, t.hasBody)
      BY <1>0, <1>2, <2>2 DEF Allowed
    <3>2. ~Barred(p[1], t.actor, FALSE, b)
      BY <2>1, <3>1 DEF Barred
    <3> QED
      BY <2>2, <3>2 DEF ProtectedAt, b
  <2>3. CASE t.op = "move"
    <3>1. ~Barred(p[1], t.actor, FALSE, FALSE)
      BY <1>0, <1>2, <2>3 DEF Allowed
    <3>2. ~Barred(p[1], t.actor, FALSE, b)
      BY <2>1, <2>3, <3>1 DEF Barred
    <3> QED
      BY <2>3, <3>2 DEF ProtectedAt, b
  <2>4. CASE t.op \in {"atom", "audit"}
    <3>1. ~Barred(p[1], t.actor, FALSE, TRUE)
      BY <1>0, <1>2, <2>4 DEF Allowed
    <3>2. ~Barred(p[1], t.actor, FALSE, b)
      BY <2>1, <3>1, BarredLess
    <3> QED
      BY <2>4, <3>2 DEF ProtectedAt, b
  <2>5. CASE t.op = "compute"
    <3>1. ~Barred(p[1], t.actor, TRUE, TRUE)
      BY <1>0, <1>2, <2>5 DEF Allowed
    <3>2. ~Barred(p[1], t.actor, TRUE, b)
      BY <2>1, <3>1, BarredLess
    <3> QED
      BY <2>5, <3>2 DEF ProtectedAt, b
  <2> QED
    BY <1>0, <2>2, <2>3, <2>4, <2>5 DEF Allowed, OpKind
<1> QED
  BY <1>1, <1>2 DEF ProtectedAt

LEMMA RemoveProtected ==
    ASSUME Inv, AllAllowed, NEW w \in Worker, Remove(w), NEW p \in Path
    PROVE  ProtectedAt(w, p)
<1> DEFINE t == wk[w]
<1>0. t \in Task /\ t.del \in Path /\ t.pc = "drm" /\ Allowed(t)
  BY TaskAtHand DEF Inv, AllAllowed, Remove
<1>1. /\ file'[t.del] = None
      /\ p # t.del => file'[p] = file[p]
  BY <1>0 DEF Remove, Store, Inv, TypeInv, VaultType
<1>2. CASE p = t.del
  <2> DEFINE b == TouchesBody(w, p)
  <2>0. b \in BOOLEAN
    BY TouchesType
  <2> HIDE DEF b
  <2>1. CASE t.op = "audit"
    BY <1>0, <1>1, <1>2, <2>1 DEF Allowed, ProtectedAt, RemovedUnasked
  <2>2. CASE t.op \in {"delete", "move"} /\ p = t.src
    <3>1. ~Barred(p[1], t.actor, FALSE, TRUE)
      BY <1>0, <2>2 DEF Allowed
    <3>2. ~Barred(p[1], t.actor, FALSE, b)
      BY <2>0, <3>1, BarredLess
    <3> QED
      BY <2>2, <3>2 DEF ProtectedAt, b
  <2>3. CASE t.op = "move" /\ p = t.dst
    BY <1>0, <1>1, <1>2, <2>3 DEF Allowed, ProtectedAt, RemovedUnasked
  <2> QED
    BY <1>0, <1>2, <2>1, <2>2, <2>3 DEF Allowed
<1> QED
  BY <1>1, <1>2 DEF ProtectedAt

\* The steps of a verb that leave the live vault alone.
LEMMA OthersKeepFile ==
    ASSUME NEW w \in Worker, Step(w), ~PutLands(w), ~PutFails(w), ~Remove(w)
    PROVE  file' = file
  BY DEF Step, Keep, ProbeWrite, ProbeDelete, ProbeSource, ProbeDestination, ProbeSlug,
         ReadSource, PutLandsNowhere, ReadBack, DeleteRead, TrashLands, TrashFails,
         TrashLandsNowhere, RemoveFails, Scan, ScanDone, ProbeCollision

LEMMA NextProtected ==
    ASSUME LintOnCompute, Inv, AllAllowed, [Next]_vars, NEW w \in Worker, NEW p \in Path
    PROVE  ProtectedAt(w, p)
<1>1. CASE UNCHANGED vars
  BY <1>1 DEF vars, ProtectedAt
<1>2. CASE \E v \in Worker : Start(v) \/ Step(v)
  <2>1. PICK v \in Worker : Start(v) \/ Step(v)
    BY <1>2
  <2>2. CASE v # w
    BY <2>1, <2>2, OthersStill DEF ProtectedAt
  <2>3. CASE v = w
    <3>1. CASE Start(w)
      <4>1. file' = file
        BY <3>1 DEF Start, StartWrite, StartAtom, StartCompute, StartDelete, StartMove,
                    StartAudit, Begin
      <4> QED
        BY <4>1 DEF ProtectedAt
    <3>2. CASE PutLands(w) \/ PutFails(w)
      <4>1. wk[w].pc = "put" /\ (Store(w, wk[w].dst, wk[w].new) \/ file' = file)
        BY <3>2 DEF PutLands, PutFails
      <4> QED
        BY <4>1, PutProtected DEF ProtectedAt
    <3>3. CASE Remove(w)
      BY <3>3, RemoveProtected
    <3>4. CASE Step(w) /\ ~PutLands(w) /\ ~PutFails(w) /\ ~Remove(w)
      BY <3>4, OthersKeepFile DEF ProtectedAt
    <3> QED
      BY <2>1, <2>3, <3>1, <3>2, <3>3, <3>4
  <2> QED
    BY <2>2, <2>3
<1>3. CASE Human
  BY <1>3 DEF Human, HumanSave, HumanDelete, ProtectedAt, Changes
<1>4. CASE Crash
  BY <1>4 DEF Crash, Keep, ProtectedAt
<1> QED
  BY <1>1, <1>2, <1>3, <1>4 DEF Next

LEMMA InitAllowed == Init => Inv /\ AllAllowed
<1>1. Init => Inv
  BY InitTypes, InitFits DEF Inv
<1>2. Init => AllAllowed
  BY IdleAllowed DEF Init, AllAllowed
<1> QED
  BY <1>1, <1>2

\* With compute linted (VAULT_MCP_MATERIALIZE_LINT) and PUTs that do what they say, the
\* directories' rules are kept between the check and the write, but for the two removals of
\* RemovedUnasked: for any rules, any number of requests, whoever else saves, and whatever
\* fails.
THEOREM RulesAreKept == ~PutLies /\ LintOnCompute => (Spec => ProtectionHolds)
<1> SUFFICES ASSUME ~PutLies, LintOnCompute PROVE Spec => ProtectionHolds
  OBVIOUS
<1>1. Init => Inv /\ AllAllowed
  BY InitAllowed
<1>2. Inv /\ AllAllowed /\ [Next]_vars => (Inv /\ AllAllowed)'
  BY NextFits, NextAllowed
<1>3. Inv /\ AllAllowed /\ [Next]_vars =>
        [\A w \in Worker, p \in Path :
          (Changes(w) /\ file'[p] # file[p])
             => \/ ~Barred(p[1], wk[w].actor, wk[w].op = "compute", TouchesBody(w, p))
                \/ RemovedUnasked(w, p)]_vars
  BY NextProtected DEF ProtectedAt
<1> QED
  BY <1>1, <1>2, <1>3, PTL DEF Spec, ProtectionHolds

-----------------------------------------------------------------------------
(* Guarded bodies stay. *)

\* What the step of a worker leaves of the views of the others.
OthersViewKept(w) ==
    \A v \in Worker \ {w} : /\ wk'[v] = wk[v] /\ unseen[v] \subseteq unseen'[v]
                            /\ \A p \in Path \ unseen'[v] : file'[p] = file[p]

LEMMA StoreOthers ==
    ASSUME Inv, NEW w \in Worker, NEW p \in Path, NEW n, Store(w, p, n)
    PROVE  \A v \in Worker \ {w} : /\ unseen[v] \subseteq unseen'[v]
                                   /\ \A q \in Path \ unseen'[v] : file'[q] = file[q]
  BY DEF Store, Inv, TypeInv, TaskType, VaultType

LEMMA OthersView ==
    ASSUME Inv, NEW w \in Worker, Start(w) \/ Step(w)
    PROVE  OthersViewKept(w)
<1>1. \A v \in Worker \ {w} : wk'[v] = wk[v]
  BY OthersStill DEF Changes
<1>2. CASE Start(w)
  <2>1. file' = file /\ unseen' = unseen
    BY <1>2 DEF Start, StartWrite, StartAtom, StartCompute, StartDelete, StartMove,
                StartAudit, Begin
  <2> QED
    BY <1>1, <2>1 DEF OthersViewKept
<1>3. CASE PutLands(w) \/ PutFails(w) \/ Remove(w)
  <2>1. wk[w].dst \in Path /\ wk[w].del \in Path
    BY TaskAtHand DEF Inv
  <2>2. \/ Store(w, wk[w].dst, wk[w].new) \/ Store(w, wk[w].del, None)
        \/ Finish(w) /\ UNCHANGED file
    BY <1>3 DEF PutLands, PutFails, Remove
  <2>3. CASE Finish(w) /\ UNCHANGED file
    BY <1>1, <2>3 DEF Finish, OthersViewKept, Inv, TypeInv, TaskType
  <2> QED
    BY <1>1, <2>1, <2>2, <2>3, StoreOthers DEF OthersViewKept
<1>4. CASE Step(w) /\ ~PutLands(w) /\ ~PutFails(w) /\ ~Remove(w)
  <2>1. file' = file
    BY <1>4, OthersKeepFile
  <2>2. \/ Finish(w) \/ UNCHANGED unseen
        \/ \E p, blind, t : ReadOn(w, p, blind, t)
        \/ \E x : unseen' = [unseen EXCEPT ![w] = x]
    <3>1. CASE ProbeWrite(w) \/ ProbeDelete(w) \/ ProbeSource(w) \/ ProbeDestination(w)
      BY <3>1 DEF ProbeWrite, ProbeDelete, ProbeSource, ProbeDestination
    <3>2. CASE ProbeSlug(w) \/ ReadSource(w) \/ ReadBack(w) \/ DeleteRead(w)
      BY <3>2 DEF ProbeSlug, ReadSource, ReadBack, DeleteRead
    <3>3. CASE PutLandsNowhere(w)
      BY <3>3 DEF PutLandsNowhere
    <3>4. CASE TrashLands(w) \/ TrashFails(w) \/ TrashLandsNowhere(w) \/ RemoveFails(w)
      BY <3>4 DEF TrashLands, TrashFails, TrashLandsNowhere, RemoveFails
    <3>5. CASE Scan(w) \/ ScanDone(w) \/ ProbeCollision(w)
      BY <3>5 DEF Scan, ScanDone, ProbeCollision
    <3> QED
      BY <1>4, <3>1, <3>2, <3>3, <3>4, <3>5 DEF Step
  <2>3. \A v \in Worker \ {w} : unseen'[v] = unseen[v]
    BY <2>2 DEF Finish, ReadOn, Inv, TypeInv, TaskType
  <2> QED
    BY <1>1, <2>1, <2>3 DEF OthersViewKept
<1> QED
  BY <1>2, <1>3, <1>4

LEMMA BodyStep ==
    ASSUME Inv, BodiesFit, NEW w \in Worker, OthersViewKept(w),
           BodyFits(wk'[w], unseen'[w], file')
    PROVE  BodiesFit'
<1>1. ASSUME NEW v \in Worker PROVE BodyFits(wk'[v], unseen'[v], file')
  <2>1. CASE v = w
    BY <2>1
  <2>2. CASE v # w
    <3>1. wk[v].dst \in Path /\ BodyFits(wk[v], unseen[v], file)
      BY TaskAtHand DEF Inv, BodiesFit
    <3>2. /\ wk'[v] = wk[v] /\ unseen[v] \subseteq unseen'[v]
          /\ \A p \in Path \ unseen'[v] : file'[p] = file[p]
      BY <2>2 DEF OthersViewKept
    <3> QED
      BY <3>1, <3>2 DEF BodyFits
  <2> QED
    BY <2>1, <2>2
<1> QED
  BY <1>1 DEF BodiesFit, BodyFits, BodyGuarded

\* A verb that is not about to PUT a body of the caller has nothing to guard.
LEMMA NoBody ==
    ASSUME Inv, NEW w \in Worker, NEW t, Moves(w, t), t.pc # "put" \/ ~t.hasBody
    PROVE  BodyFits(wk'[w], unseen'[w], file')
  BY DEF Moves, BodyFits, Inv, TypeInv, TaskType

LEMMA StartBodies ==
    ASSUME Inv, NEW w \in Worker, Start(w)
    PROVE  \E t : Moves(w, t) /\ (t.pc # "put" \/ ~t.hasBody)
<1>1. ASSUME NEW op, NEW t, Begin(w, op, t), t.pc # "put" \/ ~t.hasBody
      PROVE  \E u : Moves(w, u) /\ (u.pc # "put" \/ ~u.hasBody)
  BY <1>1 DEF Begin, Moves
<1>2. ASSUME NEW p \in Path, StartCompute(w, p)
      PROVE  \E u : Moves(w, u) /\ (u.pc # "put" \/ ~u.hasBody)
  BY <1>1, <1>2 DEF StartCompute, Idle
<1>3. ASSUME NEW p, NEW a, NEW m, NEW b, StartWrite(w, p, a, m, b)
      PROVE  \E u : Moves(w, u) /\ (u.pc # "put" \/ ~u.hasBody)
  BY <1>1, <1>3 DEF StartWrite, Idle
<1>4. ASSUME NEW a, StartAtom(w, a)
      PROVE  \E u : Moves(w, u) /\ (u.pc # "put" \/ ~u.hasBody)
  BY <1>1, <1>4 DEF StartAtom, Idle
<1>5. ASSUME NEW p, NEW a, StartDelete(w, p, a)
      PROVE  \E u : Moves(w, u) /\ (u.pc # "put" \/ ~u.hasBody)
  BY <1>1, <1>5 DEF StartDelete, Idle
<1>6. ASSUME NEW p, NEW q, NEW a, StartMove(w, p, q, a)
      PROVE  \E u : Moves(w, u) /\ (u.pc # "put" \/ ~u.hasBody)
  BY <1>1, <1>6 DEF StartMove, Idle
<1>7. ASSUME NEW s, StartAudit(w, s)
      PROVE  \E u : Moves(w, u) /\ (u.pc # "put" \/ ~u.hasBody)
  BY <1>1, <1>7 DEF StartAudit, Idle
<1> QED
  BY <1>2, <1>3, <1>4, <1>5, <1>6, <1>7 DEF Start

\* Only write_note sends bodies of its caller: an atom is new, an audit sends none.
LEMMA QuietBodies ==
    ASSUME Inv, AllAllowed, NEW w \in Worker, Step(w), ~ProbeWrite(w), ~ReadSource(w)
    PROVE  wk'[w].pc # "put" \/ ~wk'[w].hasBody
<1> DEFINE t == wk[w]
<1>0. /\ t \in Task /\ t.hasBody \in BOOLEAN /\ (t.hasBody => t.op = "write")
      /\ t.pc = "slug" => t.op = "atom"
      /\ t.pc = "scan" => t.op = "audit"
  BY TaskAtHand DEF Inv, ViewsFit, ViewFits, AllAllowed, Allowed, Task
<1>1. (\A u : Moves(w, u) => wk'[w] = u) /\ Idle.pc # "put"
  BY DEF Moves, Idle, Inv, TypeInv, TaskType
<1>2. CASE ProbeDelete(w) \/ ProbeSource(w) \/ ProbeDestination(w)
  <2>1. \/ Moves(w, Idle)
        \/ Moves(w, [t EXCEPT !.pc = "dread", !.del = t.src])
        \/ Moves(w, [t EXCEPT !.pc = "probe2"])
        \/ Moves(w, [t EXCEPT !.pc = "read"])
    BY <1>2 DEF ProbeDelete, ProbeSource, ProbeDestination, ReadOn, Finish, Moves
  <2>2. wk'[w] = Idle \/ wk'[w].pc \in {"dread", "probe2", "read"}
    BY <1>0, <1>1, <2>1 DEF Task
  <2> QED
    BY <1>1, <2>2
<1>3. CASE ProbeSlug(w)
  <2>1. /\ ~t.hasBody
        /\ \/ Moves(w, Idle)
           \/ Moves(w, [t EXCEPT !.slot = @ + 1])
           \/ \E p, n : Moves(w, [t EXCEPT !.pc = "put", !.dst = p, !.new = n])
    BY <1>0, <1>3 DEF ProbeSlug, ReadOn, Finish, Moves
  <2>2. wk'[w] = Idle \/ wk'[w].hasBody = t.hasBody
    BY <1>0, <1>1, <2>1 DEF Task
  <2> QED
    BY <1>1, <2>1, <2>2
<1>4. CASE PutLands(w) \/ PutFails(w) \/ PutLandsNowhere(w)
  <2>1. Moves(w, Idle) \/ Moves(w, AfterPut(t))
    <3>1. CASE PutLands(w)
      BY <3>1 DEF PutLands, Moves
    <3>2. CASE PutFails(w)
      BY <3>2 DEF PutFails, Finish, Moves
    <3>3. CASE PutLandsNowhere(w)
      BY <3>3 DEF PutLandsNowhere, Moves
    <3> QED
      BY <1>4, <3>1, <3>2, <3>3
  <2>2. AfterPut(t).pc # "put"
    BY <1>0 DEF AfterPut, Task, Idle
  <2> QED
    BY <1>1, <2>1, <2>2
<1>5. CASE ReadBack(w) \/ DeleteRead(w)
  <2>1. CASE ReadBack(w)
    <3>1. Moves(w, Idle) \/ \E q : Moves(w, [t EXCEPT !.pc = "dread", !.del = q])
      BY <2>1 DEF ReadBack, ReadOn, Finish, Moves
    <3>2. wk'[w] = Idle \/ wk'[w].pc = "dread"
      BY <1>0, <1>1, <3>1 DEF Task
    <3> QED
      BY <1>1, <3>2
  <2>2. CASE DeleteRead(w)
    <3>1. Moves(w, Idle) \/ \E n : Moves(w, [t EXCEPT !.pc = "dtrash", !.copy = n])
      BY <2>2 DEF DeleteRead, ReadOn, Finish, Moves
    <3>2. wk'[w] = Idle \/ wk'[w].pc = "dtrash"
      BY <1>0, <1>1, <3>1 DEF Task
    <3> QED
      BY <1>1, <3>2
  <2> QED
    BY <1>5, <2>1, <2>2
<1>6. CASE TrashLands(w) \/ TrashFails(w) \/ TrashLandsNowhere(w) \/ Remove(w) \/ RemoveFails(w)
  <2>1. Moves(w, Idle) \/ Moves(w, [t EXCEPT !.pc = "drm"]) \/ Moves(w, AfterDelete(t))
    <3>1. CASE TrashLands(w)
      BY <3>1 DEF TrashLands, Finish, Moves
    <3>2. CASE TrashFails(w) \/ RemoveFails(w)
      BY <3>2 DEF TrashFails, RemoveFails, Finish, Moves
    <3>3. CASE TrashLandsNowhere(w)
      BY <3>3 DEF TrashLandsNowhere, Moves
    <3>4. CASE Remove(w)
      BY <3>4 DEF Remove, Moves
    <3> QED
      BY <1>6, <3>1, <3>2, <3>3, <3>4
  <2>2. AfterDelete(t).pc # "put"
    BY <1>0 DEF AfterDelete, Task, Idle
  <2>3. [t EXCEPT !.pc = "drm"].pc # "put"
    BY <1>0 DEF Task
  <2> QED
    BY <1>1, <2>1, <2>2, <2>3
<1>7. CASE Scan(w) \/ ScanDone(w) \/ ProbeCollision(w)
  <2>1. ~t.hasBody
    BY <1>0, <1>7 DEF Scan, ScanDone, ProbeCollision
  <2>2. wk'[w] = Idle \/ wk'[w].hasBody = t.hasBody
    <3>1. CASE Scan(w)
      <4> DEFINE skip(p) == [t EXCEPT !.todo = @ \ {p}]
                 away(p) == [skip(p) EXCEPT !.pc = "probe2", !.src = p,
                                            !.dst = HomePath(p, file[p]),
                                            !.new = Healed(file[p]), !.copy = file[p]]
                 here(p) == [skip(p) EXCEPT !.pc = "put", !.src = p, !.dst = p,
                                            !.new = Healed(file[p])]
      <4>1. PICK p \in t.todo : Moves(w, skip(p)) \/ Moves(w, away(p)) \/ Moves(w, here(p))
        BY <3>1 DEF Scan, ReadOn, Moves
      <4> QED
        BY <1>0, <1>1, <4>1 DEF Task
    <3>2. CASE ScanDone(w)
      BY <1>1, <3>2 DEF ScanDone, Finish, Moves
    <3>3. CASE ProbeCollision(w)
      <4>1. \/ Moves(w, [t EXCEPT !.pc = "scan", !.new = None, !.copy = None])
            \/ \E q : Moves(w, [t EXCEPT !.pc = "put", !.dst = q, !.copy = None])
        BY <3>3 DEF ProbeCollision, ReadOn, Moves
      <4> QED
        BY <1>0, <1>1, <4>1 DEF Task
    <3> QED
      BY <1>7, <3>1, <3>2, <3>3
  <2> QED
    BY <1>1, <2>1, <2>2
<1> QED
  BY <1>2, <1>3, <1>4, <1>5, <1>6, <1>7 DEF Step

LEMMA WriteBodies ==
    ASSUME Inv, AllAllowed, NEW w \in Worker, ProbeWrite(w) \/ ReadSource(w)
    PROVE  BodyFits(wk'[w], unseen'[w], file')
<1> DEFINE t == wk[w]
           U == unseen[w]
<1>0. /\ t \in Task /\ t.src \in Path /\ (t.op = "write" => t.src = t.dst) /\ file' = file
      /\ t.hasBody \in BOOLEAN /\ (t.hasBody => t.op = "write")
  BY TaskAtHand DEF Inv, ViewsFit, ViewFits, AllAllowed, Allowed, Task, ProbeWrite, ReadSource, Keep
<1>1. CASE Finish(w)
  <2>1. Moves(w, Idle)
    BY <1>1 DEF Finish, Moves
  <2> QED
    BY <2>1, NoBody DEF Idle
<1>2. CASE ProbeWrite(w) /\ ~Finish(w)
  <2> DEFINE v == [t EXCEPT !.pc = "put", !.new = FreshNote(t, t.src[1])]
  <2>1. PICK blind \in Blind : \/ ReadOn(w, t.src, blind, [t EXCEPT !.pc = "read"])
                               \/ ~Exists(t.src, blind) /\ ReadOn(w, t.src, blind, v)
    BY <1>2 DEF ProbeWrite
  <2>2. CASE ReadOn(w, t.src, blind, [t EXCEPT !.pc = "read"])
    BY <1>0, <2>2, NoBody DEF ReadOn, Moves, Task
  <2>3. CASE ~Exists(t.src, blind) /\ ReadOn(w, t.src, blind, v)
    <3>1. wk'[w] = v /\ (blind => t.src \in unseen'[w])
      BY <1>0, <2>3 DEF ReadOn, Inv, TypeInv, TaskType
    <3>2. v.dst = t.src
      BY <1>0, <1>2 DEF Task, ProbeWrite
    <3> QED
      BY <1>0, <2>3, <3>1, <3>2 DEF Exists, BodyFits
  <2> QED
    BY <2>1, <2>2, <2>3
<1>3. CASE ReadSource(w) /\ ~Finish(w)
  <2> DEFINE n == file[t.src]
             m == IF t.op = "move" THEN n ELSE Merged(n, t)
             u == [t EXCEPT !.pc = "put", !.new = m]
  <2>1. PICK blind \in Blind : /\ ~blind /\ ReadOn(w, t.src, blind, u)
                               /\ ~(t.op = "write" /\ t.hasBody /\ BodyGuarded(n, t.actor))
    BY <1>3 DEF ReadSource
  <2>2. wk'[w] = u
    BY <2>1 DEF ReadOn, Inv, TypeInv, TaskType
  <2> HIDE DEF m
  <2>3. u.dst = t.dst /\ u.hasBody = t.hasBody /\ u.actor = t.actor
    BY <1>0 DEF Task
  <2> QED
    BY <1>0, <2>1, <2>2, <2>3 DEF BodyFits
<1> QED
  BY <1>1, <1>2, <1>3

LEMMA NextBodies ==
    ASSUME Inv, AllAllowed, BodiesFit, [Next]_vars
    PROVE  BodiesFit'
<1>1. CASE UNCHANGED vars
  BY <1>1 DEF vars, BodiesFit, BodyFits, BodyGuarded
<1>2. CASE \E w \in Worker : Start(w) \/ Step(w)
  <2>1. PICK w \in Worker : Start(w) \/ Step(w)
    BY <1>2
  <2>2. BodyFits(wk'[w], unseen'[w], file')
    <3>1. CASE Start(w)
      BY <3>1, StartBodies, NoBody
    <3>2. CASE ProbeWrite(w) \/ ReadSource(w)
      BY <3>2, WriteBodies
    <3>3. CASE Step(w) /\ ~ProbeWrite(w) /\ ~ReadSource(w)
      BY <3>3, QuietBodies DEF BodyFits
    <3> QED
      BY <2>1, <3>1, <3>2, <3>3
  <2> QED
    BY <2>1, <2>2, OthersView, BodyStep
<1>3. CASE Human
  <2>1. PICK q \in Path : HumanSave(q) \/ HumanDelete(q)
    BY <1>3 DEF Human
  <2>2. /\ wk' = wk /\ unseen' = [v \in Worker |-> unseen[v] \cup {q}]
        /\ \A p \in Path \ {q} : file'[p] = file[p]
    BY <2>1 DEF HumanSave, HumanDelete, Inv, TypeInv, VaultType
  <2>3. ASSUME NEW v \in Worker PROVE BodyFits(wk'[v], unseen'[v], file')
    <3>1. wk[v].dst \in Path /\ BodyFits(wk[v], unseen[v], file)
      BY TaskAtHand DEF Inv, BodiesFit
    <3> QED
      BY <2>2, <3>1 DEF BodyFits
  <2> QED
    BY <2>3 DEF BodiesFit, BodyFits, BodyGuarded
<1>4. CASE Crash
  <2>1. \A v \in Worker : wk'[v].pc # "put"
    BY <1>4 DEF Crash, Idle
  <2> QED
    BY <2>1 DEF BodiesFit, BodyFits
<1> QED
  BY <1>1, <1>2, <1>3, <1>4 DEF Next

\* What AgentKeepsGuardedBodies asks of one step, one request and one path.
KeepsBodyAt(w, p) ==
    (/\ Changes(w) /\ p \notin unseen[w]
     /\ file[p] # None /\ BodyGuarded(file[p], wk[w].actor)
     /\ file'[p] # None)
       => file'[p].body = file[p].body

LEMMA NextKeepsBodies ==
    ASSUME Inv, AllAllowed, BodiesFit, [Next]_vars, NEW w \in Worker, NEW p \in Path
    PROVE  KeepsBodyAt(w, p)
<1>1. CASE file'[p] = file[p] \/ file'[p] = None \/ ~Changes(w)
  BY <1>1 DEF KeepsBodyAt
<1>2. CASE file'[p] # file[p] /\ file'[p] # None /\ Changes(w)
  <2>1. PICK v \in Worker : Start(v) \/ Step(v)
    BY <1>2 DEF Next, vars, Human, HumanSave, HumanDelete, Crash, Keep, Changes
  <2>2. v = w
    BY <1>2, <2>1, OthersStill
  <2>3. Step(w)
    BY <1>2, <2>1, <2>2 DEF Start, StartWrite, StartAtom, StartCompute, StartDelete,
                            StartMove, StartAudit, Begin
  <2>4. ~Remove(w)
    <3>1. Remove(w) => file' = [file EXCEPT ![wk[w].del] = None]
      BY DEF Remove, Store
    <3> QED
      BY <1>2, <3>1 DEF Inv, TypeInv, VaultType
  <2>5. wk[w].pc = "put" /\ Store(w, wk[w].dst, wk[w].new)
    BY <1>2, <2>3, <2>4, OthersKeepFile DEF PutLands, PutFails
  <2>6. p = wk[w].dst /\ file'[p] = wk[w].new
    BY <1>2, <2>5 DEF Store, Inv, TypeInv, VaultType
  <2>7. SUFFICES ASSUME file[p] # None, p \notin unseen[w], file'[p].body # file[p].body
                 PROVE  ~BodyGuarded(file[p], wk[w].actor)
    BY DEF KeepsBodyAt
  <2>8. wk[w].hasBody
    BY <2>5, <2>6, <2>7, PutTouches DEF TouchesBody
  <2> QED
    BY <2>5, <2>6, <2>7, <2>8 DEF BodiesFit, BodyFits
<1> QED
  BY <1>1, <1>2

\* With PUTs that do what they say, no agent's request that has seen a human's or an external
\* note changes its body in place, through updates, creations, moves and audits that
\* interleave: update_note decides on the note it then replaces.
THEOREM GuardedBodiesStay == ~PutLies => (Spec => AgentKeepsGuardedBodies)
<1> SUFFICES ASSUME ~PutLies PROVE Spec => AgentKeepsGuardedBodies
  OBVIOUS
<1>1. Init => Inv /\ AllAllowed /\ BodiesFit
  <2>1. Init => BodiesFit
    BY DEF Init, BodiesFit, BodyFits, Idle
  <2> QED
    BY <2>1, InitAllowed
<1>2. Inv /\ AllAllowed /\ BodiesFit /\ [Next]_vars => (Inv /\ AllAllowed /\ BodiesFit)'
  BY NextFits, NextAllowed, NextBodies
<1>3. Inv /\ AllAllowed /\ BodiesFit /\ [Next]_vars =>
        [\A w \in Worker, p \in Path :
          (/\ Changes(w) /\ p \notin unseen[w]
           /\ file[p] # None /\ BodyGuarded(file[p], wk[w].actor)
           /\ file'[p] # None)
             => file'[p].body = file[p].body]_vars
  BY NextKeepsBodies DEF KeepsBodyAt
<1> QED
  BY <1>1, <1>2, <1>3, PTL DEF Spec, AgentKeepsGuardedBodies
=============================================================================
