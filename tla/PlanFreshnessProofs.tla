------------------------- MODULE PlanFreshnessProofs -------------------------
(***************************************************************************)
(* PlanFreshness for every set of plans, every number of concurrent verbs, *)
(* whatever they are called with and whatever fails.                       *)
(***************************************************************************)
EXTENDS PlanFreshness, TLAPS

\* A task of a sweep stays a task when the sweep goes on.
LEMMA NextPlanType ==
    ASSUME NEW t \in SweepType
    PROVE  /\ NextPlan(t) \in SweepType
           /\ Aborted(t) \in SweepType
           /\ NextPlan(t).pc = "vault" /\ NextPlan(t).denied = t.denied
           /\ Aborted(t).pc = "end" /\ Aborted(t).denied = t.denied + 1
<1>1. t.todo \ {t.at} \in SUBSET Plan /\ t.denied + 1 \in Nat
  BY DEF SweepType
<1>2. ASSUME NEW X \in SUBSET Plan PROVE [t EXCEPT !.pc = "vault", !.todo = X] \in SweepType
  BY DEF SweepType
<1>3. NextPlan(t) \in SweepType
  BY <1>1, <1>2 DEF NextPlan
<1>4. Aborted(t) \in SweepType
  BY <1>1 DEF Aborted, SweepType
<1>5. QED
  BY <1>3, <1>4 DEF NextPlan, Aborted, SweepType

LEMMA RestingType == Resting \in SweepType /\ Resting.pc = "idle" /\ Resting.denied = 0
<1>1. AnyPlan \in Plan
  BY PlanAssumption DEF AnyPlan
<1>2. QED
  BY <1>1 DEF Resting, SweepType, Flag

\* One sweep's step changes the task of that sweep alone.
LEMMA GoType ==
    ASSUME NEW s \in Sweeper, NEW t \in SweepType, sw \in [Sweeper -> SweepType], Go(s, t)
    PROVE  /\ sw' \in [Sweeper -> SweepType]
           /\ sw'[s] = t
           /\ \A r \in Sweeper : r # s => sw'[r] = sw[r]
  BY DEF Go

-----------------------------------------------------------------------------
(* Type correctness. *)

LEMMA TypeInit == Init => TypeOK
<1> SUFFICES ASSUME Init PROVE TypeOK
  OBVIOUS
<1>1. [text |-> 0, mtime |-> 0] \in File /\ [text |-> 0, mtime |-> 0, of |-> 0] \in Copy
  BY DEF File, Copy
<1>2. file \in [Plan -> File]
  BY <1>1 DEF Init
<1>3. store \in [Plan -> Copy \cup {None}]
  BY <1>1 DEF Init
<1>4. sw \in [Sweeper -> SweepType]
  BY RestingType DEF Init
<1>5. QED
  BY <1>2, <1>3, <1>4 DEF Init, TypeOK

\* The copy a sweep writes.
LEMMA StoredType ==
    ASSUME NEW t \in SweepType, store \in [Plan -> Copy \cup {None}], Stored(t)
    PROVE  /\ store' \in [Plan -> Copy \cup {None}]
           /\ store'[t.at] = [text |-> t.raw, mtime |-> t.clock, of |-> t.of]
           /\ store'[t.at] # None /\ t.at \in Plan
           /\ \A p \in Plan : p # t.at => store'[p] = store[p]
<1>1. t.at \in Plan /\ [text |-> t.raw, mtime |-> t.clock, of |-> t.of] \in Copy
  BY DEF SweepType, Copy
<1>2. [text |-> t.raw, mtime |-> t.clock, of |-> t.of] # None
  BY <1>1, NoCopyAssumption
<1>3. QED
  BY <1>1, <1>2 DEF Stored

\* What a sweep remembers of the copy it has read.
LEMMA SeenIs ==
    ASSUME NEW t \in SweepType, NEW copy \in Copy \cup {None}
    PROVE  LET u == Seen(t, copy) IN
           /\ u \in SweepType
           /\ u.pc = t.pc /\ u.at = t.at /\ u.raw = t.raw /\ u.mode = t.mode
           /\ u.denied = t.denied
           /\ \A p \in Plan \ {t.at} : u.clocks[p] = t.clocks[p] /\ (p \in u.torn <=> p \in t.torn)
           /\ u.clocks[t.at] = IF copy = None THEN t.clocks[t.at] ELSE copy.mtime
           /\ t.at \in u.torn <=> t.at \in t.torn \/ (copy # None /\ Torn(copy))
<1>1. CASE copy = None
  BY <1>1 DEF Seen, SweepType
<1>2. CASE copy # None
  <2>1. copy \in Copy /\ copy.mtime \in Nat /\ t.at \in Plan
    BY <1>2 DEF Copy, SweepType
  <2> DEFINE C == [t.clocks EXCEPT ![t.at] = copy.mtime]
             X == IF Torn(copy) THEN t.torn \cup {t.at} ELSE t.torn
  <2>2. C \in [Plan -> Nat \cup {None}] /\ X \in SUBSET Plan
    BY <2>1 DEF SweepType
  <2>3. Seen(t, copy) = [t EXCEPT !.clocks = C, !.torn = X]
    BY <1>2 DEF Seen
  <2>4. /\ C[t.at] = copy.mtime /\ \A p \in Plan \ {t.at} : C[p] = t.clocks[p]
        /\ \A p \in Plan \ {t.at} : p \in X <=> p \in t.torn
        /\ t.at \in X <=> t.at \in t.torn \/ Torn(copy)
    BY <2>1 DEF SweepType
  <2> HIDE DEF C, X
  <2>5. ASSUME NEW u, u = [t EXCEPT !.clocks = C, !.torn = X]
        PROVE  /\ u \in SweepType
               /\ u.pc = t.pc /\ u.at = t.at /\ u.raw = t.raw /\ u.mode = t.mode
               /\ u.denied = t.denied /\ u.clocks = C /\ u.torn = X
    BY <2>1, <2>2, <2>5 DEF SweepType
  <2> QED
    BY <1>2, <2>3, <2>4, <2>5
<1> QED
  BY <1>1, <1>2

LEMMA TypeStep == TypeOK /\ [Next]_vars => TypeOK'
<1> SUFFICES ASSUME TypeOK, [Next]_vars PROVE TypeOK'
  OBVIOUS
<1> USE DEF TypeOK
<1>1. ASSUME NEW s \in Sweeper, Start(s) PROVE TypeOK'
  <2>1. PICK mode \in SUBSET Flag, plans \in {Plan} \cup {{p} : p \in Plan} : Begin(s, mode, plans)
    BY <1>1 DEF Start
  <2>2. plans \subseteq Plan
    OBVIOUS
  <2>3. [Resting EXCEPT !.pc = "vault", !.mode = mode, !.todo = plans] \in SweepType
    BY <2>2, RestingType DEF SweepType
  <2>4. QED
    BY <2>1, <2>3, GoType DEF Begin
<1>2. ASSUME NEW s \in Sweeper, NEW p \in Plan, ReadVault(s, p) PROVE TypeOK'
  <2>1. file[p].text \in Nat
    BY DEF File
  <2>2. ASSUME NEW where \in {"gate", "store"}
        PROVE  [sw[s] EXCEPT !.pc = where, !.at = p, !.raw = file[p].text] \in SweepType
    BY <2>1 DEF SweepType
  <2>3. QED
    BY <1>2, <2>2, GoType DEF ReadVault
<1>3. ASSUME NEW s \in Sweeper, ReadVaultFails(s) PROVE TypeOK'
  <2>1. PICK p \in sw[s].todo : Go(s, [sw[s] EXCEPT !.todo = @ \ {p}])
    BY <1>3 DEF ReadVaultFails
  <2>2. [sw[s] EXCEPT !.todo = @ \ {p}] \in SweepType
    BY DEF SweepType
  <2>3. QED
    BY <1>3, <2>1, <2>2, GoType DEF ReadVaultFails
<1>4. ASSUME NEW s \in Sweeper, Gate(s) PROVE TypeOK'
  <2>1. [sw[s] EXCEPT !.pc = "store"] \in SweepType
    BY DEF SweepType
  <2>2. NextPlan(sw[s]) \in SweepType
    BY NextPlanType
  <2>3. QED
    BY <1>4, <2>1, <2>2, GoType DEF Gate
<1>5. ASSUME NEW s \in Sweeper, ReadStore(s) PROVE TypeOK'
  <2> DEFINE seen == Seen(sw[s], store[sw[s].at])
  <2>1. store[sw[s].at] \in Copy \cup {None}
    BY DEF SweepType
  <2>2. seen \in SweepType
    BY <2>1, SeenIs
  <2>3. [seen EXCEPT !.pc = "stat"] \in SweepType /\ NextPlan(seen) \in SweepType
    <3> HIDE DEF seen
    <3> QED
      BY <2>2, NextPlanType DEF SweepType
  <2>4. QED
    BY <1>5, <2>3, GoType DEF ReadStore
<1>6. ASSUME NEW s \in Sweeper, CallRefused(s) PROVE TypeOK'
  BY <1>6, NextPlanType, GoType DEF CallRefused
<1>7. ASSUME NEW s \in Sweeper, ReadStoreFails(s) PROVE TypeOK'
  BY <1>7, NextPlanType, GoType DEF ReadStoreFails
<1>8. ASSUME NEW s \in Sweeper, Stat(s) PROVE TypeOK'
  <2>1. file[sw[s].at].mtime \in Nat /\ file[sw[s].at].text \in Nat
    BY DEF SweepType, File
  <2>2. [sw[s] EXCEPT !.pc = "write", !.clock = file[sw[s].at].mtime,
                      !.of = file[sw[s].at].text] \in SweepType
    BY <2>1 DEF SweepType
  <2>3. QED
    BY <1>8, <2>2, GoType DEF Stat
<1>9. ASSUME NEW s \in Sweeper, WriteStore(s) PROVE TypeOK'
  <2>1. NextPlan(sw[s]) \in SweepType /\ sw[s].at \in Plan
    BY NextPlanType DEF SweepType
  <2>2. [NextPlan(sw[s]) EXCEPT !.pop = @ \cup {sw[s].at},
                               !.torn = IF sw[s].raw = sw[s].of THEN @ \ {sw[s].at}
                                        ELSE @] \in SweepType
    BY <2>1 DEF SweepType
  <2>3. astray' \subseteq Plan
    BY <1>9, <2>1 DEF WriteStore, Stored
  <2>4. QED
    BY <1>9, <2>2, <2>3, GoType, StoredType DEF WriteStore
<1>10. ASSUME NEW s \in Sweeper, WriteStoreFails(s) PROVE TypeOK'
  <2>1. store' \in [Plan -> Copy \cup {None}] /\ astray' \subseteq Plan
    <3>1. sw[s].at \in Plan
      BY DEF SweepType
    <3>2. QED
      BY <1>10, <3>1, StoredType DEF WriteStoreFails, Stored
  <2>2. QED
    BY <1>10, <2>1, NextPlanType, GoType DEF WriteStoreFails
<1>11. ASSUME NEW s \in Sweeper, End(s) PROVE TypeOK'
  <2>1. cache' \in [Plan -> Nat \cup {None}] /\ astray' \subseteq Plan
    BY <1>11 DEF End, SweepType, Misled
  <2>2. QED
    BY <1>11, <2>1, RestingType, GoType DEF End
<1>12. ASSUME NEW p \in Plan, Save(p) PROVE TypeOK'
  <2>1. saves' \in Nat /\ now' \in Nat
    BY <1>12 DEF Save
  <2>2. [text |-> saves', mtime |-> now'] \in File
    BY <2>1 DEF File
  <2>3. QED
    BY <1>12, <2>1, <2>2 DEF Save
<1>13. CASE Restart
  BY <1>13, RestingType DEF Restart
<1>14. CASE UNCHANGED vars
  BY <1>14 DEF vars
<1>15. QED
  BY <1>1, <1>2, <1>3, <1>4, <1>5, <1>6, <1>7, <1>8, <1>9, <1>10, <1>11, <1>12, <1>13, <1>14
     DEF Next, Step

\* Every reachable state is well typed: whatever overlaps or fails, a sweep writes texts and
\* clocks, never a missing one.  (plan_freshness.py sweep_plans, verbs_plan.py _plan_sweep)
THEOREM TypeCorrect == Spec => []TypeOK
  BY TypeInit, TypeStep, PTL DEF Spec

-----------------------------------------------------------------------------
(* What a sweep that is about to write relies on, and its refused calls. *)

\* A sweep only comes to a write with a copy that existed, or asked to populate; and a copy
\* that existed once exists for ever.
WriteFits(s) ==
    sw[s].pc \in {"stat", "write"} =>
        {"refresh", "missing"} \subseteq sw[s].mode \/ store[sw[s].at] # None

\* A refused sweep asks nothing more.
DenialFits(s) ==
    /\ sw[s].denied <= 1
    /\ sw[s].denied = 1 => sw[s].pc = "end"

Inv == TypeOK /\ \A s \in Sweeper : WriteFits(s) /\ DenialFits(s)

\* Copies are never taken away.
LEMMA CopiesStay ==
    ASSUME TypeOK, [Next]_vars, NEW p \in Plan, store[p] # None
    PROVE  store'[p] # None
<1>1. ASSUME NEW s \in Sweeper, Stored(sw[s]) PROVE store'[p] # None
  <2>1. sw[s] \in SweepType
    BY DEF TypeOK
  <2>2. QED
    BY <1>1, <2>1, StoredType DEF TypeOK
<1>2. CASE UNCHANGED store
  BY <1>2
<1>3. UNCHANGED store \/ \E s \in Sweeper : Stored(sw[s])
  BY DEF Next, Start, Step, Begin, ReadVault, ReadVaultFails, Gate, ReadStore, CallRefused,
         ReadStoreFails, Stat, WriteStore, WriteStoreFails, End, Save, Restart, vars
<1>4. QED
  BY <1>1, <1>2, <1>3

\* A step leaves the other sweeps' tasks alone, or the process restarts.
LEMMA OthersStay ==
    ASSUME TypeOK, NEW s \in Sweeper, Start(s) \/ Step(s), NEW r \in Sweeper, r # s
    PROVE  sw'[r] = sw[r]
  BY DEF TypeOK, Start, Step, Go, Begin, ReadVault, ReadVaultFails, Gate, ReadStore,
         CallRefused, ReadStoreFails, Stat, WriteStore, WriteStoreFails, End

\* The sweep that takes the step.
LEMMA OwnStep ==
    ASSUME Inv, NEW s \in Sweeper, Start(s) \/ Step(s)
    PROVE  WriteFits(s)' /\ DenialFits(s)'
<1> USE DEF Inv, TypeOK, WriteFits, DenialFits
<1>0. sw[s] \in SweepType
  OBVIOUS
<1>1. ASSUME NEW t, sw'[s] = t, t.pc \notin {"stat", "write"}, t.denied = 0
      PROVE WriteFits(s)' /\ DenialFits(s)'
  BY <1>1
<1>2. CASE Start(s)
  <2>1. PICK mode \in SUBSET Flag, plans \in {Plan} \cup {{p} : p \in Plan} : Begin(s, mode, plans)
    BY <1>2 DEF Start
  <2>2. sw'[s] = [Resting EXCEPT !.pc = "vault", !.mode = mode, !.todo = plans]
    BY <2>1 DEF Begin, Go
  <2>3. sw'[s].pc = "vault" /\ sw'[s].denied = 0
    BY <2>2 DEF Resting
  <2>4. QED
    BY <2>3
\* An active sweep that has not ended has not been refused.
<1>3. sw[s].pc # "end" => sw[s].denied = 0
  <2>1. sw[s].denied \in Nat
    BY <1>0 DEF SweepType
  <2>2. sw[s].denied <= 1 /\ (sw[s].denied = 1 => sw[s].pc = "end")
    OBVIOUS
  <2>3. QED
    BY <2>1, <2>2
<1>4. CASE \E p \in Plan : ReadVault(s, p)
  <2>1. PICK p \in Plan : ReadVault(s, p)
    BY <1>4
  <2>2. sw'[s].pc \in {"gate", "store"} /\ sw'[s].denied = sw[s].denied /\ sw[s].pc = "vault"
    BY <1>0, <2>1 DEF ReadVault, Go, SweepType
  <2>3. QED
    BY <1>3, <2>2
<1>5. CASE ReadVaultFails(s)
  <2>1. sw'[s].pc = "vault" /\ sw'[s].denied = sw[s].denied /\ sw[s].pc = "vault"
    BY <1>0, <1>5 DEF ReadVaultFails, Go, SweepType
  <2>2. QED
    BY <1>3, <2>1
<1>6. CASE Gate(s)
  <2>1. sw'[s].pc \in {"store", "vault"} /\ sw'[s].denied = sw[s].denied /\ sw[s].pc = "gate"
    BY <1>0, <1>6 DEF Gate, Go, NextPlan, SweepType
  <2>2. QED
    BY <1>3, <2>1
<1>7. CASE ReadStore(s)
  <2> DEFINE t == sw[s]
  <2> DEFINE copy == store[t.at]
  <2> DEFINE seen == Seen(t, copy)
  <2>1. sw'[s] = IF Writes(t.mode, t.raw, copy)
                 THEN [seen EXCEPT !.pc = "stat"] ELSE NextPlan(seen)
    BY <1>7 DEF ReadStore, Go
  <2>2. /\ seen \in SweepType
        /\ seen.denied = t.denied /\ seen.at = t.at /\ seen.mode = t.mode
    <3>1. copy \in Copy \cup {None}
      BY <1>0 DEF SweepType
    <3>2. QED
      BY <1>0, <3>1, SeenIs
  <2> HIDE DEF seen
  <2>3. /\ NextPlan(seen).pc = "vault" /\ NextPlan(seen).denied = seen.denied
        /\ [seen EXCEPT !.pc = "stat"].pc = "stat"
        /\ [seen EXCEPT !.pc = "stat"].denied = seen.denied
        /\ [seen EXCEPT !.pc = "stat"].at = seen.at
        /\ [seen EXCEPT !.pc = "stat"].mode = seen.mode
    BY <2>2, NextPlanType DEF SweepType
  <2>4. sw[s].pc = "store" /\ store' = store
    BY <1>7 DEF ReadStore
  <2>5. CASE Writes(t.mode, t.raw, copy)
    <3>1. sw'[s].pc = "stat" /\ sw'[s].denied = t.denied /\ sw'[s].at = t.at /\ sw'[s].mode = t.mode
      BY <2>1, <2>2, <2>3, <2>5
    <3>2. copy # None \/ {"refresh", "missing"} \subseteq t.mode
      BY <2>5 DEF Writes, Compare
    <3>3. QED
      BY <1>3, <2>4, <3>1, <3>2
  <2>6. CASE ~Writes(t.mode, t.raw, copy)
    <3>1. sw'[s].pc = "vault" /\ sw'[s].denied = t.denied
      BY <2>1, <2>2, <2>3, <2>6
    <3>2. QED
      BY <1>3, <2>4, <3>1
  <2>7. QED
    BY <2>5, <2>6
<1>8. CASE CallRefused(s)
  <2>1. sw'[s].pc = "end" /\ sw'[s].denied = sw[s].denied + 1 /\ sw[s].pc # "end"
    BY <1>0, <1>8, NextPlanType DEF CallRefused, Go
  <2>2. QED
    BY <1>3, <2>1
<1>9. CASE ReadStoreFails(s)
  <2>1. sw'[s].pc = "vault" /\ sw'[s].denied = sw[s].denied /\ sw[s].pc = "store"
    BY <1>0, <1>9, NextPlanType DEF ReadStoreFails, Go
  <2>2. QED
    BY <1>3, <2>1
<1>10. CASE Stat(s)
  <2>1. /\ sw'[s].pc = "write" /\ sw'[s].denied = sw[s].denied /\ sw[s].pc = "stat"
        /\ sw'[s].at = sw[s].at /\ sw'[s].mode = sw[s].mode /\ store' = store
    BY <1>0, <1>10 DEF Stat, Go, SweepType
  <2>2. QED
    BY <1>3, <2>1
<1>11. CASE WriteStore(s)
  <2>1. NextPlan(sw[s]) \in SweepType /\ NextPlan(sw[s]).pc = "vault"
        /\ NextPlan(sw[s]).denied = sw[s].denied
    BY <1>0, NextPlanType
  <2>2. sw'[s].pc = "vault" /\ sw'[s].denied = sw[s].denied /\ sw[s].pc = "write"
    BY <1>0, <1>11, <2>1 DEF WriteStore, Go, SweepType
  <2>3. QED
    BY <1>3, <2>2
<1>12. CASE WriteStoreFails(s)
  <2>1. sw'[s].pc = "vault" /\ sw'[s].denied = sw[s].denied /\ sw[s].pc = "write"
    BY <1>0, <1>12, NextPlanType DEF WriteStoreFails, Go
  <2>2. QED
    BY <1>3, <2>1
<1>13. CASE End(s)
  <2>1. sw'[s].pc = "idle" /\ sw'[s].denied = 0
    BY <1>13, RestingType DEF End, Go
  <2>2. QED
    BY <2>1
<1>14. QED
  BY <1>2, <1>4, <1>5, <1>6, <1>7, <1>8, <1>9, <1>10, <1>11, <1>12, <1>13 DEF Step

LEMMA InvInit == Init => Inv
<1> SUFFICES ASSUME Init PROVE Inv
  OBVIOUS
<1>1. \A s \in Sweeper : sw[s] = Resting
  BY DEF Init
<1>2. QED
  BY <1>1, TypeInit, RestingType DEF Inv, WriteFits, DenialFits

LEMMA InvStep == Inv /\ [Next]_vars => Inv'
<1> SUFFICES ASSUME Inv, [Next]_vars PROVE Inv'
  OBVIOUS
<1>1. TypeOK /\ TypeOK'
  BY TypeStep DEF Inv
<1>2. ASSUME NEW r \in Sweeper, sw'[r] = sw[r] PROVE WriteFits(r)' /\ DenialFits(r)'
  <2>1. sw[r] \in SweepType /\ sw[r].at \in Plan
    BY <1>1 DEF TypeOK, SweepType
  <2>2. store[sw[r].at] # None => store'[sw[r].at] # None
    BY <1>1, <2>1, CopiesStay
  <2>3. QED
    BY <1>2, <2>2 DEF Inv, WriteFits, DenialFits
<1>3. ASSUME NEW s \in Sweeper, Start(s) \/ Step(s), NEW r \in Sweeper
      PROVE WriteFits(r)' /\ DenialFits(r)'
  <2>1. CASE r = s
    BY <1>3, <2>1, OwnStep
  <2>2. CASE r # s
    BY <1>1, <1>2, <1>3, <2>2, OthersStay
  <2>3. QED
    BY <2>1, <2>2
<1>4. ASSUME NEW r \in Sweeper, Restart PROVE WriteFits(r)' /\ DenialFits(r)'
  <2>1. sw'[r] = Resting
    BY <1>4 DEF Restart
  <2>2. QED
    BY <2>1, RestingType DEF WriteFits, DenialFits
<1>5. ASSUME NEW r \in Sweeper, UNCHANGED sw PROVE WriteFits(r)' /\ DenialFits(r)'
  BY <1>2, <1>5
<1>6. ASSUME NEW p \in Plan, Save(p) PROVE UNCHANGED sw
  BY <1>6 DEF Save
<1>7. \A r \in Sweeper : WriteFits(r)' /\ DenialFits(r)'
  BY <1>3, <1>4, <1>5, <1>6 DEF Next, vars
<1>8. QED
  BY <1>1, <1>7 DEF Inv

LEMMA PopulateStep ==
    ASSUME Inv, [Next]_vars, NEW p \in Plan, store[p] = None, store'[p] # None
    PROVE  \E s \in Sweeper : /\ sw[s].at = p /\ {"refresh", "missing"} \subseteq sw[s].mode
                              /\ sw[s].pc = "write" /\ sw'[s] # sw[s]
<1>1. PICK s \in Sweeper : \/ WriteStore(s)
                           \/ WriteStoreFails(s) /\ Stored(sw[s])
  BY DEF Next, Start, Step, Begin, ReadVault, ReadVaultFails, Gate, ReadStore, CallRefused,
         ReadStoreFails, Stat, WriteStore, WriteStoreFails, End, Save, Restart, vars
<1>2. sw[s] \in SweepType /\ Stored(sw[s]) /\ sw[s].pc = "write"
  BY <1>1 DEF Inv, TypeOK, WriteStore, WriteStoreFails
<1>3. sw[s].at = p
  BY <1>2, StoredType DEF Inv, TypeOK
<1>4. {"refresh", "missing"} \subseteq sw[s].mode
  BY <1>2, <1>3 DEF Inv, WriteFits
<1>5. NextPlan(sw[s]) \in SweepType /\ NextPlan(sw[s]).pc = "vault"
  BY <1>2, NextPlanType
<1>6. sw'[s].pc = "vault"
  <2>1. CASE WriteStoreFails(s)
    BY <1>5, <2>1 DEF Inv, TypeOK, WriteStoreFails, Go
  <2>2. CASE WriteStore(s)
    <3>1. sw'[s] = [NextPlan(sw[s]) EXCEPT !.pop = @ \cup {sw[s].at},
                                          !.torn = IF sw[s].raw = sw[s].of
                                                   THEN @ \ {sw[s].at} ELSE @]
      BY <2>2 DEF Inv, TypeOK, WriteStore, Go
    <3> QED
      BY <1>5, <3>1 DEF SweepType
  <2> QED
    BY <1>1, <2>1, <2>2
<1>7. QED
  BY <1>2, <1>3, <1>4, <1>6

\* However sweeps overlap, only one that was asked to populates the store: a refresh, a
\* backfill or the loop never creates the copy of a plan that has none.
\* (plan_freshness.py sweep_plans)
THEOREM PopulatingIsAsked == Spec => OnlyPopulateCreates
<1>1. Inv /\ [Next]_vars =>
        [\A p \in Plan :
          (store[p] = None /\ store'[p] # None)
             => \E s \in Sweeper : sw[s].at = p /\ {"refresh", "missing"} \subseteq sw[s].mode
                                   /\ sw[s].pc = "write" /\ sw'[s] # sw[s]]_vars
  BY PopulateStep
<1>2. QED
  BY <1>1, InvInit, InvStep, PTL DEF Spec, OnlyPopulateCreates

\* A gateway that refuses the caller is asked once per sweep, however many plans there are.
\* (plan_freshness.py sweep_plans)
THEOREM RefusedOnce == Spec => []OneDenialPerSweep
<1>1. Inv => OneDenialPerSweep
  BY DEF Inv, DenialFits, OneDenialPerSweep
<1>2. QED
  BY <1>1, InvInit, InvStep, PTL DEF Spec

-----------------------------------------------------------------------------
(* The loop's cheap gate.                                                                     *)

\* No clock or text is ahead of the file's, and there is no clock without a copy.
Behind(p) ==
    /\ file[p].mtime <= now /\ file[p].text <= saves
    /\ store[p] # None => store[p].mtime <= file[p].mtime /\ store[p].text <= file[p].text
    /\ cache[p] # None => cache[p] <= file[p].mtime /\ store[p] # None

\* The same of what a sweep has at hand.
TaskBehind(t, p) ==
    /\ t.clocks[p] # None => t.clocks[p] <= file[p].mtime /\ store[p] # None
    /\ t.at = p /\ t.pc \in {"gate", "store", "stat", "write"} => t.raw <= file[p].text
    /\ t.at = p /\ t.pc = "write" => t.clock <= file[p].mtime

\* A cached clock that is not outdated is that of a fresh copy, a stored one that of the file's
\* text.
Vouched(p) ==
    /\ ~ Outdated(cache[p], p) => Fresh(p)
    /\ store[p] # None /\ ~ Outdated(store[p].mtime, p) => store[p].of = file[p].text

\* So is a clock a sweep is going to cache, unless it was torn; and what it writes meanwhile
\* has a clock as recent.
TaskVouched(t, p) ==
    /\ ~ Outdated(t.clocks[p], p) /\ p \notin t.torn => Fresh(p)
    /\ t.at = p /\ t.pc = "write" =>
         /\ ~ Outdated(t.clock, p) => t.of = file[p].text
         /\ ~ Outdated(t.clocks[p], p) => ~ Outdated(t.clock, p)

Task(t, p) == TaskBehind(t, p) /\ (p \notin astray => TaskVouched(t, p))

GateFits ==
    \A p \in Plan : /\ Behind(p)
                    /\ p \notin astray => Vouched(p)
                    /\ \A s \in Sweeper : Task(sw[s], p)

\* What a plan's clocks and texts are, and a task's.
LEMMA PlanTypes ==
    ASSUME TypeOK, NEW p \in Plan
    PROVE  /\ file[p].mtime \in Nat /\ file[p].text \in Nat /\ now \in Nat /\ saves \in Nat
           /\ cache[p] \in Nat \cup {None} /\ None \notin Nat
           /\ store[p] # None => /\ store[p].mtime \in Nat /\ store[p].text \in Nat
                                /\ store[p].of \in Nat
<1>1. file[p] \in File /\ store[p] \in Copy \cup {None} /\ cache[p] \in Nat \cup {None}
  BY DEF TypeOK
<1> QED
  BY <1>1, PlanAssumption DEF File, Copy, TypeOK

LEMMA TaskTypes ==
    ASSUME NEW t \in SweepType, NEW p \in Plan
    PROVE  /\ t.clocks[p] \in Nat \cup {None} /\ t.raw \in Nat /\ t.clock \in Nat
           /\ t.of \in Nat /\ t.at \in Plan /\ None \notin Nat
BY PlanAssumption DEF SweepType

\* A sweep that takes a step on its own.
LEMMA TaskStep ==
    ASSUME TypeOK, GateFits, NEW s \in Sweeper, NEW u, Go(s, u),
           UNCHANGED <<file, store, cache, saves, now, astray>>,
           \A p \in Plan : Task(u, p)
    PROVE  GateFits'
<1>1. \A r \in Sweeper : sw'[r] = IF r = s THEN u ELSE sw[r]
  BY DEF Go, TypeOK
<1>2. ASSUME NEW p \in Plan PROVE Behind(p)' /\ (p \notin astray => Vouched(p))'
  BY <1>2 DEF GateFits, Behind, Vouched, Outdated, Fresh
<1>3. ASSUME NEW p \in Plan, NEW r \in Sweeper PROVE Task(sw[r], p)'
  <2>1. PICK t : t = sw'[r] /\ Task(t, p)
    BY <1>1 DEF GateFits
  <2>2. Task(sw[r], p)' <=> Task(t, p)
    BY <2>1 DEF Task, TaskBehind, TaskVouched, Outdated, Fresh
  <2> QED
    BY <2>1, <2>2
<1> QED
  BY <1>2, <1>3 DEF GateFits

\* A sweep that begins has no clocks.
LEMMA BlankTask ==
    ASSUME TypeOK, NEW u, NEW p \in Plan, u.clocks[p] = None,
           u.pc \notin {"gate", "store", "stat", "write"}
    PROVE  Task(u, p)
BY DEF Task, TaskBehind, TaskVouched, Outdated

\* A sweep that goes on, and neither stats nor writes.
LEMMA SameTask ==
    ASSUME TypeOK, GateFits, NEW s \in Sweeper, NEW u, NEW p \in Plan,
           u.clocks = sw[s].clocks, u.torn = sw[s].torn, u.pc # "write",
           u.pc \in {"gate", "store", "stat"} =>
              \/ /\ sw[s].pc \in {"gate", "store", "stat"}
                 /\ u.at = sw[s].at /\ u.raw = sw[s].raw
              \/ u.raw = file[u.at].text
    PROVE  Task(u, p)
<1>1. Task(sw[s], p) /\ Behind(p)
  BY DEF GateFits
<1>2. TaskBehind(u, p)
  BY <1>1, PlanTypes DEF Task, TaskBehind
<1>3. p \notin astray => TaskVouched(u, p)
  BY <1>1 DEF Task, TaskVouched
<1> QED
  BY <1>2, <1>3 DEF Task

\* The copy at hand is read: a clock that is not outdated came with the file's text, or the copy
\* was torn.
LEMMA ReadStoreKeeps ==
    ASSUME TypeOK, GateFits, NEW s \in Sweeper, ReadStore(s)
    PROVE  GateFits'
<1> DEFINE t == sw[s]
           copy == store[t.at]
           u == Seen(t, copy)
           v == IF Writes(t.mode, t.raw, copy) THEN [u EXCEPT !.pc = "stat"] ELSE NextPlan(u)
<1>1. /\ t \in SweepType /\ t.at \in Plan /\ copy \in Copy \cup {None} /\ t.pc = "store"
  BY DEF ReadStore, TypeOK, SweepType
<1>2. /\ u \in SweepType
      /\ u.pc = t.pc /\ u.at = t.at /\ u.raw = t.raw
      /\ \A p \in Plan \ {t.at} : u.clocks[p] = t.clocks[p] /\ (p \in u.torn <=> p \in t.torn)
      /\ u.clocks[t.at] = IF copy = None THEN t.clocks[t.at] ELSE copy.mtime
      /\ t.at \in u.torn <=> t.at \in t.torn \/ (copy # None /\ Torn(copy))
  BY <1>1, SeenIs
<1> HIDE DEF u
<1>3. /\ v.clocks = u.clocks /\ v.torn = u.torn /\ v.at = u.at /\ v.raw = u.raw
      /\ v.pc \in {"stat", "vault"}
  BY <1>2 DEF NextPlan, SweepType
<1>4. Go(s, v) /\ UNCHANGED <<file, store, cache, saves, now, astray>>
  BY DEF ReadStore, u
<1> HIDE DEF v, t
<1>5. ASSUME NEW p \in Plan PROVE Task(v, p)
  <2>1. Behind(p) /\ (p \notin astray => Vouched(p)) /\ Task(t, p)
    BY DEF GateFits, t
  <2>2. CASE p # t.at
    BY <1>2, <1>3, <2>1, <2>2 DEF Task, TaskBehind, TaskVouched
  <2>3. CASE p = t.at /\ copy = None
    BY <1>1, <1>2, <1>3, <2>1, <2>3 DEF Task, TaskBehind, TaskVouched
  <2>4. CASE p = t.at /\ copy # None
    <3>1. v.clocks[p] = store[p].mtime /\ store[p] # None
      BY <1>2, <1>3, <2>4
    <3>2. TaskBehind(v, p)
      BY <1>1, <1>2, <1>3, <2>1, <2>4, <3>1 DEF Task, TaskBehind, Behind
    <3>3. p \notin astray /\ p \notin v.torn /\ ~ Outdated(store[p].mtime, p) => Fresh(p)
      BY <1>2, <1>3, <2>1, <2>4, <3>1 DEF Vouched, Torn, Fresh
    <3> QED
      BY <1>3, <3>1, <3>2, <3>3 DEF Task, TaskVouched
  <2> QED
    BY <2>2, <2>3, <2>4
<1> QED
  BY <1>4, <1>5, TaskStep

\* The payload's clock is the file's, and that of its text.
LEMMA StatKeeps ==
    ASSUME TypeOK, GateFits, NEW s \in Sweeper, Stat(s)
    PROVE  GateFits'
<1> DEFINE u == [sw[s] EXCEPT !.pc = "write", !.clock = file[sw[s].at].mtime,
                              !.of = file[sw[s].at].text]
<1>1. /\ Go(s, u) /\ UNCHANGED <<file, store, cache, saves, now, astray>>
      /\ sw[s] \in SweepType /\ sw[s].pc = "stat"
  BY DEF Stat, TypeOK
<1>2. /\ u.pc = "write" /\ u.clock = file[sw[s].at].mtime /\ u.of = file[sw[s].at].text
      /\ u.at = sw[s].at /\ u.raw = sw[s].raw /\ u.clocks = sw[s].clocks
      /\ u.torn = sw[s].torn
  BY <1>1 DEF SweepType
<1> HIDE DEF u
<1>3. ASSUME NEW p \in Plan PROVE Task(u, p)
  <2>1. Behind(p) /\ Task(sw[s], p)
    BY DEF GateFits
  <2> QED
    BY <1>1, <1>2, <2>1, PlanTypes DEF Task, TaskBehind, TaskVouched, Outdated
<1> QED
  BY <1>1, <1>3, TaskStep

\* A text is stored by sweep s.  If the copy was the file's text then so is the new one, or the
\* plan is astray.
LEMMA StoredKeeps ==
    ASSUME TypeOK, GateFits, NEW s \in Sweeper, NEW u, Go(s, u), Stored(sw[s]),
           sw[s].pc = "write", UNCHANGED <<file, cache, saves, now>>,
           u.pc = "vault", u.clocks = sw[s].clocks,
           \/ u.torn = sw[s].torn
           \/ sw[s].raw = sw[s].of /\ u.torn = sw[s].torn \ {sw[s].at}
    PROVE  GateFits'
<1> DEFINE t == sw[s]
<1>1. /\ t \in SweepType /\ t.at \in Plan
      /\ \A r \in Sweeper : sw'[r] = IF r = s THEN u ELSE sw[r]
  BY DEF TypeOK, SweepType, Go
<1>2. /\ store'[t.at] = [text |-> t.raw, mtime |-> t.clock, of |-> t.of]
      /\ store'[t.at] # None
      /\ \A p \in Plan : p # t.at => store'[p] = store[p]
  BY <1>1, StoredType DEF TypeOK
<1>3. /\ \A p \in Plan : p \notin astray' => p \notin astray
      /\ t.at \notin astray' /\ store[t.at] # None => ~ (store[t.at].text > t.raw)
  BY DEF Stored
<1> SUFFICES ASSUME NEW p \in Plan
             PROVE  /\ Behind(p)' /\ (p \notin astray => Vouched(p))'
                    /\ \A r \in Sweeper : Task(sw[r], p)'
  BY DEF GateFits
<1>4. /\ Behind(p) /\ (p \notin astray => Vouched(p))
      /\ \A r \in Sweeper : Task(sw[r], p)
  BY DEF GateFits
<1>5. Task(t, p)
  BY <1>4
<1> HIDE DEF t
<1>6. CASE p # t.at
  <2>1. store'[p] = store[p]
    BY <1>2, <1>6
  <2>2. Behind(p)' /\ (p \notin astray => Vouched(p))'
    BY <1>3, <1>4, <2>1 DEF Behind, Vouched, Outdated, Fresh
  <2>3. ASSUME NEW r \in Sweeper PROVE Task(sw[r], p)'
    <3>1. CASE r # s
      <4>1. Task(sw[r], p) /\ sw'[r] = sw[r]
        BY <1>1, <1>4, <3>1
      <4> QED
        BY <1>3, <2>1, <4>1 DEF Task, TaskBehind, TaskVouched, Outdated, Fresh
    <3>2. CASE r = s
      <4>1. /\ sw'[r] = u /\ u.clocks = t.clocks /\ u.pc = "vault"
            /\ p \in t.torn => p \in u.torn
        BY <1>1, <1>6, <3>2 DEF t
      <4> QED
        BY <1>3, <1>5, <2>1, <4>1 DEF Task, TaskBehind, TaskVouched, Outdated, Fresh
    <3> QED
      BY <3>1, <3>2
  <2> QED
    BY <2>2, <2>3
<1>7. CASE p = t.at
  <2>1. /\ store'[p].text = t.raw /\ store'[p].mtime = t.clock /\ store'[p].of = t.of
        /\ store'[p] # None
    BY <1>2, <1>7
  <2>2. t.raw <= file[p].text /\ t.clock <= file[p].mtime
    BY <1>5, <1>7 DEF Task, TaskBehind, t
  <2>3. Behind(p)'
    BY <1>4, <2>1, <2>2 DEF Behind
  <2>4. p \notin astray' /\ store[p] # None /\ Fresh(p) => Fresh(p)'
    <3>1. t.raw \in Nat /\ file[p].text \in Nat
      BY <1>1, PlanTypes, TaskTypes
    <3> QED
      BY <1>3, <1>7, <2>1, <2>2, <3>1 DEF Fresh
  <2>5. (p \notin astray => Vouched(p))'
    <3> SUFFICES ASSUME p \notin astray' PROVE Vouched(p)'
      OBVIOUS
    <3>1. Vouched(p) /\ TaskVouched(t, p)
      BY <1>3, <1>4, <1>5 DEF Task
    <3>2. ~ Outdated(cache[p], p) => Fresh(p)'
      BY <1>4, <2>4, <3>1 DEF Vouched, Behind, Outdated
    <3>3. ~ Outdated(t.clock, p) => t.of = file[p].text
      BY <1>7, <3>1 DEF TaskVouched, t
    <3> QED
      BY <2>1, <3>2, <3>3, PlanTypes, TaskTypes, <1>1 DEF Vouched, Outdated
  <2>6. ASSUME NEW r \in Sweeper PROVE Task(sw[r], p)'
    <3>1. CASE r # s
      <4>1. Task(sw[r], p) /\ sw'[r] = sw[r]
        BY <1>1, <1>4, <3>1
      <4>2. TaskBehind(sw[r], p)'
        BY <2>1, <4>1 DEF Task, TaskBehind
      <4>3. p \notin astray' => TaskVouched(sw[r], p)'
        BY <1>3, <2>4, <4>1 DEF Task, TaskBehind, TaskVouched, Outdated
      <4> QED
        BY <4>2, <4>3 DEF Task
    <3>2. CASE r = s
      <4>1. sw'[r] = u /\ u.clocks = t.clocks /\ u.pc = "vault"
        BY <1>1, <3>2 DEF t
      <4>2. TaskBehind(sw[r], p)'
        BY <1>5, <2>1, <4>1 DEF Task, TaskBehind
      <4>3. ASSUME p \notin astray', ~ Outdated(t.clocks[p], p), p \notin u.torn
            PROVE  Fresh(p)'
        <5>1. TaskVouched(t, p) /\ TaskBehind(t, p)
          BY <1>3, <1>5, <4>3 DEF Task
        <5>2. CASE p \notin t.torn
          BY <2>4, <4>3, <5>1, <5>2 DEF TaskVouched, TaskBehind, Outdated
        <5>3. CASE t.raw = t.of
          <6>1. t.of = file[p].text
            BY <1>7, <4>3, <5>1 DEF TaskVouched, t
          <6> QED
            BY <2>1, <5>3, <6>1 DEF Fresh
        <5> QED
          BY <4>3, <5>2, <5>3 DEF t
      <4>4. p \notin astray' => TaskVouched(sw[r], p)'
        BY <4>1, <4>3 DEF TaskVouched, Outdated
      <4> QED
        BY <4>2, <4>4 DEF Task
    <3> QED
      BY <3>1, <3>2
  <2> QED
    BY <2>3, <2>5, <2>6
<1> QED
  BY <1>6, <1>7

\* The report is in.
LEMMA EndKeeps ==
    ASSUME TypeOK, GateFits, NEW s \in Sweeper, End(s)
    PROVE  GateFits'
<1>1. /\ UNCHANGED <<file, store, saves, now>>
      /\ \A r \in Sweeper : sw'[r] = IF r = s THEN Resting ELSE sw[r]
  BY DEF End, Go, TypeOK
<1> SUFFICES ASSUME NEW p \in Plan
             PROVE  /\ Behind(p)' /\ (p \notin astray => Vouched(p))'
                    /\ \A r \in Sweeper : Task(sw[r], p)'
  BY DEF GateFits
<1>2. /\ Behind(p) /\ (p \notin astray => Vouched(p))
      /\ \A r \in Sweeper : Task(sw[r], p)
  BY DEF GateFits
<1>3. cache'[p] \in {None, cache[p], sw[s].clocks[p]}
  BY DEF End
<1>m. p \notin astray' => p \notin astray
  BY DEF End
<1>k. p \notin astray' /\ p \in sw[s].torn /\ ~ Outdated(sw[s].clocks[p], p) => Fresh(p)
  BY DEF End, Misled
<1>n. Fresh(p)' <=> Fresh(p)
  BY <1>1 DEF Fresh
<1>4. Task(sw[s], p)
  BY <1>2
<1>5. Behind(p)'
  BY <1>1, <1>2, <1>3, <1>4 DEF Behind, Task, TaskBehind
<1>6. (p \notin astray => Vouched(p))'
  <2> DEFINE c == cache'[p]
  <2> HIDE DEF c
  <2>1. c \in {None, cache[p], sw[s].clocks[p]}
    BY <1>3 DEF c
  <2>2. p \notin astray' /\ ~ Outdated(c, p) => Fresh(p)
    <3>1. CASE c = None
      BY <3>1 DEF Outdated
    <3>2. CASE c = cache[p]
      BY <1>2, <1>m, <3>2 DEF Vouched
    <3>3. CASE c = sw[s].clocks[p]
      BY <1>4, <1>k, <1>m, <3>3 DEF Task, TaskVouched
    <3> QED
      BY <2>1, <3>1, <3>2, <3>3
  <2>3. Outdated(cache[p], p)' <=> Outdated(c, p)
    BY <1>1 DEF Outdated, c
  <2>4. p \notin astray' =>
           (store[p] # None /\ ~ Outdated(store[p].mtime, p) => store[p].of = file[p].text)'
    BY <1>1, <1>2, <1>m DEF Vouched, Outdated
  <2> QED
    BY <1>n, <2>2, <2>3, <2>4 DEF Vouched
<1>7. ASSUME NEW r \in Sweeper PROVE Task(sw[r], p)'
  <2>1. CASE r = s
    <3>1. sw'[r] = Resting /\ Resting.pc = "idle" /\ Resting.clocks[p] = None
      BY <1>1, <2>1 DEF Resting
    <3> QED
      BY <3>1 DEF Task, TaskBehind, TaskVouched, Outdated
  <2>2. CASE r # s
    <3>1. sw'[r] = sw[r] /\ Task(sw[r], p)
      BY <1>1, <1>2, <2>2
    <3>2. TaskBehind(sw[r], p)'
      BY <1>1, <3>1 DEF Task, TaskBehind
    <3>3. p \notin astray' => TaskVouched(sw[r], p)'
      BY <1>1, <1>m, <3>1 DEF Task, TaskVouched, Outdated, Fresh
    <3> QED
      BY <3>2, <3>3 DEF Task
  <2> QED
    BY <2>1, <2>2
<1> QED
  BY <1>5, <1>6, <1>7

\* A plan is saved: every clock of it is outdated now, or it was saved in the same second and
\* is astray.
LEMMA SaveKeeps ==
    ASSUME TypeOK, GateFits, NEW q \in Plan, Save(q)
    PROVE  GateFits'
<1>1. /\ file' = [file EXCEPT ![q] = [text |-> saves', mtime |-> now']]
      /\ saves' = saves + 1 /\ now' \in {now, now + 1} /\ UNCHANGED <<store, cache, sw>>
      /\ astray' = IF now' > file[q].mtime THEN astray \ {q} ELSE astray \cup {q}
  BY DEF Save
<1> SUFFICES ASSUME NEW p \in Plan
             PROVE  /\ Behind(p)' /\ (p \notin astray => Vouched(p))'
                    /\ \A r \in Sweeper : Task(sw[r], p)'
  BY DEF GateFits
<1>2. /\ Behind(p) /\ (p \notin astray => Vouched(p))
      /\ \A r \in Sweeper : Task(sw[r], p)
  BY DEF GateFits
<1>3. CASE p # q
  <2>1. file'[p] = file[p] /\ (p \in astray' <=> p \in astray)
    BY <1>1, <1>3 DEF TypeOK
  <2>2. Behind(p)' /\ (p \notin astray => Vouched(p))'
    BY <1>1, <1>2, <2>1, PlanTypes DEF Behind, Vouched, Outdated, Fresh
  <2>3. ASSUME NEW r \in Sweeper PROVE Task(sw[r], p)'
    BY <1>1, <1>2, <2>1 DEF Task, TaskBehind, TaskVouched, Outdated, Fresh
  <2> QED
    BY <2>2, <2>3
<1>4. CASE p = q
  <2>1. /\ file'[p].mtime = now' /\ file'[p].text = saves + 1 /\ file[p].mtime <= now'
        /\ file[p].text <= saves + 1 /\ now' \in Nat
        /\ p \notin astray' => file[p].mtime < now'
    BY <1>1, <1>2, <1>4, PlanTypes DEF TypeOK, Behind
  <2>2. Behind(p)'
    BY <1>1, <1>2, <2>1, PlanTypes DEF Behind
  <2>3. (p \notin astray => Vouched(p))'
    BY <1>1, <1>2, <2>1, PlanTypes DEF Behind, Vouched, Outdated
  <2>4. ASSUME NEW r \in Sweeper PROVE Task(sw[r], p)'
    <3>1. Task(sw[r], p) /\ sw[r] \in SweepType /\ sw'[r] = sw[r]
      BY <1>1, <1>2 DEF TypeOK
    <3>2. TaskBehind(sw[r], p)'
      BY <1>1, <2>1, <3>1, PlanTypes, TaskTypes DEF Task, TaskBehind
    <3>3. p \notin astray' => TaskVouched(sw[r], p)'
      BY <1>1, <2>1, <3>1, PlanTypes, TaskTypes DEF Task, TaskBehind, TaskVouched, Outdated
    <3> QED
      BY <3>2, <3>3 DEF Task
  <2> QED
    BY <2>2, <2>3, <2>4
<1> QED
  BY <1>3, <1>4

LEMMA GateInit == Init => GateFits
<1> SUFFICES ASSUME Init, NEW p \in Plan
             PROVE  Behind(p) /\ Vouched(p) /\ \A s \in Sweeper : Task(sw[s], p)
  BY DEF GateFits
<1>1. /\ file[p].text = 0 /\ file[p].mtime = 0 /\ now = 0 /\ saves = 0 /\ cache[p] = None
      /\ store[p] # None => store[p].text = 0 /\ store[p].mtime = 0 /\ store[p].of = 0
  BY DEF Init
<1>2. \A s \in Sweeper : sw[s].pc = "idle" /\ sw[s].clocks[p] = None
  BY DEF Init, Resting
<1> QED
  BY <1>1, <1>2 DEF Behind, Vouched, Task, TaskBehind, TaskVouched, Outdated

LEMMA GateStep ==
    ASSUME TypeOK, GateFits, [Next]_vars
    PROVE  GateFits'
<1>1. ASSUME NEW s \in Sweeper, Start(s) PROVE GateFits'
  <2>1. PICK mode \in SUBSET Flag, plans \in {Plan} \cup {{p} : p \in Plan} : Begin(s, mode, plans)
    BY <1>1 DEF Start
  <2> DEFINE u == [Resting EXCEPT !.pc = "vault", !.mode = mode, !.todo = plans]
  <2>2. u.pc = "vault" /\ \A p \in Plan : u.clocks[p] = None
    BY DEF Resting
  <2>3. Go(s, u) /\ UNCHANGED <<file, store, cache, saves, now, astray>>
    BY <2>1 DEF Begin
  <2> HIDE DEF u
  <2> QED
    BY <2>2, <2>3, BlankTask, TaskStep
\* A sweep that goes on without a stat or a write.
<1>2. ASSUME NEW s \in Sweeper, NEW u, Go(s, u),
             UNCHANGED <<file, store, cache, saves, now, astray>>,
             u.clocks = sw[s].clocks, u.torn = sw[s].torn, u.pc # "write",
             u.pc \in {"gate", "store", "stat"} =>
                \/ /\ sw[s].pc \in {"gate", "store", "stat"}
                   /\ u.at = sw[s].at /\ u.raw = sw[s].raw
                \/ u.raw = file[u.at].text
      PROVE  GateFits'
  BY <1>2, SameTask, TaskStep
<1>3. ASSUME NEW s \in Sweeper, NEW p \in Plan, ReadVault(s, p) PROVE GateFits'
  <2>1. PICK where \in {"gate", "store"} :
           Go(s, [sw[s] EXCEPT !.pc = where, !.at = p, !.raw = file[p].text])
    BY <1>3 DEF ReadVault
  <2> DEFINE u == [sw[s] EXCEPT !.pc = where, !.at = p, !.raw = file[p].text]
  <2>2. /\ u.at = p /\ u.raw = file[p].text /\ u.clocks = sw[s].clocks
        /\ u.torn = sw[s].torn /\ u.pc = where
    BY DEF TypeOK, SweepType
  <2> HIDE DEF u
  <2> QED
    BY <1>2, <1>3, <2>1, <2>2 DEF ReadVault, u
<1>4. ASSUME NEW s \in Sweeper, ReadVaultFails(s) PROVE GateFits'
  <2>1. PICK p \in sw[s].todo : Go(s, [sw[s] EXCEPT !.todo = @ \ {p}])
    BY <1>4 DEF ReadVaultFails
  <2> DEFINE u == [sw[s] EXCEPT !.todo = @ \ {p}]
  <2>2. u.pc = "vault" /\ u.clocks = sw[s].clocks /\ u.torn = sw[s].torn
    BY <1>4 DEF ReadVaultFails, TypeOK, SweepType
  <2> HIDE DEF u
  <2> QED
    BY <1>2, <1>4, <2>1, <2>2 DEF ReadVaultFails, u
<1>5. ASSUME NEW s \in Sweeper
      PROVE  /\ NextPlan(sw[s]).pc = "vault" /\ NextPlan(sw[s]).clocks = sw[s].clocks
             /\ NextPlan(sw[s]).torn = sw[s].torn
             /\ Aborted(sw[s]).pc = "end" /\ Aborted(sw[s]).clocks = sw[s].clocks
             /\ Aborted(sw[s]).torn = sw[s].torn
  BY DEF NextPlan, Aborted, TypeOK, SweepType
<1>6. ASSUME NEW s \in Sweeper, Gate(s) PROVE GateFits'
  <2> DEFINE u == [sw[s] EXCEPT !.pc = "store"]
  <2>1. /\ u.pc = "store" /\ u.clocks = sw[s].clocks /\ u.torn = sw[s].torn
        /\ u.at = sw[s].at /\ u.raw = sw[s].raw
    BY DEF TypeOK, SweepType
  <2>2. /\ Go(s, u) \/ Go(s, NextPlan(sw[s]))
        /\ UNCHANGED <<file, store, cache, saves, now, astray>> /\ sw[s].pc = "gate"
    BY <1>6 DEF Gate
  <2> HIDE DEF u
  <2> QED
    BY <1>2, <1>5, <2>1, <2>2
<1>7. ASSUME NEW s \in Sweeper, CallRefused(s) \/ ReadStoreFails(s) PROVE GateFits'
  BY <1>2, <1>5, <1>7 DEF CallRefused, ReadStoreFails
<1>8. ASSUME NEW s \in Sweeper, WriteStore(s) PROVE GateFits'
  <2> DEFINE t == sw[s]
             u == [NextPlan(t) EXCEPT !.pop = @ \cup {t.at},
                                      !.torn = IF t.raw = t.of THEN @ \ {t.at} ELSE @]
  <2>1. NextPlan(t) \in SweepType
    BY NextPlanType DEF TypeOK
  <2>2. /\ u.pc = "vault" /\ u.clocks = t.clocks
        /\ u.torn = IF t.raw = t.of THEN t.torn \ {t.at} ELSE t.torn
    BY <1>5, <2>1 DEF SweepType
  <2>3. /\ Go(s, u) /\ Stored(t) /\ t.pc = "write" /\ UNCHANGED <<file, cache, saves, now>>
    BY <1>8 DEF WriteStore
  <2> HIDE DEF u
  <2> QED
    BY <2>2, <2>3, StoredKeeps
<1>9. ASSUME NEW s \in Sweeper, WriteStoreFails(s) PROVE GateFits'
  <2>1. Go(s, NextPlan(sw[s])) /\ sw[s].pc = "write" /\ UNCHANGED <<file, cache, saves, now>>
    BY <1>9 DEF WriteStoreFails
  <2>2. CASE UNCHANGED <<store, astray>>
    BY <1>2, <1>5, <2>1, <2>2
  <2>3. CASE Stored(sw[s])
    BY <1>5, <2>1, <2>3, StoredKeeps
  <2> QED
    BY <1>9, <2>2, <2>3 DEF WriteStoreFails
<1>10. CASE Restart
  <2>1. /\ UNCHANGED <<file, store, saves, now, astray>>
        /\ \A p \in Plan : cache'[p] = None
        /\ \A r \in Sweeper : sw'[r] = Resting
    BY <1>10 DEF Restart
  <2>2. Resting.pc = "idle" /\ \A p \in Plan : Resting.clocks[p] = None
    BY DEF Resting
  <2> QED
    BY <2>1, <2>2
    DEF GateFits, Behind, Vouched, Task, TaskBehind, TaskVouched, Outdated, Fresh
<1>11. CASE UNCHANGED vars
  BY <1>11
  DEF vars, GateFits, Behind, Vouched, Task, TaskBehind, TaskVouched, Outdated, Fresh
<1> QED
  BY <1>1, <1>3, <1>4, <1>6, <1>7, <1>8, <1>9, <1>10, <1>11, ReadStoreKeeps, StatKeeps,
     EndKeeps, SaveKeeps DEF Next, Step

\* The loop leaves the gate for the next plan only by the gate's own step.
LEMMA SkipStep ==
    ASSUME TypeOK, GateFits, [Next]_vars, NEW p \in Plan \ astray,
           sw["loop"].pc = "gate", sw["loop"].at = p, sw'["loop"].pc = "vault"
    PROVE  Fresh(p)
<1>1. sw["loop"] \in SweepType /\ "loop" \in Sweeper
  BY DEF TypeOK, Sweeper
<1>2. Gate("loop")
  <2>1. ~ Start("loop")
    BY DEF Start, Begin
  <2>2. Step("loop") => Gate("loop")
    BY DEF Step, ReadVault, ReadVaultFails, ReadStore, CallRefused, ReadStoreFails, Stat,
       WriteStore, WriteStoreFails, End
  <2>3. \A q \in Plan : Save(q) => UNCHANGED sw
    BY DEF Save
  <2>4. Restart => sw'["loop"].pc = "idle"
    BY <1>1, RestingType DEF Restart
  <2>5. \A s \in Sweeper : s # "loop" /\ (Start(s) \/ Step(s)) => sw'["loop"] = sw["loop"]
    BY <1>1, OthersStay
  <2> QED
    BY <2>1, <2>2, <2>3, <2>4, <2>5 DEF Next, vars
<1>3. ~ ProbablyStale(p)
  <2>1. CASE ProbablyStale(p)
    <3>1. sw'["loop"] = [sw["loop"] EXCEPT !.pc = "store"]
      BY <1>1, <1>2, <2>1 DEF Gate, Go, TypeOK
    <3> QED
      BY <1>1, <3>1 DEF SweepType
  <2> QED
    BY <2>1
<1> QED
  BY <1>3, PlanTypes DEF ProbablyStale, GateFits, Vouched, Outdated

\* The loop skips a plan only while its copy is the plan's text, or the plan is astray: for any
\* sweeps that overlap, whatever fails, and however saves fall.  (plan_freshness.py
\* is_probably_stale, plan_reconcile.py)
THEOREM SkippedAreFresh == Spec => GateSkipsFreshOnly
<1>1. Init => TypeOK /\ GateFits
  BY TypeInit, GateInit
<1>2. TypeOK /\ GateFits /\ [Next]_vars => (TypeOK /\ GateFits)'
  BY TypeStep, GateStep
<1>3. TypeOK /\ GateFits /\ [Next]_vars =>
        [\A p \in Plan \ astray :
          (sw["loop"].pc = "gate" /\ sw["loop"].at = p /\ sw'["loop"].pc = "vault")
             => Fresh(p)]_vars
  BY SkipStep
<1> QED
  BY <1>1, <1>2, <1>3, PTL DEF Spec, GateSkipsFreshOnly
=============================================================================
