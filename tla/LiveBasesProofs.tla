--------------------------- MODULE LiveBasesProofs ---------------------------
(***************************************************************************)
(* Proofs about LiveBases for any index, sessions and subscriptions:       *)
(* types, that the hashes follow the index, and that the owners are told   *)
(* what was hashed.                                                        *)
(***************************************************************************)
EXTENDS LiveBases, TLAPS

\* When no notice is due and nothing changed in silence, what the worker has
\* not yet to evaluate is hashed as it is; no one subscribes unhooked.
HashesFit ==
  /\ ~ hooked => subs = {}
  /\ ~ silent /\ ~ telling /\ notices = 0 =>
       \A h \in subs \ left : hash[h] = Result

\* A handle whose hash its owner does not know is being pushed, and its owner
\* is still to be sent it; or the push was broken off.
PushFits ==
  \A h \in subs \ skipped :
    told[h] = hash[h] \/ (pushing = h /\ owner[h] \in unsent)

IInv == TypeOK /\ HashesFit /\ PushFits

-----------------------------------------------------------------------------
LEMMA InitIInv == Init => IInv
<1> SUFFICES ASSUME Init PROVE IInv
  OBVIOUS
<1>1. TypeOK
  <2>1. changes \in 0 .. MaxChanges /\ notices \in Nat
    BY ChangesAssumption DEF Init
  <2>2. /\ content \in Entries /\ links \in Maps /\ telling \in BOOLEAN
        /\ rebuilding \in {"off", "walk", "links"}
    BY DEF Init, EntriesInit
  <2>3. /\ owner \in [Handles -> Sessions \cup {None}]
        /\ hash \in [Handles -> SUBSET Files]
        /\ told \in [Handles -> SUBSET Files]
    BY DEF Init
  <2> QED
    BY <2>1, <2>2, <2>3 DEF Init, TypeOK
<1>2. HashesFit /\ PushFits
  BY DEF Init, HashesFit, PushFits
<1> QED
  BY <1>1, <1>2 DEF IInv

\* A result is a set of files.
LEMMA ResultType == Result \subseteq Files
BY DEF Result

\* The index changes: silently, or with a notice.
LEMMA IndexKeeps ==
  ASSUME IInv, IndexStep \/ Notify
  PROVE  IInv'
<1> USE DEF IInv, liveVars, clients, manager, worker
<1>1. CASE IndexStep
  <2>1. /\ content' \in Entries /\ links' \in Maps /\ telling' \in BOOLEAN
        /\ rebuilding' \in {"off", "walk", "links"}
    BY <1>1
    DEF IndexStep, EntriesChange, TypeOK, Entries, Forgotten, PutBack,
        StartRebuild, RebuildFails, EntriesRebuilt, LinksRebuilt
  <2>2. changes' \in 0 .. MaxChanges /\ silent' \in BOOLEAN
    BY <1>1, ChangesAssumption DEF IndexStep, TypeOK
  <2>3. TypeOK'
    BY <1>1, <2>1, <2>2 DEF IndexStep, TypeOK
  <2>4. ~ silent' => ~ silent /\ UNCHANGED <<content, links>>
    BY <1>1 DEF IndexStep
  <2>5. ~ telling' => ~ telling
    BY <1>1
    DEF IndexStep, EntriesChange, TypeOK, Forgotten, PutBack, StartRebuild,
        RebuildFails, EntriesRebuilt, LinksRebuilt
  <2>6. HashesFit'
    BY <1>1, <2>4, <2>5 DEF IndexStep, HashesFit, Result
  <2>7. PushFits'
    BY <1>1 DEF IndexStep, PushFits
  <2> QED
    BY <2>3, <2>6, <2>7
<1>2. CASE Notify
  <2>1. UNCHANGED <<content, links, rebuilding>> /\ telling' = FALSE
    BY <1>2 DEF Notify, Told
  <2>2. notices' = IF hooked THEN notices + 1 ELSE notices
    BY <1>2 DEF Notify
  <2>3. /\ notices' \in Nat /\ content' \in Entries /\ links' \in Maps
        /\ rebuilding' \in {"off", "walk", "links"}
    BY <2>1, <2>2 DEF TypeOK
  <2>7. TypeOK'
    BY <1>2, <2>1, <2>3 DEF Notify, TypeOK, Entries
  <2>4. hooked => notices' # 0
    BY <2>2 DEF TypeOK
  <2>5. HashesFit'
    BY <1>2, <2>1, <2>4 DEF Notify, HashesFit
  <2>6. PushFits'
    BY <1>2 DEF Notify, PushFits
  <2> QED
    BY <2>5, <2>6, <2>7
<1> QED
  BY <1>1, <1>2

\* A client subscribes and is told, or unsubscribes.
LEMMA VerbKeeps ==
  ASSUME IInv, NEW h \in Handles,
         (\E s \in Sessions : Subscribe(s, h)) \/ Unsubscribe(h)
  PROVE  IInv'
<1> USE DEF IInv, index, entriesVars, clients, worker
<1>1. ASSUME NEW s \in Sessions, Subscribe(s, h)
      PROVE  IInv'
  <2>1. owner' \in [Handles -> Sessions \cup {None}] /\ owner'[h] = s
        /\ \A g \in Handles \ {h} : owner'[g] = owner[g]
    BY <1>1 DEF Subscribe, TypeOK
  <2>2. hash' \in [Handles -> SUBSET Files] /\ told' \in [Handles -> SUBSET Files]
        /\ hash'[h] = Result /\ told'[h] = Result
        /\ \A g \in Handles \ {h} : hash'[g] = hash[g] /\ told'[g] = told[g]
    BY <1>1, ResultType DEF Subscribe, TypeOK
  <2>3. s # None /\ pushing # h
    BY <1>1, SessionsAssumption DEF Subscribe, TypeOK
  <2>4. subs' \subseteq {g \in Handles : owner'[g] # None}
        /\ left' \subseteq {g \in Handles : owner'[g] # None}
        /\ pushing' \in {g \in Handles : owner'[g] # None} \cup {None}
    BY <1>1, <2>1, <2>3 DEF Subscribe, TypeOK
  <2>5. TypeOK'
    BY <1>1, <2>1, <2>2, <2>4 DEF Subscribe, TypeOK
  <2>6. HashesFit'
    BY <1>1, <2>2 DEF Subscribe, HashesFit, Result, TypeOK
  <2>7. PushFits'
    BY <1>1, <2>1, <2>2, <2>3 DEF Subscribe, PushFits, TypeOK
  <2> QED
    BY <2>5, <2>6, <2>7
<1>2. CASE Unsubscribe(h)
  <2>1. TypeOK'
    BY <1>2 DEF Unsubscribe, TypeOK
  <2>2. HashesFit' /\ PushFits'
    BY <1>2 DEF Unsubscribe, HashesFit, PushFits, Result
  <2> QED
    BY <2>1, <2>2
<1> QED
  BY <1>1, <1>2

\* The worker evaluates, sends and ends its pushes.
LEMMA WorkKeeps ==
  ASSUME IInv, Work
  PROVE  IInv'
<1> USE SessionsAssumption DEF IInv, index, entriesVars, clients, manager
<1>1. CASE TakeNotice
  BY <1>1 DEF TakeNotice, Working, TypeOK, HashesFit, PushFits, Result
<1>2. ASSUME NEW h \in Handles, CheckUnchanged(h)
      PROVE  IInv'
  BY <1>2 DEF CheckUnchanged, TypeOK, HashesFit, PushFits, Result
<1>3. ASSUME NEW h \in Handles, CheckChanged(h)
      PROVE  IInv'
  <2>1. hash' \in [Handles -> SUBSET Files] /\ hash'[h] = Result
        /\ \A g \in Handles \ {h} : hash'[g] = hash[g]
    BY <1>3, ResultType DEF CheckChanged, TypeOK
  <2>2. owner[h] # None
    BY <1>3 DEF CheckChanged, TypeOK
  <2>3. TypeOK'
    BY <1>3, <2>1, <2>2 DEF CheckChanged, TypeOK
  <2>4. HashesFit'
    BY <1>3, <2>1 DEF CheckChanged, HashesFit, Result, TypeOK
  <2>5. PushFits'
    BY <1>3, <2>1 DEF CheckChanged, PushFits, TypeOK
  <2> QED
    BY <2>3, <2>4, <2>5
<1>4. ASSUME NEW s \in Sessions, Send(s)
      PROVE  IInv'
  <2>1. told' \in [Handles -> SUBSET Files]
        /\ (owner[pushing] = s => told'[pushing] = hash[pushing])
        /\ \A g \in Handles \ {pushing} : told'[g] = told[g]
    BY <1>4 DEF Send, TypeOK
  <2>2. TypeOK'
    BY <1>4, <2>1 DEF Send, TypeOK
  <2>3. HashesFit'
    BY <1>4 DEF Send, HashesFit, Result
  <2>4. PushFits'
    BY <1>4, <2>1 DEF Send, PushFits, TypeOK
  <2> QED
    BY <2>2, <2>3, <2>4
<1>5. ASSUME NEW s \in Sessions, SendFails(s)
      PROVE  IInv'
  BY <1>5 DEF SendFails, TypeOK, HashesFit, PushFits, Result
<1>6. CASE PushEnds
  BY <1>6 DEF PushEnds, TypeOK, HashesFit, PushFits, Result
<1>7. CASE PushRaises
  BY <1>7 DEF PushRaises, TypeOK, HashesFit, PushFits, Result
<1> QED
  BY <1>1, <1>2, <1>3, <1>4, <1>5, <1>6, <1>7 DEF Work

LEMMA Inductive == Spec => []IInv
<1>1. Init => IInv
  BY InitIInv
<1>2. IInv /\ [Next]_vars => IInv'
  <2> SUFFICES ASSUME IInv, [Next]_vars PROVE IInv'
    OBVIOUS
  <2>1. CASE UNCHANGED vars
    BY <2>1
    DEF vars, index, entriesVars, liveVars, clients, manager, worker, IInv,
        TypeOK, HashesFit, PushFits, Result
  <2> QED
    BY <2>1, IndexKeeps, VerbKeeps, WorkKeeps DEF Next
<1> QED
  BY <1>1, <1>2, PTL DEF Spec

-----------------------------------------------------------------------------
\* Every variable keeps its type: nothing is evaluated or pushed that was not
\* subscribed, and nothing is kept of a push that is over (subscriptions).
THEOREM TypeCorrect == Spec => []TypeOK
<1>1. IInv => TypeOK
  BY DEF IInv
<1> QED
  BY <1>1, Inductive, PTL

\* When the worker has emptied its queue, the hashes are those of the index,
\* but for what changed in silence (notify_all, on_file_invalidated).
THEOREM HashesFollow == Spec => []HashesAreCurrent
<1>1. IInv => HashesAreCurrent
  BY DEF IInv, HashesFit, HashesAreCurrent, Quiet, Working
<1> QED
  BY <1>1, Inductive, PTL

\* When the worker rests, the owners know what was hashed, but for pushes
\* that broke off (_push_notification).
THEOREM OwnersFollow == Spec => []OwnersAreTold
<1>1. IInv => OwnersAreTold
  <2> SUFFICES ASSUME IInv, ~ Working, NEW h \in subs \ skipped
               PROVE  told[h] = hash[h]
    BY DEF OwnersAreTold
  <2>1. h \in Handles /\ pushing = None
    BY DEF IInv, TypeOK, Working
  <2>2. pushing # h
    BY <2>1, SessionsAssumption
  <2> QED
    BY <2>2 DEF IInv, PushFits
<1> QED
  BY <1>1, Inductive, PTL
=============================================================================
