------------------------------ MODULE LiveBases ------------------------------
(***************************************************************************)
(* Subscriptions to Bases, on top of the index.  A subscription is the     *)
(* result a client was last told and a hash of it in the server.  The      *)
(* index's callback puts a notice on a queue of the event loop; one worker *)
(* takes the notices, evaluates every subscription against the index as it *)
(* is then, and where the hash differs records the new one and pushes the  *)
(* result to each connected session, one awaited send after the other.     *)
(* Verbs run between the sends; the watcher's thread runs at any time.     *)
(*                                                                         *)
(* Of the index only the entries and the links matter: IndexEntries.tla,   *)
(* which VaultIndex.tla implements.                                        *)
(*                                                                         *)
(* Abstracted: a result is the set of notes that match, by their           *)
(* frontmatter and the links of the vault, its hash the set itself; it is  *)
(* evaluated in one step; notices are counted, not told apart (the worker  *)
(* does not look at their path); the .base text is constant.               *)
(***************************************************************************)
EXTENDS IndexEntries, Naturals

CONSTANTS
  Sessions,     \* clients
  Handles,      \* handles of subscriptions, each given out once
  Matching,     \* the files, frontmatters and links the base accepts
  MaxChanges    \* bound: steps of the index

ASSUME MatchingAssumption == Matching \subseteq Files \X Front \X Maps
ASSUME SessionsAssumption == None \notin Sessions \cup Handles
ASSUME ChangesAssumption == MaxChanges \in Nat

VARIABLES
  changes,      \* steps the index has made
  hooked,       \* the manager's callback is registered with the index
  owner,        \* Handles -> the session that subscribed, or None
  subs,         \* handles of the manager
  hash,         \* Handles -> result last recorded
  told,         \* Handles -> result its owner was last sent
  sessions,     \* sessions known to be connected
  notices,      \* length of the worker's queue
  left,         \* the worker: handles it has yet to evaluate
  pushing,      \* the handle it pushes, or None
  unsent,       \* sessions that are still to be sent it
  joined,       \* the set of sessions has grown since the push began
  gone,         \* sessions whose send failed in this push
  silent,       \* entries or links changed, and no callback followed (history)
  skipped       \* handles whose owner the last push did not reach (history)

index   == <<entriesVars, changes>>
clients == <<owner, told, skipped>>
manager == <<hooked, subs, hash>>
worker  == <<notices, left, pushing, unsent, joined, gone>>
liveVars == <<clients, manager, sessions, worker>>
vars == <<index, liveVars, silent>>

-----------------------------------------------------------------------------
\* execute_base over the index as it is.
Result == {f \in Files : <<f, content[f], links>> \in Matching}

Working == left # {} \/ pushing # None

Init ==
  /\ EntriesInit
  /\ changes = 0
  /\ hooked = FALSE
  /\ owner = [h \in Handles |-> None]
  /\ subs = {}
  /\ hash = [h \in Handles |-> {}]
  /\ told = [h \in Handles |-> {}]
  /\ sessions = {}
  /\ notices = 0
  /\ left = {}
  /\ pushing = None
  /\ unsent = {}
  /\ joined = FALSE
  /\ gone = {}
  /\ silent = FALSE
  /\ skipped = {}

-----------------------------------------------------------------------------
\* Verbs, run by the loop between the worker's sends.

\* Wrong: the hash is left for the first notice to record.
SubscribeUnhashed(s, h) ==
  /\ owner[h] = None
  /\ hooked' = TRUE
  /\ owner' = [owner EXCEPT ![h] = s]
  /\ subs' = subs \cup {h}
  /\ UNCHANGED hash
  /\ told' = [told EXCEPT ![h] = Result]
  /\ sessions' = sessions \cup {s}
  /\ joined' = (joined \/ (pushing # None /\ s \notin sessions))
  /\ UNCHANGED <<index, silent, skipped, notices, left, pushing, unsent, gone>>

\* The client gets a handle and the result of now, which is hashed.
Subscribe(s, h) ==
  /\ owner[h] = None
  /\ hooked' = TRUE
  /\ owner' = [owner EXCEPT ![h] = s]
  /\ subs' = subs \cup {h}
  /\ hash' = [hash EXCEPT ![h] = Result]
  /\ told' = [told EXCEPT ![h] = Result]
  /\ sessions' = sessions \cup {s}
  /\ joined' = (joined \/ (pushing # None /\ s \notin sessions))
  /\ UNCHANGED <<index, silent, skipped, notices, left, pushing, unsent, gone>>

Unsubscribe(h) ==
  /\ h \in subs
  /\ subs' = subs \ {h}
  /\ UNCHANGED <<index, silent, clients, hooked, hash, sessions, worker>>

-----------------------------------------------------------------------------
\* The worker.

\* A notice is taken, and the subscriptions of this moment are copied.
TakeNotice ==
  /\ ~ Working /\ notices > 0
  /\ notices' = notices - 1
  /\ left' = subs
  /\ UNCHANGED <<index, silent, clients, manager, sessions, pushing, unsent,
                 joined, gone>>

\* The result is the one the hash was made of.
CheckUnchanged(h) ==
  /\ pushing = None /\ h \in left
  /\ hash[h] = Result
  /\ left' = left \ {h}
  /\ UNCHANGED <<index, silent, clients, manager, sessions, notices, pushing,
                 unsent, joined, gone>>

\* The result is another: its hash is recorded, then the push begins.  The
\* result sent is the one of now, whatever the index says by then.
CheckChanged(h) ==
  /\ pushing = None /\ h \in left
  /\ hash[h] # Result
  /\ left' = left \ {h}
  /\ hash' = [hash EXCEPT ![h] = Result]
  /\ pushing' = h
  /\ unsent' = sessions
  /\ joined' = FALSE
  /\ gone' = {}
  /\ skipped' = IF owner[h] \in sessions THEN skipped ELSE skipped \cup {h}
  /\ UNCHANGED <<index, silent, owner, told, hooked, subs, sessions, notices>>

\* One send is awaited.  A session is every subscriber's: it is sent all
\* handles, its own or not.
Send(s) ==
  /\ pushing # None /\ ~ joined /\ s \in unsent
  /\ unsent' = unsent \ {s}
  /\ IF owner[pushing] = s
       THEN /\ told' = [told EXCEPT ![pushing] = hash[pushing]]
            /\ skipped' = skipped \ {pushing}
       ELSE UNCHANGED <<told, skipped>>
  /\ UNCHANGED <<index, silent, owner, manager, sessions, notices, left,
                 pushing, joined, gone>>

\* The send fails; the session is noted as gone.
SendFails(s) ==
  /\ pushing # None /\ ~ joined /\ s \in unsent
  /\ unsent' = unsent \ {s}
  /\ gone' = gone \cup {s}
  /\ skipped' = IF owner[pushing] = s THEN skipped \cup {pushing} ELSE skipped
  /\ UNCHANGED <<index, silent, owner, told, manager, sessions, notices, left,
                 pushing, joined>>

\* Wrong: the failed sessions are carried over to the next push.
PushEndsCarrying ==
  /\ pushing # None /\ ~ joined /\ unsent = {}
  /\ sessions' = sessions \ gone
  /\ pushing' = None
  /\ UNCHANGED <<index, silent, clients, manager, notices, left, unsent, joined,
                 gone>>

\* The push is over: what failed is forgotten.
PushEnds ==
  /\ pushing # None /\ ~ joined /\ unsent = {}
  /\ sessions' = sessions \ gone
  /\ pushing' = None
  /\ gone' = {}
  /\ UNCHANGED <<index, silent, clients, manager, notices, left, unsent, joined>>

\* Wrong: the worker is lost with the exception.
PushRaisesLost ==
  /\ pushing # None /\ joined
  /\ UNCHANGED vars

\* A session joined while a send was awaited: the iteration over the set
\* raises.  Those left get nothing, and those that failed stay.
PushRaises ==
  /\ pushing # None /\ joined
  /\ skipped' = IF owner[pushing] \in unsent THEN skipped \cup {pushing}
                                             ELSE skipped
  /\ pushing' = None
  /\ unsent' = {}
  /\ joined' = FALSE
  /\ gone' = {}
  /\ UNCHANGED <<index, silent, owner, told, manager, sessions, notices, left>>

Work ==
  \/ TakeNotice
  \/ \E h \in Handles : CheckUnchanged(h) \/ CheckChanged(h)
  \/ \E s \in Sessions : Send(s) \/ SendFails(s)
  \/ PushEnds \/ PushRaises

-----------------------------------------------------------------------------
\* The index's steps, and what they leave untold.

\* Wrong: a worker that is busy is not notified.
NotifyIdleOnly ==
  /\ Told
  /\ notices' = IF hooked /\ ~ Working THEN notices + 1 ELSE notices
  /\ silent' = FALSE
  /\ UNCHANGED <<changes, clients, manager, sessions, left, pushing, unsent,
                 joined, gone>>

\* The callback puts a notice on the loop's queue.
Notify ==
  /\ Told
  /\ notices' = IF hooked THEN notices + 1 ELSE notices
  /\ silent' = FALSE
  /\ UNCHANGED <<changes, clients, manager, sessions, left, pushing, unsent,
                 joined, gone>>

\* The index does anything else.
IndexStep ==
  /\ changes < MaxChanges
  /\ changes' = changes + 1
  /\ EntriesChange
  /\ silent' = (silent \/ <<content, links>>' # <<content, links>>)
  /\ UNCHANGED liveVars

Next ==
  \/ IndexStep
  \/ Notify
  \/ \E s \in Sessions, h \in Handles : Subscribe(s, h)
  \/ \E h \in Handles : Unsubscribe(h)
  \/ Work

Spec == Init /\ [][Next]_vars

\* The loop and the threads run; a send is answered or fails.
FairSpec ==
  /\ Spec
  /\ WF_vars(Notify)
  /\ WF_vars(Work)

-----------------------------------------------------------------------------
TypeOK ==
  /\ content \in Entries /\ links \in Maps /\ telling \in BOOLEAN
  /\ rebuilding \in {"off", "walk", "links"}
  /\ changes \in 0 .. MaxChanges
  /\ hooked \in BOOLEAN
  /\ owner \in [Handles -> Sessions \cup {None}]
  /\ subs \subseteq {h \in Handles : owner[h] # None}
  /\ hash \in [Handles -> SUBSET Files]
  /\ told \in [Handles -> SUBSET Files]
  /\ sessions \subseteq Sessions
  /\ notices \in Nat
  /\ left \subseteq {h \in Handles : owner[h] # None}
  /\ pushing \in {h \in Handles : owner[h] # None} \cup {None}
  /\ pushing = None => unsent = {} /\ gone = {} /\ ~ joined
  /\ unsent \subseteq sessions /\ gone \subseteq sessions
  /\ joined \in BOOLEAN
  /\ silent \in BOOLEAN
  /\ skipped \subseteq Handles

\* The worker and the callbacks are at rest.
Quiet == ~ Working /\ notices = 0 /\ ~ telling

\* Once the worker has worked through its queue, every subscription has been
\* evaluated against the index as it is, but for changes made without a
\* callback: no event is lost between the reading thread, the queue and the
\* copy of the subscriptions, whenever one subscribes (notify_all,
\* on_file_invalidated).
HashesAreCurrent ==
  Quiet /\ ~ silent => \A h \in subs : hash[h] = Result

\* Each subscriber has then been told what was hashed, unless a push broke
\* off before it reached the subscriber (_push_notification).
OwnersAreTold ==
  ~ Working => \A h \in subs \ skipped : told[h] = hash[h]

\* The worker outlives every push that breaks off, and empties its queue.
NoticesEnd == <>[](notices = 0 /\ ~ Working)

\* A subscriber that stays connected is told of every change of its result:
\* when nothing changes any more, it has the result of now.  (Violated: a
\* note that is deleted, or loses its frontmatter, is not announced; and a
\* push that breaks off is not repeated, for its hash has been recorded.)
ChangesAreTold ==
  <>[](\A h \in subs : owner[h] \in sessions => told[h] = Result)
=============================================================================
