------------------------------ MODULE RestEdits ------------------------------
(***************************************************************************)
(* The REST verbs and the client they share.  A call asks the client to    *)
(* send one request; the client first probes Obsidian if it has not heard  *)
(* of it for a while, and refuses at once while a failure is fresh.  The   *)
(* record of that, a flag, a failure count, a backoff and a clock, is one  *)
(* for all threads and has no lock: to mark it takes several assignments,  *)
(* and other threads come in between.  A request that times out may still  *)
(* be carried out; patch_note reads its edit back before it says ok.       *)
(*                                                                         *)
(* Abstracted: one note, as the sequence of edits in it, empty if there is *)
(* no such note; Obsidian answers when it is up and times out when it is   *)
(* not; an answer is used as it arrives, and one that is late or lost is a *)
(* request carried out late.  Obsidian itself is modelled from how the     *)
(* client uses it: it computes a patch on the document in its editor, what *)
(* REST reads may trail that document, and something else may overwrite    *)
(* it.                                                                     *)
(***************************************************************************)
EXTENDS Naturals, Sequences

CONSTANTS
  Calls,        \* tool calls that run at the same time
  Edits,        \* what callers want to write
  Loose,        \* edits made with append_note, or patch_note unguarded
  None,
  Attempts,     \* CONFIRM_ATTEMPTS
  MaxFail,      \* the number of _BACKOFF_STEPS
  Writers,      \* bound: the calls that write
  MaxCalls      \* bound: how often they do

ASSUME LooseAssumption == Loose \subseteq Edits
ASSUME NamesAssumption == None \notin Edits
ASSUME BoundsAssumption == /\ Attempts \in Nat \ {0} /\ MaxFail \in Nat \ {0}
                           /\ MaxCalls \in Nat

VARIABLES
  up,           \* Obsidian answers
  doc,          \* the note in Obsidian's editor
  shown,        \* the note as REST reads it
  late,         \* requests given up by their call and still carried out
  reachable,    \* _reachable: "unknown", "yes" or "no"
  fails,        \* _fail_count, as far as the backoff tells
  ttl,          \* _probe_ttl, in steps of the backoff
  age,          \* time since _last_probed, in the same steps
  due,          \* Calls -> assignments to the record it has still to make
  pc,           \* Calls -> where the call is
  verb,         \* Calls -> [kind, edit, guard]
  expected,     \* Calls -> the document the PATCH was answered with, or <<>>
  tries,        \* Calls -> reads made to confirm it
  calls         \* calls that wrote so far

obsidian == <<up, doc, shown, late>>
record   == <<reachable, fails, ttl, age>>
call     == <<due, pc, verb, expected, tries>>
vars     == <<obsidian, record, call, calls>>

Verb == [kind : {"patch", "append", "field"}, edit : Edits, guard : BOOLEAN]
          \cup [kind : {"read", "health"}, edit : {None}, guard : {FALSE}]

\* Wrong: the header is left out.
AskingUnguarded(kind, e, g) == [kind |-> kind, edit |-> e, guard |-> FALSE]

\* A request, and for a PATCH whether it carries Reject-If-Content-Preexists.
Asking(kind, e, g) == [kind |-> kind, edit |-> e, guard |-> g]

Holds(d, e) == \E i \in 1 .. Len(d) : d[i] = e

-----------------------------------------------------------------------------
\* The client's record of Obsidian.

Assignments == {"count", "backoff", "reset", "fresh"}

\* The flag and the clock are one step: who looks in between sees what it would
\* see before or after.  The count and the backoff follow, as the call's next steps.
MarkUnreachable(c) ==
  /\ reachable' = "no" /\ age' = 0
  /\ due' = [due EXCEPT ![c] = <<"count", "backoff">>]
  /\ UNCHANGED <<fails, ttl>>

MarkReachable(c) ==
  /\ reachable' = "yes" /\ age' = 0
  /\ due' = [due EXCEPT ![c] = <<"reset", "fresh">>]
  /\ UNCHANGED <<fails, ttl>>

NoMark == UNCHANGED <<due, record>>

\* The call has made its assignments.
Settled(c) == due[c] = <<>>

\* Wrong: the backoff goes on past its last step.
ChosenUncapped == fails + 1

\* The step of the backoff for so many failures: -1, the index for none, is the
\* last one.
Chosen == IF fails = 0 THEN MaxFail ELSE fails

\* The next of the assignments.
Assign(c) ==
  /\ ~ Settled(c)
  /\ due' = [due EXCEPT ![c] = Tail(@)]
  /\ LET a == Head(due[c]) IN
       \/ /\ a = "count" /\ fails' = IF fails < MaxFail THEN fails + 1 ELSE fails
          /\ UNCHANGED <<reachable, ttl, age>>
       \/ /\ a = "backoff" /\ ttl' = Chosen
          /\ UNCHANGED <<reachable, fails, age>>
       \/ /\ a = "reset" /\ fails' = 0
          /\ UNCHANGED <<reachable, ttl, age>>
       \/ /\ a = "fresh" /\ ttl' = 1
          /\ UNCHANGED <<reachable, fails, age>>
  /\ UNCHANGED <<obsidian, pc, verb, expected, tries, calls>>

ShouldProbe == reachable = "unknown" \/ age > ttl

Refused == reachable = "no" /\ ~ ShouldProbe

-----------------------------------------------------------------------------
\* The process starts; a request of the one before may be on its way.
Init ==
  /\ up \in BOOLEAN
  /\ doc = <<>> /\ shown = <<>>
  /\ late \in {{}} \cup {{Asking("patch", e, TRUE)} : e \in Edits \ Loose}
  /\ reachable = "unknown" /\ fails = 0 /\ ttl = 1 /\ age = 0
  /\ due = [c \in Calls |-> <<>>]
  /\ pc = [c \in Calls |-> "idle"]
  /\ verb = [c \in Calls |-> Asking("read", None, FALSE)]
  /\ expected = [c \in Calls |-> <<>>]
  /\ tries = [c \in Calls |-> 0]
  /\ calls = 0

Go(c, where) == pc' = [pc EXCEPT ![c] = where]

\* The call returns.
Return(c) ==
  /\ pc' = [pc EXCEPT ![c] = "idle"]
  /\ verb' = [verb EXCEPT ![c] = Asking("read", None, FALSE)]
  /\ expected' = [expected EXCEPT ![c] = <<>>]
  /\ tries' = [tries EXCEPT ![c] = 0]

\* A call starts as it first looks at the record.
Begin(c, v) ==
  /\ pc[c] = "idle" /\ Settled(c)
  /\ Go(c, IF v.kind = "health" \/ ShouldProbe THEN "probe" ELSE "decide")
  /\ verb' = [verb EXCEPT ![c] = v]
  /\ NoMark /\ UNCHANGED <<obsidian, expected, tries>>

Write(c, v) ==
  /\ c \in Writers /\ calls < MaxCalls
  /\ Begin(c, v)
  /\ calls' = calls + 1

\* patch_note, with reject_if_content_preexists or without.
PatchNote(c, e) == Write(c, Asking("patch", e, e \notin Loose))

\* append_note and periodic_append, which have no guard.
AppendNote(c, e) == e \in Loose /\ Write(c, Asking("append", e, FALSE))
AppendPeriodic(c, e) == AppendNote(c, e)

\* set_field; each edit is a field of its own.
SetField(c, e) == e \notin Loose /\ Write(c, Asking("field", e, FALSE))

\* The requests that leave the note alone.
Plain(c) == Begin(c, Asking("read", None, FALSE)) /\ UNCHANGED calls

\* active_note, periodic_note, unsaved_buffer
Read(c) == Plain(c)

\* obsidian_search, and jsonlogic_search, vault_tags and list_directory.
Search(c) == Plain(c)
List(c) == Plain(c)

\* open_in_obsidian, which creates an empty note where there is none.
Open(c) == Plain(c)

\* execute_command, if it is on the list: a command may move the focus, or
\* lint or expand the note, which is one more unguarded edit.
ExecuteCommand(c, allowed) ==
  /\ allowed
  /\ Plain(c) \/ \E e \in Loose : Write(c, Asking("append", e, FALSE))

\* document_map asks for the note it is given or, if told so, the active one.
DocumentMap(c, named, active) == named # active /\ Plain(c)

\* rest_health probes, whatever the record says.
RestHealth(c) == Begin(c, Asking("health", None, FALSE)) /\ UNCHANGED calls

-----------------------------------------------------------------------------
\* _request, and confirm_patch, which reads the note back with it.

At(c, where) == pc[c] = where /\ Settled(c)

\* The PATCH was answered with its document, and the call reads the note back.
Confirming(c) == expected[c] # <<>>

\* Wrong: it is read until it matches.
NotYetForever(c) ==
  /\ Go(c, "ask") /\ tries' = [tries EXCEPT ![c] = 1]
  /\ UNCHANGED <<verb, expected>>

\* The note does not read as expected: once more, or no more.
NotYet(c) ==
  IF tries[c] + 1 < Attempts
  THEN /\ Go(c, "ask") /\ tries' = [tries EXCEPT ![c] = @ + 1]
       /\ UNCHANGED <<verb, expected>>
  ELSE Return(c)

\* _request answers with an error.
Failed(c) == IF Confirming(c) THEN NotYet(c) ELSE Return(c)

\* The next read back.
Ask(c) ==
  /\ At(c, "ask")
  /\ Go(c, IF ShouldProbe THEN "probe" ELSE "decide")
  /\ NoMark /\ UNCHANGED <<obsidian, verb, expected, tries, calls>>

Probe(c) ==
  /\ At(c, "probe")
  /\ IF up THEN MarkReachable(c) ELSE MarkUnreachable(c)
  /\ IF verb[c].kind = "health"
       THEN Return(c)
       ELSE Go(c, "decide") /\ UNCHANGED <<verb, expected, tries>>
  /\ UNCHANGED <<obsidian, calls>>

\* Wrong: a refusal counts as a probe.
RefuseStamping(c) ==
  /\ At(c, "decide") /\ Refused
  /\ Failed(c)
  /\ age' = 0
  /\ UNCHANGED <<obsidian, reachable, fails, ttl, due, calls>>

\* Refused, after what any thread has recorded by now.
Refuse(c) ==
  /\ At(c, "decide") /\ Refused
  /\ Failed(c)
  /\ NoMark /\ UNCHANGED <<obsidian, calls>>

Send(c) ==
  /\ At(c, "decide") /\ ~ Refused
  /\ Go(c, "sent")
  /\ NoMark /\ UNCHANGED <<obsidian, verb, expected, tries, calls>>

\* What Obsidian makes of a request.
Rejects(v) == v.kind = "patch" /\ v.guard /\ Holds(doc, v.edit)

Outcome(v) ==
  IF \/ v.kind = "read" \/ Rejects(v)
     \/ v.kind = "field" /\ Holds(doc, v.edit)
  THEN doc ELSE Append(doc, v.edit)

\* Wrong: a PATCH that is answered is taken for visible.
AnsweredTrusting(c) ==
  /\ up /\ At(c, "sent") /\ ~ Confirming(c)
  /\ doc' = Outcome(verb[c])
  /\ shown' \in {shown, doc'}
  /\ MarkReachable(c)
  /\ IF verb[c].kind = "patch" /\ ~ Rejects(verb[c])
       THEN Go(c, "ok") /\ UNCHANGED <<verb, expected, tries>>
       ELSE Return(c)
  /\ UNCHANGED <<up, late, calls>>

\* Obsidian carries a request out, or rejects it, and answers; REST shows what
\* it did, or not yet.  A PATCH goes on to be confirmed unless its answer carries
\* no document; any other verb returns.
Answered(c) ==
  /\ up /\ At(c, "sent") /\ ~ Confirming(c)
  /\ doc' = Outcome(verb[c])
  /\ shown' \in {shown, doc'}
  /\ MarkReachable(c)
  /\ \/ /\ verb[c].kind = "patch" /\ ~ Rejects(verb[c])
        /\ Go(c, "ask")
        /\ expected' = [expected EXCEPT ![c] = doc']
        /\ UNCHANGED <<verb, tries>>
     \/ Return(c)
  /\ UNCHANGED <<up, late, calls>>

\* It refuses one for another reason: no such note, or an error of its own.
Denied(c) ==
  /\ up /\ At(c, "sent") /\ ~ Confirming(c)
  /\ MarkReachable(c)
  /\ Return(c)
  /\ UNCHANGED <<obsidian, calls>>

\* No answer: the request is lost, or is still to be carried out.  A timeout is
\* recorded; any other transport error raises.
NoAnswer(c) ==
  /\ ~ up /\ At(c, "sent")
  /\ \/ MarkUnreachable(c) /\ Failed(c)
     \/ NoMark /\ Return(c)
  /\ \/ UNCHANGED late
     \/ /\ ~ Confirming(c) /\ verb[c].kind # "read"
        /\ late' = late \cup {verb[c]}
  /\ UNCHANGED <<up, doc, shown, calls>>

ReadMatches(c) ==
  /\ up /\ At(c, "sent") /\ Confirming(c)
  /\ shown = expected[c]
  /\ MarkReachable(c)
  /\ Go(c, "ok")
  /\ UNCHANGED <<obsidian, verb, expected, tries, calls>>

\* It reads otherwise, or the read is refused.
ReadDiffers(c) ==
  /\ up /\ At(c, "sent") /\ Confirming(c)
  /\ MarkReachable(c)
  /\ NotYet(c)
  /\ UNCHANGED <<obsidian, calls>>

\* patch_answer says ok.
Confirm(c) ==
  /\ At(c, "ok")
  /\ Return(c)
  /\ NoMark /\ UNCHANGED <<obsidian, calls>>

-----------------------------------------------------------------------------
\* Around the client.

\* Obsidian stops, hangs, or is back.
Toggle ==
  /\ up' = ~ up
  /\ UNCHANGED <<doc, shown, late, record, call, calls>>

\* It carries out a request nobody waits for.
ServeLate(v) ==
  /\ up /\ v \in late
  /\ late' = late \ {v}
  /\ doc' = Outcome(v)
  /\ shown' \in {shown, doc'}
  /\ UNCHANGED <<up, record, call, calls>>

\* REST reads what the editor holds.
Flush ==
  /\ shown # doc
  /\ shown' = doc
  /\ UNCHANGED <<up, doc, late, record, call, calls>>

\* What was not yet to be read is overwritten, by a sync or another editor.
Overwrite ==
  /\ shown # doc
  /\ doc' = shown
  /\ UNCHANGED <<up, shown, late, record, call, calls>>

Tick ==
  /\ age <= MaxFail
  /\ age' = age + 1
  /\ UNCHANGED <<obsidian, reachable, fails, ttl, call, calls>>

-----------------------------------------------------------------------------
Step(c) ==
  \/ Assign(c)
  \/ Ask(c) \/ Probe(c) \/ Refuse(c) \/ Send(c)
  \/ Answered(c) \/ Denied(c) \/ NoAnswer(c)
  \/ ReadMatches(c) \/ ReadDiffers(c) \/ Confirm(c)

Start(c) ==
  \/ \E e \in Edits : \/ PatchNote(c, e) \/ SetField(c, e)
                      \/ AppendNote(c, e) \/ AppendPeriodic(c, e)
  \/ Read(c) \/ Search(c) \/ List(c) \/ Open(c) \/ RestHealth(c)
  \/ \E given \in BOOLEAN : ExecuteCommand(c, given)
  \/ \E named, active \in BOOLEAN : DocumentMap(c, named, active)

Around ==
  \/ \E v \in Verb : ServeLate(v)
  \/ Toggle \/ Flush \/ Overwrite

Next ==
  \/ \E c \in Calls : Step(c) \/ Start(c)
  \/ Around
  \/ Tick

Spec == Init /\ [][Next]_vars

\* Every request is answered or times out, and time passes.
FairSpec ==
  /\ Spec
  /\ \A c \in Calls : WF_vars(Step(c))
  /\ WF_vars(Tick)

-----------------------------------------------------------------------------
TypeOK ==
  /\ up \in BOOLEAN
  /\ doc \in Seq(Edits)
  /\ shown \in Seq(Edits)
  /\ late \subseteq Verb
  /\ reachable \in {"unknown", "yes", "no"}
  /\ fails \in 0 .. MaxFail
  /\ ttl \in 1 .. MaxFail
  /\ age \in 0 .. MaxFail + 1
  /\ due \in [Calls -> Seq(Assignments)]
  /\ pc \in [Calls -> {"idle", "ask", "probe", "decide", "sent", "ok"}]
  /\ verb \in [Calls -> Verb]
  /\ \A c \in Calls : Confirming(c) => verb[c].kind = "patch"
  /\ expected \in [Calls -> Seq(Edits)]
  /\ tries \in [Calls -> 0 .. Attempts - 1]
  /\ calls \in 0 .. MaxCalls

\* patch_note says ok only of an edit that REST shows at that moment, be the
\* note overwritten, edited by others or flushed late (patch_answer).
OkMeansVisible ==
  [][\A c \in Calls :
       pc'[c] = "ok" /\ pc[c] # "ok" => Holds(shown, verb[c].edit)]_vars

\* An edit made with set_field, or with patch_note and its guard, is in the
\* note once, however often it is called again after a timeout, a refusal or
\* an unconfirmed write, at the same time or late (patch_headers).
RetriesDoNotDuplicate ==
  \A e \in Edits \ Loose, i, j \in 1 .. Len(doc) :
    doc[i] = e /\ doc[j] = e => i = j

\* Every call returns, whether Obsidian is up, down or comes and goes.
CallsEnd == \A c \in Calls : pc[c] # "idle" ~> pc[c] = "idle"

\* Once Obsidian stays up, a client that keeps being asked does not refuse
\* for ever: refusals do not prolong the backoff (_request).
HealthRecovers ==
  (<>[]up /\ []<><<\E c \in Calls : Plain(c)>>_vars) => []<>(reachable = "yes")
=============================================================================
