--------------------------- MODULE RestEditsProofs ---------------------------
(***************************************************************************)
(* Proofs about RestEdits for any set of calls and edits, any backoff and  *)
(* any number of reads: types, that guarded retries write once, and that   *)
(* an ok was read back.                                                    *)
(***************************************************************************)
EXTENDS RestEdits, TLAPS

Docs == Seq(Edits)
Places == {"idle", "ask", "probe", "decide", "sent", "ok"}

\* No guarded edit is in d twice.
Single(d) ==
  \A e \in Edits \ Loose, i, j \in 1 .. Len(d) : d[i] = e /\ d[j] = e => i = j

\* A request that writes a guarded edit cannot write it a second time.
Careful(v) == v.edit \in Edits \ Loose => \/ v.kind = "field"
                                          \/ v.kind = "patch" /\ v.guard

\* Both views of the note are free of duplicates, since either may become
\* the other, and so is whatever is still to be carried out.
NoteInv ==
  /\ up \in BOOLEAN
  /\ doc \in Docs /\ shown \in Docs
  /\ Single(doc) /\ Single(shown)
  /\ late \subseteq Verb
  /\ \A v \in late : Careful(v) /\ v.kind \in {"patch", "append", "field"}

RecordInv ==
  /\ reachable \in {"unknown", "yes", "no"}
  /\ fails \in 0 .. MaxFail
  /\ ttl \in 1 .. MaxFail
  /\ age \in 0 .. MaxFail + 1
  /\ due \in [Calls -> Seq(Assignments)]

\* A call at a place, with verb v and expecting x: only a PATCH is confirmed,
\* and what it expects holds its edit.
Fits(at, v, x) ==
  /\ Careful(v)
  /\ v.kind = "health" => at \in {"idle", "probe"}
  /\ at = "idle" => x = <<>>
  /\ x # <<>> => v.kind = "patch" /\ Holds(x, v.edit)

CallInv ==
  /\ pc \in [Calls -> Places]
  /\ verb \in [Calls -> Verb]
  /\ expected \in [Calls -> Docs]
  /\ tries \in [Calls -> 0 .. Attempts - 1]
  /\ \A c \in Calls : Fits(pc[c], verb[c], expected[c])

IInv == NoteInv /\ RecordInv /\ CallInv /\ calls \in 0 .. MaxCalls

-----------------------------------------------------------------------------
\* What a request makes of the note.

\* A verb that writes has an edit.
LEMMA WritesEdit ==
  ASSUME NEW v \in Verb, v.kind \notin {"read", "health"}
  PROVE  v.edit \in Edits
BY DEF Verb

\* A note stays a note.
LEMMA OutcomeIsDoc ==
  ASSUME doc \in Docs, NEW v \in Verb, v.kind # "health"
  PROVE  Outcome(v) \in Docs
BY WritesEdit DEF Outcome, Docs

\* Appending what is not there makes no duplicate.
LEMMA AppendSingle ==
  ASSUME NEW d \in Docs, Single(d), NEW e \in Edits,
         e \in Loose \/ ~ Holds(d, e)
  PROVE  Single(Append(d, e))
<1> SUFFICES ASSUME NEW g \in Edits \ Loose,
                    NEW i \in 1 .. Len(Append(d, e)),
                    NEW j \in 1 .. Len(Append(d, e)),
                    Append(d, e)[i] = g, Append(d, e)[j] = g
             PROVE  i = j
  BY DEF Single
<1>1. /\ Len(Append(d, e)) = Len(d) + 1
      /\ Len(d) \in Nat
      /\ \A k \in 1 .. Len(d) : Append(d, e)[k] = d[k]
      /\ Append(d, e)[Len(d) + 1] = e
  BY DEF Docs
<1>2. CASE g = e
  <2>1. \A k \in 1 .. Len(d) : d[k] # e
    BY <1>2 DEF Holds
  <2> QED
    BY <1>1, <1>2, <2>1
<1>3. CASE g # e
  <2>1. i \in 1 .. Len(d) /\ j \in 1 .. Len(d)
    BY <1>1, <1>3
  <2> QED
    BY <1>1, <2>1 DEF Single
<1> QED
  BY <1>2, <1>3

\* A careful request writes no duplicate.
LEMMA OutcomeSingle ==
  ASSUME doc \in Docs, Single(doc), NEW v \in Verb, v.kind # "health", Careful(v)
  PROVE  Single(Outcome(v))
<1>1. CASE Outcome(v) = doc
  BY <1>1
<1>2. CASE /\ Outcome(v) = Append(doc, v.edit)
           /\ v.kind \notin {"read", "health"}
           /\ ~ Rejects(v)
           /\ ~ (v.kind = "field" /\ Holds(doc, v.edit))
  <2>1. v.edit \in Edits
    BY <1>2, WritesEdit
  <2>2. v.edit \in Loose \/ ~ Holds(doc, v.edit)
    BY <1>2, <2>1 DEF Careful, Rejects
  <2> QED
    BY <1>2, <2>1, <2>2, AppendSingle
<1> QED
  BY <1>1, <1>2 DEF Outcome

\* A PATCH that is not rejected leaves its edit in the note.
LEMMA OutcomeHolds ==
  ASSUME doc \in Docs, NEW v \in Verb, v.kind = "patch", ~ Rejects(v)
  PROVE  Holds(Outcome(v), v.edit)
<1>1. Outcome(v) = Append(doc, v.edit) /\ v.edit \in Edits
  BY WritesEdit DEF Outcome
<1>2. /\ Len(Append(doc, v.edit)) = Len(doc) + 1
      /\ Len(doc) \in Nat
      /\ Append(doc, v.edit)[Len(doc) + 1] = v.edit
  BY <1>1 DEF Docs
<1> QED
  BY <1>1, <1>2 DEF Holds

-----------------------------------------------------------------------------
\* The record, the note and the calls, each on its own.

\* Whatever a call marks, and whichever assignment it makes next, the record
\* stays in bounds.
LEMMA RecordKept ==
  ASSUME RecordInv, NEW c \in Calls,
         MarkReachable(c) \/ MarkUnreachable(c) \/ NoMark
  PROVE  RecordInv'
<1>1. <<"count", "backoff">> \in Seq(Assignments)
      /\ <<"reset", "fresh">> \in Seq(Assignments)
  BY DEF Assignments
<1>2. CASE MarkReachable(c)
  BY <1>1, <1>2, BoundsAssumption DEF RecordInv, MarkReachable
<1>3. CASE MarkUnreachable(c)
  BY <1>1, <1>3, BoundsAssumption DEF RecordInv, MarkUnreachable
<1>4. CASE NoMark
  BY <1>4 DEF RecordInv, NoMark, record
<1> QED
  BY <1>2, <1>3, <1>4

LEMMA AssignKeeps ==
  ASSUME RecordInv, NEW c \in Calls, Assign(c)
  PROVE  RecordInv'
<1>1. Chosen \in 1 .. MaxFail
  BY BoundsAssumption DEF RecordInv, Chosen
<1>2. /\ reachable' = reachable /\ age' = age
      /\ fails' \in 0 .. MaxFail /\ ttl' \in 1 .. MaxFail
  BY <1>1, BoundsAssumption DEF RecordInv, Assign
<1>3. due[c] \in Seq(Assignments) /\ due[c] # <<>>
  BY DEF RecordInv, Assign, Settled
<1>4. Tail(due[c]) \in Seq(Assignments)
  BY <1>3
<1>5. due' = [due EXCEPT ![c] = Tail(due[c])]
  BY DEF Assign
<1>6. due' \in [Calls -> Seq(Assignments)]
  BY <1>4, <1>5 DEF RecordInv
<1> QED
  BY <1>2, <1>6 DEF RecordInv

\* Nobody looks at the record.
LEMMA RecordSame ==
  ASSUME RecordInv, UNCHANGED <<due, record>>
  PROVE  RecordInv'
BY DEF RecordInv, record

\* A note nobody touches.
LEMMA NoteKept ==
  ASSUME NoteInv, UNCHANGED obsidian
  PROVE  NoteInv'
BY DEF NoteInv, obsidian, Single

\* A careful request that is carried out, and read at once or not yet.
LEMMA NoteWritten ==
  ASSUME NoteInv, NEW v \in Verb, v.kind # "health", Careful(v),
         UNCHANGED up, doc' = Outcome(v), shown' \in {shown, doc'},
         late' \subseteq late
  PROVE  NoteInv'
<1>1. doc' \in Docs /\ Single(doc')
  BY OutcomeIsDoc, OutcomeSingle DEF NoteInv
<1>2. Single(doc)' /\ Single(shown)'
  BY <1>1 DEF NoteInv, Single
<1> QED
  BY <1>1, <1>2 DEF NoteInv

\* A step of one call leaves the others as they are.
LEMMA OneCall ==
  ASSUME CallInv, NEW c \in Calls,
         pc' \in [Calls -> Places],
         verb' \in [Calls -> Verb],
         expected' \in [Calls -> Docs],
         tries' \in [Calls -> 0 .. Attempts - 1],
         Fits(pc'[c], verb'[c], expected'[c]),
         \A b \in Calls \ {c} : /\ pc'[b] = pc[b]
                                /\ verb'[b] = verb[b]
                                /\ expected'[b] = expected[b]
  PROVE  CallInv'
<1>1. \A b \in Calls : Fits(pc'[b], verb'[b], expected'[b])
  <2> TAKE b \in Calls
  <2>1. CASE b = c
    BY <2>1
  <2>2. CASE b # c
    BY <2>2 DEF CallInv
  <2> QED
    BY <2>1, <2>2
<1> QED
  BY <1>1 DEF CallInv

\* A call that only goes on.
LEMMA GoKeeps ==
  ASSUME CallInv, NEW c \in Calls, NEW where \in Places, Go(c, where),
         UNCHANGED <<verb, expected, tries>>,
         Fits(where, verb[c], expected[c])
  PROVE  CallInv'
<1>1. /\ pc' \in [Calls -> Places]
      /\ pc'[c] = where
      /\ \A b \in Calls \ {c} : pc'[b] = pc[b]
  BY DEF CallInv, Go
<1> QED
  BY <1>1, OneCall DEF CallInv

\* A call that returns fits where it goes.
LEMMA ReturnKeeps ==
  ASSUME CallInv, NEW c \in Calls, Return(c)
  PROVE  CallInv'
<1> DEFINE nothing == Asking("read", None, FALSE)
<1>1. nothing \in Verb
  BY DEF Asking, Verb
<1>2. Fits("idle", nothing, <<>>)
  BY NamesAssumption DEF Fits, Careful, Asking
<1>3. /\ pc' \in [Calls -> Places] /\ pc'[c] = "idle"
      /\ expected' \in [Calls -> Docs] /\ expected'[c] = <<>>
      /\ tries' \in [Calls -> 0 .. Attempts - 1]
  BY BoundsAssumption DEF CallInv, Return, Places, Docs
<1>4. verb' \in [Calls -> Verb] /\ verb'[c] = nothing
  BY <1>1 DEF CallInv, Return
<1>5. \A b \in Calls \ {c} : /\ pc'[b] = pc[b]
                             /\ verb'[b] = verb[b]
                             /\ expected'[b] = expected[b]
  BY DEF CallInv, Return
<1> HIDE DEF nothing
<1> QED
  BY <1>2, <1>3, <1>4, <1>5, OneCall

\* A call that reads once more, or gives up.
LEMMA NotYetKeeps ==
  ASSUME CallInv, NEW c \in Calls, NotYet(c), Confirming(c)
  PROVE  CallInv'
<1>1. CASE Return(c)
  BY <1>1, ReturnKeeps
<1>2. CASE /\ tries[c] + 1 < Attempts
           /\ Go(c, "ask") /\ tries' = [tries EXCEPT ![c] = @ + 1]
           /\ UNCHANGED <<verb, expected>>
  <2>1. tries[c] + 1 \in 0 .. Attempts - 1
    BY <1>2, BoundsAssumption DEF CallInv
  <2>2. tries' \in [Calls -> 0 .. Attempts - 1]
    BY <1>2, <2>1 DEF CallInv
  <2>3. /\ pc' \in [Calls -> Places] /\ pc'[c] = "ask"
        /\ \A b \in Calls \ {c} : pc'[b] = pc[b]
    BY <1>2 DEF CallInv, Go, Places
  <2>4. Fits("ask", verb[c], expected[c])
    BY DEF CallInv, Fits, Confirming
  <2> QED
    BY <1>2, <2>2, <2>3, <2>4, OneCall DEF CallInv
<1> QED
  BY <1>1, <1>2 DEF NotYet

LEMMA FailedKeeps ==
  ASSUME CallInv, NEW c \in Calls, Failed(c)
  PROVE  CallInv'
BY ReturnKeeps, NotYetKeeps DEF Failed

-----------------------------------------------------------------------------
\* The actions.

LEMMA InitIInv == Init => IInv
<1> SUFFICES ASSUME Init PROVE IInv
  OBVIOUS
<1>1. NoteInv
  <2>1. \A e \in Edits \ Loose :
          /\ Asking("patch", e, TRUE) \in Verb
          /\ Careful(Asking("patch", e, TRUE))
          /\ Asking("patch", e, TRUE).kind = "patch"
    BY DEF Asking, Verb, Careful
  <2>2. /\ late \subseteq Verb
        /\ \A v \in late : Careful(v) /\ v.kind = "patch"
    BY <2>1 DEF Init
  <2> QED
    BY <2>2 DEF Init, NoteInv, Docs, Single
<1>2. RecordInv
  BY BoundsAssumption DEF Init, RecordInv, Assignments
<1>3. CallInv
  <2>1. Asking("read", None, FALSE) \in Verb
    BY DEF Asking, Verb
  <2>2. Fits("idle", Asking("read", None, FALSE), <<>>)
    BY NamesAssumption DEF Fits, Careful, Asking
  <2>3. \A c \in Calls : /\ pc[c] = "idle"
                         /\ verb[c] = Asking("read", None, FALSE)
                         /\ expected[c] = <<>>
    BY DEF Init
  <2>4. /\ pc \in [Calls -> Places]
        /\ expected \in [Calls -> Docs]
        /\ tries \in [Calls -> 0 .. Attempts - 1]
    BY BoundsAssumption DEF Init, Places, Docs
  <2>5. verb \in [Calls -> Verb]
    BY <2>1 DEF Init
  <2> QED
    BY <2>2, <2>3, <2>4, <2>5 DEF CallInv
<1> QED
  BY <1>1, <1>2, <1>3, BoundsAssumption DEF IInv, Init

\* A call that starts.
LEMMA BeginKeeps ==
  ASSUME IInv, NEW c \in Calls, NEW v \in Verb, Careful(v), Begin(c, v),
         UNCHANGED calls \/ (calls < MaxCalls /\ calls' = calls + 1)
  PROVE  IInv'
<1>1. NoteInv' /\ RecordInv'
  BY NoteKept, RecordKept DEF IInv, Begin
<1>2. calls' \in 0 .. MaxCalls
  BY BoundsAssumption DEF IInv
<1>3. CallInv'
  <2> DEFINE where == IF v.kind = "health" \/ ShouldProbe THEN "probe"
                                                           ELSE "decide"
  <2>1. /\ pc' \in [Calls -> Places] /\ pc'[c] = where
        /\ verb' \in [Calls -> Verb] /\ verb'[c] = v
        /\ \A b \in Calls \ {c} : pc'[b] = pc[b] /\ verb'[b] = verb[b]
    BY DEF IInv, CallInv, Begin, Go, Places
  <2>2. Fits(where, v, expected[c])
    BY DEF Fits, Begin, IInv, CallInv
  <2>3. UNCHANGED <<expected, tries>>
    BY DEF Begin
  <2> HIDE DEF where
  <2> QED
    BY <2>1, <2>2, <2>3, OneCall DEF IInv, CallInv
<1> QED
  BY <1>1, <1>2, <1>3 DEF IInv

LEMMA StartKeeps ==
  ASSUME IInv, NEW c \in Calls, Start(c)
  PROVE  IInv'
<1>1. CASE \E e \in Edits : PatchNote(c, e)
  <2>1. PICK e \in Edits : PatchNote(c, e)
    BY <1>1
  <2> DEFINE v == Asking("patch", e, e \notin Loose)
  <2>2. v \in Verb /\ Careful(v)
    BY DEF Asking, Verb, Careful
  <2>3. Write(c, v)
    BY <2>1 DEF PatchNote
  <2> HIDE DEF v
  <2> QED
    BY <2>2, <2>3, BeginKeeps DEF Write
<1>2. CASE \E e \in Edits : SetField(c, e)
  <2>1. PICK e \in Edits : SetField(c, e)
    BY <1>2
  <2> DEFINE v == Asking("field", e, FALSE)
  <2>2. v \in Verb /\ Careful(v)
    BY DEF Asking, Verb, Careful
  <2>3. Write(c, v)
    BY <2>1 DEF SetField
  <2> HIDE DEF v
  <2> QED
    BY <2>2, <2>3, BeginKeeps DEF Write
<1>3. CASE \E e \in Loose : Write(c, Asking("append", e, FALSE))
  <2>1. PICK e \in Loose : Write(c, Asking("append", e, FALSE))
    BY <1>3
  <2> DEFINE v == Asking("append", e, FALSE)
  <2>2. v \in Verb /\ Careful(v)
    BY LooseAssumption DEF Asking, Verb, Careful
  <2>3. Write(c, v)
    BY <2>1
  <2> HIDE DEF v
  <2> QED
    BY <2>2, <2>3, BeginKeeps DEF Write
<1>4. CASE Plain(c)
  <2>1. Asking("read", None, FALSE) \in Verb
    BY DEF Asking, Verb
  <2>2. Careful(Asking("read", None, FALSE))
    BY NamesAssumption DEF Careful, Asking
  <2> QED
    BY <1>4, <2>1, <2>2, BeginKeeps DEF Plain
<1>5. CASE RestHealth(c)
  <2>1. Asking("health", None, FALSE) \in Verb
    BY DEF Asking, Verb
  <2>2. Careful(Asking("health", None, FALSE))
    BY NamesAssumption DEF Careful, Asking
  <2> QED
    BY <1>5, <2>1, <2>2, BeginKeeps DEF RestHealth
<1> QED
  BY <1>1, <1>2, <1>3, <1>4, <1>5
  DEF Start, AppendNote, AppendPeriodic, Read, Search, List, Open,
      ExecuteCommand, DocumentMap

\* A step of a call, one case per action.
LEMMA StepKeeps ==
  ASSUME IInv, NEW c \in Calls, Step(c)
  PROVE  IInv'
<1> USE DEF IInv
<1>v. verb[c] \in Verb /\ Fits(pc[c], verb[c], expected[c])
  BY DEF CallInv
<1>g. ASSUME NEW where \in {"probe", "decide", "sent", "ok"},
             pc[c] \notin {"idle"}, verb[c].kind # "health",
             Go(c, where), UNCHANGED <<verb, expected, tries>>
      PROVE  CallInv'
  <2>1. Fits(where, verb[c], expected[c])
    BY <1>v, <1>g DEF Fits
  <2> QED
    BY <1>g, <2>1, GoKeeps DEF Places
<1>1. CASE Assign(c)
  BY <1>1, AssignKeeps, NoteKept DEF Assign, CallInv
<1>2. CASE Ask(c)
  <2>1. CallInv'
    BY <1>v, <1>g, <1>2 DEF Ask, At, Fits
  <2> QED
    BY <1>2, <2>1, NoteKept, RecordKept DEF Ask
<1>3. CASE Probe(c)
  <2>1. CASE verb[c].kind = "health"
    BY <1>3, <2>1, ReturnKeeps, NoteKept, RecordKept DEF Probe
  <2>2. CASE verb[c].kind # "health"
    <3>1. CallInv'
      BY <1>g, <1>3, <2>2 DEF Probe, At
    <3> QED
      BY <1>3, <3>1, NoteKept, RecordKept DEF Probe
  <2> QED
    BY <2>1, <2>2
<1>4. CASE Refuse(c)
  BY <1>4, FailedKeeps, NoteKept, RecordKept DEF Refuse
<1>5. CASE Send(c)
  <2>1. CallInv'
    BY <1>v, <1>g, <1>5 DEF Send, At, Fits
  <2> QED
    BY <1>5, <2>1, NoteKept, RecordKept DEF Send
<1>6. CASE Answered(c)
  <2>1. verb[c].kind # "health" /\ Careful(verb[c])
    BY <1>v, <1>6 DEF Answered, At, Fits
  <2>2. NoteInv'
    BY <1>v, <1>6, <2>1, NoteWritten DEF Answered
  <2>3. CASE Return(c)
    BY <1>6, <2>2, <2>3, ReturnKeeps, RecordKept DEF Answered
  <2>4. CASE /\ verb[c].kind = "patch" /\ ~ Rejects(verb[c])
             /\ Go(c, "ask")
             /\ expected' = [expected EXCEPT ![c] = doc']
             /\ UNCHANGED <<verb, tries>>
    <3>1. Fits("ask", verb[c], doc')
      BY <1>v, <1>6, <2>1, <2>4, OutcomeHolds DEF Answered, Fits, NoteInv
    <3>2. /\ pc' \in [Calls -> Places] /\ pc'[c] = "ask"
          /\ \A b \in Calls \ {c} : pc'[b] = pc[b]
      BY <2>4 DEF Go, CallInv, Places
    <3>3. /\ expected' \in [Calls -> Docs] /\ expected'[c] = doc'
          /\ \A b \in Calls \ {c} : expected'[b] = expected[b]
      BY <2>2, <2>4 DEF CallInv, NoteInv
    <3>4. CallInv'
      BY <2>4, <3>1, <3>2, <3>3, OneCall DEF CallInv
    <3> QED
      BY <1>6, <2>2, <3>4, RecordKept DEF Answered
  <2> QED
    BY <1>6, <2>3, <2>4 DEF Answered
<1>7. CASE Denied(c)
  BY <1>7, ReturnKeeps, NoteKept, RecordKept DEF Denied
<1>8. CASE NoAnswer(c)
  <2>1. CallInv' /\ RecordInv'
    BY <1>8, ReturnKeeps, FailedKeeps, RecordKept DEF NoAnswer
  <2>2. late' \subseteq Verb
    BY <1>v, <1>8 DEF NoAnswer, NoteInv
  <2>3. \A v \in late' : /\ Careful(v)
                         /\ v.kind \in {"patch", "append", "field"}
    <3>1. pc[c] = "sent" /\ verb[c].kind # "read"
          => verb[c].kind \in {"patch", "append", "field"}
      BY <1>v DEF Fits, Verb
    <3> QED
      BY <1>v, <1>8, <3>1 DEF NoAnswer, At, NoteInv, Fits
  <2>4. NoteInv'
    BY <1>8, <2>2, <2>3 DEF NoAnswer, NoteInv, Single
  <2> QED
    BY <1>8, <2>1, <2>4 DEF NoAnswer
<1>9. CASE ReadMatches(c)
  <2>1. CallInv'
    BY <1>v, <1>g, <1>9 DEF ReadMatches, At, Fits
  <2> QED
    BY <1>9, <2>1, NoteKept, RecordKept DEF ReadMatches
<1>10. CASE ReadDiffers(c)
  BY <1>10, NotYetKeeps, NoteKept, RecordKept DEF ReadDiffers
<1>11. CASE Confirm(c)
  BY <1>11, ReturnKeeps, NoteKept, RecordKept DEF Confirm
<1> QED
  BY <1>1, <1>2, <1>3, <1>4, <1>5, <1>6, <1>7, <1>8, <1>9, <1>10, <1>11
  DEF Step

\* What happens around the client touches no call.
LEMMA AroundKeeps ==
  ASSUME IInv, Around \/ Tick \/ UNCHANGED vars
  PROVE  IInv'
<1> USE DEF IInv
<1>1. UNCHANGED call => CallInv'
  BY DEF call, CallInv
<1>2. CASE \E v \in Verb : ServeLate(v)
  <2>1. PICK v \in Verb : ServeLate(v)
    BY <1>2
  <2>2. v.kind # "health" /\ Careful(v)
    BY <2>1 DEF ServeLate, NoteInv
  <2>3. NoteInv'
    BY <2>1, <2>2, NoteWritten DEF ServeLate
  <2> QED
    BY <1>1, <2>1, <2>3, RecordSame DEF ServeLate, call
<1>3. CASE Toggle
  <2>1. NoteInv'
    BY <1>3 DEF Toggle, NoteInv, Single
  <2> QED
    BY <1>1, <1>3, <2>1, RecordSame DEF Toggle, call
<1>4. CASE Flush
  <2>1. NoteInv'
    BY <1>4 DEF Flush, NoteInv, Single
  <2> QED
    BY <1>1, <1>4, <2>1, RecordSame DEF Flush, call
<1>5. CASE Overwrite
  <2>1. NoteInv'
    BY <1>5 DEF Overwrite, NoteInv, Single
  <2> QED
    BY <1>1, <1>5, <2>1, RecordSame DEF Overwrite, call
<1>6. CASE Tick
  <2>1. RecordInv'
    BY <1>6, BoundsAssumption DEF Tick, RecordInv, call
  <2> QED
    BY <1>1, <1>6, <2>1, NoteKept DEF Tick
<1>7. CASE UNCHANGED vars
  BY <1>1, <1>7, NoteKept, RecordSame DEF vars, call
<1> QED
  BY <1>2, <1>3, <1>4, <1>5, <1>6, <1>7 DEF Around

\* IInv is inductive, and holds always.
LEMMA NextIInv == IInv /\ [Next]_vars => IInv'
BY StartKeeps, StepKeeps, AroundKeeps DEF Next

LEMMA Inductive == Spec => []IInv
<1>1. Init => IInv
  BY InitIInv
<1>2. IInv /\ [Next]_vars => IInv'
  BY NextIInv
<1> QED
  BY <1>1, <1>2, PTL DEF Spec

-----------------------------------------------------------------------------
\* Every variable keeps its type, whichever assignments to the record meet: it
\* stays on the steps of the backoff; and only a PATCH is ever confirmed
\* (rest_client, patch_confirm).
THEOREM TypeCorrect == Spec => []TypeOK
<1>1. IInv => TypeOK
  BY DEF IInv, NoteInv, RecordInv, CallInv, Fits, TypeOK, Docs, Places, Confirming
<1> QED
  BY <1>1, Inductive, PTL

\* However often a guarded write is called again, and whatever becomes of
\* its requests, the note holds it once (patch_headers).
THEOREM RetriesWriteOnce == Spec => []RetriesDoNotDuplicate
<1>1. IInv => RetriesDoNotDuplicate
  BY DEF IInv, NoteInv, Single, RetriesDoNotDuplicate
<1> QED
  BY <1>1, Inductive, PTL

\* patch_note says ok only of an edit REST shows at that moment
\* (confirm_patch, patch_answer).
THEOREM OkIsVisible == Spec => OkMeansVisible
<1> DEFINE Visible == \A c \in Calls :
                        pc'[c] = "ok" /\ pc[c] # "ok"
                        => Holds(shown, verb[c].edit)
<1>1. IInv /\ [Next]_vars => Visible
  <2> SUFFICES ASSUME IInv, [Next]_vars, NEW c \in Calls,
                      pc'[c] = "ok", pc[c] # "ok"
               PROVE  Holds(shown, verb[c].edit)
    OBVIOUS
  <2>1. PICK b \in Calls : Step(b) \/ Start(b)
    BY DEF Next, Around, ServeLate, Toggle, Flush, Overwrite, Tick, call, vars
  <2>2. ~ Start(b)
    BY DEF IInv, CallInv, Start, PatchNote, SetField, AppendPeriodic,
           AppendNote, Write, Plain, Read, Search, List, Open, RestHealth,
           ExecuteCommand, DocumentMap, Begin, Go
  <2>3. ~ NotYet(b) /\ ~ Failed(b) /\ ~ Return(b)
    BY DEF IInv, CallInv, Failed, NotYet, Return, Go
  <2>4. ReadMatches(b) /\ b = c
    BY <2>1, <2>2, <2>3
    DEF IInv, CallInv, Step, Assign, Ask, Probe, Refuse, Send, Answered,
        Denied, NoAnswer, ReadMatches, ReadDiffers, Confirm, Go
  <2> QED
    BY <2>4 DEF ReadMatches, Confirming, IInv, CallInv, Fits
<1> QED
  BY <1>1, Inductive, PTL DEF Spec, OkMeansVisible
=============================================================================
