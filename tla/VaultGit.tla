------------------------------ MODULE VaultGit ------------------------------
(***************************************************************************)
(* The vault's git sidecar (gitops.py, and _commit_write and the sweep     *)
(* thread of server.py).                                                   *)
(*                                                                         *)
(* Every Gate write is followed by a commit of its paths.  A daemon thread *)
(* sweeps the whole tree now and then, to capture what the human edited,   *)
(* merges origin and pushes.  Git operations are serialised by one lock;   *)
(* the disk is not: Obsidian, the human and the other verbs write to it    *)
(* while a git operation runs.                                             *)
(*                                                                         *)
(* A text is a token.  A tree maps every file to its text or None.         *)
(***************************************************************************)
EXTENDS Naturals, Sequences, FiniteSets

CONSTANTS
    File,      \* paths of notes
    None,      \* no such file
    Writer,    \* concurrent verbs
    Ops,       \* what the verbs do
    MaxChange, \* bound on the changes made to the vault and to origin
    Push,      \* VAULT_MCP_GIT_PUSH
    Lag,       \* Obsidian may acknowledge a REST write before the disk has it
    Fails,     \* a git operation, or the Gate write itself, may fail
    Human,     \* somebody edits the vault in Obsidian
    Remote,    \* another clone pushes to origin
    Crashes    \* the server process may die

OpKind == {"put", "delete", "move"}

ASSUME GitAssumption ==
    /\ File # {}
    /\ None \notin Nat
    /\ "sweep" \notin Writer /\ "free" \notin Writer /\ "human" \notin Writer
    /\ Ops \subseteq OpKind
    /\ MaxChange \in Nat
    /\ {Push, Lag, Fails, Human, Remote, Crashes} \subseteq BOOLEAN

Text == Nat \cup {None}
Tree == [File -> Text]
Actor == Writer \cup {"sweep"}

\* A commit: its tree, its parents (numbers of earlier commits), who made it.
CommitType == [tree : Tree, parents : SUBSET Nat, by : Writer \cup {"seed", "sweep", "merge", "remote"}]

VARIABLES
    disk,      \* the working tree
    index,     \* the git index, as a tree
    log,       \* every commit of either repository, in the order they were made
    head,      \* the local branch
    origin,    \* origin's branch
    next,      \* changes made so far: the last text token
    lock,      \* _git_lock: an actor or "free"
    inflight,  \* _inflight
    wr,        \* [Writer -> the verb in progress]
    sw,        \* the sweep in progress
    touched    \* history: [Actor -> files somebody else changed on disk since its last look]

vars == <<disk, index, log, head, origin, next, lock, inflight, wr, sw, touched>>

\* before, want: what the verb finds and what it leaves at its paths; todo: its changes that
\* are not on disk yet; late: the files (a history) that it staged before their change was.
WriterType == [pc : {"idle", "gate", "lock", "stage", "commit", "end"},
               op : OpKind, paths : SUBSET File, before : Tree, want : Tree,
               todo : Seq(File \X Text), late : SUBSET File, sha : Nat]
\* changed: what is still to be staged, or to be written to disk by a merge.
SweepType == [pc : {"idle", "lock", "status", "stage", "commit", "fetch", "check",
                    "update", "head", "push"},
              changed : SUBSET File, theirs : Nat, merged : Tree]

NoTree == [f \in File |-> None]
Resting == [pc |-> "idle", op |-> "put", paths |-> {}, before |-> NoTree, want |-> NoTree,
            todo |-> <<>>, late |-> {}, sha |-> 0]
Asleep == [pc |-> "idle", changed |-> {}, theirs |-> 0, merged |-> NoTree]

HeadTree == log[head].tree

\* The commits reachable from each commit, itself included.
Reach == LET r[c \in 1 .. Len(log)] == {c} \cup UNION {r[q] : q \in log[c].parents} IN r

\* The tree with f set to x.
With(tree, f, x) == [tree EXCEPT ![f] = x]

\* Files of S changed on disk under actor a: nobody else has looked since.
Touch(a, S) == touched' = [b \in Actor |-> IF b = a THEN touched[b] ELSE touched[b] \cup S]

Commit(tree, parents, by) ==
    log' = Append(log, [tree |-> tree, parents |-> parents, by |-> by])

Changed == next < MaxChange /\ next' = next + 1

-----------------------------------------------------------------------------
(* A verb: its Gate write, then _commit_write. *)

\* The changes a verb makes, in the order it makes them.
Plan(op, f, g) ==
    IF op = "put" THEN <<<<f, next'>>>>
    ELSE IF op = "delete" THEN <<<<f, None>>>>
    ELSE <<<<g, disk[f]>>, <<f, None>>>>

\* The files whose change is not on disk yet.
Pending(r) == {r.todo[i][1] : i \in DOMAIN r.todo}

Start(w, op, f, g) ==
    /\ wr[w].pc = "idle" /\ wr[w].todo = <<>>
    /\ op \in Ops
    /\ op \in {"delete", "move"} => disk[f] # None
    /\ op = "move" => disk[g] = None
    /\ Changed
    /\ wr' = [wr EXCEPT ![w] =
                 [pc |-> "gate", op |-> op, sha |-> 0, todo |-> Plan(op, f, g), late |-> {},
                  before |-> With(NoTree, f, disk[f]),
                  paths |-> IF op = "move" THEN {f, g} ELSE {f},
                  want |-> IF op = "put" THEN With(NoTree, f, next')
                           ELSE IF op = "move" THEN With(NoTree, g, disk[f]) ELSE NoTree]]
    /\ touched' = [touched EXCEPT ![w] = {}]
    /\ UNCHANGED <<disk, index, log, head, origin, lock, inflight, sw>>

\* The next change reaches the disk: before the verb goes on, or, with Lag, at any time.
Land(w) ==
    /\ wr[w].todo # <<>>
    /\ wr[w].pc = "gate" \/ Lag
    /\ LET f == wr[w].todo[1][1]
           x == wr[w].todo[1][2]
       IN  disk' = With(disk, f, x) /\ Touch(w, {f})
    /\ wr' = [wr EXCEPT ![w].todo = Tail(@)]
    /\ UNCHANGED <<index, log, head, origin, next, lock, inflight, sw>>

\* The Gate write raises halfway: the result is not ok and nothing is committed.
GateFails(w) ==
    /\ wr[w].pc = "gate" /\ Fails
    /\ wr' = [wr EXCEPT ![w] = Resting]
    /\ UNCHANGED <<disk, index, log, head, origin, next, lock, inflight, sw, touched>>

\* begin_write: only now is the write in flight.
BeginWrite(w) ==
    /\ wr[w].pc = "gate"
    /\ wr[w].todo = <<>> \/ Lag
    /\ inflight' = inflight + 1
    /\ wr' = [wr EXCEPT ![w].pc = "lock"]
    /\ UNCHANGED <<disk, index, log, head, origin, next, lock, sw, touched>>

Acquire(w) ==
    /\ wr[w].pc = "lock" /\ lock = "free"
    /\ lock' = w
    /\ wr' = [wr EXCEPT ![w].pc = "stage"]
    /\ UNCHANGED <<disk, index, log, head, origin, next, inflight, sw, touched>>

\* _wait_for_path: a created file is waited for, and two seconds are enough for it to land,
\* unless something fails.  An update is not waited for: its path exists.
Waited(r) == (r.op = "put" /\ r.todo # <<>>) => Fails \/ \A f \in r.paths : disk[f] # None

\* What stage() makes of the index, and whether anything at all is then staged.
StageAs(w, tree) ==
    /\ index' = tree
    /\ IF tree = HeadTree
       THEN lock' = "free" /\ wr' = [wr EXCEPT ![w].pc = "end", ![w].late = Pending(wr[w])]
       ELSE UNCHANGED lock /\ wr' = [wr EXCEPT ![w].pc = "commit", ![w].late = Pending(wr[w])]
    /\ UNCHANGED <<disk, log, head, origin, next, inflight, sw, touched>>

\* Wrong: a created file is not waited for.
StageAtOnce(w) ==
    /\ wr[w].pc = "stage"
    /\ StageAs(w, [f \in File |-> IF f \in wr[w].paths THEN disk[f] ELSE index[f]])

Stage(w) ==
    /\ wr[w].pc = "stage" /\ Waited(wr[w])
    /\ StageAs(w, [f \in File |-> IF f \in wr[w].paths THEN disk[f] ELSE index[f]])

\* Wrong: the verb is told the next commit's name.
CommitPathsAhead(w) ==
    /\ wr[w].pc = "commit"
    /\ Commit(index, {head}, w)
    /\ head' = Len(log')
    /\ lock' = "free"
    /\ wr' = [wr EXCEPT ![w].pc = "end", ![w].sha = head' + 1]
    /\ UNCHANGED <<disk, index, origin, next, inflight, sw, touched>>

\* The commit is of the whole index.
CommitPaths(w) ==
    /\ wr[w].pc = "commit"
    /\ Commit(index, {head}, w)
    /\ head' = Len(log')
    /\ lock' = "free"
    /\ wr' = [wr EXCEPT ![w].pc = "end", ![w].sha = head']
    /\ UNCHANGED <<disk, index, origin, next, inflight, sw, touched>>

\* A git failure is logged; what stage() did stays in the index.
CommitFails(w) ==
    /\ wr[w].pc \in {"stage", "commit"} /\ Fails
    /\ lock' = "free"
    /\ wr' = [wr EXCEPT ![w].pc = "end"]
    /\ UNCHANGED <<disk, index, log, head, origin, next, inflight, sw, touched>>

\* Wrong: only a verb that committed is taken off the count.
EndWriteCommitted(w) ==
    /\ wr[w].pc = "end"
    /\ inflight' = IF wr[w].sha # 0 THEN inflight - 1 ELSE inflight
    /\ wr' = [wr EXCEPT ![w] = [Resting EXCEPT !.todo = wr[w].todo]]
    /\ UNCHANGED <<disk, index, log, head, origin, next, lock, sw, touched>>

\* end_write; the verb returns its sha.
EndWrite(w) ==
    /\ wr[w].pc = "end"
    /\ inflight' = IF inflight > 0 THEN inflight - 1 ELSE 0
    /\ wr' = [wr EXCEPT ![w] = [Resting EXCEPT !.todo = wr[w].todo]]
    /\ UNCHANGED <<disk, index, log, head, origin, next, lock, sw, touched>>

-----------------------------------------------------------------------------
(* The sweep. *)

\* It defers while a write is in flight -- and lets go of that lock before it takes the next.
Wake ==
    /\ sw.pc = "idle" /\ inflight = 0
    /\ sw' = [sw EXCEPT !.pc = "lock"]
    /\ UNCHANGED <<disk, index, log, head, origin, next, lock, inflight, wr, touched>>

SweepAcquire ==
    /\ sw.pc = "lock" /\ lock = "free"
    /\ lock' = "sweep"
    /\ sw' = [sw EXCEPT !.pc = "status"]
    /\ UNCHANGED <<disk, index, log, head, origin, next, inflight, wr, touched>>

\* status: modified, deleted and new files.
SweepStatus ==
    /\ sw.pc = "status"
    /\ sw' = [sw EXCEPT !.pc = "stage", !.changed = {f \in File : disk[f] # index[f]}]
    /\ UNCHANGED <<disk, index, log, head, origin, next, lock, inflight, wr, touched>>

\* Nothing staged: the sweep is over, and nothing is pushed either.
SweepStage ==
    /\ sw.pc = "stage"
    /\ index' = [f \in File |-> IF f \in sw.changed THEN disk[f] ELSE index[f]]
    /\ IF index' = HeadTree
       THEN lock' = "free" /\ sw' = Asleep
       ELSE UNCHANGED lock /\ sw' = [sw EXCEPT !.pc = "commit"]
    /\ UNCHANGED <<disk, log, head, origin, next, inflight, wr, touched>>

SweepCommit ==
    /\ sw.pc = "commit"
    /\ Commit(index, {head}, "sweep")
    /\ head' = Len(log')
    /\ IF Push
       THEN UNCHANGED lock /\ sw' = [sw EXCEPT !.pc = "fetch"]
       ELSE lock' = "free" /\ sw' = Asleep
    /\ UNCHANGED <<disk, index, origin, next, inflight, wr, touched>>

\* Any step of the sweep may fail, and ends it.
SweepFails ==
    /\ sw.pc \in {"status", "stage", "commit", "fetch", "check", "update", "head", "push"} /\ Fails
    /\ lock' = "free" /\ sw' = Asleep
    /\ UNCHANGED <<disk, index, log, head, origin, next, inflight, wr, touched>>

\* _integrate_origin: fetch; origin's branch may be contained already.
Fetch ==
    /\ sw.pc = "fetch"
    /\ sw' = [sw EXCEPT !.theirs = origin,
                        !.pc = IF origin \in Reach[head] THEN "push" ELSE "check"]
    /\ UNCHANGED <<disk, index, log, head, origin, next, lock, inflight, wr, touched>>

\* The best common ancestors of two commits.
MergeBases(a, b) ==
    LET common == Reach[a] \cap Reach[b]
    IN  {c \in common : \A d \in common : c \in Reach[d] => d = c}

\* Is one file's merge a conflict?  Both sides changed it, and theirs is not a deletion.
Conflicting(base, ours, theirs) ==
    theirs # ours /\ theirs # base /\ ours # base /\ theirs # None

\* Wrong: origin's deletions are taken.
MergedTextDeleting(base, ours, theirs) == IF ours = base THEN theirs ELSE ours

\* The file after a clean merge: local wins over origin's deletions.
MergedText(base, ours, theirs) == IF ours = base /\ theirs # None THEN theirs ELSE ours

\* Texts that conflict as a whole may merge line by line, to the new text `next'.
MergeTree(base, ours, theirs, x) ==
    [f \in File |-> IF Conflicting(base[f], ours[f], theirs[f]) THEN x
                    ELSE MergedText(base[f], ours[f], theirs[f])]

\* A dirty tree is refused, a conflict aborts, otherwise the merge is computed on objects.
Check ==
    /\ sw.pc = "check"
    /\ touched' = [touched EXCEPT !["sweep"] = {}]
    /\ \E b \in MergeBases(head, sw.theirs) :
         LET ours   == HeadTree
             theirs == log[sw.theirs].tree
             base   == log[b].tree
             clash  == {f \in File : Conflicting(base[f], ours[f], theirs[f])}
         IN  \/ /\ \/ disk # index
                   \/ index # ours
                   \/ clash # {}
                /\ lock' = "free" /\ sw' = Asleep
                /\ UNCHANGED next
             \/ /\ disk = index /\ index = ours
                /\ IF clash = {} THEN UNCHANGED next
                   ELSE Changed /\ \A f \in clash : base[f] # None /\ ours[f] # None
                /\ LET merged == MergeTree(base, ours, theirs, next') IN
                     sw' = [sw EXCEPT !.pc = "update", !.merged = merged,
                                      !.changed = {f \in File : merged[f] # ours[f]}]
                /\ UNCHANGED lock
    /\ UNCHANGED <<disk, index, log, head, origin, inflight, wr>>

\* update_working_tree: the files the merge changed, one by one on disk...
UpdateFile(f) ==
    /\ sw.pc = "update" /\ f \in sw.changed
    /\ disk' = With(disk, f, sw.merged[f])
    /\ Touch("sweep", {f})
    /\ sw' = [sw EXCEPT !.changed = @ \ {f}]
    /\ UNCHANGED <<index, log, head, origin, next, lock, inflight, wr>>

\* ... and in the index, which is written once they all are.
UpdateIndex ==
    /\ sw.pc = "update" /\ sw.changed = {}
    /\ index' = [f \in File |-> IF sw.merged[f] # HeadTree[f] THEN sw.merged[f] ELSE index[f]]
    /\ sw' = [sw EXCEPT !.pc = "head"]
    /\ UNCHANGED <<disk, log, head, origin, next, lock, inflight, wr, touched>>

\* Only then does HEAD move to the merge commit.
MoveHead ==
    /\ sw.pc = "head"
    /\ Commit(sw.merged, {head, sw.theirs}, "merge")
    /\ head' = Len(log')
    /\ sw' = [sw EXCEPT !.pc = "push"]
    /\ UNCHANGED <<disk, index, origin, next, lock, inflight, wr, touched>>

\* Wrong: a forced push.
PushHeadForced ==
    /\ sw.pc = "push"
    /\ origin' = head
    /\ lock' = "free" /\ sw' = Asleep
    /\ UNCHANGED <<disk, index, log, head, next, inflight, wr, touched>>

\* push without force: origin takes it if it has not moved on.
PushHead ==
    /\ sw.pc = "push"
    /\ origin' = IF origin \in Reach[head] THEN head ELSE origin
    /\ lock' = "free" /\ sw' = Asleep
    /\ UNCHANGED <<disk, index, log, head, next, inflight, wr, touched>>

-----------------------------------------------------------------------------
(* The world around the sidecar. *)

HumanSave(f) ==
    /\ Human /\ Changed
    /\ \E x \in {next', None} : x # disk[f] /\ disk' = With(disk, f, x)
    /\ Touch("human", {f})
    /\ UNCHANGED <<index, log, head, origin, lock, inflight, wr, sw>>

RemotePush(f) ==
    /\ Remote /\ Changed
    /\ \E x \in {next', None} :
         LET tree == log[origin].tree IN
         x # tree[f] /\ Commit(With(tree, f, x), {origin}, "remote")
    /\ origin' = Len(log')
    /\ UNCHANGED <<disk, index, head, lock, inflight, wr, sw, touched>>

\* The process dies: locks, counters and threads are gone; the disk and both repositories stay.
Crash ==
    /\ Crashes
    /\ (sw # Asleep) \/ (\E w \in Writer : wr[w].pc # "idle")
    /\ lock' = "free" /\ inflight' = 0 /\ sw' = Asleep
    /\ wr' = [w \in Writer |-> Resting]
    /\ UNCHANGED <<disk, index, log, head, origin, next, touched>>

-----------------------------------------------------------------------------
Init ==
    /\ disk \in {[f \in File |-> IF f = g THEN 0 ELSE None] : g \in File}
    /\ index = disk
    /\ log = <<[tree |-> disk, parents |-> {}, by |-> "seed"]>>
    /\ head = 1 /\ origin = 1
    /\ next = 0
    /\ lock = "free" /\ inflight = 0
    /\ wr = [w \in Writer |-> Resting]
    /\ sw = Asleep
    /\ touched = [a \in Actor |-> {}]

Verb(w) ==
    \/ Land(w) \/ GateFails(w) \/ BeginWrite(w) \/ Acquire(w) \/ Stage(w)
    \/ CommitPaths(w) \/ CommitFails(w) \/ EndWrite(w)

Sweep ==
    \/ Wake \/ SweepAcquire \/ SweepStatus \/ SweepStage \/ SweepCommit \/ SweepFails
    \/ Fetch \/ Check \/ UpdateIndex \/ MoveHead \/ PushHead
    \/ \E f \in File : UpdateFile(f)

Next ==
    \/ \E w \in Writer, op \in OpKind, f, g \in File : Start(w, op, f, g)
    \/ \E w \in Writer : Verb(w)
    \/ Sweep
    \/ \E f \in File : HumanSave(f) \/ RemotePush(f)
    \/ Crash

Spec == Init /\ [][Next]_vars

\* The threads are scheduled: a verb that has begun goes on, the sweep wakes up again.
FairSpec == Spec /\ WF_vars(Sweep) /\ \A w \in Writer : WF_vars(Verb(w))

-----------------------------------------------------------------------------
(* Properties. *)

TypeOK ==
    /\ disk \in Tree /\ index \in Tree
    /\ log \in Seq(CommitType)
    /\ {head, origin} \subseteq DOMAIN log
    /\ \A c \in DOMAIN log : log[c].parents \subseteq 1 .. (c - 1)
    /\ next \in Nat
    /\ lock \in Actor \cup {"free"}
    /\ inflight \in Nat
    /\ wr \in [Writer -> WriterType]
    /\ \A w \in Writer : wr[w].sha \in 0 .. Len(log)
    /\ sw \in SweepType
    /\ touched \in [Actor -> SUBSET File]

Committed(f, x) == \E c \in Reach[head] : log[c].tree[f] = x

\* What the integration of origin does to the disk: a note the sweep has looked at is never
\* removed, and it is only replaced when its text is in the branch's history.  Deletions made
\* elsewhere are not taken, a dirty tree is refused; only a save after the check can be lost.
\* (gitops.py _integrate_origin)
MergeKeepsDisk ==
    [][\A f \in File :
          (sw' # sw /\ disk[f] # None /\ f \notin touched["sweep"])
             => \/ disk'[f] = disk[f]
                \/ disk'[f] # None /\ Committed(f, disk[f])]_vars

\* Neither branch ever loses a commit: not by a merge, a push that crosses another one, a
\* failure halfway or a restart.  (gitops.py _push_outcome, _integrate_origin)
HistoryOnlyGrows ==
    [][Reach[head] \subseteq (Reach[head])' /\ Reach[origin] \subseteq (Reach[origin])']_vars

\* The checkpoint handshake: the sha a verb returns names a tree that holds what the verb
\* left at its paths, unless somebody else changed the file meanwhile, and a verb that
\* returns none without a failure has its texts in the branch already, by way of the sweep.
\* The write itself may be late: then, and only then, the commit holds exactly what was
\* there before; and the text of a created note is never late, unless something fails.
\* (server.py _commit_write, gitops.py commit_paths, _wait_for_path)
CheckpointHoldsText ==
    \A w \in Writer : wr[w].pc = "end" =>
       \A f \in wr[w].paths \ touched[w] :
          LET text == IF f \in wr[w].late THEN wr[w].before[f] ELSE wr[w].want[f] IN
          /\ wr[w].sha # 0 => log[wr[w].sha].tree[f] = text
          /\ wr[w].sha = 0 => Fails \/ Committed(f, text)
          /\ f \in wr[w].late =>
                Lag /\ (wr[w].op = "put" => Fails \/ wr[w].before[f] # None)

\* What anybody leaves on disk is committed in the end, however verbs and sweeps alternate.
\* (gitops.py sweep_commit, server.py _start_sweep_scheduler)
DiskIsCaptured ==
    \A f \in File : disk[f] # HeadTree[f] ~> disk[f] = HeadTree[f]
=============================================================================
