----------------------------- MODULE GateWrites -----------------------------
(***************************************************************************)
(* The Convention Gate's write path (gate_writer.py, gate_auditor.py) over *)
(* Obsidian's Local REST API (RestNoteIO in rest_client.py).               *)
(*                                                                         *)
(* A verb runs on a worker.  Every REST call it makes is one step here,    *)
(* together with the local computation up to the next call, so other       *)
(* workers, and the human editing the same vault in Obsidian, interleave   *)
(* exactly between the calls.  A call may fail before or after it took     *)
(* effect, and the server may die between any two calls.                   *)
(*                                                                         *)
(* Note text and frontmatter are tokens: `ver' identifies one saved text,  *)
(* `body' the body in it.  The linter's per-field rules are a choice of    *)
(* accept or reject; its directory rules, which the properties are about,  *)
(* are kept.                                                               *)
(***************************************************************************)
EXTENDS Naturals, Sequences

CONSTANTS
    Dir,           \* vault directories
    Name,          \* file names
    Rule,          \* [Dir -> RuleKind]: write_protection and forbidden_dirs of the schema
    AtomDir,       \* where atom-slug types route
    AtomNames,     \* YYYY-MM-DD-type.0, .1, ...: the atom slugs of the day, in order
    Worker,        \* concurrent verb invocations
    None,          \* no note
    HumanKinds,    \* the frontmatter a human may give a new note
    MaxVer,        \* bound on the saved texts of a behaviour
    TrashTries,    \* _TRASH_NAME_TRIES
    Ops,           \* which verbs are called
    Actors,        \* on whose behalf
    ReadFaults,    \* a GET may fail (5xx, timeout) on a note that exists
    WriteFaults,   \* a PUT or DELETE may fail, before or after taking effect
    PutLies,       \* a PUT may be acknowledged and land nowhere
    HumanActs,     \* a human edits the vault meanwhile
    Crashes,       \* the server process may die
    LintOnCompute  \* VAULT_MCP_MATERIALIZE_LINT

Path == Dir \X Name
AuthorType == {"human", "ai", "external"}
Actor == {"human", "agent"}
RuleKind == {"open", "fully-immutable", "body-immutable", "compute-only",
             "voice-only", "forbidden"}
OpKind == {"write", "atom", "compute", "delete", "move", "audit"}
Kind == [at : AuthorType, home : Dir, clean : BOOLEAN, article : BOOLEAN]

ASSUME GateAssumption ==
    /\ Dir # {} /\ Name # {}
    /\ Rule \in [Dir -> RuleKind]
    /\ AtomDir \in Dir
    /\ AtomNames \in Seq(Name)
    /\ MaxVer \in Nat
    /\ TrashTries \in Nat
    /\ HumanKinds \subseteq Kind
    /\ Ops \subseteq OpKind
    /\ Actors \subseteq Actor
    /\ {ReadFaults, WriteFaults, PutLies, HumanActs, Crashes, LintOnCompute} \subseteq BOOLEAN

\* One saved note.
Note == [ver : Nat, body : Nat, at : AuthorType,
         home : Dir, clean : BOOLEAN, article : BOOLEAN]

ASSUME NoneAssumption == None \notin Note

VARIABLES
    file,    \* [Path -> Note or None]: the live vault
    trash,   \* [Path -> Seq(Note)]: .trash/name.md, .trash/name (1).md, ...
    next,    \* the last token handed out
    wk,      \* [Worker -> Task]: the locals of each running verb
    unseen   \* history: the paths whose present content the worker's request has not read

vars == <<file, trash, next, wk, unseen>>

PC == {"idle", "probe", "probe2", "slug", "read", "put", "back",
       "scan", "dread", "dtrash", "drm"}

Task == [pc : PC, op : OpKind, actor : Actor, mode : {"upsert", "create", "update"},
         hasBody : BOOLEAN, src : Path, dst : Path, ver : Nat, slot : Nat,
         new : Note \cup {None}, copy : Note \cup {None},
         del : Path, todo : SUBSET Path]

SomePath == CHOOSE p \in Path : TRUE

Idle == [pc |-> "idle", op |-> "write", actor |-> "agent", mode |-> "upsert",
         hasBody |-> FALSE, src |-> SomePath, dst |-> SomePath, ver |-> 0, slot |-> 0,
         new |-> None, copy |-> None, del |-> SomePath, todo |-> {}]

-----------------------------------------------------------------------------
(* Rules of the Gate that need no vault access. *)

\* ConventionGate.check_protection: may this write not touch directory d?
Barred(d, actor, compute, touchesBody) ==
    \/ Rule[d] = "fully-immutable"
    \/ Rule[d] = "body-immutable" /\ touchesBody
    \/ Rule[d] = "compute-only" /\ ~compute
    \/ Rule[d] = "voice-only" /\ actor # "human"

\* The linter repeats it and adds forbidden_dirs; `ok' stands for its other checks.
LintPasses(d, actor, compute, touchesBody, ok) ==
    /\ ok
    /\ ~Barred(d, actor, compute, touchesBody)
    /\ Rule[d] # "forbidden"

\* An AI agent may not rewrite the body of human or external content.
BodyGuarded(n, actor) ==
    actor = "agent" /\ n.at \in {"human", "external"} /\ ~n.article

\* Wrong: answers with a level of the provenance spectrum instead of an author_type.
NextAuthorTypeLevel(at, actor) ==
    IF at = "human" /\ actor = "agent" THEN "ai-assisted" ELSE at

\* transition_author_type
NextAuthorType(at, actor) ==
    IF at = "human" /\ actor = "agent" THEN "ai" ELSE at

\* create_note's result: stamp and author_type_for without a declared author.
FreshNote(t, d) ==
    [ver |-> t.ver, body |-> t.ver, at |-> IF t.actor = "human" THEN "human" ELSE "ai",
     home |-> d, clean |-> TRUE, article |-> FALSE]

\* update_note's merge of the request into the note it read.
Merged(n, t) ==
    [n EXCEPT !.ver = t.ver, !.at = NextAuthorType(@, t.actor), !.clean = TRUE,
              !.body = IF t.hasBody THEN t.ver ELSE @]

\* _heal's deterministic corrections: key renames, dead keys, status repair.
Healed(n) == [n EXCEPT !.clean = TRUE]
HomePath(p, n) == <<n.home, p[2]>>

-----------------------------------------------------------------------------
(* What a step does to its own task and to what the others have seen. *)

\* The request goes on as t; its read of p (blind if the call failed) counts as seen.
ReadOn(w, p, blind, t) ==
    /\ wk' = [wk EXCEPT ![w] = t]
    /\ unseen' = [unseen EXCEPT ![w] = IF blind THEN @ \cup {p} ELSE @ \ {p}]

\* The request returns or raises.
Finish(w) ==
    /\ wk' = [wk EXCEPT ![w] = Idle]
    /\ unseen' = [unseen EXCEPT ![w] = Path]

\* The live note at p becomes n; every other request's view of p is out of date.
Store(w, p, n) ==
    /\ file' = [file EXCEPT ![p] = n]
    /\ unseen' = [v \in Worker |-> IF v = w THEN IF wk'[w] = Idle THEN Path ELSE unseen[w]
                                   ELSE unseen[v] \cup {p}]

Keep == UNCHANGED <<file, trash, next>>
Blind == IF ReadFaults THEN BOOLEAN ELSE {FALSE}

-----------------------------------------------------------------------------
(* Requests arrive. *)

Begin(w, op, t) ==
    /\ wk[w].pc = "idle"
    /\ op \in Ops
    /\ wk' = [wk EXCEPT ![w] = t]
    /\ UNCHANGED <<file, trash, unseen>>

\* write_note of a type without atom slugs: next is the token of the caller's text.
StartWrite(w, p, actor, mode, hasBody) ==
    /\ next < MaxVer
    /\ next' = next + 1
    /\ Begin(w, "write", [Idle EXCEPT !.pc = "probe", !.op = "write", !.actor = actor,
                          !.mode = mode, !.hasBody = hasBody, !.src = p, !.dst = p,
                          !.ver = next + 1])

\* write_note of an atom-slug type; mode "update" is refused before any call.
StartAtom(w, actor) ==
    /\ next < MaxVer
    /\ next' = next + 1
    /\ Begin(w, "atom", [Idle EXCEPT !.pc = "slug", !.op = "atom", !.actor = actor,
                         !.slot = 1, !.ver = next + 1])

\* materialize and compute_receive: create_note in COMPUTE mode, with no probe.
StartCompute(w, p) ==
    /\ next < MaxVer
    /\ next' = next + 1
    /\ LintOnCompute => LintPasses(p[1], "agent", TRUE, TRUE, TRUE)
    /\ Begin(w, "compute", [Idle EXCEPT !.pc = "put", !.op = "compute", !.dst = p,
                            !.ver = next + 1,
                            !.new = FreshNote([actor |-> "agent", ver |-> next + 1], p[1])])

StartDelete(w, p, actor) ==
    /\ UNCHANGED next
    /\ Begin(w, "delete", [Idle EXCEPT !.pc = "probe", !.op = "delete",
                           !.actor = actor, !.src = p])

StartMove(w, p, q, actor) ==
    /\ UNCHANGED next
    /\ Begin(w, "move", [Idle EXCEPT !.pc = "probe", !.op = "move",
                         !.actor = actor, !.src = p, !.dst = q])

\* audit(resolve=True): list_notes fixes the paths to visit; Scope is one directory or all.
StartAudit(w, scope) ==
    /\ UNCHANGED next
    /\ Begin(w, "audit", [Idle EXCEPT !.pc = "scan", !.op = "audit",
                          !.todo = {p \in Path : p[1] \in scope /\ file[p] # None}])

-----------------------------------------------------------------------------
(* _note_exists and what each verb decides on it.  A failed read of any     *)
(* kind is "the note does not exist" (_NOTE_READ_ERRORS).                   *)

Exists(p, blind) == ~blind /\ file[p] # None

\* write_note: an existing note is updated, a missing one created, as the mode allows.
\* update_note checks protection before it reads, create_note lints before it writes.
ProbeWrite(w) ==
    LET t == wk[w] IN
    /\ t.pc = "probe" /\ t.op = "write"
    /\ Keep
    /\ \E blind \in Blind, ok \in BOOLEAN :
         LET exists  == Exists(t.src, blind)
             updates == exists /\ t.mode # "create" /\ ~Barred(t.src[1], t.actor, FALSE, t.hasBody)
             creates == ~exists /\ t.mode # "update" /\ LintPasses(t.src[1], t.actor, FALSE, TRUE, ok)
         IN  \/ updates /\ ReadOn(w, t.src, blind, [t EXCEPT !.pc = "read"])
             \/ creates /\ ReadOn(w, t.src, blind,
                                  [t EXCEPT !.pc = "put", !.new = FreshNote(t, t.src[1])])
             \/ ~updates /\ ~creates /\ Finish(w)

\* GateWriter.delete
ProbeDelete(w) ==
    LET t == wk[w] IN
    /\ t.pc = "probe" /\ t.op = "delete"
    /\ Keep
    /\ \E blind \in Blind :
         IF Exists(t.src, blind) /\ ~Barred(t.src[1], t.actor, FALSE, TRUE)
         THEN ReadOn(w, t.src, blind, [t EXCEPT !.pc = "dread", !.del = t.src])
         ELSE Finish(w)

\* move_note: the source must exist, ...
ProbeSource(w) ==
    LET t == wk[w] IN
    /\ t.pc = "probe" /\ t.op = "move"
    /\ Keep
    /\ \E blind \in Blind :
         IF Exists(t.src, blind)
         THEN ReadOn(w, t.src, blind, [t EXCEPT !.pc = "probe2"])
         ELSE Finish(w)

\* Wrong: the source directory's rule is not asked.
ProbeDestinationOnly(w) ==
    LET t == wk[w] IN
    /\ t.pc = "probe2" /\ t.op = "move"
    /\ Keep
    /\ \E blind \in Blind :
         IF Exists(t.dst, blind) \/ Barred(t.dst[1], t.actor, FALSE, FALSE)
         THEN Finish(w)
         ELSE ReadOn(w, t.dst, blind, [t EXCEPT !.pc = "read"])

\* Wrong: an occupied destination does not stop the move.
ProbeDestinationOccupied(w) ==
    LET t == wk[w] IN
    /\ t.pc = "probe2" /\ t.op = "move"
    /\ Keep
    /\ \E blind \in Blind :
         IF Barred(t.src[1], t.actor, FALSE, TRUE) \/ Barred(t.dst[1], t.actor, FALSE, FALSE)
         THEN Finish(w)
         ELSE ReadOn(w, t.dst, blind, [t EXCEPT !.pc = "read"])

\* ... the destination must not; then the two protection checks.
ProbeDestination(w) ==
    LET t == wk[w] IN
    /\ t.pc = "probe2" /\ t.op = "move"
    /\ Keep
    /\ \E blind \in Blind :
         IF \/ Exists(t.dst, blind)
            \/ Barred(t.src[1], t.actor, FALSE, TRUE)
            \/ Barred(t.dst[1], t.actor, FALSE, FALSE)
         THEN Finish(w)
         ELSE ReadOn(w, t.dst, blind, [t EXCEPT !.pc = "read"])

\* Wrong: the counter of the slug never moves.
ProbeSlugStuck(w) ==
    LET t == wk[w]
        p == <<AtomDir, AtomNames[t.slot]>>
    IN
    /\ t.pc = "slug"
    /\ Keep
    /\ \E blind \in Blind :
         IF Exists(p, blind)
         THEN ReadOn(w, p, blind, t)
         ELSE ReadOn(w, p, blind, [t EXCEPT !.pc = "put", !.dst = p, !.new = FreshNote(t, AtomDir)])

\* _atom_filename: the first slug whose read fails; then create_note lints and writes it.
\* Running out of AtomNames is the model's bound; the code goes on counting.
ProbeSlug(w) ==
    LET t == wk[w] IN
    /\ t.pc = "slug"
    /\ Keep
    /\ \E blind \in Blind, ok \in BOOLEAN :
         IF t.slot > Len(AtomNames)
         THEN Finish(w)
         ELSE LET p == <<AtomDir, AtomNames[t.slot]>> IN
              IF Exists(p, blind)
              THEN ReadOn(w, p, blind, [t EXCEPT !.slot = @ + 1])
              ELSE IF LintPasses(AtomDir, t.actor, FALSE, TRUE, ok)
              THEN ReadOn(w, p, blind,
                          [t EXCEPT !.pc = "put", !.dst = p, !.new = FreshNote(t, AtomDir)])
              ELSE Finish(w)

\* Wrong: update_note's guard of human bodies is gone.
ReadSourceUnguarded(w) ==
    LET t == wk[w] IN
    /\ t.pc = "read"
    /\ Keep
    /\ \E blind \in Blind :
         LET n == IF blind THEN None ELSE file[t.src] IN
         IF n = None
         THEN Finish(w)
         ELSE ReadOn(w, t.src, blind,
                     [t EXCEPT !.pc = "put",
                               !.new = IF t.op = "move" THEN n ELSE Merged(n, t)])

\* update_note's read, its body guard and lint; move_note's read of the content.
ReadSource(w) ==
    LET t == wk[w] IN
    /\ t.pc = "read"
    /\ Keep
    /\ \E blind \in Blind, ok \in BOOLEAN :
         LET n == IF blind THEN None ELSE file[t.src] IN
         IF \/ n = None
            \/ t.op = "write" /\ t.hasBody /\ BodyGuarded(n, t.actor)
            \/ t.op = "write" /\ ~LintPasses(t.src[1], t.actor, FALSE, t.hasBody, ok)
         THEN Finish(w)
         ELSE ReadOn(w, t.src, blind,
                     [t EXCEPT !.pc = "put",
                               !.new = IF t.op = "move" THEN n ELSE Merged(n, t)])

-----------------------------------------------------------------------------
(* The PUT every write converges on, and the rest of a move. *)

\* Wrong: an acknowledged PUT is taken for a landed one.
AfterPutTrusting(t) ==
    IF t.op = "move" THEN [t EXCEPT !.pc = "dread", !.del = t.src]
    ELSE IF t.op = "audit" THEN [t EXCEPT !.pc = "scan", !.new = None]
    ELSE Idle

AfterPut(t) ==
    IF t.op = "move" THEN [t EXCEPT !.pc = "back"]
    ELSE IF t.op = "audit" /\ t.dst # t.src THEN [t EXCEPT !.pc = "dread", !.del = t.src]
    ELSE IF t.op = "audit" THEN [t EXCEPT !.pc = "scan", !.new = None]
    ELSE Idle

PutLands(w) ==
    LET t == wk[w] IN
    /\ t.pc = "put"
    /\ wk' = [wk EXCEPT ![w] = AfterPut(t)]
    /\ Store(w, t.dst, t.new)
    /\ UNCHANGED <<trash, next>>

\* The call raised.  `late': it had taken effect by then.
PutFails(w) ==
    LET t == wk[w] IN
    /\ t.pc = "put" /\ WriteFaults
    /\ \/ Finish(w) /\ UNCHANGED file
       \/ wk' = [wk EXCEPT ![w] = Idle] /\ Store(w, t.dst, t.new)
    /\ UNCHANGED <<trash, next>>

PutLandsNowhere(w) ==
    LET t == wk[w] IN
    /\ t.pc = "put" /\ PutLies
    /\ wk' = [wk EXCEPT ![w] = AfterPut(t)]
    /\ unseen' = [unseen EXCEPT ![w] = IF AfterPut(t) = Idle THEN Path ELSE @]
    /\ Keep

\* move_note reads the destination back before it lets go of the source.
ReadBack(w) ==
    LET t == wk[w] IN
    /\ t.pc = "back"
    /\ Keep
    /\ \E blind \in Blind :
         LET landed == IF blind THEN None ELSE file[t.dst] IN
         IF landed = None
         THEN Finish(w)
         ELSE ReadOn(w, t.dst, blind,
                     [t EXCEPT !.pc = "dread",
                               !.del = IF landed = t.new THEN t.src ELSE t.dst])

-----------------------------------------------------------------------------
(* RestNoteIO.delete_note: read, copy under .trash/, remove the origin. *)

AfterDelete(t) ==
    IF t.op = "audit" THEN [t EXCEPT !.pc = "scan", !.new = None, !.copy = None] ELSE Idle

DeleteRead(w) ==
    LET t == wk[w] IN
    /\ t.pc = "dread"
    /\ Keep
    /\ \E blind \in Blind :
         LET n == IF blind THEN None ELSE file[t.del] IN
         IF n = None
         THEN Finish(w)
         ELSE ReadOn(w, t.del, blind, [t EXCEPT !.pc = "dtrash", !.copy = n])

\* _put_free_trash: the first name Obsidian accepts; names in .trash/ are never freed.
TrashLands(w) ==
    LET t == wk[w] IN
    /\ t.pc = "dtrash" /\ Len(trash[t.del]) < TrashTries
    /\ trash' = [trash EXCEPT ![t.del] = Append(@, t.copy)]
    /\ \/ /\ wk' = [wk EXCEPT ![w].pc = "drm"]
          /\ UNCHANGED unseen
       \/ WriteFaults /\ Finish(w)
    /\ UNCHANGED <<file, next>>

\* Wrong: the origin is removed although its copy failed.
TrashFailsGoesOn(w) ==
    LET t == wk[w] IN
    /\ t.pc = "dtrash"
    /\ Len(trash[t.del]) >= TrashTries \/ WriteFaults
    /\ wk' = [wk EXCEPT ![w].pc = "drm"]
    /\ UNCHANGED <<file, trash, next, unseen>>

TrashFails(w) ==
    LET t == wk[w] IN
    /\ t.pc = "dtrash"
    /\ Len(trash[t.del]) >= TrashTries \/ WriteFaults
    /\ Finish(w)
    /\ Keep

TrashLandsNowhere(w) ==
    /\ wk[w].pc = "dtrash" /\ PutLies
    /\ wk' = [wk EXCEPT ![w].pc = "drm"]
    /\ UNCHANGED <<file, trash, next, unseen>>

\* DELETE of the origin; a 404 raises like any other error.
Remove(w) ==
    LET t == wk[w] IN
    /\ t.pc = "drm" /\ file[t.del] # None
    /\ \/ wk' = [wk EXCEPT ![w] = AfterDelete(t)]
       \/ WriteFaults /\ wk' = [wk EXCEPT ![w] = Idle]
    /\ Store(w, t.del, None)
    /\ UNCHANGED <<trash, next>>

RemoveFails(w) ==
    LET t == wk[w] IN
    /\ t.pc = "drm"
    /\ file[t.del] = None \/ WriteFaults
    /\ Finish(w)
    /\ Keep

-----------------------------------------------------------------------------
(* audit(resolve=True), one listed note at a time. *)

\* Read a note and decide what _heal has to do with it.
Scan(w) ==
    LET t == wk[w] IN
    /\ t.pc = "scan" /\ t.todo # {}
    /\ Keep
    /\ \E p \in t.todo, blind \in Blind, ok \in BOOLEAN :
         LET n == IF blind THEN None ELSE file[p]
             skip == [t EXCEPT !.todo = @ \ {p}]
         IN  IF n = None THEN ReadOn(w, p, blind, skip)
             ELSE IF n.home # p[1]
             THEN ReadOn(w, p, blind, [skip EXCEPT !.pc = "probe2", !.src = p,
                                                   !.dst = HomePath(p, n),
                                                   !.new = Healed(n), !.copy = n])
             ELSE IF ~n.clean /\ LintPasses(p[1], "agent", FALSE, TRUE, ok)
             THEN ReadOn(w, p, blind, [skip EXCEPT !.pc = "put", !.src = p,
                                                   !.dst = p, !.new = Healed(n)])
             ELSE ReadOn(w, p, blind, skip)

ScanDone(w) ==
    /\ wk[w].pc = "scan" /\ wk[w].todo = {}
    /\ Finish(w)
    /\ Keep

\* Wrong: a relocation does not mind what is at its destination.
ProbeCollisionIgnored(w) ==
    LET t == wk[w] IN
    /\ t.pc = "probe2" /\ t.op = "audit"
    /\ Keep
    /\ \E blind \in Blind :
         ReadOn(w, t.dst, blind, [t EXCEPT !.pc = "put", !.copy = None])

\* _heal's collision probe: on a collision it corrects in place, otherwise it relocates.
\* A misrouted clean note that collides has nothing to correct.  The linter sees the
\* directory written to, never the one a relocation takes the note out of.
ProbeCollision(w) ==
    LET t == wk[w] IN
    /\ t.pc = "probe2" /\ t.op = "audit"
    /\ Keep
    /\ \E blind \in Blind, ok \in BOOLEAN :
         LET collision == Exists(t.dst, blind)
             target    == IF collision THEN t.src ELSE t.dst
         IN  IF /\ LintPasses(target[1], "agent", FALSE, TRUE, ok)
                /\ collision => ~t.copy.clean
             THEN ReadOn(w, t.dst, blind, [t EXCEPT !.pc = "put", !.dst = target, !.copy = None])
             ELSE ReadOn(w, t.dst, blind, [t EXCEPT !.pc = "scan", !.new = None, !.copy = None])

-----------------------------------------------------------------------------
(* The world around the Gate. *)

\* Obsidian saves a human's edit of p, or a note new at p: always a text of its own.
HumanSave(p) ==
    /\ HumanActs /\ next < MaxVer
    /\ next' = next + 1
    /\ \E k \in HumanKinds :
         LET n == IF file[p] = None
                  THEN [ver |-> next + 1, body |-> next + 1, at |-> k.at,
                        home |-> k.home, clean |-> k.clean, article |-> k.article]
                  ELSE [file[p] EXCEPT !.ver = next + 1, !.body = next + 1]
         IN  file' = [file EXCEPT ![p] = n]
    /\ unseen' = [v \in Worker |-> unseen[v] \cup {p}]
    /\ UNCHANGED <<trash, wk>>

HumanDelete(p) ==
    /\ HumanActs /\ file[p] # None
    /\ file' = [file EXCEPT ![p] = None]
    /\ unseen' = [v \in Worker |-> unseen[v] \cup {p}]
    /\ UNCHANGED <<trash, next, wk>>

\* The process dies: every request is gone, the vault stays.
Crash ==
    /\ Crashes
    /\ \E w \in Worker : wk[w].pc # "idle"
    /\ wk' = [w \in Worker |-> Idle]
    /\ unseen' = [w \in Worker |-> Path]
    /\ Keep

-----------------------------------------------------------------------------
\* The vault may already hold notes; every one of them came from HumanKinds.
SeedNote(k) ==
    [ver |-> 0, body |-> 0, at |-> k.at,
     home |-> k.home, clean |-> k.clean, article |-> k.article]

Init ==
    /\ \E p \in Path, k \in HumanKinds : file = [q \in Path |-> IF q = p THEN SeedNote(k) ELSE None]
    /\ trash = [p \in Path |-> <<>>]
    /\ next = 0
    /\ wk = [w \in Worker |-> Idle]
    /\ unseen = [w \in Worker |-> Path]

Start(w) ==
    \/ \E p \in Path, a \in Actors, m \in {"upsert", "create", "update"}, b \in BOOLEAN :
          StartWrite(w, p, a, m, b)
    \/ \E a \in Actors : StartAtom(w, a) 
    \/ \E p \in Path : StartCompute(w, p)
    \/ \E p \in Path, a \in Actors : StartDelete(w, p, a)
    \/ \E p, q \in Path, a \in Actors : StartMove(w, p, q, a)
    \/ \E s \in {Dir} \cup {{d} : d \in Dir} : StartAudit(w, s)

Step(w) ==
    \/ ProbeWrite(w) \/ ProbeDelete(w) \/ ProbeSource(w) \/ ProbeDestination(w)
    \/ ProbeSlug(w) \/ ReadSource(w)
    \/ PutLands(w) \/ PutFails(w) \/ PutLandsNowhere(w) \/ ReadBack(w)
    \/ DeleteRead(w) \/ TrashLands(w) \/ TrashFails(w) \/ TrashLandsNowhere(w)
    \/ Remove(w) \/ RemoveFails(w)
    \/ Scan(w) \/ ScanDone(w) \/ ProbeCollision(w)

Human == \E p \in Path : HumanSave(p) \/ HumanDelete(p)

Next == (\E w \in Worker : Start(w) \/ Step(w)) \/ Human \/ Crash

Spec == Init /\ [][Next]_vars

\* A running verb goes on: its thread is scheduled and httpx gives every call a timeout.
FairSpec == Spec /\ \A w \in Worker : WF_vars(Step(w))

-----------------------------------------------------------------------------
(* Properties. *)

TypeOK ==
    /\ file \in [Path -> Note \cup {None}]
    /\ trash \in [Path -> Seq(Note)]
    /\ next \in Nat
    /\ wk \in [Worker -> Task]
    /\ unseen \in [Worker -> SUBSET Path]

Changes(w) == wk'[w] # wk[w]

\* After the step, text n can still be found, live or under .trash/.
HeldAfter(n) ==
    \E p \in Path : file'[p] = n \/ \E i \in DOMAIN trash'[p] : trash'[p][i] = n

\* What a request puts back in place of a note it has read.
DerivedFrom(n, t) == t.new \in {Merged(n, t), Healed(n)}

\* No request loses a text it has seen: when a step of a verb takes note n away from p,
\* and the request had read p since p last changed, n survives elsewhere (a moved or
\* trashed copy) or the step saves the very note derived from n.  Whatever fails, is
\* interleaved or crashes, a text can only be lost behind the back of a request.
\* (gate_writer.py update_note, move_note, delete; gate_auditor.py _heal; rest_client.py
\* delete_note)
NothingSeenIsLost ==
    [][\A w \in Worker, p \in Path :
          (Changes(w) /\ file[p] # None /\ p \notin unseen[w])
             => \/ HeldAfter(file[p])
                \/ DerivedFrom(file[p], wk[w]) /\ file'[p] = wk[w].new]_vars

\* What a request whose view of a path is current relies on: the text it will replace, move
\* or remove is the one it took its decision on, and before the origin goes its copy is in
\* .trash/.  f and tr are the vault, U the paths whose content it has not read.
\* (the reads before each write in gate_writer.py, gate_auditor.py _heal, rest_client.py
\* delete_note)
ViewFits(t, U, f, tr) ==
    /\ t.pc = "idle" => U = Path
    /\ t.op = "write" => t.src = t.dst
    /\ (t.pc = "read" /\ t.op = "move" /\ t.dst \notin U) => f[t.dst] = None
    /\ t.pc = "read" => t.op \in {"write", "move"}
    /\ t.pc = "slug" => t.op = "atom"
    /\ t.pc = "scan" => t.op = "audit"
    /\ (t.pc = "probe2" /\ t.op = "audit") =>
          t.src # t.dst /\ (t.src \notin U => f[t.src] # None /\ t.new = Healed(f[t.src]))
    /\ (t.pc = "put" /\ t.dst \notin U /\ f[t.dst] # None) =>
          t.new = f[t.dst] \/ DerivedFrom(f[t.dst], t)
    /\ (t.pc = "dtrash" /\ t.del \notin U) => f[t.del] = t.copy
    /\ (t.pc = "drm" /\ t.del \notin U) =>
          f[t.del] = t.copy /\ \E i \in DOMAIN tr[t.del] : tr[t.del][i] = t.copy

ViewsFit == \A w \in Worker : ViewFits(wk[w], unseen[w], file, trash)

\* Across update, create, move and audit, an agent's request that has seen a note whose
\* author_type is human or external never changes its body in place.
\* (gate_writer.py update_note's provenance-based body protection)
AgentKeepsGuardedBodies ==
    [][\A w \in Worker, p \in Path :
          (/\ Changes(w) /\ p \notin unseen[w]
           /\ file[p] # None /\ BodyGuarded(file[p], wk[w].actor)
           /\ file'[p] # None)
             => file'[p].body = file[p].body]_vars

\* What a step does to a note the request has seen: takes it away or changes its body.
TouchesBody(w, p) ==
    /\ file[p] # None /\ p \notin unseen[w]
    /\ file'[p] = None \/ file'[p].body # file[p].body

\* The two removals whose directory is not asked whether it allows them: of the source of
\* an audit's relocation, which was not asked at all, and of the destination of a move that
\* is refused, which was asked about a note that leaves bodies alone.
RemovedUnasked(w, p) ==
    LET t == wk[w] IN
    /\ file'[p] = None
    /\ \/ t.op = "audit" /\ p = t.src /\ p # t.dst /\ ~Barred(t.dst[1], t.actor, FALSE, TRUE)
       \/ t.op = "move" /\ p = t.dst /\ ~Barred(p[1], t.actor, FALSE, FALSE)

\* Whatever verb, however its calls interleave: no request saves into a directory whose rule
\* bars it, or changes a note there; and it takes one away only by the two removals above,
\* of which the first is a flaw, and the second another when somebody else has saved the
\* destination meanwhile.  (gate.py check_protection, lint.py _check_protection)
ProtectionHolds ==
    [][\A w \in Worker, p \in Path :
          (Changes(w) /\ file'[p] # file[p])
             => \/ ~Barred(p[1], wk[w].actor, wk[w].op = "compute", TouchesBody(w, p))
                \/ RemovedUnasked(w, p)]_vars

\* A move whose PUT was acknowledged but landed nowhere leaves its source in place: a move
\* never makes a text unrecoverable even when PUTs lie.  (gate_writer.py move_note)
MoveSurvivesLies ==
    [][\A w \in Worker, p \in Path :
          (Changes(w) /\ wk[w].op = "move" /\ file[p] # None) => HeldAfter(file[p])]_vars

\* Every request comes back: no verb waits for another, no loop of probes runs for ever.
\* (gate_writer.py _atom_filename, gate_auditor.py audit)
RequestsEnd == \A w \in Worker : wk[w].pc # "idle" ~> wk[w].pc = "idle"
=============================================================================
