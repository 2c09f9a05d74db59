# Verification of vault-mcp

vault-mcp is an MCP server over an Obsidian vault.  Agents read and write notes
through its verbs; every write goes through a *Convention Gate* to Obsidian's Local
REST API, is committed to a git sidecar, and parts of the vault are mirrored in
external stores (phdb, Calliope behind Hades) or moved there for good.  Queries and
live subscriptions are answered from an index in memory.  A human edits the same vault
in Obsidian all the while, and other clones push to the same origin.

This directory holds TLA+ models of the parts of the server that decide what happens to
somebody's text and of those that must keep up with it, TLC configurations that check
them on small instances, and TLAPS proofs of theorems that hold for every instance.
Paths below are relative to `src/src/vault_mcp/`.

## 1. Inventory

### Components that are modelled

**Convention Gate write path** (`gate.py`, `gate_writer.py`, `gate_frontmatter.py`,
`verbs_write.py`).
State: none of its own; the vault behind `RestNoteIO`.  Operations: `write_note` (update,
create, atom slug), `create_note` (also the COMPUTE mode), `update_note`, `delete`,
`move_note`.  Each is a sequence of REST calls with decisions in between, and FastMCP runs
each verb on a worker thread, so two verbs and the human interleave between any two calls.
Hard: a decision is taken on one read and carried out by a later, unconditional PUT; a
failed read is taken for an absent note; a PUT may be acknowledged and not land; a verb
may die halfway.  Correct when no text a verb has seen is lost, a directory's
`write_protection` holds at every step, and an agent never rewrites the body of a human's
note.

**REST note IO** (`rest_client.py`, class `RestNoteIO`).
Operations `read_note`, `write_note`/`_put`, `delete_note` (read, copy to `.trash/`,
remove), `list_notes`.  Hard: a delete is three calls, names under `.trash/` run out.
Correct when no delete destroys the last copy.

**Drift audit** (`gate_auditor.py`).
Lists notes, reads each, heals frontmatter in place or relocates the note to the directory
its type routes to.  Hard: everything between its listing, its reads, its collision probe
and its writes.

**Git sidecar** (`gitops.py`; `_commit_write` and `_start_sweep_scheduler` of `server.py`).
State: working tree, index, object store, HEAD, the lock `_git_lock`, the counter
`_inflight`.  Operations: `begin_write`, `commit_paths`, `end_write`, `sweep_commit`,
`_integrate_origin`, `_push_outcome`.  A daemon thread sweeps; verbs commit their own
paths.  Hard: the disk has no lock; a merge writes to the disk; pushes race.  Correct when
integrating origin loses no note and no commit, the sha a verb returns holds its text, and
everything on disk is committed in the end.

**Plan freshness** (`plan_freshness.py`, `plan_reconcile.py`, the sweep part of
`verbs_plan.py`).
State: `_PLAN_CLOCKS`, a cache all sweeps share; the copies in Calliope.  Operations: the
verb `plan_freshness` (report, refresh, populate, backfill) and the reconcile loop, which
refreshes and skips plans whose file is not newer than the cached clock.  Hard: a clock
taken after the text it goes with, a cache updated from old reads, overlapping sweeps,
refused calls.  Correct when the loop never skips a stale copy, no refresh populates the
store, a refused caller stops asking, and copies converge.

**Dissolve and carve** (`verbs_dissolve.py`, `lifecycle_verbs.py`, `carve.py`,
`carve_policy.py`, `translator.py`).
State: the vault, the copies in the store.  Operations: `dissolve` (read, POST, verify,
unlink), `materialize` (read a stored copy, write it through the Gate), `dissolve_sweep` (a
dissolve of every listed note its policy names, up to a limit, or a dry run).  Hard: the
unlink is irreversible and far from the read; a POST whose answer is lost; a file that
fails halfway through a sweep.  Correct when a note leaves the vault only after a copy of
what was read is stored, a sweep stays within its policy and its limit, and its report is
true and complete.

**Vault index** (`index.py`, `watcher.py`, and what they use of `parsers.py`; the readers
of the link graph in `verbs_query.py`).
State: entries and names by file, two link maps by stem, the lock, the observer's queue.
Operations: `reindex` (two passes over the vault), `invalidate_file` (from the watcher's
thread), `backlinks_to`, `outbound_links`, `find_orphans`, `find_dangling_links`.  Hard: an
event between the passes of a rebuild; a rebuild that raises; a file that goes away while
it is handled; two notes of one name.  Correct when the index says of a file whose events
were handled what a rebuild would say.

**Subscriptions** (`subscriptions.py`, `subscribe_base` and `unsubscribe_base` of
`verbs_bases.py`).
State: subscriptions with the hash of their last result, connected sessions, a queue of
notices.  The index's callback enqueues from the watcher's thread, one worker evaluates and
pushes, verbs run between its sends.  Hard: the set of sessions changes during a push;
hashes are recorded before pushes.  Correct when every announced change reaches the hash,
and the hash the subscriber.

**REST client and REST verbs** (`rest_client.py`, `ObsidianRESTClient`; `verbs_rest.py`,
`patch_confirm.py`).
State: one record of Obsidian's reachability (flag, failures, backoff, clock) for all
threads, without a lock.  Operations: every verb is a call of `_request`; `patch_note` reads
its edit back.  Hard: a PATCH that timed out may be carried out later; a record others
change between the question and the answer.  Correct when an ok was seen, a guarded retry
does not write twice, and a server that is back is used again.

**Compute and materialize** (`compute.py`, `lifecycle.py`, `lifecycle_verbs.py`,
`verbs_compute.py`), **write linter** (`lint.py`), **provenance** (`provenance.py`),
**Bases engine** (`bases*.py`), **phdb and Hades clients**.
Modelled where they take part: the compute verb of `GateWrites`, the directory checks, the
author type and its transition, the filter of `LiveBases`, the calls of `Dissolve` and
`PlanFreshness`.

### Not modelled, and why

- *Language of Bases* (`bases_parser.py`, `bases_eval.py`, `bases_exec.py`), *DQL
  translator*: parsing and evaluation of expressions, sequential and without state.  A
  reference definition would be the evaluator again; the tests of the repository compare
  results, which is the right tool.
- *Schema* (`schema.py`, `schema_types.py`): loads and looks up a file, no state; the route
  of a note is a constant of `GateWrites` and of `Dissolve`.
- *Single checks of the linter, levels of provenance, frontmatter formatting*: functions of
  one note whose result is a choice in `GateWrites`.
- *Server wiring* (`server.py` beyond the functions above, `cli.py`, `settings.py`): lazily
  built singletons and parsing of arguments.
- *Heartbeat and health*: a periodic report no decision depends on.
- *The other query verbs*: read one map of the index or the vault, and change nothing.

### How they interact

    verb --> GateWriter --> RestNoteIO --HTTP--> Obsidian --> vault files <-- human
      |                                            ^            |    |
      |    patch_note, ... --> REST client --HTTP--+            |    |
      |                       (one record of Obsidian)          |    |
      +--> _commit_write --> GitCommitter <-- sweep thread -----+    |
      |                           |   \--> origin <-- other clones   |
      +--> dissolve, sweep --read, unlink----------------------------+
      |           \--HTTP--> store  --materialize--> GateWriter      |
      |    plan_freshness verb, reconcile loop --read----------------+
      |           \--HTTP--> Hades / Calliope                        |
      |    watcher thread --events--> VaultIndex <--rebuild----------+
      |                                |  callback
      +--> subscribe_base --> SubscriptionManager --worker--> sessions

The components meet in the vault's files.  Each module models that file state at the grain
it needs: `GateWrites` by REST call; `VaultGit` by change on disk, with the Gate write
reduced to the changes it makes in their order (`Plan`, `Land`); `Dissolve` by read, unlink
and save; `VaultIndex` by change and event.  The git sidecar is absent from the others
because it never changes what they do, save for merges, which to them are a human's saves.
Index and subscriptions are composed: `LiveBases` is written over `IndexEntries`, and
`VaultIndex` is proved to implement it.

## 2. The modules

| module | role |
|---|---|
| `GateWrites` | Gate write path, REST note IO and audit, call by call |
| `MCGateWrites` | its instances: two directories, one of them protected; kinds of human notes |
| `GateWritesProofs` | `TypeCorrect`, `LiesLoseNoMove`, and lemmas on the helpers and steps |
| `GateWritesLoss` | `ViewsHold`, `SeenTextsSurvive`, `RulesAreKept`, `GuardedBodiesStay` |
| `VaultGit` | git sidecar, step by step |
| `MCVaultGit` | its symmetry |
| `VaultGitProofs` | `TypeCorrect`, `BranchesOnlyGrow`, `MergesKeepDisk`, `CheckpointsHoldText` |
| `PlanFreshness` | sweeps of the verb and of the loop, over one cache |
| `PlanFreshnessProofs` | `TypeCorrect`, `PopulatingIsAsked`, `RefusedOnce`, `SkippedAreFresh` |
| `NoteArchive` | abstract: where a text of the vault, and a row of the store, can come from |
| `Dissolve` | dissolve, materialize and the sweep; implements `NoteArchive` |
| `MCDissolve` | its instance: two dissolvable notes, and a protected one that is on the allowlist |
| `DissolveProofs` | `TypeCorrect`, `RemovalsAreBacked`, `ScopeHolds`, `ReportsAreTrue`, `ReportsAreWhole`, `Refinement` |
| `IndexEntries` | abstract: how the entries and links of the index change, and what is announced |
| `VaultIndex` | rebuild, watcher, link maps and readers; implements `IndexEntries` |
| `MCIndex` | its instance: two notes of one name, one of them where the walk does not look, and one alone |
| `VaultIndexProofs` | `TypeCorrect`, `EntriesStayCurrent`, `LinksStayCurrent`, `ReadersStayCurrent`, `Refinement` |
| `LiveBases` | subscriptions on top of `IndexEntries` |
| `MCBases` | its base: open notes that are linked to |
| `LiveBasesProofs` | `TypeCorrect`, `HashesFollow`, `OwnersFollow` |
| `RestEdits` | REST client, REST verbs and the confirmation of patches |
| `RestEditsProofs` | `TypeCorrect`, `RetriesWriteOnce`, `OkIsVisible` |

The definitions whose comment starts with "Wrong:" are mistakes somebody could make in
the code.  They are used by no specification.  Each stands before the definition it would
replace, and shows that the property named with it in `PROJECT.json` would notice.

### GateWrites

`file` is the live vault, `trash` what is under `.trash/` for every path, oldest first; a
note is a token for its text (`ver`), one for its body (`body`), and the frontmatter the
Gate decides on: `at` (author_type), `home` (the directory its type routes to), `clean`
(nothing to heal), `article` (the body guard's exemption).  `wk[w]` holds the locals of the
verb on worker `w`; its `pc` names the REST call it makes next:

| `pc` | call | code |
|---|---|---|
| `probe`, `probe2`, `slug` | GET of `_note_exists` | `gate_writer.py` 85-111, 400-495; `gate_auditor.py` 208-216 |
| `read` | GET of `update_note`, of the source of a move | 208-356, 487-495 |
| `put` | PUT | `rest_client.py` 467-470 |
| `back` | read-back of a move | `gate_writer.py` 497-519 |
| `scan` | GET of the audit | `gate_auditor.py` 114-206 |
| `dread`, `dtrash`, `drm` | the three calls of a delete | `rest_client.py` 472-509 |

One step is one call and the computation up to the next one, so another actor can come
between any two calls.  `Blind` is a GET that fails: the code takes every failure for an
absent note.  A PUT or DELETE may fail before or after it took effect, `PutLies` lets
an acknowledged PUT land nowhere, and `Crash` ends every request.

`unseen[w]` is a history variable: the paths whose present content the request on `w` has
not read.  Without it "no text is lost" would be false of any program that writes over
REST, which has no conditional PUT; with it the property says exactly what the reads in the
code are for.

`RemovedUnasked` names the two removals for which the code does not ask the rule of the
directory it removes from: the source of an audit's relocation, and the destination of a
refused move, when the directory is open to a text without a body.  `ProtectionHolds`
exempts these two and nothing else.

Abstractions: the linter's checks of single fields are one choice of accept or reject; an
empty note, which the code treats as missing in places, does not occur; a declared
`author_type` at creation and the materialisation of atom-slug types are left out; results
returned to the caller are not modelled; a timed-out PUT lands before its verb returns or
never; a directory has one rule; the human never empties the trash.

### VaultGit

`disk`, `index` and the trees of `log` map files to texts; `log` is every commit of either
repository in the order it was made, `head` and `origin` are numbers of commits.
`wr[w].todo` is what a verb still has to bring to the disk; with `Lag` it may arrive after
the REST call has returned, which is why `commit_paths` waits for a created file
(`Waited`; that the wait runs out is one of the failures).  `before` and `want` are what the
verb finds and leaves at its paths, and the history `late` names the files it staged before
their change was on disk.  The sweep's `pc` follows `sweep_commit`, `_integrate_origin` and `_push_outcome`.  A merge of two
changed texts conflicts or merges line by line into a new text, by choice; it is written to
the disk file by file, then to the index (`UpdateFile`, `UpdateIndex`), and anybody may
save, and the process may die, in between.

Abstractions: staging several files is one step; a disabled committer, a detached head,
unrelated histories and a missing `merge3` only return early and are left out; nobody else
uses git on the working copy.

### PlanFreshness

`file[p]` is a plan's text (the number of the save) and mtime in whole seconds, `store[p]`
the newest copy with the clock it was stored under, `cache` is `_PLAN_CLOCKS`.  `sw[s]`
holds the locals of one sweep, by a verb or by the loop; a step is one file read, stat or
HTTP call.  `Stat` follows `ReadVault` as a step of its own, because `_build_plan_payload`
stats the file for a text read earlier.

Three histories, which no action looks at, say when the clocks can no longer be trusted.
`of` is the text the file had when a clock was read, so a copy whose text is another is
torn; `torn` are the plans whose copy a sweep has read in this state and not repaired.
`astray` gathers the plans of which, since they were last saved, one of three things has
happened: the clock of a torn copy went into the cache while the copy was not the file's
text (`Misled`); a newer copy was overwritten with an older text by a slower sweep; or the
plan was saved twice within one second.  A save in a later second takes a plan out of
`astray`.  Section 3 gives the sequences; being astray is the only thing that excuses a plan
from a property.

Abstractions: plans are not deleted; every copy was stored with a clock; tools that write
a file and keep its mtime are excluded; the waits between passes and `limit` are left out;
the loop does not exist without `HADES_URL`, so the preflight always passes; Calliope's
deduplication is against the newest copy; the cache is updated at the end of a sweep in one
step.

### Dissolve and NoteArchive

`disk` is the vault, `store[p]` the set of rows kept under a source path, every generation,
with the rows of the retired plans table that were there before (`Legacy`).  `pc[c]` of a
tool call: `post` after `dissolve` has read the note (`seen`), `unlink` after a POST that
counts as written, `write` after `materialize` has read a row by its id (`row`): any
generation, and a plan, but never an entity (`Restorable`).  The sweep is the call
`Sweeper` with what it listed (`listed`), what of that it has not reached (`todo`), its
`limit`, which by default there is none of, and its `report`; each of its dissolves is the
same three steps.  `Stored` keeps a copy by what the translator makes of the note
(`Carried`): the body of an entity note with a description is not sent.  A POST that is not
answered ok may have been kept (`PostFails`); an unlink that took place may be reported
failed, because the commit and the pruning after it may raise (`Unlink`); `Crash` ends every
call.  `authored` is a history: every note somebody has saved at a path.

`NoteArchive` has three variables and no calls.  Only `Save` adds to what was authored.
`Keep` stores what the store is sent of a text of its own path, and a text of a path is one
authored there or written back there from a stored row; `Remove` needs such a row in the
store; `Restore` writes a stored row where it is routed, and adds nothing to what was
authored.  So no text of the vault, and no row, comes from nowhere.  It does not promise
that the newest text is stored before it leaves, nor that a row holds a whole note: the code
keeps neither (section 3).  `ImplementsArchive` maps `disk` and `store` to it and is proved.

Abstractions: a note is its kind, whether it has a description, and its body; the write of
`materialize` is that of `GateWrites`, here one step; of the commit and the pruning after an
unlink only their failing is modelled; directories, authorship and labels are left out.  The
store is external and keeps every generation under a source path.

### VaultIndex and IndexEntries

`content` and `named` are the entries by file (`_content`, the names), `outbound` and
`inbound` the link maps by stem.  A rebuild takes the lock (`rebuild # "off"`), reads one
listed file after the other (`walk`), replaces the entries, reads each indexed note again
for its links (`links`), and replaces the maps.  The watcher takes one event of `queue` at a
time: `wait` for the lock, `Forget` removes what the file had, `read` puts it back, `tell`
runs the callbacks with the lock released.  The two do not index the same files: the walk
passes over hidden and skipped directories at any depth and over `System/Tools` and
`System/Templates`, the watcher looks at the topmost directory alone.  `Pruned` are the files
only the watcher indexes: an event puts one in, the next rebuild takes it out.

Readers take no lock and are operators.  `find_dangling_links` reads links in two ways: those
of the graph are stems, without folder, heading and `.md`; the values of `up:` are compared
with the names as they stand (`UpRefs`, beside the `Up` of the graph).  `find_orphans` asks
whether `up:` has a value at all (`HasUp`).

A removed file makes the stat of the walk raise (`WalkRaises`) or, in the watcher, ends the
observer's thread (`RereadGone`, `alive`).  `missed` is a history variable: files whose
event was dropped before the first build ended.

`IndexEntries` says what those who watch may rely on: an entry is taken out, put back and
then announced, with its links; or a rebuild replaces all entries (`rebuilding` is `walk`),
and then all links (`links`), unless it fails before.  `LiveBases` extends it.

Abstractions: a text is its frontmatter and the stems it links to; `.base` files,
modification times, unreadable files and the TTL (off while the watcher is enabled) are left
out; the lists of the link maps are sets.

### LiveBases

`subs`, `hash` and `sessions` are the manager's, `notices` the length of its queue; `told`
is what a subscriber holds.  The worker takes a notice and copies the subscriptions
(`left`), evaluates each, records a new hash and then pushes (`pushing`, `unsent`, `gone`),
one awaited send per step, so that `Subscribe` and `Unsubscribe` come between sends.  A
result depends on the entries and on the links (`Matching`), since `execute_base` reads both
maps.  `joined` says that the set of sessions has grown during the push: the iteration raises
(`PushRaises`), and the worker goes on to the next.  `silent` and `skipped` are history:
entries or links that changed without a callback, owners a push did not reach.

Abstractions: a result is the set of matching notes and its hash the set itself; it is
evaluated in one step, while the code reads the index note by note without its lock; notices
are counted; the text of a `.base` file does not change; steps of the index are those of
`IndexEntries`.

### RestEdits

`reachable`, `fails`, `ttl` and `age` are the client's record.  A call goes `ask` (is a
probe due?), `probe`, `decide` (is the failure still fresh?) and `sent`.  A PATCH that was
answered with its document (`expected`) then reads the note the same way, from `ask` on,
until it equals that document, at most `Attempts` times, and says `ok`; one whose answer
carries no document returns unconfirmed.  `Refused` is evaluated anew at `decide`, since
another thread may have recorded something meanwhile.  A call whose answer does not come may
leave its request in `late`.

Marking the record is several unlocked assignments.  `due[c]` are those call `c` has still
to make: flag and clock are one step (who looks in between sees what it would see before or
after), then the count and the backoff chosen from it, or the reset and the fresh backoff,
each a step of its own (`Assign`) that any other call may come between.

A command on the allowlist may rewrite the note (`ExecuteCommand`), as one more unguarded
edit; `open_in_obsidian` creates an empty note, which here is the empty document that was
there before.

Obsidian is external: `doc` is the document in its editor, on which it computes a patch;
`shown` is what REST reads, which may trail it; `Overwrite` is a sync or an editor that
replaces what was not yet shown.  One note, a sequence of edits, is enough: calls on
different notes share the record alone.

Abstractions: status codes are ok, refused and no answer; a missing API key and arguments
refused before any request change nothing and are left out; the length of the backoff is
counted in its own steps.

## 3. What is checked

Twelve runs, each one question.  Every property of a passing run is paired in
`PROJECT.json` with a "Wrong:" definition under which TLC finds it violated.

| run | properties | what it shows |
|---|---|---|
| `gate_faults` | `TypeOK`, `NothingSeenIsLost`, `ProtectionHolds` | one verb of any kind for a human or an agent, a human editing, failing calls and crashes, one voice-only directory: whatever fails and wherever it stops, no text the verb has seen is lost and the directory's rule holds at every step, but for the two removals `RemovedUnasked` names |
| `gate_two` | `ViewsFit`, `AgentKeepsGuardedBodies` | two verbs at once, one body-immutable directory: what each has read and nobody has changed since is what its write is based on; an agent leaves the guarded bodies it has seen |
| `gate_lies` | `MoveSurvivesLies`, `RequestsEnd` | PUTs that land nowhere: the read-back of a move keeps every text reachable; every verb returns |
| `git_merge` | `TypeOK`, `MergeKeepsDisk`, `HistoryOnlyGrows` | a verb, sweeps, a human, another clone, failures and crashes, late landings: integrating origin removes no note, replaces one only when its text is in history, and neither branch loses a commit |
| `git_captured` | `CheckpointHoldsText`, `DiskIsCaptured` | two verbs whose writes may be late on disk, and a human: the sha a verb returns names a tree with its text, or, for an update or a removal that was late, exactly with what was there before, and never so for a created note; the disk is committed in the end |
| `plan_loop` | `TypeOK`, `CopiesConverge` | the loop alone, saves at any moment and in any second, reads and writes that fail or are refused: every copy becomes the plan's text, unless the plan went astray |
| `plan_verbs` | `OneDenialPerSweep`, `GateSkipsFreshOnly`, `OnlyPopulateCreates` | the loop and a verb in every mode, with every failure and restarts: the loop skips a plan only while the copy is its text, unless the plan went astray; a refusal ends a sweep; nothing is populated unasked |
| `dissolve_sweep` | `TypeOK`, `RemovedIsStored`, `SweepStaysInScope`, `ReportIsTrue`, `ReportIsWhole`, `ImplementsArchive`, `CallsEnd`, `SweepsEnd` | a sweep with and without a limit beside another call, saves, lost answers, failing unlinks and crashes: a note leaves the vault only after its copy is kept, nothing leaves a protected pillar, the report keeps to the limit and has an outcome for every path passed, everything ends |
| `index_events` | `IndexTypeOK`, `EntriesAgree`, `LinksAgree`, `ReadersAgree`, `EventsEnd`, `ImplementsEntries` | changes, moves and deletions while rebuilds and the watcher overlap: the index and its readers agree with the disk on every file whose events are handled, and they are handled; of a note in a directory the walk prunes the entry, if there is one, is the one of now |
| `bases_live` | `TypeOK`, `HashesAreCurrent`, `OwnersAreTold`, `NoticesEnd` | clients that subscribe, cancel and vanish during pushes: no announced change is lost on its way to a hash, owners miss a result only in a push that did not reach them, the worker survives |
| `rest_edits` | `TypeOK`, `RetriesDoNotDuplicate`, `OkMeansVisible`, `CallsEnd`, `HealthRecovers` | two calls on one client, their marks on its record interleaved, while Obsidian comes and goes: an ok has been read back, guarded writes take place once however often they are repeated, calls end, a backoff ends with its outage |

One run is expected to find a violation of what a doc comment says:

| run | what happens |
|---|---|
| `bases_silent` (`ChangesAreTold`) | `subscribe_base` promises a push "whenever the result set for this base changes"; `invalidate_file` returns before its callbacks when the file is gone, so a deleted note leaves the result and its subscriber is never told |

### Bounds, and why they are enough

- Gate: two directories, one of them with a rule, one name (two atom names and one
  directory in `gate_lies`).  A verb touches at most two paths, and two paths in two
  directories give every combination of protected and unprotected source and destination.
  `MaxVer` 2 gives a caller's text and a human's save on top of the seed; `gate_two` has two
  verbs and the seed, with one new text between them.  `TrashTries` 1 makes the trash fill
  up with the second delete of a name, which stands for the code's 100.  A directory with
  another rule than those of `gate_faults` and `gate_two` differs in the operator `Barred`.
- Git: two files (a move needs two), three changes in all (a base and one change on each
  side of a merge, and one more in between), two verbs with two changes in `git_captured`,
  where each may be on disk only after its commit.
- Plans: two plans (one may be skipped, refused or failing while the other goes on), in the
  loop alone three saves (before, between and after text and stat), in the second of the
  last one or later; one save with the verb running beside the loop, which is enough for a
  clock that belongs to another text and for the older of two texts to be stored last.
- Dissolve: three paths, of which two can be dissolved and one is in a protected pillar that
  is on the allowlist too; limit 1, which the second of the two exceeds, and none; one kind
  of note at each path (a document, an entity note whose body is not sent, and a document
  whose plan row is written back over the first path), one save, the sweep's call and one
  other.  Calls are not counted and recur without end.
- Index: three files: a note alone, and two of one stem, of which the walk prunes one; two
  changes, so that one falls between the two passes of a rebuild and one between two events;
  a note with a link and with an `up:` that names another note by its stem and once more
  with its folder, so that one value resolves and the other never does; a note with
  frontmatter and no `up:`, which is an orphan unless linked to; and one without frontmatter.
- Bases: two clients and two handles (a push to one, a subscription by the other), one file
  that is in the result or not by its frontmatter and by the links, five steps of the index
  (taken out, put back, again, and a rebuild); the counterexample of `bases_silent` needs one
  client and one step.
- REST: two calls at a time; a guarded and a loose edit; two attempts to confirm (one that
  fails and the last), two steps of the backoff for the code's three (the first, and the
  last, which recurs); one call that writes, with a request an earlier process of the server
  may have left on its way, so that a write meets its own retry; any number that read.  The
  proofs cover any number of each.

Deadlock is checked except in `index_events`, `bases_live` and `bases_silent`, where the
bounds on changes let the system come to rest: no event or notice is left and nobody changes
a file any more.  `SYMMETRY` is used only in runs without liveness properties.

### Fairness

- `GateWrites!FairSpec`: a running verb goes on.  Its thread is scheduled by the operating
  system and every httpx call has a timeout, so a call answers or raises.  No call is
  assumed to succeed.
- `VaultGit!FairSpec`: verbs go on and the sweep thread, a daemon loop that survives every
  exception, wakes again.  `git_captured` has no failing git operations: a commit that fails
  for ever captures nothing.
- `PlanFreshness!FairSpec`: the loop's thread goes on and its waits end; strong fairness on
  the file read, the store read and the store write of each plan: asked over and over, a plan
  is answered over and over.  Without it a store that refuses for ever refutes convergence,
  and rightly.
- `Dissolve!FairSpec`: a call's thread goes on until it returns (POSTs have a timeout), and
  so does the sweep.  Nobody need save, restore or crash, nor refrain from it.
- `VaultIndex!IndexFairness`: the thread in a rebuild and the observer's thread go on.
  `EventsEnd` assumes besides that rebuilds stop being asked for, since the lock is not fair.
- `LiveBases!FairSpec`: the event loop runs callbacks and the worker.  That a send is
  answered or fails is an assumption on the transport: the code sets no timeout.
- `RestEdits!FairSpec`: calls go on (each request is answered or times out), and time passes.
  `HealthRecovers` assumes that Obsidian stays up and that somebody keeps asking.

### Sequences the runs do not cover

Met while modelling.  Nothing in the code guards against them, so no property can hold
of them; they are written down here because a test would hardly reach them.  The
properties above are stated so that they exclude these sequences, and no more.  Where a
document of the repository says otherwise than the code, its line is quoted.

The Gate:

- Somebody saves a note between a verb's read of it, or a probe that found nothing, and the
  verb's PUT: REST has no conditional PUT, and the save is overwritten (`gate_writer.py` 345,
  `gate_auditor.py` 216).  `unseen` is what excuses this.
- `_note_exists` answers False when the read fails for another reason than absence;
  `write_note` in mode `create` then overwrites a note (`gate_writer.py` 90, 392).
- The audit relocates a misrouted note out of a voice-only directory: the linter is asked
  about the directory written to, nobody about the one the note is removed from
  (`gate_auditor.py` 244).  This is one of the two removals of `RemovedUnasked`.
- An agent's metadata edit turns `author_type: human` into `ai`; the next body edit by an
  agent passes the guard (`gate_writer.py` 272-294).
- Two atom-slug writes of one day probe the same free slug; the second replaces the first
  (`gate_writer.py` 93-111 and 418).
- A human saves a note between `delete_note`'s copy to the trash and its DELETE: the save is
  in neither (`rest_client.py` 498-509).
- A human saves the destination of a move between its PUT and its read-back: the move is
  refused and its cleanup moves the human's text to the trash (`gate_writer.py` 512).  This is
  the other.
- `move_note` asks for write protection of both directories but never for `forbidden_dirs`,
  so a note can be moved into one (`docs/security/write-protections.md` 30).

Git:

- `begin_write` is called after the Gate write has returned, so a sweep during a move commits
  source and destination together (`gitops.py` 274-288).
- A commit that fails after `stage()` leaves its paths in the index; the next verb's commit
  takes them under its own message (`gitops.py` 237-269).
- `_wait_for_path` waits for a path to exist; for an update it exists already, so the commit
  may hold the old text and the new one is left to the sweep (`gitops.py` 209-217).
  `CheckpointHoldsText` says that this is all a late write can do (`late`).
- A sweep that finds nothing to commit returns before the push, so commits of verbs reach
  origin only with a sweep that commits something itself (`gitops.py` 299).

Plans (the first three are what takes a plan astray):

- Clocks are whole seconds and the cheap gate asks for a later one: a save within the second
  of a cached clock is skipped until the next (`plan_freshness.py` 132, 282).
- A payload's clock is read after its text, so a copy may carry the clock of a later save; a
  sweep that only reports, or whose write fails, caches that clock without a repair, and the
  loop takes the plan for current (`verbs_plan.py` 104, 250; `plan_freshness.py` 269-270).
- Two overlapping plan sweeps write in either order: the older text may become the newest
  copy, and a backfill may mint a version it was not to (`plan_freshness.py` 456-469).
- The reconcile loop's backoff is reset by any pass that was not refused, one that raised
  included (`plan_reconcile.py` 186-192).
- The docstring of the verb says that `refresh=True` writes the text "for each drifted or
  missing plan" (`verbs_plan.py` 148-149), and ten lines on that "`refresh` repairs **drift
  only**" (158).  The code does the second: without `include_missing` a plan that has no copy
  stays without.  `OnlyPopulateCreates` is the second, and the first is what its mutant does.

Dissolve:

- A save between the read of a dissolve and its unlink is removed with the file; only the
  text read is in the store (`verbs_dissolve.py` 89).
- An entity note with a description is stored without its body (`translator.py`), and
  `RemovedIsStored` means that copy.
- A dissolve deletes the file and then commits the deletion and prunes empty directories; if
  one of these raises, a sweep reports the file as failed (`verbs_dissolve.py` 95-104,
  `carve.py` 217), though by the docstring "a failure never deletes the file" (53).
- `dissolve` stores an absolute `source_path` and plan freshness a vault-relative one
  (`verbs_dissolve.py` 82), so each looks for its own copies alone.

Index and subscriptions:

- A note saved in a hidden or skipped directory below the top, or in `System/Tools` or
  `System/Templates`, is indexed by its event, since `invalidate_file` looks at the topmost
  directory only (`index.py` 176-179), and is gone after the next rebuild, whose walk prunes
  those directories (`parsers.py` 221-224).  What a query finds of it depends on which of the
  two came last.
- An `up:` value with a folder, a heading or `.md` is reported dangling though its note
  exists, because it is compared with bare names (`index_links.py` 183-187), while the graph
  takes those parts off (`index.py` 122-126); the docstring promises values "that point at
  non-existent notes" (`index_links.py` 145).
- The link maps are kept by stem: an event of one of two notes with one name takes out the
  links of both, and a note linked from the other becomes an orphan (`index.py` 190).
- An event before the end of the first build is dropped, also for a file the build has read
  already; nothing repairs its entry (`index.py` 162).
- A file that vanishes between two lines of the handler raises in its stat, and the
  exception ends the observer's thread: the index is frozen from then on (`index.py` 202).
- The hash of a result is recorded before its push; a push that breaks off, because a session
  subscribed during a send, is not repeated (`subscriptions.py` 174, 196).
- A subscription cancelled during a notice is still pushed once; a send has no timeout, so a
  client that stops reading stops the worker for all (`subscriptions.py` 198).

REST:

- Calls that fail at the same time each advance the backoff, and a late failure marks a
  server unreachable that another call has just reached (`rest_client.py` 167).
- The marks are unlocked assignments.  A success that resets the count between a failure's
  count and the choice of its backoff makes the index of that choice -1, which is the longest
  backoff, at once; a success between a failure's flag and its count leaves the server
  reachable with a failure on its count (`rest_client.py` 167-182).  `HealthRecovers` holds
  all the same.
- `append_note` and `periodic_append` carry no guard: a retry after a timeout that was
  carried out writes twice (`verbs_rest.py` 313).

## 4. What is proved

All theorems hold for every value of the constants that the modules' named assumptions
admit.  These say that names are not notes (`NoneAssumption`, `AbsentAssumption`,
`NoCopyAssumption`, `NamesAssumption`, `SessionsAssumption`) and no verb is called as one of
the other actors (`GitAssumption`, `PlanAssumption`), that directories, files, names and plans
exist (`GateAssumption`, `GitAssumption`, `PlanAssumption`), what parameters are functions or
subsets of what, that a note without an `up:` has no links in it (`UpAssumption`), that bounds
are numbers, and that the note written back from a stored copy is a note
(`RenderedAssumption`).  TLC evaluates all of them.

| theorem | statement | argument |
|---|---|---|
| `GateWritesProofs!TypeCorrect` | `Spec => []TypeOK` | the type invariant, strengthened by `Typed`: which locals of a verb are notes at which `pc`; one step per action |
| `GateWritesLoss!ViewsHold` | with `~PutLies`, `Spec => []ViewsFit` | `ViewsFit` with the type invariant is inductive: what a request has read and nobody has changed since (`unseen`) is still what its next write, copy or removal relies on.  A step of another actor can only add to `unseen` |
| `GateWritesLoss!SeenTextsSurvive` | with `~PutLies`, `Spec => NothingSeenIsLost` | from `ViewsFit`, for each step that changes the vault: a PUT replaces a note by itself or what was derived from it, a removal follows a copy in the trash |
| `GateWritesLoss!RulesAreKept` | with `~PutLies` and `LintOnCompute`, `Spec => ProtectionHolds`: no request saves into a directory whose rule bars it, or changes a note there, and none removes one from it but by the two removals `RemovedUnasked` names | `Allowed`: what the checks a request has passed allow the call it makes next.  It speaks of the request alone, so no other actor can disturb it; that an update without a body leaves the body alone comes from `ViewsFit` |
| `GateWritesLoss!GuardedBodiesStay` | with `~PutLies`, `Spec => AgentKeepsGuardedBodies` | `BodyFits`: while the note at a destination is the one `update_note` read, a body on its way to it was let pass by the guard |
| `GateWritesProofs!LiesLoseNoMove` | with `Alone`, `Spec => MoveSurvivesLies` | `MovesFit`: up to the PUT the destination of a move is empty; at the read-back it is empty or holds the text read; from there on source and destination hold one text and the source is what goes, so its removal needs no copy in the trash |
| `VaultGitProofs!TypeCorrect` | `Spec => []TypeOK` | with `Fetched`: who merges has fetched a commit that exists.  Branches are at commits, and parents are older than their commits, so history has no cycles |
| `VaultGitProofs!BranchesOnlyGrow` | `Spec => HistoryOnlyGrows` | reachability is a recursive function of `log`, so `ReachFits` says of it what an invariant can: it solves its own equation, and nothing else does.  A commit only appended, with parents older than itself (`Older`), extends the one solution by one value (`OneMore`) and changes none.  Each branch then moves only to a commit that reaches where it was: its child, a merge of it, or one the check found ahead |
| `VaultGitProofs!MergesKeepDisk` | `Spec => MergeKeepsDisk` | `LockFits` (who is at the index or the branch holds the lock) and `MergeFits`: between the check and the end of the update no verb can commit, a file still to be written is on disk as the branch says, and what somebody saves meanwhile is what the property excepts |
| `VaultGitProofs!CheckpointsHoldText` | `Spec => []CheckpointHoldsText`, with writes that may be late | `VerbFits`: until its change lands, a path has what the verb found there (`Pending`), from then on what it wants, but for files others have changed.  What is staged, and committed, is therefore one of the two (`Left`), the first only for a change that is late, and a created note is waited for (`Excused`).  A text the sweep has taken first is in the branch for good, by `BranchesOnlyGrow`'s lemmas |
| `PlanFreshnessProofs!TypeCorrect` | `Spec => []TypeOK` | one lemma per step of a sweep |
| `PlanFreshnessProofs!PopulatingIsAsked` | `Spec => OnlyPopulateCreates` | invariant `WriteFits`: a sweep about to write has seen a copy or was asked to populate; copies never go away, so overlap does not matter |
| `PlanFreshnessProofs!RefusedOnce` | `Spec => []OneDenialPerSweep` | invariant `DenialFits`: a sweep that was refused is at its end |
| `PlanFreshnessProofs!SkippedAreFresh` | `Spec => GateSkipsFreshOnly`, for any sweeps and faults | `GateFits`: no clock or text is ahead of its file (`Behind`), and unless the plan is astray a cached clock that is not outdated is that of a fresh copy, and a stored one that of the file's text (`Vouched`); so are those a sweep is about to store or cache (`TaskVouched`).  A save outdates every clock of the plan at once; a save within the second, an older text stored over a newer one, and the clock of a torn copy that is cached unrepaired are the only steps that break this, and they are what `astray` records |
| `DissolveProofs!TypeCorrect` | `Spec => []TypeOK` | part of the invariant below |
| `DissolveProofs!RemovalsAreBacked` | `Spec => RemovedIsStored` | `TextsKnown` (what is on disk, and what a call has read, was saved at that path or written back there) and `StoreCovers` (a call about to unlink has its copy in the store, which forgets nothing) |
| `DissolveProofs!ScopeHolds` | `Spec => SweepStaysInScope` | `SweeperInScope`: the sweep's call works on a path its policy allows |
| `DissolveProofs!ReportsAreTrue` | `Spec => []ReportIsTrue` | `ReportInv`: the report is whole and true, and the paths acted on are finitely many, so that counting them means something in a vault of any size (`FiniteSetTheorems`) |
| `DissolveProofs!ReportsAreWhole` | `Spec => []ReportIsWhole`: the report has an outcome for exactly the listed paths the sweep has passed | part of `ReportInv`: whatever way a path is passed, skipped, missing, refused or raising, it gets its entry in the same step, and a call that ends replaces `taken` by its outcome |
| `DissolveProofs!Refinement` | `Spec => ImplementsArchive` | each step maps to a save, a row kept of a text of its own path, a removal that has such a row, a row written back where it is routed, or a stutter of `NoteArchive`; `TextsKnown` and `StoreCovers` are what the last four need |
| `VaultIndexProofs!TypeCorrect` | `IndexSpec => []IndexTypeOK` | part of the invariant below |
| `VaultIndexProofs!EntriesStayCurrent` | `IndexSpec => []EntriesAgree` | `ReadingFits` (the watcher reads with the lock held), `WalkFits` (what a walk has gathered is on disk, unless an event is due) and `EntriesFit` (so are the entries, from the end of the first walk on): a change and a rebuild may overlap in any order, because an event that is still due excuses the file and is handled after the rebuild.  Of a file the walk prunes this is said only while it has a name (`OnRecord`): a rebuild takes it out, an event puts it back |
| `VaultIndexProofs!LinksStayCurrent` | `IndexSpec => []LinksAgree` | `LinkInv`: the two maps are inverse and hold nothing of a file being reread (`GraphFits`), they hold the links on disk of the files the index knows (`LinksFollow`), and so do the maps the second pass of a rebuild gathers (`ScanFollows`) |
| `VaultIndexProofs!ReadersStayCurrent` | `IndexSpec => []ReadersAgree` | the readers compute from entries and maps, which agree with the disk by the two theorems above; every recorded link comes from the name of a file (`FromFiles`), so an orphan is decided by the notes there are.  `up:` values are decided for every note, links for names only one note has, and the links of twins enter the clause on orphans as they are recorded |
| `VaultIndexProofs!Refinement` | `IndexSpec => ImplementsEntries` | by the same invariant: an entry that is put back was out, since the watcher holds the lock in between |
| `LiveBasesProofs!TypeCorrect` | `Spec => []TypeOK` | part of the invariant below |
| `LiveBasesProofs!HashesFollow` | `Spec => []HashesAreCurrent` | `HashesFit`: when no notice is due and nothing changed in silence, what the worker has not still to evaluate is hashed as it is |
| `LiveBasesProofs!OwnersFollow` | `Spec => []OwnersAreTold` | `PushFits`: whoever does not know a hash is about to be sent it, or the push broke off |
| `RestEditsProofs!TypeCorrect` | `Spec => []TypeOK` | part of the invariant below: whichever assignments of two marks meet, the record stays on the steps of the backoff.  That a reachable server has no failures on its count is not claimed, and is false |
| `RestEditsProofs!RetriesWriteOnce` | `Spec => []RetriesDoNotDuplicate` | `NoteInv`: both `doc` and `shown` are free of duplicates, since either may become the other, and every request still to be carried out is guarded or sets a field |
| `RestEditsProofs!OkIsVisible` | `Spec => OkMeansVisible` | `CallInv`: the document a PATCH was answered with holds its edit, so a note that equals it shows the edit |

`~PutLies` is needed: when an acknowledged PUT under `.trash/` lands nowhere, `delete_note`
removes the only copy.  The property of `gate_lies` is what still holds then.
`LintOnCompute` is needed for the rules: without the linter nothing asks about the directory
a materialized note is written to.

`Alone` (one verb, no human, no failing GET) is needed as well: without it TLC finds
`MoveSurvivesLies` violated on a small instance.  The property asks for every text, also one
the move has not read.  A save at the destination after its probe is overwritten by the PUT,
and a probe that fails takes an occupied destination for a free one.  For moves among others
`SeenTextsSurvive` is the theorem.

No other theorem has a hypothesis.

None of these is inductive by itself.  That a PUT is based on the note it replaces depends on
what was read some calls ago and on nobody having been there since; that an unlink is backed,
on a POST some steps earlier; that an entry is current, on what a walk had gathered when an
event arrived.  The strengthened invariants say this for every `pc`.

The two refinements with `LiveBases` make one chain: what is proved of subscriptions over the
abstract index holds over the index the code has.

Only model-checked: what needs fairness (`RequestsEnd`, `DiskIsCaptured`, `CopiesConverge`,
`CallsEnd`, `SweepsEnd`, `EventsEnd`, `NoticesEnd`, `HealthRecovers`), which is out of reach of
TLAPS and stays with TLC.  Every safety property of a passing run is a theorem.  `Reach` is
by definition some solution of its equation, if there is one; that there is exactly one at
every step is part of what is proved (`ReachFits`).

## 5. Plan

1. *Done*: `GateWrites`, `VaultGit`, `PlanFreshness`; `Dissolve` over `NoteArchive`;
   `VaultIndex` and `LiveBases` over `IndexEntries`; `RestEdits`; the runs and theorems above.
   Every safety property the runs check is proved.
2. Declared `author_type` at creation, which would complete the write path, and the diff sink.
3. Should the code change so that a sequence listed above is guarded against, its exclusion
   is taken out of the property it belongs to, which is then checked in full.
