----------------------------- MODULE VaultIndex -----------------------------
(***************************************************************************)
(* The in-memory index of the vault: what each file's frontmatter said,    *)
(* which names exist, who links to whom.  Verbs read it without a lock.    *)
(* Two threads write it under one: a rebuild walks the vault and then      *)
(* reads every indexed note a second time for its links; the watcher       *)
(* replaces the entries of one file per event.  While the watcher is       *)
(* enabled nothing else refreshes the index: its TTL is off.               *)
(*                                                                         *)
(* The two do not index the same files.  The walk passes over hidden and   *)
(* skipped directories wherever they are, and System/Tools and             *)
(* System/Templates; the watcher looks at the topmost directory alone.     *)
(* Files both pass over have no part here.                                 *)
(*                                                                         *)
(* Abstracted: a file's text is its frontmatter (a model value, None for a *)
(* file without one) and the stems its body links to; names are the stems  *)
(* of paths; the links of a stem are sets, not lists with repetitions.     *)
(* Left out: modification times, .base files (the watcher passes their     *)
(* events over), unreadable files, the scopes and exemptions of readers.   *)
(***************************************************************************)
EXTENDS Naturals, Sequences

CONSTANTS
  Files,        \* paths of notes
  NameOnly,     \* files under Archives: their names are indexed, no more
  Pruned,       \* files the watcher indexes and the walk passes over
  Stems,        \* names a link can give
  Stem,         \* Files -> Stems
  Front,        \* frontmatters
  HasUp,        \* Front -> BOOLEAN: up: has a value
  Up,           \* Front -> SUBSET Stems: its links, without folder, heading
                \* and .md
  Refs,         \* what up: can say of a note
  UpRefs,       \* Front -> SUBSET Refs: its values, without brackets and
                \* alias, but with folder, heading and .md
  Notes,        \* what a file can hold: see NoteSpace
  None,         \* no file, no frontmatter, no entry
  MaxEdits      \* bound: changes of the vault

NoteSpace == [fm : Front \cup {None}, links : SUBSET Stems]

ASSUME FilesAssumption ==
  /\ NameOnly \subseteq Files /\ Pruned \subseteq Files
  /\ Stem \in [Files -> Stems]
ASSUME UpAssumption ==
  /\ HasUp \in [Front -> BOOLEAN]
  /\ Up \in [Front -> SUBSET Stems]
  /\ UpRefs \in [Front -> SUBSET Refs]
  /\ \A v \in Front : HasUp[v] \/ (Up[v] = {} /\ UpRefs[v] = {})
ASSUME NotesAssumption == Notes \subseteq NoteSpace
ASSUME NoneAssumption == None \notin NoteSpace \cup Front \cup Files
ASSUME EditsAssumption == MaxEdits \in Nat

VARIABLES
  disk,         \* Files -> note or None: the vault
  edits,        \* changes made so far
  queue,        \* the observer's events: the file of each, oldest first
  alive,        \* the observer thread runs
  stage,        \* the watcher: "idle", "wait", "read" or "tell"
  cur,          \* the file of the event it handles, or None
  content,      \* Files -> indexed frontmatter, or None
  named,        \* files in the name index
  outbound,     \* Stems -> stems linked to
  inbound,      \* Stems -> stems that link to it
  built,        \* a build has completed
  rebuild,      \* "off", or the pass a rebuild is in: "walk" or "links"
  todo,         \* files the pass has yet to read
  scan,         \* what the pass has gathered
  missed        \* files whose event was dropped before the first build
                \* completed, with its walk past them (history)

vault   == <<disk, edits>>
watcher == <<alive, stage, cur>>
entries == <<content, named>>
graph   == <<outbound, inbound>>
pass    == <<rebuild, todo, scan>>
indexVars == <<vault, queue, watcher, entries, graph, built, pass, missed>>

-----------------------------------------------------------------------------
\* The frontmatter the index keeps of a file that holds n.
Entry(f, n) == IF n = None \/ f \in NameOnly THEN None ELSE n.fm

\* Wrong: the links of up: are left out.
TargetsOfBody(front, n) == n.links

\* The stems a note links to: the up: of its entry, and its body.
Targets(front, n) == n.links \cup Up[front]

\* Link maps without anything.
NoLinks == [out |-> [s \in Stems |-> {}], in |-> [s \in Stems |-> {}]]

\* Link maps after the links of stem s are put in.
Linked(g, s, targets) ==
  [out |-> [g.out EXCEPT ![s] = targets],
   in |-> [t \in Stems |-> IF t \in targets THEN g.in[t] \cup {s} ELSE g.in[t]]]

\* Wrong: the reverse map keeps the stem.
UnlinkedOneWay(g, s) == [g EXCEPT !.out[s] = {}]

\* Link maps after stem s is taken out.
Unlinked(g, s) ==
  [out |-> [g.out EXCEPT ![s] = {}],
   in |-> [t \in Stems |-> IF t \in g.out[s] THEN g.in[t] \ {s} ELSE g.in[t]]]

Graph == [out |-> outbound, in |-> inbound]

SetGraph(g) == outbound' = g.out /\ inbound' = g.in

-----------------------------------------------------------------------------
IndexInit ==
  /\ disk \in [Files -> Notes \cup {None}]
  /\ edits = 0
  /\ queue = <<>>
  /\ alive = TRUE
  /\ stage = "idle"
  /\ cur = None
  /\ content = [f \in Files |-> None]
  /\ named = {}
  /\ outbound = NoLinks.out
  /\ inbound = NoLinks.in
  /\ built = FALSE
  /\ rebuild = "off"
  /\ todo = {}
  /\ scan = None
  /\ missed = {}

-----------------------------------------------------------------------------
\* The vault.

\* A file is created, saved or deleted.
Save(f, n) ==
  /\ edits < MaxEdits
  /\ disk[f] # n
  /\ disk' = [disk EXCEPT ![f] = n]
  /\ edits' = edits + 1
  /\ queue' = Append(queue, f)
  /\ UNCHANGED <<watcher, entries, graph, built, pass, missed>>

\* A file is moved: one event, handled as one for each path.
Move(f, g) ==
  /\ edits < MaxEdits
  /\ f # g /\ disk[f] # None
  /\ disk' = [disk EXCEPT ![f] = None, ![g] = disk[f]]
  /\ edits' = edits + 1
  /\ queue' = queue \o <<f, g>>
  /\ UNCHANGED <<watcher, entries, graph, built, pass, missed>>

-----------------------------------------------------------------------------
\* reindex: a verb, or the first reader.

\* The lock is taken and the vault listed, but for what the walk prunes.
StartWalk ==
  /\ rebuild = "off" /\ stage # "read"
  /\ rebuild' = "walk"
  /\ todo' = {f \in Files \ Pruned : disk[f] # None}
  /\ scan' = [entry |-> [f \in Files |-> None], names |-> {}]
  /\ UNCHANGED <<vault, queue, watcher, entries, graph, built, missed>>

\* A listed file is read; one removed after its stat has a name only.
WalkRead(f) ==
  /\ rebuild = "walk" /\ f \in todo
  /\ todo' = todo \ {f}
  /\ scan' = [scan EXCEPT !.entry[f] = Entry(f, disk[f]),
                          !.names = @ \cup {f}]
  /\ missed' = IF built \/ disk[f] # None THEN missed ELSE missed \cup {f}
  /\ UNCHANGED <<vault, queue, watcher, entries, graph, built, rebuild>>

\* Wrong: the lock is not released.
WalkRaisesLocked ==
  /\ rebuild = "walk"
  /\ \E f \in todo : disk[f] = None
  /\ rebuild' = "locked"
  /\ todo' = {}
  /\ scan' = None
  /\ UNCHANGED <<vault, queue, watcher, entries, graph, built, missed>>

\* The stat of a listed file raises, for it is gone: the rebuild ends with
\* nothing changed.
WalkRaises ==
  /\ rebuild = "walk"
  /\ \E f \in todo : disk[f] = None
  /\ rebuild' = "off"
  /\ todo' = {}
  /\ scan' = None
  /\ missed' = IF built THEN missed ELSE {}
  /\ UNCHANGED <<vault, queue, watcher, entries, graph, built>>

\* The entries are replaced; the second pass begins.
WalkDone ==
  /\ rebuild = "walk" /\ todo = {}
  /\ content' = scan.entry
  /\ named' = scan.names
  /\ rebuild' = "links"
  /\ todo' = {f \in Files : scan.entry[f] # None}
  /\ scan' = NoLinks
  /\ missed' = IF built THEN {} ELSE missed
  /\ UNCHANGED <<vault, queue, watcher, graph, built>>

\* An indexed note is read for its links; one that is gone is passed over.
LinkRead(f) ==
  /\ rebuild = "links" /\ f \in todo
  /\ todo' = todo \ {f}
  /\ scan' = IF disk[f] = None THEN scan
             ELSE Linked(scan, Stem[f], Targets(content[f], disk[f]))
  /\ UNCHANGED <<vault, queue, watcher, entries, graph, built, rebuild, missed>>

\* The links are replaced, and the lock is released.
LinksDone ==
  /\ rebuild = "links" /\ todo = {}
  /\ SetGraph(scan)
  /\ built' = TRUE
  /\ rebuild' = "off"
  /\ scan' = None
  /\ UNCHANGED <<vault, queue, watcher, entries, todo, missed>>

RebuildStep ==
  \/ \E f \in Files : WalkRead(f) \/ LinkRead(f)
  \/ WalkRaises \/ WalkDone \/ LinksDone

-----------------------------------------------------------------------------
\* The watcher.

\* Before the first build an event is dropped.
DropEvent ==
  /\ alive /\ stage = "idle" /\ queue # <<>> /\ ~ built
  /\ queue' = Tail(queue)
  /\ missed' = IF \/ rebuild = "links"
                  \/ rebuild = "walk" /\ Head(queue) \notin todo
               THEN missed \cup {Head(queue)} ELSE missed
  /\ UNCHANGED <<vault, watcher, entries, graph, built, pass>>

\* An event is taken; the watcher waits for the lock.
TakeEvent ==
  /\ alive /\ stage = "idle" /\ queue # <<>> /\ built
  /\ cur' = Head(queue)
  /\ queue' = Tail(queue)
  /\ stage' = "wait"
  /\ UNCHANGED <<vault, alive, entries, graph, built, pass, missed>>

\* Wrong: the lock is not waited for.
ForgetUnlocked ==
  /\ stage = "wait"
  /\ content' = [content EXCEPT ![cur] = None]
  /\ named' = named \ {cur}
  /\ SetGraph(Unlinked(Graph, Stem[cur]))
  /\ IF disk[cur] = None THEN stage' = "idle" /\ cur' = None
                         ELSE stage' = "read" /\ cur' = cur
  /\ missed' = missed \ {cur}
  /\ UNCHANGED <<vault, queue, alive, built, pass>>

\* The entries of the file are removed, and the links of its stem.  A file
\* that is gone has none: the handler returns before its callbacks.
Forget ==
  /\ stage = "wait" /\ rebuild = "off"
  /\ content' = [content EXCEPT ![cur] = None]
  /\ named' = named \ {cur}
  /\ SetGraph(Unlinked(Graph, Stem[cur]))
  /\ IF disk[cur] = None THEN stage' = "idle" /\ cur' = None
                         ELSE stage' = "read" /\ cur' = cur
  /\ missed' = missed \ {cur}
  /\ UNCHANGED <<vault, queue, alive, built, pass>>

\* Wrong: the handler returns before its callbacks.
RereadUntold ==
  /\ stage = "read" /\ disk[cur] # None
  /\ named' = named \cup {cur}
  /\ content' = [content EXCEPT ![cur] = Entry(cur, disk[cur])]
  /\ SetGraph(IF content'[cur] = None THEN Graph
              ELSE Linked(Graph, Stem[cur], Targets(content'[cur], disk[cur])))
  /\ stage' = "idle" /\ cur' = None
  /\ UNCHANGED <<vault, queue, alive, built, pass, missed>>

\* The file is read and its entries are put back.  The callbacks follow if
\* it has an entry.
Reread ==
  /\ stage = "read" /\ disk[cur] # None
  /\ named' = named \cup {cur}
  /\ content' = [content EXCEPT ![cur] = Entry(cur, disk[cur])]
  /\ IF content'[cur] = None
       THEN stage' = "idle" /\ cur' = None /\ UNCHANGED graph
       ELSE /\ stage' = "tell" /\ cur' = cur
            /\ SetGraph(Linked(Graph, Stem[cur],
                               Targets(content'[cur], disk[cur])))
  /\ UNCHANGED <<vault, queue, alive, built, pass, missed>>

\* The file is gone after all: found so before its stat, its name is put
\* back; found by its stat, the exception ends the observer thread.
RereadGone ==
  /\ stage = "read" /\ disk[cur] = None
  /\ \/ named' = named \cup {cur} /\ UNCHANGED alive
     \/ alive' = FALSE /\ UNCHANGED named
  /\ stage' = "idle"
  /\ cur' = None
  /\ UNCHANGED <<vault, queue, content, graph, built, pass, missed>>

\* Wrong: the watcher does not let go of the file.
TellKeeping ==
  /\ stage = "tell"
  /\ stage' = "idle"
  /\ UNCHANGED <<vault, queue, alive, cur, entries, graph, built, pass, missed>>

\* The callbacks run, after the lock is released.
Tell ==
  /\ stage = "tell"
  /\ stage' = "idle"
  /\ cur' = None
  /\ UNCHANGED <<vault, queue, alive, entries, graph, built, pass, missed>>

\* What the watcher does without a word to anyone.
WatchStep == DropEvent \/ TakeEvent \/ Forget \/ Reread \/ RereadGone

-----------------------------------------------------------------------------
VaultStep ==
  \/ \E f \in Files, n \in Notes \cup {None} : Save(f, n)
  \/ \E f, g \in Files : Move(f, g)

IndexNext == VaultStep \/ StartWalk \/ RebuildStep \/ WatchStep \/ Tell

IndexSpec == IndexInit /\ [][IndexNext]_indexVars

\* The threads run; nobody need ever ask for a rebuild.
IndexFairness ==
  /\ WF_indexVars(RebuildStep)
  /\ WF_indexVars(WatchStep \/ Tell)

-----------------------------------------------------------------------------
\* Readers.

\* backlinks_to
BacklinksTo(s) == {f \in named : Stem[f] \in inbound[s]}

\* outbound_links: what each target resolves to, image embeds not considered.
OutboundLinks(s) == [t \in outbound[s] |-> {f \in named : Stem[f] = t}]

\* find_orphans
FindOrphans ==
  {f \in Files : /\ content[f] # None
                 /\ ~ HasUp[content[f]]
                 /\ inbound[Stem[f]] = {}}

IsName(r) == \E f \in named : Stem[f] = r

\* find_dangling_links: links of a stem to what is no name; and values of up:
\* that are no name as they stand, with their folder if they have one.
FindDanglingLinks ==
  [wikilink |-> {link \in Stems \X Stems : /\ link[2] \in outbound[link[1]]
                                           /\ ~ IsName(link[2])},
   up |-> {ref \in Files \X Refs : /\ content[ref[1]] # None
                                   /\ ref[2] \in UpRefs[content[ref[1]]]
                                   /\ ~ IsName(ref[2])}]

-----------------------------------------------------------------------------
\* The file has an event nobody has handled yet.
Pending(f) ==
  \/ f \in {queue[i] : i \in 1 .. Len(queue)}
  \/ cur = f /\ stage \in {"wait", "read"}

\* The index has seen everything that was done to the file.
Known(f) == built /\ ~ Pending(f) /\ f \notin missed

Twins(f) == {g \in Files \ {f} : Stem[g] = Stem[f]}

\* The file is there for the index: one the walk passes over only if the
\* watcher put it in, and until the next rebuild.
OnRecord(f) == disk[f] # None /\ (f \in Pruned => f \in named)

\* The frontmatter, and the links, the index is to have of it.
FrontOnDisk(f) == IF OnRecord(f) THEN Entry(f, disk[f]) ELSE None

LinksOnDisk(f) ==
  IF FrontOnDisk(f) = None THEN {} ELSE disk[f].links \cup Up[FrontOnDisk(f)]

NameOnDisk(r) == \E f \in Files : Stem[f] = r /\ OnRecord(f)

IndexTypeOK ==
  /\ disk \in [Files -> Notes \cup {None}]
  /\ edits \in 0 .. MaxEdits
  /\ queue \in Seq(Files)
  /\ alive \in BOOLEAN
  /\ stage \in {"idle", "wait", "read", "tell"}
  /\ cur \in Files \cup {None}
  /\ stage = "idle" <=> cur = None
  /\ content \in [Files -> Front \cup {None}]
  /\ named \subseteq Files
  /\ outbound \in [Stems -> SUBSET Stems]
  /\ inbound \in [Stems -> SUBSET Stems]
  /\ built \in BOOLEAN
  /\ rebuild \in {"off", "walk", "links"}
  /\ todo \subseteq Files
  /\ rebuild = "off" => todo = {} /\ scan = None
  /\ rebuild = "walk" =>
       scan \in [entry : [Files -> Front \cup {None}], names : SUBSET Files]
  /\ rebuild = "links" =>
       scan \in [out : [Stems -> SUBSET Stems],
                 in : [Stems -> SUBSET Stems]]
  /\ missed \subseteq Files

\* What the index says of a file it has seen every change of is what is on
\* disk, whatever rebuilds and events overlapped: an event and the walk of a
\* rebuild leave the newer of what they read.  A file the walk passes over
\* has an entry or none, by which of the two came last: but if it has a name,
\* it has the entry of now (reindex, invalidate_file).
EntriesAgree ==
  \A f \in Files : Known(f) =>
    /\ content[f] = FrontOnDisk(f)
    /\ f \in named <=> OnRecord(f)

\* So do the links of a file no other shares its stem with, though they are
\* read apart from its entry; and the two maps are inverse for that stem
\* (_build_link_graph, invalidate_file).
LinksAgree ==
  \A f \in Files : Twins(f) = {} =>
    /\ Known(f) /\ rebuild = "off" => outbound[Stem[f]] = LinksOnDisk(f)
    /\ \A t \in Stems : Stem[f] \in inbound[t] <=> t \in outbound[Stem[f]]

\* So the readers tell of notes what is on disk: whose up: is no name as it
\* stands; of a note that shares its stem with no other, its backlinks, what
\* it links to and what in vain; and an orphan is a note without up: that no
\* such note links to, and no stem of several notes either (backlinks_to,
\* outbound_links, find_dangling_links, find_orphans).
ReadersAgree ==
  (rebuild = "off" /\ \A f \in Files : Known(f)) =>
     \A f \in Files :
       /\ \A r \in Refs : <<f, r>> \in FindDanglingLinks.up <=>
            /\ FrontOnDisk(f) # None /\ r \in UpRefs[FrontOnDisk(f)]
            /\ ~ NameOnDisk(r)
       /\ f \in FindOrphans <=>
            /\ FrontOnDisk(f) # None /\ ~ HasUp[FrontOnDisk(f)]
            /\ \A g \in Files : IF Twins(g) = {}
                                  THEN Stem[f] \notin LinksOnDisk(g)
                                  ELSE Stem[g] \notin inbound[Stem[f]]
       /\ Twins(f) = {} =>
            /\ \A t \in Stems :
                 /\ f \in BacklinksTo(t) <=> t \in LinksOnDisk(f)
                 /\ <<Stem[f], t>> \in FindDanglingLinks.wikilink <=>
                      t \in LinksOnDisk(f) /\ ~ NameOnDisk(t)
            /\ OutboundLinks(Stem[f]) =
                 [t \in LinksOnDisk(f) |->
                    {g \in Files : Stem[g] = t /\ OnRecord(g)}]

\* While the observer lives and rebuilds are not asked for without end, every
\* event is handled: no rebuild, and no failure of one, keeps the lock.
EventsEnd ==
  <>[][rebuild = "off" => rebuild' = "off"]_indexVars =>
    <>[](~ alive \/ (queue = <<>> /\ cur = None))

\* Entries and links change, and are announced, as IndexEntries says.
View == INSTANCE IndexEntries
          WITH Maps <- [Stems -> SUBSET Stems] \X [Stems -> SUBSET Stems],
               links <- graph,
               telling <- stage = "tell",
               rebuilding <- rebuild
ImplementsEntries == View!EntriesSpec
=============================================================================
