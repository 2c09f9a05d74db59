-------------------------- MODULE VaultIndexProofs --------------------------
(***************************************************************************)
(* Proofs about VaultIndex for any files, stems and notes: types, that the *)
(* entries and links of a file whose every change was seen are those on    *)
(* disk, that the readers of the graph say so, and that the entries change *)
(* as IndexEntries says.                                                   *)
(***************************************************************************)
EXTENDS VaultIndex, SequenceTheorems, TLAPS

Queued(q, f) == f \in {q[i] : i \in 1 .. Len(q)}

\* The entries say of f what is on disk.
Agrees(f) ==
  /\ content[f] = FrontOnDisk(f)
  /\ f \in named <=> OnRecord(f)

\* So does what the walk has gathered; of a file it passes over, nothing.
ScanAgrees(f) ==
  /\ scan.entry[f] = IF f \in Pruned THEN None ELSE Entry(f, disk[f])
  /\ f \in scan.names <=> f \notin Pruned /\ disk[f] # None

\* The watcher holds the lock while it reads a file again: no rebuild runs,
\* the file's entry is out, and a removal meanwhile has its event.
ReadingFits ==
  stage = "read" => /\ rebuild = "off"
                    /\ content[cur] = None
                    /\ disk[cur] = None => Queued(queue, cur)

\* The walk has read what is on disk, but for files whose event is due or
\* was dropped before the first build; a listed file that is gone has an event.
WalkFits ==
  rebuild = "walk" =>
    \A f \in Files :
      /\ f \in todo => f \notin Pruned
      /\ f \notin todo /\ ~ Pending(f) /\ (built \/ f \notin missed)
           => ScanAgrees(f)
      /\ built /\ f \in todo /\ disk[f] = None => Pending(f)

\* The entries agree from the end of the first walk on.
EntriesFit ==
  (built \/ rebuild = "links") =>
    \A f \in Files : ~ Pending(f) /\ f \notin missed => Agrees(f)

\* The second pass reads notes that have an entry.
LinksFit == rebuild = "links" => \A f \in todo : content[f] # None

IInv == IndexTypeOK /\ ReadingFits /\ WalkFits /\ EntriesFit /\ LinksFit

-----------------------------------------------------------------------------
\* The queue of events.

LEMMA QueueAppend ==
  ASSUME NEW q \in Seq(Files), NEW f \in Files, NEW g \in Files
  PROVE  Queued(Append(q, f), g) <=> g = f \/ Queued(q, g)
<1>1. /\ Len(Append(q, f)) = Len(q) + 1 /\ Len(q) \in Nat
      /\ \A i \in 1 .. Len(q) : Append(q, f)[i] = q[i]
      /\ Append(q, f)[Len(q) + 1] = f
  OBVIOUS
<1>2. \A i \in 1 .. Len(q) + 1 : i \in 1 .. Len(q) \/ i = Len(q) + 1
  BY <1>1
<1>3. 1 .. Len(q) \subseteq 1 .. Len(q) + 1 /\ Len(q) + 1 \in 1 .. Len(q) + 1
  BY <1>1
<1> QED
  BY <1>1, <1>2, <1>3 DEF Queued

LEMMA QueueTail ==
  ASSUME NEW q \in Seq(Files), q # <<>>, NEW g \in Files
  PROVE  /\ Head(q) \in Files /\ Tail(q) \in Seq(Files)
         /\ Queued(q, g) <=> g = Head(q) \/ Queued(Tail(q), g)
<1>1. /\ Len(q) \in Nat \ {0} /\ Head(q) = q[1] /\ Head(q) \in Files
      /\ Tail(q) \in Seq(Files) /\ Len(Tail(q)) = Len(q) - 1
      /\ \A i \in 1 .. Len(q) - 1 : Tail(q)[i] = q[i + 1]
  OBVIOUS
<1>2. ASSUME Queued(q, g) PROVE g = Head(q) \/ Queued(Tail(q), g)
  <2>1. PICK i \in 1 .. Len(q) : q[i] = g
    BY <1>2 DEF Queued
  <2>2. CASE i = 1
    BY <1>1, <2>1, <2>2
  <2>3. CASE i # 1
    <3>1. i - 1 \in 1 .. Len(q) - 1 /\ (i - 1) + 1 = i
      BY <1>1, <2>3
    <3> QED
      BY <1>1, <2>1, <3>1 DEF Queued
  <2> QED
    BY <2>2, <2>3
<1>3. ASSUME g = Head(q) PROVE Queued(q, g)
  <2>1. 1 \in 1 .. Len(q)
    BY <1>1
  <2> QED
    BY <1>1, <1>3, <2>1 DEF Queued
<1>4. ASSUME Queued(Tail(q), g) PROVE Queued(q, g)
  <2>1. PICK i \in 1 .. Len(q) - 1 : Tail(q)[i] = g
    BY <1>1, <1>4 DEF Queued
  <2>2. i + 1 \in 1 .. Len(q)
    BY <1>1
  <2> QED
    BY <1>1, <2>1, <2>2 DEF Queued
<1> QED
  BY <1>1, <1>2, <1>3, <1>4

\* A move is two events.
LEMMA QueueMove ==
  ASSUME NEW q \in Seq(Files), NEW e \in Files, NEW f \in Files, NEW g \in Files
  PROVE  /\ q \o <<e, f>> \in Seq(Files)
         /\ Queued(q \o <<e, f>>, g) <=> g = e \/ g = f \/ Queued(q, g)
<1> DEFINE s == <<e, f>>
           r == q \o s
<1>1. s \in Seq(Files) /\ Len(s) = 2 /\ s[1] = e /\ s[2] = f
  OBVIOUS
<1> HIDE DEF s
<1>2. /\ r \in Seq(Files) /\ Len(r) = Len(q) + 2 /\ Len(q) \in Nat
      /\ \A i \in 1 .. Len(q) + 2 :
           r[i] = IF i <= Len(q) THEN q[i] ELSE s[i - Len(q)]
  <2>1. /\ r \in Seq(Files) /\ Len(r) = Len(q) + Len(s)
        /\ \A i \in 1 .. Len(q) + Len(s) :
             r[i] = IF i <= Len(q) THEN q[i] ELSE s[i - Len(q)]
    BY <1>1, ConcatProperties, Zenon
  <2> HIDE DEF r
  <2> QED
    BY <1>1, <2>1
<1>3. /\ \A i \in 1 .. Len(q) : i \in 1 .. Len(q) + 2 /\ r[i] = q[i]
      /\ Len(q) + 1 \in 1 .. Len(q) + 2 /\ r[Len(q) + 1] = e
      /\ Len(q) + 2 \in 1 .. Len(q) + 2 /\ r[Len(q) + 2] = f
      /\ \A i \in 1 .. Len(q) + 2 :
           i \in 1 .. Len(q) \/ i = Len(q) + 1 \/ i = Len(q) + 2
  BY <1>1, <1>2
<1> HIDE DEF r
<1>4. Queued(r, g) <=> g = e \/ g = f \/ Queued(q, g)
  BY <1>2, <1>3 DEF Queued
<1> QED
  BY <1>2, <1>4 DEF r, s

\* What an event still to be handled is.
LEMMA PendingIs ==
  \A f : Pending(f) <=> \/ Queued(queue, f)
                        \/ cur = f /\ stage \in {"wait", "read"}
BY DEF Pending, Queued

LEMMA PendingThen ==
  \A f : Pending(f)' <=> \/ Queued(queue', f)
                         \/ cur' = f /\ stage' \in {"wait", "read"}
BY DEF Pending, Queued

-----------------------------------------------------------------------------
\* Types of the parts.

LEMMA EntryType ==
  ASSUME NEW f \in Files, NEW n \in Notes \cup {None}
  PROVE  Entry(f, n) \in Front \cup {None}
BY NotesAssumption DEF Entry, NoteSpace

LEMMA TargetsType ==
  ASSUME NEW v \in Front, NEW n \in Notes
  PROVE  Targets(v, n) \in SUBSET Stems
BY NotesAssumption, UpAssumption DEF Targets, NoteSpace

LinkMaps == [out : [Stems -> SUBSET Stems], in : [Stems -> SUBSET Stems]]

LEMMA LinksType ==
  ASSUME NEW g \in LinkMaps, NEW s \in Stems, NEW t \in SUBSET Stems
  PROVE  NoLinks \in LinkMaps /\ Linked(g, s, t) \in LinkMaps
         /\ Unlinked(g, s) \in LinkMaps
BY DEF LinkMaps, NoLinks, Linked, Unlinked

LEMMA ScanTypes ==
  ASSUME IndexTypeOK
  PROVE  /\ Graph \in LinkMaps
         /\ rebuild = "links" => scan \in LinkMaps
BY DEF IndexTypeOK, Graph, LinkMaps

-----------------------------------------------------------------------------
\* Types, one lemma per actor.

LEMMA InitTypes == IndexInit => IndexTypeOK
<1> SUFFICES ASSUME IndexInit PROVE IndexTypeOK
  OBVIOUS
<1>1. outbound \in [Stems -> SUBSET Stems] /\ inbound \in [Stems -> SUBSET Stems]
  BY DEF IndexInit, NoLinks
<1>2. queue \in Seq(Files) /\ edits \in 0 .. MaxEdits
  BY EditsAssumption DEF IndexInit
<1>3. content \in [Files -> Front \cup {None}]
  BY DEF IndexInit
<1> QED
  BY <1>1, <1>2, <1>3 DEF IndexInit, IndexTypeOK

LEMMA VaultTypes ==
  ASSUME IndexTypeOK, VaultStep
  PROVE  IndexTypeOK'
<1> USE DEF IndexTypeOK, watcher, entries, graph, pass
<1>1. ASSUME NEW f \in Files, NEW n \in Notes \cup {None}, Save(f, n)
      PROVE  IndexTypeOK'
  <2>1. edits' \in 0 .. MaxEdits
    BY <1>1, EditsAssumption DEF Save
  <2>2. queue' \in Seq(Files)
    BY <1>1 DEF Save
  <2> QED
    BY <1>1, <2>1, <2>2 DEF Save
<1>2. ASSUME NEW f \in Files, NEW g \in Files, Move(f, g)
      PROVE  IndexTypeOK'
  <2>1. edits' \in 0 .. MaxEdits
    BY <1>2, EditsAssumption DEF Move
  <2>2. queue' \in Seq(Files)
    BY <1>2, QueueMove DEF Move
  <2>3. disk' \in [Files -> Notes \cup {None}]
    BY <1>2 DEF Move
  <2> QED
    BY <1>2, <2>1, <2>2, <2>3 DEF Move
<1> QED
  BY <1>1, <1>2 DEF VaultStep

LEMMA RebuildTypes ==
  ASSUME IInv, StartWalk \/ RebuildStep
  PROVE  IndexTypeOK'
<1> USE DEF IInv, IndexTypeOK, vault, watcher, entries, graph
<1>1. CASE StartWalk
  <2>1. scan' \in [entry : [Files -> Front \cup {None}], names : SUBSET Files]
    BY <1>1 DEF StartWalk
  <2> QED
    BY <1>1, <2>1 DEF StartWalk
<1>2. ASSUME NEW f \in Files, WalkRead(f)
      PROVE  IndexTypeOK'
  <2>1. Entry(f, disk[f]) \in Front \cup {None}
    BY EntryType
  <2>2. scan' \in [entry : [Files -> Front \cup {None}], names : SUBSET Files]
    BY <1>2, <2>1 DEF WalkRead
  <2> QED
    BY <1>2, <2>2 DEF WalkRead
<1>3. ASSUME NEW f \in Files, LinkRead(f)
      PROVE  IndexTypeOK'
  <2>1. scan' \in LinkMaps
    <3>1. CASE disk[f] = None
      BY <1>3, <3>1, ScanTypes DEF LinkRead
    <3>2. CASE disk[f] # None
      <4>1. content[f] \in Front
        BY <1>3 DEF LinkRead, LinksFit
      <4>2. disk[f] \in Notes /\ Stem[f] \in Stems
        BY <3>2, FilesAssumption
      <4>3. Targets(content[f], disk[f]) \in SUBSET Stems
        BY <4>1, <4>2, TargetsType
      <4> QED
        BY <1>3, <3>2, <4>2, <4>3, ScanTypes, LinksType DEF LinkRead
    <3> QED
      BY <3>1, <3>2
  <2> QED
    BY <1>3, <2>1 DEF LinkRead, LinkMaps
<1>4. CASE WalkRaises
  BY <1>4 DEF WalkRaises
<1>5. CASE WalkDone
  <2>1. NoLinks \in [out : [Stems -> SUBSET Stems], in : [Stems -> SUBSET Stems]]
    BY DEF NoLinks
  <2> QED
    BY <1>5, <2>1 DEF WalkDone
<1>6. CASE LinksDone
  BY <1>6 DEF LinksDone, SetGraph
<1> QED
  BY <1>1, <1>2, <1>3, <1>4, <1>5, <1>6 DEF RebuildStep

LEMMA WatchTypes ==
  ASSUME IInv, WatchStep \/ Tell
  PROVE  IndexTypeOK'
<1> USE NoneAssumption DEF IInv, IndexTypeOK, vault, watcher, entries, graph, pass
<1>1. CASE DropEvent
  BY <1>1, QueueTail DEF DropEvent
<1>2. CASE TakeEvent
  BY <1>2, QueueTail DEF TakeEvent
<1>3. CASE Forget
  <2>1. cur \in Files /\ Stem[cur] \in Stems
    BY <1>3, FilesAssumption DEF Forget
  <2>2. outbound' \in [Stems -> SUBSET Stems] /\ inbound' \in [Stems -> SUBSET Stems]
    BY <1>3, <2>1, LinksType, ScanTypes DEF Forget, SetGraph, LinkMaps
  <2> QED
    BY <1>3, <2>1, <2>2 DEF Forget
<1>4. CASE Reread
  <2>1. cur \in Files /\ Stem[cur] \in Stems /\ disk[cur] \in Notes
    BY <1>4, FilesAssumption DEF Reread
  <2>2. Entry(cur, disk[cur]) \in Front \cup {None}
    BY <2>1, EntryType
  <2>3. content' \in [Files -> Front \cup {None}] /\ content'[cur] = Entry(cur, disk[cur])
    BY <1>4, <2>1, <2>2 DEF Reread
  <2>4. outbound' \in [Stems -> SUBSET Stems] /\ inbound' \in [Stems -> SUBSET Stems]
    <3>1. CASE content'[cur] = None
      BY <1>4, <3>1 DEF Reread
    <3>2. CASE content'[cur] # None
      <4>1. Targets(content'[cur], disk[cur]) \in SUBSET Stems
        BY <2>1, <2>3, <3>2, TargetsType
      <4> QED
        BY <1>4, <2>1, <3>2, <4>1, LinksType, ScanTypes DEF Reread, SetGraph, LinkMaps
    <3> QED
      BY <3>1, <3>2
  <2> QED
    BY <1>4, <2>1, <2>3, <2>4 DEF Reread
<1>5. CASE RereadGone
  BY <1>5 DEF RereadGone
<1>6. CASE Tell
  BY <1>6 DEF Tell
<1> QED
  BY <1>1, <1>2, <1>3, <1>4, <1>5, <1>6 DEF WatchStep

LEMMA StepTypes ==
  ASSUME IInv, [IndexNext]_indexVars
  PROVE  IndexTypeOK'
<1>1. CASE UNCHANGED indexVars
  BY <1>1 DEF IInv, IndexTypeOK, indexVars, vault, watcher, entries, graph, pass
<1> QED
  BY <1>1, VaultTypes, RebuildTypes, WatchTypes DEF IndexNext, IInv

-----------------------------------------------------------------------------
\* The rest of the invariant, one lemma per actor.

Fits == ReadingFits /\ WalkFits /\ EntriesFit /\ LinksFit

LEMMA InitFits == IndexInit => Fits
BY DEF IndexInit, Fits, ReadingFits, WalkFits, EntriesFit, LinksFit

\* A change leaves an event for each file it touches.
LEMMA VaultFits ==
  ASSUME IInv, VaultStep
  PROVE  Fits'
<1>1. /\ UNCHANGED <<watcher, entries, graph, built, pass, missed>>
      /\ \A f \in Files : /\ Queued(queue, f) => Queued(queue', f)
                          /\ disk'[f] # disk[f] => Queued(queue', f)
  <2>1. ASSUME NEW f \in Files, NEW n \in Notes \cup {None}, Save(f, n)
        PROVE  <1>1!2
    BY <2>1, QueueAppend DEF Save, IInv, IndexTypeOK
  <2>2. ASSUME NEW f \in Files, NEW g \in Files, Move(f, g)
        PROVE  <1>1!2
    BY <2>2, QueueMove DEF Move, IInv, IndexTypeOK
  <2>3. UNCHANGED <<watcher, entries, graph, built, pass, missed>>
    BY DEF VaultStep, Save, Move
  <2> QED
    BY <2>1, <2>2, <2>3 DEF VaultStep
<1> USE DEF IInv, watcher, entries, pass
<1>2. \A f \in Files : ~ Pending(f)' => ~ Pending(f) /\ disk'[f] = disk[f]
  BY <1>1, PendingIs, PendingThen
<1>3. ReadingFits'
  BY <1>1, NoneAssumption DEF ReadingFits, IndexTypeOK
<1>4. WalkFits'
  <2>1. \A f \in Files : Pending(f) => Pending(f)'
    BY <1>1, PendingIs, PendingThen
  <2>2. \A f \in Files : disk'[f] # disk[f] => Pending(f)'
    BY <1>2
  <2> QED
    BY <1>1, <1>2, <2>1, <2>2 DEF WalkFits, ScanAgrees, Entry
<1>5. EntriesFit'
  BY <1>1, <1>2 DEF EntriesFit, Agrees, FrontOnDisk, OnRecord, Entry
<1>6. LinksFit'
  BY <1>1 DEF LinksFit
<1> QED
  BY <1>3, <1>4, <1>5, <1>6 DEF Fits

\* A rebuild gathers what is on disk.
LEMMA RebuildFits ==
  ASSUME IInv, StartWalk \/ RebuildStep
  PROVE  Fits'
<1> USE DEF IInv, vault, watcher, entries, Fits
<1>0. \A f : Pending(f)' <=> Pending(f)
  <2>1. UNCHANGED <<queue, cur, stage>>
    BY DEF StartWalk, RebuildStep, WalkRead, WalkRaises, WalkDone, LinkRead, LinksDone
  <2> QED
    BY <2>1, PendingIs, PendingThen
<1>1. CASE StartWalk
  <2>1. /\ todo' = {f \in Files \ Pruned : disk[f] # None}
        /\ \A f \in Files : scan'.entry[f] = None /\ f \notin scan'.names
    BY <1>1 DEF StartWalk
  <2>2. WalkFits'
    BY <1>1, <2>1 DEF StartWalk, WalkFits, ScanAgrees, Entry
  <2>3. EntriesFit'
    BY <1>0, <1>1 DEF StartWalk, EntriesFit, Agrees, FrontOnDisk, OnRecord
  <2> QED
    BY <1>1, <2>2, <2>3 DEF StartWalk, ReadingFits, LinksFit
<1>2. ASSUME NEW f \in Files, WalkRead(f)
      PROVE  Fits'
  <2>1. ReadingFits' /\ LinksFit' /\ EntriesFit'
    BY <1>0, <1>2 DEF WalkRead, ReadingFits, LinksFit, EntriesFit, Agrees, FrontOnDisk,
           OnRecord
  <2>2. /\ scan \in [entry : [Files -> Front \cup {None}], names : SUBSET Files]
        /\ scan'.entry = [scan.entry EXCEPT ![f] = Entry(f, disk[f])]
        /\ scan'.names = scan.names \cup {f}
    BY <1>2 DEF WalkRead, IndexTypeOK
  <2>3. WalkFits'
    <3> SUFFICES ASSUME NEW g \in Files
                 PROVE  /\ g \in todo' => g \notin Pruned
                        /\ /\ g \notin todo' /\ ~ Pending(g)'
                           /\ built' \/ g \notin missed'
                           => ScanAgrees(g)'
                        /\ built' /\ g \in todo' /\ disk'[g] = None => Pending(g)'
      BY DEF WalkFits
    <3>1. CASE g = f
      BY <1>0, <1>2, <2>2, <3>1 DEF WalkRead, WalkFits, ScanAgrees, Entry
    <3>2. CASE g # f
      <4>1. UNCHANGED <<disk, built>> /\ (g \in todo' <=> g \in todo)
            /\ (g \in missed' <=> g \in missed) /\ rebuild = "walk"
        BY <1>2, <3>2 DEF WalkRead
      <4>2. ScanAgrees(g) => ScanAgrees(g)'
        BY <2>2, <3>2, <4>1 DEF ScanAgrees, Entry
      <4> QED
        BY <1>0, <4>1, <4>2 DEF WalkFits
    <3> QED
      BY <3>1, <3>2
  <2> QED
    BY <2>1, <2>3
<1>3. ASSUME NEW f \in Files, LinkRead(f)
      PROVE  Fits'
  BY <1>0, <1>3
  DEF LinkRead, ReadingFits, WalkFits, EntriesFit, LinksFit, Agrees, FrontOnDisk,
      OnRecord
<1>4. CASE WalkRaises
  BY <1>0, <1>4
  DEF WalkRaises, ReadingFits, WalkFits, EntriesFit, LinksFit, Agrees, FrontOnDisk,
      OnRecord
<1>5. CASE WalkDone
  BY <1>0, <1>5
  DEF WalkDone, ReadingFits, WalkFits, EntriesFit, LinksFit, Agrees, FrontOnDisk,
      OnRecord, ScanAgrees, Entry
<1>6. CASE LinksDone
  BY <1>0, <1>6
  DEF LinksDone, ReadingFits, WalkFits, EntriesFit, LinksFit, Agrees, FrontOnDisk,
      OnRecord
<1> QED
  BY <1>1, <1>2, <1>3, <1>4, <1>5, <1>6 DEF RebuildStep

\* The watcher takes an entry out and puts back what is on disk.
LEMMA WatchFits ==
  ASSUME IInv, WatchStep \/ Tell
  PROVE  Fits'
<1> USE DEF IInv, vault, entries, pass, Fits
<1>1. CASE DropEvent
  <2>1. \A f \in Files : /\ Pending(f)' => Pending(f)
                        /\ Pending(f) /\ ~ Pending(f)' => f = Head(queue)
    BY <1>1, PendingIs, PendingThen, QueueTail
    DEF DropEvent, watcher, IndexTypeOK
  <2>2. ReadingFits' /\ LinksFit'
    BY <1>1 DEF DropEvent, watcher, ReadingFits, LinksFit
  <2>3. WalkFits'
    BY <1>1, <2>1 DEF DropEvent, watcher, WalkFits, ScanAgrees, Entry
  <2>4. EntriesFit'
    BY <1>1, <2>1 DEF DropEvent, watcher, EntriesFit, Agrees, FrontOnDisk, OnRecord, Entry
  <2> QED
    BY <2>2, <2>3, <2>4
<1>2. CASE TakeEvent
  <2>1. \A f \in Files : Pending(f)' <=> Pending(f)
    BY <1>2, PendingIs, PendingThen, QueueTail DEF TakeEvent, IndexTypeOK
  <2>2. ReadingFits' /\ LinksFit'
    BY <1>2 DEF TakeEvent, ReadingFits, LinksFit
  <2>3. WalkFits'
    BY <1>2, <2>1 DEF TakeEvent, WalkFits, ScanAgrees, Entry
  <2>4. EntriesFit'
    BY <1>2, <2>1 DEF TakeEvent, EntriesFit, Agrees, FrontOnDisk, OnRecord, Entry
  <2> QED
    BY <2>2, <2>3, <2>4
<1>3. CASE Forget
  <2>1. cur \in Files
    BY <1>3 DEF Forget, IndexTypeOK
  <2>2. content'[cur] = None /\ cur \notin named'
        /\ \A f \in Files \ {cur} : /\ content'[f] = content[f]
                                    /\ f \in named' <=> f \in named
                                    /\ f \in missed' <=> f \in missed
                                    /\ Pending(f)' <=> Pending(f)
    BY <1>3, <2>1, PendingIs, PendingThen, NoneAssumption DEF Forget, IndexTypeOK
  <2>3. disk[cur] # None => Pending(cur)'
    BY <1>3, PendingThen DEF Forget
  <2>4. ReadingFits'
    BY <1>3, <2>2 DEF Forget, ReadingFits
  <2>5. EntriesFit'
    <3> SUFFICES ASSUME built' \/ rebuild' = "links",
                        NEW f \in Files, ~ Pending(f)', f \notin missed'
                 PROVE  Agrees(f)'
      BY DEF EntriesFit
    <3>1. CASE f = cur
      BY <1>3, <2>2, <2>3, <3>1 DEF Forget, Agrees, FrontOnDisk, OnRecord, Entry
    <3>2. CASE f # cur
      BY <1>3, <2>2, <3>2 DEF Forget, EntriesFit, Agrees, FrontOnDisk, OnRecord, Entry
    <3> QED
      BY <3>1, <3>2
  <2> QED
    BY <1>3, <2>4, <2>5 DEF Forget, WalkFits, LinksFit
<1>4. CASE Reread
  <2>1. cur \in Files /\ disk[cur] # None /\ rebuild = "off"
    BY <1>4 DEF Reread, IndexTypeOK, ReadingFits
  <2>2. /\ content'[cur] = Entry(cur, disk[cur]) /\ cur \in named'
        /\ \A f \in Files \ {cur} : /\ content'[f] = content[f]
                                    /\ f \in named' <=> f \in named
                                    /\ Pending(f)' <=> Pending(f)
    BY <1>4, <2>1, PendingIs, PendingThen, NoneAssumption DEF Reread, IndexTypeOK
  <2>3. EntriesFit'
    <3> SUFFICES ASSUME built' \/ rebuild' = "links",
                        NEW f \in Files, ~ Pending(f)', f \notin missed'
                 PROVE  Agrees(f)'
      BY DEF EntriesFit
    <3>1. CASE f = cur
      BY <1>4, <2>1, <2>2, <3>1 DEF Reread, Agrees, FrontOnDisk, OnRecord, Entry
    <3>2. CASE f # cur
      BY <1>4, <2>2, <3>2 DEF Reread, EntriesFit, Agrees, FrontOnDisk, OnRecord, Entry
    <3> QED
      BY <3>1, <3>2
  <2> QED
    BY <1>4, <2>1, <2>3 DEF Reread, ReadingFits, WalkFits, LinksFit
<1>5. CASE RereadGone
  <2>1. cur \in Files /\ rebuild = "off" /\ Queued(queue, cur)
    BY <1>5 DEF RereadGone, IndexTypeOK, ReadingFits
  <2> PICK c \in Files : c = cur
    BY <2>1
  <2>2. /\ Pending(c)'
        /\ \A f \in Files \ {c} : /\ f \in named' <=> f \in named
                                  /\ Pending(f)' <=> Pending(f)
    BY <1>5, <2>1, PendingIs, PendingThen, NoneAssumption DEF RereadGone
  <2>3. EntriesFit'
    <3>1. UNCHANGED <<disk, content, built, rebuild, missed>>
      BY <1>5 DEF RereadGone
    <3>2. \A f \in Files : ~ Pending(f)' /\ Agrees(f) => Agrees(f)'
      BY <2>2, <3>1 DEF Agrees, FrontOnDisk, OnRecord, Entry
    <3>3. \A f \in Files : Pending(f) => Pending(f)'
      BY <2>2
    <3> QED
      BY <3>1, <3>2, <3>3 DEF EntriesFit
  <2> QED
    BY <1>5, <2>1, <2>3 DEF RereadGone, ReadingFits, WalkFits, LinksFit
<1>6. CASE Tell
  <2>1. \A f \in Files : Pending(f)' <=> Pending(f)
    BY <1>6, PendingIs, PendingThen, NoneAssumption DEF Tell
  <2>2. ReadingFits' /\ LinksFit'
    BY <1>6 DEF Tell, ReadingFits, LinksFit
  <2>3. WalkFits'
    BY <1>6, <2>1 DEF Tell, WalkFits, ScanAgrees, Entry
  <2>4. EntriesFit'
    BY <1>6, <2>1 DEF Tell, EntriesFit, Agrees, FrontOnDisk, OnRecord, Entry
  <2> QED
    BY <2>2, <2>3, <2>4
<1> QED
  BY <1>1, <1>2, <1>3, <1>4, <1>5, <1>6 DEF WatchStep

-----------------------------------------------------------------------------
\* IInv holds always.

LEMMA Inductive == IndexSpec => []IInv
<1>1. IndexInit => IInv
  BY InitTypes, InitFits DEF IInv, Fits
<1>2. IInv /\ [IndexNext]_indexVars => IInv'
  <2> SUFFICES ASSUME IInv, [IndexNext]_indexVars PROVE IInv'
    OBVIOUS
  <2>1. Fits'
    <3>1. CASE UNCHANGED indexVars
      <4>1. \A f : Pending(f)' <=> Pending(f)
        BY <3>1, PendingIs, PendingThen DEF indexVars, watcher
      <4> QED
        BY <3>1, <4>1
        DEF indexVars, vault, watcher, entries, pass, IInv, Fits, ReadingFits,
            WalkFits, EntriesFit, LinksFit, Agrees, FrontOnDisk,
      OnRecord, ScanAgrees, Entry
    <3> QED
      BY <3>1, VaultFits, RebuildFits, WatchFits DEF IndexNext
  <2> QED
    BY <2>1, StepTypes DEF IInv, Fits
<1> QED
  BY <1>1, <1>2, PTL DEF IndexSpec

-----------------------------------------------------------------------------
\* Every variable keeps its type, the two link maps and what a pass gathers
\* among them (index.py).
THEOREM TypeCorrect == IndexSpec => []IndexTypeOK
<1>1. IInv => IndexTypeOK
  BY DEF IInv
<1> QED
  BY <1>1, Inductive, PTL

\* However events and rebuilds overlap, and for however many files, the
\* entries of a file whose every event was handled are what is on disk, if the
\* file is one the walk sees; of one it passes over they are that or nothing
\* (reindex, invalidate_file).
THEOREM EntriesStayCurrent == IndexSpec => []EntriesAgree
<1>1. IInv => EntriesAgree
  BY DEF IInv, EntriesFit, EntriesAgree, Known, Agrees
<1> QED
  BY <1>1, Inductive, PTL

-----------------------------------------------------------------------------
\* The refinement.

LinkSpace == [Stems -> SUBSET Stems] \X [Stems -> SUBSET Stems]

LEMMA InitMaps == IndexInit => View!EntriesInit
BY DEF IndexInit, View!EntriesInit, View!Entries, graph, NoLinks

\* The maps keep their type.
LEMMA MapsStay == IndexTypeOK' => graph' \in LinkSpace
BY DEF IndexTypeOK, graph, LinkSpace

LEMMA RebuildMaps ==
  ASSUME IInv, IndexTypeOK', StartWalk \/ RebuildStep
  PROVE  [View!EntriesNext]_(View!entriesVars)
<1> USE DEF View!entriesVars, View!EntriesNext, View!EntriesChange, watcher, entries
<1>1. CASE StartWalk
  BY <1>1 DEF StartWalk, View!StartRebuild
<1>2. CASE \E f \in Files : WalkRead(f) \/ LinkRead(f)
  BY <1>2 DEF WalkRead, LinkRead
<1>3. CASE WalkRaises
  BY <1>3 DEF WalkRaises, View!RebuildFails
<1>4. CASE WalkDone
  <2>1. scan.entry \in View!Entries
    BY <1>4 DEF WalkDone, IInv, IndexTypeOK, View!Entries
  <2>2. View!EntriesRebuilt(scan.entry)
    BY <1>4 DEF WalkDone, View!EntriesRebuilt
  <2> QED
    BY <2>1, <2>2
<1>5. CASE LinksDone
  <2>1. View!LinksRebuilt
    BY <1>5, MapsStay DEF LinksDone, View!LinksRebuilt, LinkSpace
  <2> QED
    BY <2>1
<1> QED
  BY <1>1, <1>2, <1>3, <1>4, <1>5 DEF RebuildStep

LEMMA WatchMaps ==
  ASSUME IInv, IndexTypeOK', WatchStep \/ Tell
  PROVE  [View!EntriesNext]_(View!entriesVars)
<1> USE DEF View!entriesVars, View!EntriesNext, View!EntriesChange, entries, pass
<1>1. CASE DropEvent \/ TakeEvent \/ RereadGone
  BY <1>1 DEF DropEvent, TakeEvent, RereadGone, watcher
<1>2. CASE Forget
  <2>1. cur \in Files
    BY <1>2 DEF Forget, IInv, IndexTypeOK
  <2>2. View!Forgotten(cur)
    BY <1>2, MapsStay DEF Forget, View!Forgotten, LinkSpace
  <2> QED
    BY <2>1, <2>2 DEF View!EntriesNext
<1>3. CASE Reread
  <2> DEFINE v == Entry(cur, disk[cur])
  <2>1. cur \in Files /\ v \in Front \cup {None}
    BY <1>3, EntryType DEF Reread, IInv, IndexTypeOK
  <2>2. rebuild = "off" /\ content[cur] = None
    BY <1>3 DEF Reread, IInv, ReadingFits
  <2>3. content' = [content EXCEPT ![cur] = v] /\ content'[cur] = v
    BY <1>3, <2>1 DEF Reread, IInv, IndexTypeOK
  <2> HIDE DEF v
  <2>4. CASE v = None
    <3>1. content' = content
      BY <2>1, <2>2, <2>3, <2>4 DEF IInv, IndexTypeOK
    <3> QED
      BY <1>3, <2>3, <2>4, <3>1 DEF Reread
  <2>5. CASE v # None
    <3>1. View!PutBack(cur, v)
      BY <1>3, <2>2, <2>3, <2>5, MapsStay DEF Reread, View!PutBack, LinkSpace
    <3> QED
      BY <2>1, <2>5, <3>1 DEF View!EntriesNext
  <2> QED
    BY <2>4, <2>5
<1>4. CASE Tell
  BY <1>4 DEF Tell, View!Told
<1> QED
  BY <1>1, <1>2, <1>3, <1>4 DEF WatchStep

\* Every step of the index is one that IndexEntries allows, or changes
\* nothing it speaks of: entries go out and come back one file at a time,
\* never during a rebuild, and each that comes back is announced (index.py).
THEOREM Refinement == IndexSpec => ImplementsEntries
<1>1. IndexInit => View!EntriesInit
  BY InitMaps
<1>2. IInv /\ IndexTypeOK' /\ [IndexNext]_indexVars
        => [View!EntriesNext]_(View!entriesVars)
  <2> SUFFICES ASSUME IInv, IndexTypeOK', [IndexNext]_indexVars
               PROVE  [View!EntriesNext]_(View!entriesVars)
    OBVIOUS
  <2>1. CASE VaultStep \/ UNCHANGED indexVars
    BY <2>1 DEF VaultStep, Save, Move, indexVars, watcher, entries, pass,
                View!entriesVars
  <2> QED
    BY <2>1, RebuildMaps, WatchMaps DEF IndexNext
<1> QED
  BY <1>1, <1>2, Inductive, TypeCorrect, PTL
  DEF IndexSpec, ImplementsEntries, View!EntriesSpec

-----------------------------------------------------------------------------
\* The link maps, for files that share their stem with no other.

Mirrored(g, s) == \A t \in Stems : s \in g.in[t] <=> t \in g.out[s]

\* Links come from files.
FromFiles(g) == \A t \in Stems : g.in[t] \subseteq {Stem[f] : f \in Files}

\* The two maps are inverse, and hold nothing of a file being read again.
GraphFits ==
  /\ FromFiles(Graph)
  /\ \A f \in Files : Twins(f) = {} => Mirrored(Graph, Stem[f])
  /\ stage = "read" => outbound[Stem[cur]] = {}

\* But for a rebuild that is about to replace them, they hold the links on
\* disk of every file the index knows.
LinksFollow ==
  rebuild # "links" =>
    \A f \in Files : Twins(f) = {} /\ Known(f) => outbound[Stem[f]] = LinksOnDisk(f)

\* The second pass gathers maps that are inverse, hold nothing yet of files
\* it has still to read, and the links on disk of the others.
ScanFollows ==
  rebuild = "links" =>
    /\ FromFiles(scan)
    /\ \A f \in Files : Twins(f) = {} =>
         /\ Mirrored(scan, Stem[f])
         /\ f \in todo \/ content[f] = None => scan.out[Stem[f]] = {}
         /\ f \notin todo /\ ~ Pending(f) /\ f \notin missed
              => scan.out[Stem[f]] = LinksOnDisk(f)

LinkInv == GraphFits /\ LinksFollow /\ ScanFollows

\* Links put in under one stem leave those of the others.
LEMMA LinkedMaps ==
  ASSUME NEW g \in LinkMaps, NEW s \in Stems, NEW targets \in SUBSET Stems,
         NEW r \in Stems
  PROVE  /\ Linked(g, s, targets).out[s] = targets
         /\ r # s => /\ Linked(g, s, targets).out[r] = g.out[r]
                     /\ Mirrored(g, r) => Mirrored(Linked(g, s, targets), r)
         /\ Mirrored(g, s) /\ g.out[s] = {} => Mirrored(Linked(g, s, targets), s)
         /\ FromFiles(g) /\ s \in {Stem[f] : f \in Files}
              => FromFiles(Linked(g, s, targets))
<1>1. FromFiles(g) /\ s \in {Stem[f] : f \in Files}
        => FromFiles(Linked(g, s, targets))
  BY DEF LinkMaps, Linked, FromFiles
<1> QED
  BY <1>1 DEF LinkMaps, Linked, Mirrored

\* So do links taken out.
LEMMA UnlinkedMaps ==
  ASSUME NEW g \in LinkMaps, NEW s \in Stems, NEW r \in Stems
  PROVE  /\ Unlinked(g, s).out[s] = {}
         /\ r # s => /\ Unlinked(g, s).out[r] = g.out[r]
                     /\ Mirrored(g, r) => Mirrored(Unlinked(g, s), r)
         /\ Mirrored(g, s) => Mirrored(Unlinked(g, s), s)
         /\ FromFiles(g) => FromFiles(Unlinked(g, s))
<1>1. FromFiles(g) => FromFiles(Unlinked(g, s))
  BY DEF LinkMaps, Unlinked, FromFiles
<1> QED
  BY <1>1 DEF LinkMaps, Unlinked, Mirrored

LEMMA NoLinksInverse ==
  ASSUME NEW s \in Stems
  PROVE  Mirrored(NoLinks, s) /\ NoLinks.out[s] = {} /\ FromFiles(NoLinks)
BY DEF NoLinks, Mirrored, FromFiles

\* Links on disk change with the file, and whether it has a name, alone.
LEMMA LinksOnDiskKept ==
  ASSUME NEW f, disk'[f] = disk[f], disk[f] # None => (f \in named' <=> f \in named)
  PROVE  LinksOnDisk(f)' = LinksOnDisk(f)
BY DEF LinksOnDisk, FrontOnDisk, OnRecord, Entry

\* What a file without twins has under its stem, nobody else has.
LEMMA OtherStem ==
  ASSUME NEW f \in Files, NEW g \in Files, Twins(f) = {}, f # g
  PROVE  Stem[f] # Stem[g]
BY DEF Twins

\* The targets gathered of a file are the links of what it holds.
LEMMA TargetsAreOnDisk ==
  ASSUME NEW f \in Files, NEW v, v = FrontOnDisk(f)
  PROVE  LinksOnDisk(f) = IF v = None THEN {} ELSE Targets(v, disk[f])
BY DEF LinksOnDisk, Targets

\* A change of the vault leaves the maps, and an event for what it touches.
LEMMA VaultLinks ==
  ASSUME IInv, LinkInv, VaultStep
  PROVE  LinkInv'
<1>1. /\ UNCHANGED <<watcher, entries, graph, built, pass, missed>>
      /\ \A f \in Files : /\ Queued(queue, f) => Queued(queue', f)
                          /\ disk'[f] # disk[f] => Queued(queue', f)
  <2>1. ASSUME NEW f \in Files, NEW n \in Notes \cup {None}, Save(f, n)
        PROVE  <1>1!2
    BY <2>1, QueueAppend DEF Save, IInv, IndexTypeOK
  <2>2. ASSUME NEW f \in Files, NEW g \in Files, Move(f, g)
        PROVE  <1>1!2
    BY <2>2, QueueMove DEF Move, IInv, IndexTypeOK
  <2>3. UNCHANGED <<watcher, entries, graph, built, pass, missed>>
    BY DEF VaultStep, Save, Move
  <2> QED
    BY <2>1, <2>2, <2>3 DEF VaultStep
<1>2. /\ UNCHANGED <<stage, cur, outbound, inbound, content, rebuild, todo, scan,
                     built, missed>>
      /\ Graph' = Graph
  BY <1>1 DEF watcher, entries, graph, pass, Graph
<1>3. \A f \in Files : ~ Pending(f)' => ~ Pending(f)
                                        /\ LinksOnDisk(f)' = LinksOnDisk(f)
  BY <1>1, <1>2, PendingIs, PendingThen, LinksOnDiskKept DEF entries
<1>4. GraphFits'
  BY <1>2 DEF LinkInv, GraphFits, Twins, Mirrored, FromFiles
<1>5. LinksFollow'
  BY <1>2, <1>3 DEF LinkInv, LinksFollow, Known, Twins
<1>6. ScanFollows'
  BY <1>2, <1>3 DEF LinkInv, ScanFollows, Twins, Mirrored, FromFiles
<1> QED
  BY <1>4, <1>5, <1>6 DEF LinkInv

\* A rebuild replaces the maps by what its second pass gathered.
LEMMA RebuildLinks ==
  ASSUME IInv, IInv', LinkInv, StartWalk \/ RebuildStep
  PROVE  LinkInv'
<1>0. /\ \A f : Pending(f)' <=> Pending(f)
      /\ UNCHANGED named => \A f : LinksOnDisk(f)' = LinksOnDisk(f)
      /\ UNCHANGED <<stage, cur>>
  <2>1. UNCHANGED <<disk, queue, cur, stage>>
    BY DEF StartWalk, RebuildStep, WalkRead, WalkRaises, WalkDone, LinkRead,
           LinksDone, vault, watcher
  <2> QED
    BY <2>1, PendingIs, PendingThen, LinksOnDiskKept
<1>1. CASE StartWalk \/ WalkRaises \/ \E f \in Files : WalkRead(f)
  <2>1. /\ UNCHANGED <<outbound, inbound, built, named>> /\ Graph' = Graph
        /\ rebuild # "links" /\ rebuild' # "links"
        /\ built => missed' = missed
    BY <1>1 DEF StartWalk, WalkRaises, WalkRead, entries, graph, Graph
  <2> QED
    BY <1>0, <2>1
    DEF LinkInv, GraphFits, LinksFollow, ScanFollows, Known, Twins, Mirrored, FromFiles
<1>2. CASE WalkDone
  <2>1. /\ UNCHANGED <<disk, outbound, inbound>> /\ Graph' = Graph
        /\ rebuild' = "links" /\ scan' = NoLinks
        /\ todo' = {f \in Files : content'[f] # None}
    BY <1>2 DEF WalkDone, graph, vault, Graph
  <2>2. ASSUME NEW f \in Files, f \notin todo', ~ Pending(f)', f \notin missed'
        PROVE  LinksOnDisk(f)' = {}
    BY <2>1, <2>2 DEF IInv, EntriesFit, Agrees, LinksOnDisk
  <2>3. \A f \in Files : Stem[f] \in Stems
    BY FilesAssumption
  <2> QED
    BY <1>0, <2>1, <2>2, <2>3, NoLinksInverse
    DEF LinkInv, GraphFits, LinksFollow, ScanFollows, Twins, Mirrored, FromFiles
<1>3. ASSUME NEW g \in Files, LinkRead(g)
      PROVE  LinkInv'
  <2>1. /\ UNCHANGED <<disk, outbound, inbound, content, named, missed>>
        /\ Graph' = Graph
        /\ rebuild = "links" /\ rebuild' = "links"
        /\ g \in todo /\ todo' = todo \ {g} /\ content[g] # None
    BY <1>3 DEF LinkRead, graph, vault, entries, Graph, IInv, LinksFit
  <2>2. CASE disk[g] = None
    <3>1. scan' = scan
      BY <1>3, <2>2 DEF LinkRead
    <3>2. LinksOnDisk(g) = {}
      BY <2>2 DEF LinksOnDisk, FrontOnDisk, OnRecord
    <3> QED
      BY <1>0, <2>1, <3>1, <3>2
      DEF LinkInv, GraphFits, LinksFollow, ScanFollows, Twins, Mirrored, FromFiles
  <2>3. CASE disk[g] # None
    <3>1. /\ scan' = Linked(scan, Stem[g], Targets(content[g], disk[g]))
          /\ scan \in LinkMaps /\ Stem[g] \in Stems
          /\ Targets(content[g], disk[g]) \in SUBSET Stems
      <4>1. content[g] \in Front /\ disk[g] \in Notes /\ Stem[g] \in Stems
        BY <2>1, <2>3, FilesAssumption DEF IInv, IndexTypeOK
      <4> QED
        BY <1>3, <2>1, <2>3, <4>1, TargetsType, ScanTypes DEF LinkRead, IInv
    <3>2. ~ Pending(g) /\ g \notin missed =>
            Targets(content[g], disk[g]) = LinksOnDisk(g)
      BY <2>1, TargetsAreOnDisk DEF IInv, EntriesFit, Agrees
    <3>3. ScanFollows'
      <4>0. FromFiles(scan')
        BY <2>1, <3>1, LinkedMaps DEF LinkInv, ScanFollows
      <4> SUFFICES ASSUME NEW f \in Files, Twins(f) = {}
                   PROVE  /\ Mirrored(scan', Stem[f])
                          /\ f \in todo' \/ content[f] = None
                               => scan'.out[Stem[f]] = {}
                          /\ f \notin todo' /\ ~ Pending(f) /\ f \notin missed
                               => scan'.out[Stem[f]] = LinksOnDisk(f)
        BY <1>0, <2>1, <4>0 DEF ScanFollows, Twins, Mirrored, FromFiles
      <4>1. /\ Mirrored(scan, Stem[f]) /\ Stem[f] \in Stems
            /\ f \in todo \/ content[f] = None => scan.out[Stem[f]] = {}
            /\ f \notin todo /\ ~ Pending(f) /\ f \notin missed
                 => scan.out[Stem[f]] = LinksOnDisk(f)
        BY <2>1, FilesAssumption DEF LinkInv, ScanFollows
      <4>2. CASE f = g
        BY <2>1, <3>1, <3>2, <4>1, <4>2, LinkedMaps
      <4>3. CASE f # g
        <5>1. Stem[f] # Stem[g]
          BY <4>3, OtherStem
        <5> QED
          BY <2>1, <3>1, <4>1, <4>3, <5>1, LinkedMaps
      <4> QED
        BY <4>2, <4>3
    <3>4. GraphFits' /\ LinksFollow'
      BY <1>0, <2>1 DEF LinkInv, GraphFits, LinksFollow, Twins, Mirrored, FromFiles
    <3> QED
      BY <3>3, <3>4 DEF LinkInv
  <2> QED
    BY <2>2, <2>3
<1>4. CASE LinksDone
  <2>1. /\ outbound' = scan.out /\ inbound' = scan.in
        /\ Graph' = [out |-> scan.out, in |-> scan.in]
        /\ rebuild = "links" /\ rebuild' = "off" /\ todo = {}
        /\ UNCHANGED <<missed, named>>
    BY <1>4 DEF LinksDone, SetGraph, Graph, entries
  <2>2. stage # "read"
    BY <2>1 DEF IInv, ReadingFits
  <2> QED
    BY <1>0, <2>1, <2>2
    DEF LinkInv, GraphFits, LinksFollow, ScanFollows, Known, Twins, Mirrored, FromFiles
<1> QED
  BY <1>1, <1>2, <1>3, <1>4 DEF RebuildStep

\* The watcher takes the links of one stem out and puts them back.
LEMMA WatchLinks ==
  ASSUME IInv, IInv', LinkInv, WatchStep \/ Tell
  PROVE  LinkInv'
<1>0. /\ \A f : (disk[f] # None => (f \in named' <=> f \in named))
                    => LinksOnDisk(f)' = LinksOnDisk(f)
      /\ UNCHANGED <<disk, built, rebuild, todo, scan>>
  <2>1. UNCHANGED <<disk, built, rebuild, todo, scan>>
    BY DEF WatchStep, DropEvent, TakeEvent, Forget, Reread, RereadGone, Tell,
           vault, pass
  <2> QED
    BY <2>1, LinksOnDiskKept
<1>1. CASE DropEvent
  <2>1. \A f \in Files : Pending(f) /\ ~ Pending(f)' => f = Head(queue)
    BY <1>1, PendingIs, PendingThen, QueueTail
    DEF DropEvent, watcher, IInv, IndexTypeOK
  <2>2. /\ UNCHANGED <<stage, cur, content, named, outbound, inbound>>
        /\ Graph' = Graph
        /\ ~ built /\ missed \subseteq missed'
        /\ rebuild = "links" => Head(queue) \in missed'
    BY <1>1 DEF DropEvent, watcher, entries, graph, Graph
  <2> QED
    BY <1>0, <2>1, <2>2
    DEF LinkInv, GraphFits, LinksFollow, ScanFollows, Known, Twins, Mirrored, FromFiles
<1>2. CASE TakeEvent \/ Tell
  <2>1. \A f \in Files : Pending(f)' <=> Pending(f)
    <3>1. CASE TakeEvent
      BY <3>1, PendingIs, PendingThen, QueueTail DEF TakeEvent, IInv, IndexTypeOK
    <3>2. CASE Tell
      BY <3>2, PendingIs, PendingThen, NoneAssumption DEF Tell
    <3> QED
      BY <1>2, <3>1, <3>2
  <2>2. /\ UNCHANGED <<content, named, outbound, inbound, missed>>
        /\ Graph' = Graph /\ stage' # "read"
    BY <1>2 DEF TakeEvent, Tell, entries, graph, Graph
  <2> QED
    BY <1>0, <2>1, <2>2
    DEF LinkInv, GraphFits, LinksFollow, ScanFollows, Known, Twins, Mirrored, FromFiles
<1>3. ASSUME NEW c \in Files, c = cur, Forget
      PROVE  LinkInv'
  <2>1. /\ Graph' = Unlinked(Graph, Stem[c]) /\ Graph \in LinkMaps
        /\ outbound' = Graph'.out /\ outbound = Graph.out
        /\ Stem[c] \in Stems /\ rebuild = "off"
    BY <1>3, ScanTypes, FilesAssumption
    DEF Forget, SetGraph, Graph, Unlinked, IInv
  <2>2. /\ \A f \in Files \ {c} : /\ f \in missed' <=> f \in missed
                                  /\ Pending(f)' <=> Pending(f)
                                  /\ LinksOnDisk(f)' = LinksOnDisk(f)
        /\ disk[c] # None => Pending(c)'
        /\ stage' = "read" => cur' = c
    BY <1>0, <1>3, PendingIs, PendingThen, NoneAssumption DEF Forget
  <2>3. GraphFits'
    BY <1>3, <2>1, <2>2, UnlinkedMaps, FilesAssumption DEF LinkInv, GraphFits, Twins
  <2>4. ASSUME NEW f \in Files, Twins(f) = {}, Known(f)'
        PROVE  outbound'[Stem[f]] = LinksOnDisk(f)'
    <3>1. CASE f = c
      <4>1. disk'[c] = None
        BY <1>0, <2>2, <2>4, <3>1 DEF Known
      <4> QED
        BY <2>1, <3>1, <4>1, UnlinkedMaps DEF LinksOnDisk, FrontOnDisk, OnRecord
    <3>2. CASE f # c
      <4>1. /\ Known(f) /\ Stem[f] # Stem[c] /\ Stem[f] \in Stems
            /\ LinksOnDisk(f)' = LinksOnDisk(f)
        BY <1>0, <2>2, <2>4, <3>2, OtherStem, FilesAssumption DEF Known
      <4> QED
        BY <2>1, <2>4, <4>1, UnlinkedMaps DEF LinkInv, LinksFollow
    <3> QED
      BY <3>1, <3>2
  <2> QED
    BY <1>0, <2>1, <2>3, <2>4 DEF LinkInv, LinksFollow, ScanFollows, Twins
<1>4. ASSUME NEW c \in Files, c = cur, Reread
      PROVE  LinkInv'
  <2>1. /\ disk[c] \in Notes /\ rebuild = "off" /\ Stem[c] \in Stems
        /\ content'[c] = Entry(c, disk[c]) /\ content'[c] \in Front \cup {None}
        /\ outbound[Stem[c]] = {} /\ stage' # "read"
        /\ FrontOnDisk(c)' = content'[c]
    <3>1. /\ disk[c] \in Notes /\ rebuild = "off" /\ Stem[c] \in Stems
          /\ outbound[Stem[c]] = {} /\ stage' # "read"
      BY <1>4, FilesAssumption
      DEF Reread, IInv, IndexTypeOK, ReadingFits, LinkInv, GraphFits
    <3>2. content'[c] = Entry(c, disk[c])
      BY <1>4 DEF Reread, IInv, IndexTypeOK
    <3>3. disk'[c] = disk[c] /\ c \in named' /\ disk[c] # None
      BY <1>4 DEF Reread, vault
    <3>4. FrontOnDisk(c)' = Entry(c, disk[c])
      BY <3>3 DEF FrontOnDisk, OnRecord, Entry
    <3> QED
      BY <3>1, <3>2, <3>4, EntryType
  <2>2. \A f \in Files \ {c} : /\ f \in missed' <=> f \in missed
                               /\ Pending(f)' <=> Pending(f)
                               /\ LinksOnDisk(f)' = LinksOnDisk(f)
    BY <1>0, <1>4, PendingIs, PendingThen, NoneAssumption DEF Reread
  <2>3. CASE content'[c] = None
    <3>1. /\ UNCHANGED <<outbound, inbound>> /\ Graph' = Graph
      BY <1>4, <2>3 DEF Reread, graph, Graph
    <3>2. LinksOnDisk(c)' = {}
      BY <2>1, <2>3 DEF LinksOnDisk
    <3>3. LinksFollow'
      BY <1>0, <2>1, <2>2, <3>1, <3>2 DEF LinkInv, LinksFollow, Known, Twins
    <3>4. GraphFits' /\ ScanFollows'
      BY <1>0, <2>1, <3>1 DEF LinkInv, GraphFits, ScanFollows, Twins, Mirrored, FromFiles
    <3> QED
      BY <3>3, <3>4 DEF LinkInv
  <2>4. CASE content'[c] # None
    <3> DEFINE T == Targets(content'[c], disk[c])
    <3>1. /\ Graph' = Linked(Graph, Stem[c], T) /\ Graph \in LinkMaps
          /\ outbound' = Graph'.out /\ outbound = Graph.out
      BY <1>4, <2>4, ScanTypes DEF Reread, SetGraph, Graph, Linked, IInv
    <3>2. T \in SUBSET Stems /\ T = LinksOnDisk(c)'
      BY <1>0, <2>1, <2>4, TargetsType DEF LinksOnDisk, Targets
    <3> HIDE DEF T
    <3>3. GraphFits'
      <4>0. FromFiles(Graph')
        BY <2>1, <3>1, <3>2, LinkedMaps DEF LinkInv, GraphFits
      <4> SUFFICES ASSUME NEW f \in Files, Twins(f) = {}
                   PROVE  Mirrored(Graph', Stem[f])
        BY <2>1, <4>0 DEF GraphFits, Twins
      <4>1. Mirrored(Graph, Stem[f]) /\ Stem[f] \in Stems
        BY FilesAssumption DEF LinkInv, GraphFits
      <4> QED
        BY <2>1, <3>1, <3>2, <4>1, LinkedMaps, OtherStem
    <3>4. ASSUME NEW f \in Files, Twins(f) = {}, Known(f)'
          PROVE  outbound'[Stem[f]] = LinksOnDisk(f)'
      <4>1. CASE f = c
        BY <2>1, <3>1, <3>2, <4>1, LinkedMaps
      <4>2. CASE f # c
        <5>1. /\ Known(f) /\ Stem[f] # Stem[c] /\ Stem[f] \in Stems
              /\ LinksOnDisk(f)' = LinksOnDisk(f)
          BY <1>0, <2>2, <3>4, <4>2, OtherStem, FilesAssumption DEF Known
        <5> QED
          BY <2>1, <3>1, <3>2, <3>4, <5>1, LinkedMaps DEF LinkInv, LinksFollow
      <4> QED
        BY <4>1, <4>2
    <3> QED
      BY <1>0, <2>1, <3>3, <3>4 DEF LinkInv, LinksFollow, ScanFollows, Twins
  <2> QED
    BY <2>3, <2>4
<1>5. CASE RereadGone
  <2>1. /\ UNCHANGED <<outbound, inbound, content, missed>> /\ Graph' = Graph
        /\ stage' # "read"
        /\ \A f : LinksOnDisk(f)' = LinksOnDisk(f)
    BY <1>0, <1>5 DEF RereadGone, graph, Graph
  <2>2. \A f \in Files : Pending(f)' <=> Pending(f)
    BY <1>5, PendingIs, PendingThen, NoneAssumption DEF RereadGone, IInv, ReadingFits
  <2> QED
    BY <1>0, <2>1, <2>2
    DEF LinkInv, GraphFits, LinksFollow, ScanFollows, Known, Twins, Mirrored, FromFiles
<1>6. Forget \/ Reread => cur \in Files
  BY DEF Forget, Reread, IInv, IndexTypeOK
<1> QED
  BY <1>1, <1>2, <1>3, <1>4, <1>5, <1>6 DEF WatchStep

LEMMA LinksInductive == IndexSpec => []LinkInv
<1>1. IndexInit => LinkInv
  <2> SUFFICES ASSUME IndexInit PROVE LinkInv
    OBVIOUS
  <2>1. /\ Graph = NoLinks /\ ~ built /\ rebuild = "off" /\ stage = "idle"
        /\ FromFiles(Graph)
    BY DEF IndexInit, Graph, NoLinks, FromFiles
  <2> QED
    BY <2>1, NoLinksInverse, FilesAssumption
    DEF LinkInv, GraphFits, LinksFollow, ScanFollows, Known
<1>2. IInv /\ IInv' /\ LinkInv /\ [IndexNext]_indexVars => LinkInv'
  <2> SUFFICES ASSUME IInv, IInv', LinkInv, [IndexNext]_indexVars PROVE LinkInv'
    OBVIOUS
  <2>1. CASE UNCHANGED indexVars
    <3>1. /\ \A f : Pending(f)' <=> Pending(f)
          /\ \A f : LinksOnDisk(f)' = LinksOnDisk(f)
          /\ UNCHANGED <<outbound, inbound, content, missed, stage, cur, built,
                         rebuild, todo, scan>>
          /\ Graph' = Graph
      BY <2>1, PendingIs, PendingThen, LinksOnDiskKept
      DEF indexVars, vault, watcher, entries, graph, pass, Graph
    <3> QED
      BY <3>1
      DEF LinkInv, GraphFits, LinksFollow, ScanFollows, Known, Twins, Mirrored, FromFiles
  <2> QED
    BY <2>1, VaultLinks, RebuildLinks, WatchLinks DEF IndexNext
<1> QED
  BY <1>1, <1>2, Inductive, PTL DEF IndexSpec

\* For any number of files, the links of a name one note has are those on
\* disk once its events are handled, whichever rebuild or event read them,
\* and the map of backlinks is the inverse (LinksAgree).
THEOREM LinksStayCurrent == IndexSpec => []LinksAgree
<1>1. LinkInv => LinksAgree
  BY FilesAssumption DEF LinkInv, GraphFits, LinksFollow, LinksAgree, Mirrored, Graph
<1> QED
  BY <1>1, LinksInductive, PTL

\* So do the readers, when every event is handled: what they say of values of
\* up: and of orphans for any note, of links for a name one note has
\* (ReadersAgree).
THEOREM ReadersStayCurrent == IndexSpec => []ReadersAgree
<1>1. ASSUME IndexTypeOK, EntriesAgree, LinksAgree, GraphFits, rebuild = "off",
             \A f \in Files : Known(f), NEW f \in Files
      PROVE  /\ \A r \in Refs : <<f, r>> \in FindDanglingLinks.up <=>
                  /\ FrontOnDisk(f) # None /\ r \in UpRefs[FrontOnDisk(f)]
                  /\ ~ NameOnDisk(r)
             /\ f \in FindOrphans <=>
                  /\ FrontOnDisk(f) # None /\ ~ HasUp[FrontOnDisk(f)]
                  /\ \A g \in Files : IF Twins(g) = {}
                                        THEN Stem[f] \notin LinksOnDisk(g)
                                        ELSE Stem[g] \notin inbound[Stem[f]]
             /\ Twins(f) = {} =>
                  /\ \A t \in Stems :
                       /\ f \in BacklinksTo(t) <=> t \in LinksOnDisk(f)
                       /\ <<Stem[f], t>> \in FindDanglingLinks.wikilink <=>
                            t \in LinksOnDisk(f) /\ ~ NameOnDisk(t)
                  /\ OutboundLinks(Stem[f]) =
                       [t \in LinksOnDisk(f) |->
                          {g \in Files : Stem[g] = t /\ OnRecord(g)}]
  <2>1. /\ \A g \in Files : g \in named <=> OnRecord(g)
        /\ named \subseteq Files
        /\ content[f] = FrontOnDisk(f) /\ Stem[f] \in Stems
    BY <1>1, FilesAssumption DEF EntriesAgree, IndexTypeOK
  <2>2. \A r : IsName(r) <=> NameOnDisk(r)
    BY <2>1 DEF IsName, NameOnDisk
  <2>3. \A g \in Files : Twins(g) = {} =>
          /\ outbound[Stem[g]] = LinksOnDisk(g)
          /\ \A t \in Stems : Stem[g] \in inbound[t] <=> t \in LinksOnDisk(g)
    BY <1>1 DEF LinksAgree
  <2>4. ASSUME NEW r \in Refs
        PROVE  <<f, r>> \in FindDanglingLinks.up <=>
                 /\ FrontOnDisk(f) # None /\ r \in UpRefs[FrontOnDisk(f)]
                 /\ ~ NameOnDisk(r)
    BY <2>1, <2>2 DEF FindDanglingLinks
  <2>5. f \in FindOrphans <=>
          /\ FrontOnDisk(f) # None /\ ~ HasUp[FrontOnDisk(f)]
          /\ \A g \in Files : IF Twins(g) = {}
                                THEN Stem[f] \notin LinksOnDisk(g)
                                ELSE Stem[g] \notin inbound[Stem[f]]
    <3>1. inbound[Stem[f]] = {} <=>
            \A g \in Files : Stem[g] \notin inbound[Stem[f]]
      BY <1>1, <2>1 DEF GraphFits, FromFiles, Graph
    <3>2. inbound[Stem[f]] = {} <=>
            \A g \in Files : IF Twins(g) = {}
                              THEN Stem[f] \notin LinksOnDisk(g)
                              ELSE Stem[g] \notin inbound[Stem[f]]
      BY <2>1, <2>3, <3>1
    <3> QED
      BY <2>1, <3>2 DEF FindOrphans
  <2>6. ASSUME Twins(f) = {}
        PROVE  /\ \A t \in Stems :
                    /\ f \in BacklinksTo(t) <=> t \in LinksOnDisk(f)
                    /\ <<Stem[f], t>> \in FindDanglingLinks.wikilink <=>
                         t \in LinksOnDisk(f) /\ ~ NameOnDisk(t)
               /\ OutboundLinks(Stem[f]) =
                    [t \in LinksOnDisk(f) |->
                       {g \in Files : Stem[g] = t /\ OnRecord(g)}]
    <3>1. outbound[Stem[f]] = LinksOnDisk(f)
      BY <2>3, <2>6
    <3>2. ASSUME NEW t \in Stems
          PROVE  <<Stem[f], t>> \in FindDanglingLinks.wikilink <=>
                   t \in LinksOnDisk(f) /\ ~ NameOnDisk(t)
      BY <2>1, <2>2, <3>1 DEF FindDanglingLinks
    <3>3. ASSUME NEW t \in Stems
          PROVE  f \in BacklinksTo(t) <=> t \in LinksOnDisk(f)
      <4>1. t \in LinksOnDisk(f) => f \in named
        BY <2>1 DEF LinksOnDisk, FrontOnDisk
      <4> QED
        BY <2>3, <2>6, <4>1 DEF BacklinksTo
    <3>4. OutboundLinks(Stem[f]) =
            [t \in LinksOnDisk(f) |->
               {g \in Files : Stem[g] = t /\ OnRecord(g)}]
      <4>1. \A t : {g \in named : Stem[g] = t} =
                     {g \in Files : Stem[g] = t /\ OnRecord(g)}
        BY <2>1
      <4> QED
        BY <3>1, <4>1 DEF OutboundLinks
    <3> QED
      BY <3>2, <3>3, <3>4
  <2> QED
    BY <2>4, <2>5, <2>6
<1>2. IndexTypeOK /\ EntriesAgree /\ LinksAgree /\ LinkInv => ReadersAgree
  BY <1>1 DEF ReadersAgree, LinkInv
<1> QED
  BY <1>2, TypeCorrect, EntriesStayCurrent, LinksStayCurrent, LinksInductive, PTL
=============================================================================
