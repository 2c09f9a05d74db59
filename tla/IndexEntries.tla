---------------------------- MODULE IndexEntries ----------------------------
(***************************************************************************)
(* What the vault index promises those who watch it: which entries and     *)
(* links it keeps may change in four ways, and a file that is read again   *)
(* is announced to the callbacks before the watcher goes on to another.  A *)
(* file that is removed, or that has no frontmatter any more, and a        *)
(* rebuild are not announced.                                              *)
(***************************************************************************)
CONSTANTS
  Files,        \* paths of notes
  Front,        \* frontmatters
  Maps,         \* what the maps of links can be
  None          \* no entry

VARIABLES
  content,      \* Files -> indexed frontmatter, or None
  links,        \* who links to whom
  telling,      \* an entry was put in, and its callbacks are due
  rebuilding    \* what a rebuild is about to replace: "walk" for the
                \* entries, "links", or "off" for nothing

entriesVars == <<content, links, telling, rebuilding>>

Entries == [Files -> Front \cup {None}]

EntriesInit ==
  /\ content \in Entries /\ links \in Maps
  /\ telling = FALSE /\ rebuilding = "off"

\* The watcher takes the entry of a file out, and its links.
Forgotten(f) ==
  /\ ~ telling /\ rebuilding = "off"
  /\ content' = [content EXCEPT ![f] = None]
  /\ links' \in Maps
  /\ UNCHANGED <<telling, rebuilding>>

\* It puts the new ones in.
PutBack(f, v) ==
  /\ ~ telling /\ rebuilding = "off" /\ content[f] = None
  /\ content' = [content EXCEPT ![f] = v]
  /\ links' \in Maps
  /\ telling' = TRUE
  /\ UNCHANGED rebuilding

\* The callbacks run, with the lock released.
Told ==
  /\ telling
  /\ telling' = FALSE
  /\ UNCHANGED <<content, links, rebuilding>>

StartRebuild ==
  /\ rebuilding = "off"
  /\ rebuilding' = "walk"
  /\ UNCHANGED <<content, links, telling>>

\* A rebuild fails, and nothing is replaced.
RebuildFails ==
  /\ rebuilding = "walk"
  /\ rebuilding' = "off"
  /\ UNCHANGED <<content, links, telling>>

\* It replaces every entry at once, and every link at once thereafter.
EntriesRebuilt(new) ==
  /\ rebuilding = "walk"
  /\ content' = new
  /\ rebuilding' = "links"
  /\ UNCHANGED <<links, telling>>

LinksRebuilt ==
  /\ rebuilding = "links"
  /\ links' \in Maps
  /\ rebuilding' = "off"
  /\ UNCHANGED <<content, telling>>

\* Every step but the callbacks.
EntriesChange ==
  \/ \E f \in Files : Forgotten(f)
  \/ \E f \in Files, v \in Front : PutBack(f, v)
  \/ StartRebuild
  \/ RebuildFails
  \/ \E new \in Entries : EntriesRebuilt(new)
  \/ LinksRebuilt

EntriesNext == EntriesChange \/ Told

EntriesSpec == EntriesInit /\ [][EntriesNext]_entriesVars
=============================================================================
