----------------------------- MODULE MCDissolve -----------------------------
(* Constants of Dissolve for TLC. *)
EXTENDS Dissolve, TLC

CONSTANTS record, other, system, b1, b2

Plain(b) == [kind |-> "document", described |-> FALSE, body |-> b]

MCPaths == {record, other, system}

Described(b) == [kind |-> "entity", described |-> TRUE, body |-> b]

\* A document, an entity note whose body the store is not sent, and a document
\* that is written back over the first one.
MCNotes == {Plain(b1), Plain(b2), Described(b1)}

MCNotesOf == (record :> {Plain(b1)}) @@ (other :> {Described(b1)})
               @@ (system :> {Plain(b2)})

\* Two dissolvable paths, for a limit of one; the third is on the allowlist and
\* protected too: protection must win.
MCDissolving == MCPaths

\* The notes of the protected pillar are routed to a path of the others.
MCRouted == (record :> record) @@ (other :> other) @@ (system :> record)

\* One plan of the retired table.
MCLegacy == (record :> {}) @@ (other :> {})
              @@ (system :> {[kind |-> "plan", body |-> b2]})

MCLimits == {1, Absent}
=============================================================================
