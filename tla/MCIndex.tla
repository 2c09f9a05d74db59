------------------------------- MODULE MCIndex -------------------------------
(* Constants of VaultIndex for TLC. *)
EXTENDS VaultIndex, TLC

CONSTANTS home, left, right, plain, child

MCFiles == {home, left, right}

\* Two notes of one name in two folders; the walk passes over one of them.
MCStem == (home :> "home") @@ (left :> "twin") @@ (right :> "twin")

MCStems == {"home", "twin"}

\* A frontmatter without up:, and one whose up: names home, and home again
\* with its folder.
MCRefs == MCStems \cup {"top/home"}
MCHasUp == (plain :> FALSE) @@ (child :> TRUE)
MCUp == (plain :> {}) @@ (child :> {"home"})
MCUpRefs == (plain :> {}) @@ (child :> {"home", "top/home"})

\* A note below home that links to the twins, a note that links to nothing,
\* and one without frontmatter.
MCNotes == {[fm |-> child, links |-> {"twin"}],
            [fm |-> plain, links |-> {}],
            [fm |-> None, links |-> {}]}

Spec == IndexSpec /\ IndexFairness
=============================================================================
