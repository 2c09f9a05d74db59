---------------------------- MODULE MCGateWrites ----------------------------
(* Instances of GateWrites for TLC: two directories, one of them under a rule. *)
EXTENDS GateWrites, FiniteSets, TLC

AtomSeq == <<"a0", "a1">>
NoAtoms == <<>>
RuleVoice     == [d \in Dir |-> IF d = "kept" THEN "voice-only" ELSE "open"]
RuleBody      == [d \in Dir |-> IF d = "kept" THEN "body-immutable" ELSE "open"]
RuleOpen      == [d \in Dir |-> "open"]

\* Frontmatter of human notes: a human note at home, an AI note whose type routes elsewhere
\* and whose keys need healing.
KindHuman == [at |-> "human", home |-> "open", clean |-> FALSE, article |-> FALSE]
KindAway  == [at |-> "ai", home |-> "kept", clean |-> TRUE, article |-> FALSE]
Kinds == {KindHuman, KindAway}
KindsHuman == {KindHuman}
WorkerSymmetry == Permutations(Worker)
=============================================================================
