------------------------------ MODULE MCBases -------------------------------
(* Constants of LiveBases for TLC. *)
EXTENDS LiveBases, TLC

CONSTANTS f, open, closed, apart, joint

\* An open note is in the result while it is linked to.
MCMatching == {<<f, open, joint>>}
=============================================================================
