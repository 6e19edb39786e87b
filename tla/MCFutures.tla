----------------------------- MODULE MCFutures -----------------------------
(* Futures for TLC. *)
EXTENDS Futures

CONSTANTS r1, r2, r3

MCRefs == {r1, r2, r3}
MCTwoRefs == {r1, r2}
=============================================================================
