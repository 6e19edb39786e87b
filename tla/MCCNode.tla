------------------------------ MODULE MCCNode ------------------------------
(* CNode for TLC: node b has another cookie. *)
EXTENDS CNode

CONSTANTS a, b

MCNodes == {a, b}
MCCookieOf == [n \in {a, b} |-> IF n = a THEN "right" ELSE "wrong"]
=============================================================================
