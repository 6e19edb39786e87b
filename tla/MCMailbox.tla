----------------------------- MODULE MCMailbox -----------------------------
(* Mailbox for TLC: a poll goroutine, two Closes, one Push, one consumer. *)
EXTENDS Mailbox

CONSTANTS c1, c2, w1

MCClosers == {c1, c2}
MCPushers == {w1}
=============================================================================
