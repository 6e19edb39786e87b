------------------------------- MODULE MCPort -------------------------------
(***************************************************************************)
(* Instances of PortManager for TLC: two concurrent calls, two Stops, and  *)
(* pipes so small that writes block.                                       *)
(***************************************************************************)
EXTENDS PortManager

CONSTANTS p1, p2

\* dispatch routes "error" and "other" packets as it does "reply" packets and
\* only wraps their value in an error, so "reply" stands for the three.
MCReplyTags == {"reply", "badterm", "oversized"}
MCStoppers == {p1, p2}
=============================================================================
