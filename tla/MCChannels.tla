----------------------------- MODULE MCChannels -----------------------------
(* Two clients, a channel and a stream with two subscribers, for TLC. *)
EXTENDS BeamChannels

CONSTANTS a, b, chan, sub1, sub2

MCClients == {a, b}
MCChans == {chan}
MCSubs == {sub1, sub2}
MCLimits == {Infinity, 1}
=============================================================================
