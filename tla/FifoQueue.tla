----------------------------- MODULE FifoQueue -----------------------------
(***************************************************************************)
(* What Mochi channels promise: unbounded first-in first-out queues that   *)
(* have nothing to do with each other.  Values leave a queue in the order  *)
(* in which they came, each exactly once.                                  *)
(***************************************************************************)
EXTENDS Sequences

CONSTANTS Names, Values

VARIABLES
    queue,  \* queue[n]: the values in queue n
    out     \* out[n]: the values that left it, in order

FifoInit ==
    /\ queue = [n \in Names |-> <<>>]
    /\ out = [n \in Names |-> <<>>]

Put(n) ==
    /\ \E v \in Values : queue' = [queue EXCEPT ![n] = Append(@, v)]
    /\ UNCHANGED out

Get(n) ==
    /\ queue[n] # <<>>
    /\ out' = [out EXCEPT ![n] = Append(@, Head(queue[n]))]
    /\ queue' = [queue EXCEPT ![n] = Tail(@)]

FifoNext == \E n \in Names : Put(n) \/ Get(n)

FifoSpec == FifoInit /\ [][FifoNext]_<<queue, out>>
=============================================================================
