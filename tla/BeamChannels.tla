---------------------------- MODULE BeamChannels ----------------------------
(***************************************************************************)
(* Channels and streams of the BEAM runtime (transpiler/beam/runtime/src:  *)
(* mochi_chan.erl, mochi_stream.erl).  A channel process and a stream's    *)
(* subscriber process run the same loop over a buffer: chan_loop is        *)
(* sub_loop without a limit.  Both are "servers" here.  Items reach a      *)
(* channel from send/2 and a subscriber from the stream's broker process.  *)
(*                                                                         *)
(* An Erlang mailbox is a sequence; a send appends to it at once (local    *)
(* signals); a receive takes the first message that matches a pattern.     *)
(***************************************************************************)
EXTENDS Integers, Sequences, FiniteSets, SequencesExt

CONSTANTS
    Clients,    \* processes of the program that receive
    Chans,      \* channel processes, spawned by make_chan
    Subs,       \* subscriber processes of one stream, spawned by subscribe
    Limits,     \* limits given to subscribe_limit, Infinity for subscribe
    MaxVal,     \* bound: values sent and emitted altogether
    MaxServers  \* bound: channels and subscribers spawned altogether

Infinity == -1
Unspawned == -2
None == "none"
Servers == Chans \union Subs
Vals == 1..MaxVal

ASSUME ChannelsAssumption ==
    /\ MaxVal \in Nat /\ MaxServers \in Nat
    /\ Limits \subseteq Nat \union {Infinity}
    /\ Chans \intersect Subs = {}
    /\ None \notin Clients \union Servers

VARIABLES
    nextVal,    \* the number of values used so far
    inbox,      \* inbox[p]: the mailbox of server p
    buffer,     \* buffer[p]: Queue of chan_loop, Buffer of sub_loop
    asker,      \* asker[p]: the Caller whose request an empty buffer meets
    limit,      \* limit[p]: Limit of sub_loop, Unspawned before the spawn
    brokerBox,  \* the mailbox of the stream's broker
    subs,       \* Subs of stream_loop
    sending,    \* what lists:foreach has still to do: [to, val]
    wants,      \* wants[c]: the server c waits for in recv, or None
    replies,    \* replies[c]: values sent to c that it has not picked up
    arrived,    \* history: items in the order in which they reached p
    out,        \* history: values p has answered with
    askers,     \* history: callers in the order of their requests to p
    served      \* history: callers in the order in which p answered

loopVars == <<inbox, buffer, asker, out, served>>
brokerVars == <<brokerBox, subs, sending>>
vars == <<nextVal, loopVars, limit, brokerVars, wants, replies, arrived, askers>>

Item(v) == [kind |-> "item", val |-> v]
Request(c) == [kind |-> "recv", from |-> c]
IsItem(m) == m.kind = "item"

ChannelsInit ==
    /\ nextVal = 0
    /\ inbox = [p \in Servers |-> <<>>]
    /\ buffer = [p \in Servers |-> <<>>]
    /\ asker = [p \in Servers |-> None]
    /\ limit = [p \in Servers |-> Unspawned]
    /\ brokerBox = <<>>
    /\ subs = <<>>
    /\ sending = [to |-> <<>>, val |-> 0]
    /\ wants = [c \in Clients |-> None]
    /\ replies = [c \in Clients |-> <<>>]
    /\ arrived = [p \in Servers |-> <<>>]
    /\ out = [p \in Servers |-> <<>>]
    /\ askers = [p \in Servers |-> <<>>]
    /\ served = [p \in Servers |-> <<>>]

-----------------------------------------------------------------------------
(* The program's side *)

CanSpawn(p) ==
    /\ limit[p] = Unspawned
    /\ Cardinality({q \in Servers : limit[q] # Unspawned}) < MaxServers

\* mochi_chan:make_chan/1; the capacity is ignored.
MakeChan(p) ==
    /\ CanSpawn(p)
    /\ limit' = [limit EXCEPT ![p] = Infinity]
    /\ UNCHANGED <<nextVal, loopVars, brokerVars, wants, replies, arrived, askers>>

\* mochi_chan:send/2, by any process that holds the channel.
ChanSend(p) ==
    /\ limit[p] # Unspawned
    /\ nextVal < MaxVal
    /\ nextVal' = nextVal + 1
    /\ inbox' = [inbox EXCEPT ![p] = Append(@, Item(nextVal + 1))]
    /\ arrived' = [arrived EXCEPT ![p] = Append(@, nextVal + 1)]
    /\ UNCHANGED <<buffer, asker, out, served, limit, brokerVars, wants, replies, askers>>

\* mochi_stream:emit/2
Emit ==
    /\ nextVal < MaxVal
    /\ nextVal' = nextVal + 1
    /\ brokerBox' = Append(brokerBox, Item(nextVal + 1))
    /\ UNCHANGED <<loopVars, limit, subs, sending, wants, replies, arrived, askers>>

\* subscribe/1 and subscribe_limit/2
Subscribe(p) ==
    /\ CanSpawn(p)
    /\ \E l \in Limits : limit' = [limit EXCEPT ![p] = l]
    /\ brokerBox' = Append(brokerBox, [kind |-> "subscribe", sub |-> p])
    /\ UNCHANGED <<nextVal, loopVars, subs, sending, wants, replies, arrived, askers>>

\* The request of recv/1 and recv_sub/1; c then blocks in its receive.
Ask(c, p) ==
    /\ wants[c] = None
    /\ limit[p] # Unspawned
    /\ wants' = [wants EXCEPT ![c] = p]
    /\ inbox' = [inbox EXCEPT ![p] = Append(@, Request(c))]
    /\ askers' = [askers EXCEPT ![p] = Append(@, c)]
    /\ UNCHANGED <<nextVal, buffer, asker, out, served, limit, brokerVars, replies, arrived>>

PickUp(c) ==
    /\ wants[c] # None
    /\ replies[c] # <<>>
    /\ replies' = [replies EXCEPT ![c] = Tail(@)]
    /\ wants' = [wants EXCEPT ![c] = None]
    /\ UNCHANGED <<nextVal, loopVars, limit, brokerVars, arrived, askers>>

-----------------------------------------------------------------------------
(* stream_loop, the broker *)

Idle == sending.to = <<>>

BrokerSubscribes ==
    /\ Idle /\ brokerBox # <<>>
    /\ ~IsItem(Head(brokerBox))
    /\ subs' = <<Head(brokerBox).sub>> \o subs
    /\ brokerBox' = Tail(brokerBox)
    /\ UNCHANGED <<nextVal, loopVars, limit, sending, wants, replies, arrived, askers>>

\* Mutant: the broker turns to the next event before it has sent this one out.
BrokerTakesEventEarly ==
    /\ brokerBox # <<>>
    /\ IsItem(Head(brokerBox))
    /\ sending' = [to |-> subs, val |-> Head(brokerBox).val]
    /\ brokerBox' = Tail(brokerBox)
    /\ UNCHANGED <<nextVal, loopVars, limit, subs, wants, replies, arrived, askers>>

BrokerTakesEvent ==
    /\ Idle /\ brokerBox # <<>>
    /\ IsItem(Head(brokerBox))
    /\ sending' = [to |-> subs, val |-> Head(brokerBox).val]
    /\ brokerBox' = Tail(brokerBox)
    /\ UNCHANGED <<nextVal, loopVars, limit, subs, wants, replies, arrived, askers>>

\* One iteration of the lists:foreach over Subs.
BrokerSends ==
    /\ ~Idle
    /\ LET p == Head(sending.to) IN
          /\ inbox' = [inbox EXCEPT ![p] = Append(@, Item(sending.val))]
          /\ arrived' = [arrived EXCEPT ![p] = Append(@, sending.val)]
    /\ sending' = [sending EXCEPT !.to = Tail(@)]
    /\ UNCHANGED <<nextVal, buffer, asker, out, served, limit, brokerBox, subs, wants, replies, askers>>

-----------------------------------------------------------------------------
(* chan_loop and sub_loop *)

\* Mutant: off by one.
ShouldDropLate(b, l) == l # Infinity /\ Len(b) > l

ShouldDrop(b, l) == l # Infinity /\ Len(b) >= l

Answer(p, c, v) ==
    /\ replies' = [replies EXCEPT ![c] = Append(@, v)]
    /\ out' = [out EXCEPT ![p] = Append(@, v)]
    /\ served' = [served EXCEPT ![p] = Append(@, c)]

\* The outer receive takes whatever comes first.
OuterReceive(p) == asker[p] = None /\ inbox[p] # <<>>

LoopItem(p) ==
    /\ OuterReceive(p)
    /\ IsItem(Head(inbox[p]))
    /\ inbox' = [inbox EXCEPT ![p] = Tail(@)]
    /\ buffer' = IF ShouldDrop(buffer[p], limit[p]) THEN buffer
                 ELSE [buffer EXCEPT ![p] = Append(@, Head(inbox[p]).val)]
    /\ UNCHANGED <<nextVal, asker, out, served, limit, brokerVars, wants, replies, arrived, askers>>

\* Mutant: a request that meets an empty buffer goes back to the mailbox's end.
LoopRecvRequeues(p) ==
    /\ OuterReceive(p)
    /\ ~IsItem(Head(inbox[p]))
    /\ IF buffer[p] # <<>>
       THEN /\ Answer(p, Head(inbox[p]).from, Head(buffer[p]))
            /\ buffer' = [buffer EXCEPT ![p] = Tail(@)]
            /\ inbox' = [inbox EXCEPT ![p] = Tail(@)]
       ELSE /\ inbox' = [inbox EXCEPT ![p] = Append(Tail(@), Head(@))]
            /\ UNCHANGED <<buffer, out, served, replies>>
    /\ UNCHANGED <<nextVal, asker, limit, brokerVars, wants, arrived, askers>>

\* Mutant: a request that meets an empty buffer is forgotten.
LoopRecvForgets(p) ==
    /\ OuterReceive(p)
    /\ ~IsItem(Head(inbox[p]))
    /\ inbox' = [inbox EXCEPT ![p] = Tail(@)]
    /\ IF buffer[p] # <<>>
       THEN /\ Answer(p, Head(inbox[p]).from, Head(buffer[p]))
            /\ buffer' = [buffer EXCEPT ![p] = Tail(@)]
       ELSE UNCHANGED <<buffer, out, served, replies>>
    /\ UNCHANGED <<nextVal, asker, limit, brokerVars, wants, arrived, askers>>

LoopRecv(p) ==
    /\ OuterReceive(p)
    /\ ~IsItem(Head(inbox[p]))
    /\ inbox' = [inbox EXCEPT ![p] = Tail(@)]
    /\ LET c == Head(inbox[p]).from IN
          IF buffer[p] # <<>>
          THEN /\ Answer(p, c, Head(buffer[p]))
               /\ buffer' = [buffer EXCEPT ![p] = Tail(@)]
               /\ UNCHANGED asker
          ELSE /\ asker' = [asker EXCEPT ![p] = c]
               /\ UNCHANGED <<buffer, out, served, replies>>
    /\ UNCHANGED <<nextVal, limit, brokerVars, wants, arrived, askers>>

\* Mutant: the inner receive does not leave the waiting state.
LoopInnerStays(p) ==
    /\ asker[p] # None
    /\ \E i \in 1..Len(inbox[p]) :
          /\ IsItem(inbox[p][i])
          /\ inbox' = [inbox EXCEPT ![p] = RemoveAt(@, i)]
          /\ Answer(p, asker[p], inbox[p][i].val)
    /\ UNCHANGED <<nextVal, buffer, asker, limit, brokerVars, wants, arrived, askers>>

\* Mutant: the inner receive takes any item, not the first.
LoopInnerAny(p) ==
    /\ asker[p] # None
    /\ \E i \in 1..Len(inbox[p]) :
          /\ IsItem(inbox[p][i])
          /\ inbox' = [inbox EXCEPT ![p] = RemoveAt(@, i)]
          /\ Answer(p, asker[p], inbox[p][i].val)
    /\ asker' = [asker EXCEPT ![p] = None]
    /\ UNCHANGED <<nextVal, buffer, limit, brokerVars, wants, arrived, askers>>

\* The inner receive only takes an item: requests ahead of it stay where they
\* are, and the item goes straight to the waiting Caller.
LoopInner(p) ==
    /\ asker[p] # None
    /\ \E i \in 1..Len(inbox[p]) :
          /\ IsItem(inbox[p][i])
          /\ \A j \in 1..(i - 1) : ~IsItem(inbox[p][j])
          /\ inbox' = [inbox EXCEPT ![p] = RemoveAt(@, i)]
          /\ Answer(p, asker[p], inbox[p][i].val)
    /\ asker' = [asker EXCEPT ![p] = None]
    /\ UNCHANGED <<nextVal, buffer, limit, brokerVars, wants, arrived, askers>>

-----------------------------------------------------------------------------

BrokerStep == BrokerSubscribes \/ BrokerTakesEvent \/ BrokerSends
LoopStep(p) == LoopItem(p) \/ LoopRecv(p) \/ LoopInner(p)

ChannelsNext ==
    \/ \E p \in Chans : MakeChan(p) \/ ChanSend(p)
    \/ Emit
    \/ \E p \in Subs : Subscribe(p)
    \/ \E c \in Clients : PickUp(c) \/ \E p \in Servers : Ask(c, p)
    \/ BrokerStep
    \/ \E p \in Servers : LoopStep(p)

\* The BEAM schedules every runnable process; a client need not do anything.
ChannelsSpec ==
    /\ ChannelsInit /\ [][ChannelsNext]_vars
    /\ WF_vars(BrokerStep)
    /\ \A p \in Servers : WF_vars(LoopStep(p))
    /\ \A c \in Clients : WF_vars(PickUp(c))

-----------------------------------------------------------------------------
(* Properties *)

\* The items, and the callers, of the messages of a mailbox, in order.
ItemOf(m) == IF IsItem(m) THEN <<m.val>> ELSE <<>>
RequesterOf(m) == IF IsItem(m) THEN <<>> ELSE <<m.from>>
ItemVals(q) == FlattenSeq([i \in 1..Len(q) |-> ItemOf(q[i])])
Requesters(q) == FlattenSeq([i \in 1..Len(q) |-> RequesterOf(q[i])])

\* Every variable keeps its type.
TypeOK ==
    /\ nextVal \in 0..MaxVal
    /\ \A p \in Servers :
          /\ \A i \in 1..Len(inbox[p]) :
                inbox[p][i] \in [kind : {"item"}, val : Vals] \union [kind : {"recv"}, from : Clients]
          /\ buffer[p] \in Seq(Vals)
          /\ asker[p] \in Clients \union {None}
          /\ limit[p] \in Limits \union {Infinity, Unspawned}
    /\ subs \in Seq(Subs) /\ sending.to \in Seq(Subs)
    /\ \A c \in Clients : wants[c] \in Servers \union {None} /\ replies[c] \in Seq(Vals)

\* recv/1 has no reference to tell answers apart: it is sound only because a
\* client never has more than the one answer it waits for in its mailbox.
OneAnswer ==
    \A c \in Clients :
        /\ Len(replies[c]) <= (IF wants[c] = None THEN 0 ELSE 1)
        /\ replies[c] # <<>> => \A p \in Servers : asker[p] # c

\* The callers that p has still to answer, in the order of their requests.
Pending(p) ==
    (IF asker[p] = None THEN <<>> ELSE <<asker[p]>>) \o Requesters(inbox[p])

\* A request waits only while there is nothing to answer it with, and requests
\* that pile up behind a waiting one are answered in the order they were made.
AskersInOrder ==
    \A p \in Servers :
        /\ asker[p] # None => buffer[p] = <<>>
        /\ askers[p] = served[p] \o Pending(p)

\* The values at server p, those still in its mailbox included.
Waiting(p) == buffer[p] \o ItemVals(inbox[p])

\* q is r with some of its elements left out.
IsSubsequence(q, r) ==
    \E at \in [1..Len(q) -> 1..Len(r)] :
        /\ \A i, j \in 1..Len(q) : i < j => at[i] < at[j]
        /\ \A i \in 1..Len(q) : q[i] = r[at[i]]

\* What a limited subscriber answers with keeps the order of the events, with
\* none twice, and its buffer never exceeds the limit.
LimitHolds ==
    \A p \in Subs :
        /\ limit[p] >= 0 => Len(buffer[p]) <= limit[p]
        /\ IsSubsequence(out[p] \o Waiting(p), arrived[p])

\* What reached subscriber p, the event on its way out to it included.
Reached(p) ==
    arrived[p] \o (IF Contains(sending.to, p) THEN <<sending.val>> ELSE <<>>)

\* No registered subscriber misses an event: what a later one got is exactly
\* the end of what an earlier one got (Subs lists the latest first).
SameEvents ==
    \A i, j \in 1..Len(subs) : i <= j => IsSuffix(Reached(subs[i]), Reached(subs[j]))

Fifo == INSTANCE FifoQueue WITH
    Names <- Chans, Values <- Vals,
    queue <- [p \in Chans |-> Waiting(p)], out <- [p \in Chans |-> out[p]]

\* chan_loop implements first-in first-out queues: no value sent is lost,
\* doubled or overtaken, also when several clients wait in recv.
ChannelRefinesFifo == Fifo!FifoSpec

\* A client does not wait for ever at a channel or subscriber that has a value.
NobodyStarves ==
    \A c \in Clients, p \in Servers :
        (wants[c] = p /\ Waiting(p) # <<>>)
            ~> (wants[c] # p \/ Waiting(p) = <<>>)
=============================================================================
