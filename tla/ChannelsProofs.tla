--------------------------- MODULE ChannelsProofs ---------------------------
(***************************************************************************)
(* Theorems about channels and streams, for any number of clients,         *)
(* channels, subscribers and values.                                       *)
(***************************************************************************)
EXTENDS BeamChannels, SeqFacts, TLAPS

-----------------------------------------------------------------------------
(* The items and the callers in a mailbox *)

Msgs == [kind : {"item"}, val : Vals] \union [kind : {"recv"}, from : Clients]

LEMMA MsgFacts ==
    ASSUME NEW m \in Msgs
    PROVE  /\ ItemOf(m) \in Seq(Vals) /\ RequesterOf(m) \in Seq(Clients)
           /\ IsItem(m) => m.val \in Vals /\ ItemOf(m) = <<m.val>> /\ RequesterOf(m) = <<>>
           /\ ~IsItem(m) => m.from \in Clients /\ ItemOf(m) = <<>> /\ RequesterOf(m) = <<m.from>>
<1>1. CASE m \in [kind : {"item"}, val : Vals]
    BY <1>1 DEF IsItem, ItemOf, RequesterOf
<1>2. CASE m \in [kind : {"recv"}, from : Clients]
    BY <1>2 DEF IsItem, ItemOf, RequesterOf
<1> QED BY <1>1, <1>2 DEF Msgs

LEMMA NewMsgs ==
    /\ \A v \in Vals : Item(v) \in Msgs /\ IsItem(Item(v)) /\ Item(v).val = v
    /\ \A c \in Clients : Request(c) \in Msgs /\ ~IsItem(Request(c)) /\ Request(c).from = c
BY DEF Msgs, Item, Request, IsItem

\* What each message of q contributes.
ItemParts(q) == [i \in 1..Len(q) |-> ItemOf(q[i])]
RequesterParts(q) == [i \in 1..Len(q) |-> RequesterOf(q[i])]

LEMMA PartsFacts ==
    ASSUME NEW q \in Seq(Msgs)
    PROVE  /\ ItemParts(q) \in Seq(Seq(Vals)) /\ Len(ItemParts(q)) = Len(q)
           /\ RequesterParts(q) \in Seq(Seq(Clients)) /\ Len(RequesterParts(q)) = Len(q)
           /\ \A i \in 1..Len(q) : ItemParts(q)[i] = ItemOf(q[i])
           /\ \A i \in 1..Len(q) : RequesterParts(q)[i] = RequesterOf(q[i])
<1>1. \A i \in 1..Len(q) : ItemOf(q[i]) \in Seq(Vals) /\ RequesterOf(q[i]) \in Seq(Clients)
    BY MsgFacts, ElementType
<1>2. Len(q) \in Nat
    OBVIOUS
<1>3. /\ ItemParts(q) \in [1..Len(q) -> Seq(Vals)]
      /\ RequesterParts(q) \in [1..Len(q) -> Seq(Clients)]
    BY <1>1 DEF ItemParts, RequesterParts
<1>4. \A S : \A f \in [1..Len(q) -> S] : f \in Seq(S) /\ Len(f) = Len(q)
    BY <1>2
<1> QED BY <1>3, <1>4 DEF ItemParts, RequesterParts

LEMMA MailboxTypes ==
    ASSUME NEW q \in Seq(Msgs)
    PROVE  ItemVals(q) \in Seq(Vals) /\ Requesters(q) \in Seq(Clients)
BY PartsFacts, FlattenType DEF ItemVals, Requesters, ItemParts, RequesterParts

LEMMA PartsConcat ==
    ASSUME NEW q \in Seq(Msgs), NEW r \in Seq(Msgs)
    PROVE  /\ ItemParts(q \o r) = ItemParts(q) \o ItemParts(r)
           /\ RequesterParts(q \o r) = RequesterParts(q) \o RequesterParts(r)
<1> DEFINE w == q \o r
<1>0. Len(q) \in Nat /\ Len(r) \in Nat
    OBVIOUS
<1>1. /\ w \in Seq(Msgs) /\ Len(w) = Len(q) + Len(r)
      /\ \A i \in 1..(Len(q) + Len(r)) : w[i] = IF i <= Len(q) THEN q[i] ELSE r[i - Len(q)]
    BY ConcatFacts
<1> HIDE DEF w
<1>2. \A i \in 1..(Len(q) + Len(r)) :
         IF i <= Len(q) THEN i \in 1..Len(q) ELSE i - Len(q) \in 1..Len(r)
    BY <1>0
<1>3. ItemParts(w) = ItemParts(q) \o ItemParts(r)
    <2> DEFINE a == ItemParts(q)
               b == ItemParts(r)
               c == ItemParts(w)
    <2>1. /\ a \in Seq(Seq(Vals)) /\ b \in Seq(Seq(Vals)) /\ c \in Seq(Seq(Vals))
          /\ Len(a) = Len(q) /\ Len(b) = Len(r) /\ Len(c) = Len(q) + Len(r)
          /\ \A i \in 1..Len(q) : a[i] = ItemOf(q[i])
          /\ \A i \in 1..Len(r) : b[i] = ItemOf(r[i])
          /\ \A i \in 1..(Len(q) + Len(r)) : c[i] = ItemOf(w[i])
        BY <1>1, PartsFacts
    <2> HIDE DEF a, b, c
    <2>2. \A i \in 1..(Len(q) + Len(r)) : c[i] = IF i <= Len(q) THEN a[i] ELSE b[i - Len(q)]
        BY <1>1, <1>2, <2>1, Zenon
    <2>3. c = a \o b
        <3>1. /\ Len(c) = Len(a) + Len(b)
              /\ \A i \in 1..(Len(a) + Len(b)) : c[i] = IF i <= Len(a) THEN a[i] ELSE b[i - Len(a)]
            BY <2>1, <2>2
        <3>2. a \in Seq(Seq(Vals)) /\ b \in Seq(Seq(Vals)) /\ c \in Seq(Seq(Vals))
            BY <2>1
        <3> QED BY <3>1, <3>2, ConcatIs, Zenon
    <2> QED BY <2>3 DEF a, b, c
<1>4. RequesterParts(w) = RequesterParts(q) \o RequesterParts(r)
    <2> DEFINE a == RequesterParts(q)
               b == RequesterParts(r)
               c == RequesterParts(w)
    <2>1. /\ a \in Seq(Seq(Clients)) /\ b \in Seq(Seq(Clients)) /\ c \in Seq(Seq(Clients))
          /\ Len(a) = Len(q) /\ Len(b) = Len(r) /\ Len(c) = Len(q) + Len(r)
          /\ \A i \in 1..Len(q) : a[i] = RequesterOf(q[i])
          /\ \A i \in 1..Len(r) : b[i] = RequesterOf(r[i])
          /\ \A i \in 1..(Len(q) + Len(r)) : c[i] = RequesterOf(w[i])
        BY <1>1, PartsFacts
    <2> HIDE DEF a, b, c
    <2>2. \A i \in 1..(Len(q) + Len(r)) : c[i] = IF i <= Len(q) THEN a[i] ELSE b[i - Len(q)]
        BY <1>1, <1>2, <2>1, Zenon
    <2>3. c = a \o b
        <3>1. /\ Len(c) = Len(a) + Len(b)
              /\ \A i \in 1..(Len(a) + Len(b)) : c[i] = IF i <= Len(a) THEN a[i] ELSE b[i - Len(a)]
            BY <2>1, <2>2
        <3>2. a \in Seq(Seq(Clients)) /\ b \in Seq(Seq(Clients)) /\ c \in Seq(Seq(Clients))
            BY <2>1
        <3> QED BY <3>1, <3>2, ConcatIs, Zenon
    <2> QED BY <2>3 DEF a, b, c
<1> QED BY <1>3, <1>4 DEF w

LEMMA MailboxConcat ==
    ASSUME NEW q \in Seq(Msgs), NEW r \in Seq(Msgs)
    PROVE  /\ ItemVals(q \o r) = ItemVals(q) \o ItemVals(r)
           /\ Requesters(q \o r) = Requesters(q) \o Requesters(r)
<1>1. \A w : ItemVals(w) = FlattenSeq(ItemParts(w)) /\ Requesters(w) = FlattenSeq(RequesterParts(w))
    BY Zenon DEF ItemVals, Requesters, ItemParts, RequesterParts
<1>2. /\ FlattenSeq(ItemParts(q) \o ItemParts(r)) = FlattenSeq(ItemParts(q)) \o FlattenSeq(ItemParts(r))
      /\ FlattenSeq(RequesterParts(q) \o RequesterParts(r))
            = FlattenSeq(RequesterParts(q)) \o FlattenSeq(RequesterParts(r))
    <2>1. /\ ItemParts(q) \in Seq(Seq(Vals)) /\ ItemParts(r) \in Seq(Seq(Vals))
          /\ RequesterParts(q) \in Seq(Seq(Clients)) /\ RequesterParts(r) \in Seq(Seq(Clients))
        BY PartsFacts
    <2> QED BY <2>1, FlattenConcat
<1> QED BY <1>1, <1>2, PartsConcat, Zenon

LEMMA MailboxOne ==
    ASSUME NEW m \in Msgs
    PROVE  ItemVals(<<m>>) = ItemOf(m) /\ Requesters(<<m>>) = RequesterOf(m)
<1>1. [i \in 1..Len(<<m>>) |-> ItemOf(<<m>>[i])] = <<ItemOf(m)>>
    OBVIOUS
<1>2. [i \in 1..Len(<<m>>) |-> RequesterOf(<<m>>[i])] = <<RequesterOf(m)>>
    OBVIOUS
<1>3. FlattenSeq(<<ItemOf(m)>>) = ItemOf(m) /\ FlattenSeq(<<RequesterOf(m)>>) = RequesterOf(m)
    BY MsgFacts, FlattenOne
<1> QED BY <1>1, <1>2, <1>3, Zenon DEF ItemVals, Requesters

\* A message comes.
LEMMA MailboxAppend ==
    ASSUME NEW q \in Seq(Msgs), NEW m \in Msgs
    PROVE  /\ ItemVals(Append(q, m)) = ItemVals(q) \o ItemOf(m)
           /\ Requesters(Append(q, m)) = Requesters(q) \o RequesterOf(m)
<1>1. Append(q, m) = q \o <<m>> /\ <<m>> \in Seq(Msgs)
    OBVIOUS
<1> QED BY <1>1, MailboxConcat, MailboxOne, Zenon

\* The outer receive takes the first message.
LEMMA MailboxTail ==
    ASSUME NEW q \in Seq(Msgs), q # <<>>
    PROVE  /\ ItemVals(q) = ItemOf(Head(q)) \o ItemVals(Tail(q))
           /\ Requesters(q) = RequesterOf(Head(q)) \o Requesters(Tail(q))
<1>1. /\ Head(q) \in Msgs /\ Tail(q) \in Seq(Msgs) /\ <<Head(q)>> \in Seq(Msgs)
      /\ q = <<Head(q)>> \o Tail(q)
    OBVIOUS
<1> QED BY <1>1, MailboxConcat, MailboxOne, Zenon

\* The inner receive takes the first item.
LEMMA MailboxRemove ==
    ASSUME NEW q \in Seq(Msgs), NEW i \in 1..Len(q), IsItem(q[i]),
           \A j \in 1..(i - 1) : ~IsItem(q[j])
    PROVE  /\ ItemVals(q) = <<q[i].val>> \o ItemVals(RemoveAt(q, i))
           /\ Requesters(q) = Requesters(RemoveAt(q, i))
<1> DEFINE a == SubSeq(q, 1, i - 1)
           b == SubSeq(q, i + 1, Len(q))
           m == q[i]
<1>0. Len(q) \in Nat /\ i \in Nat /\ i >= 1 /\ i <= Len(q) /\ m \in Msgs /\ <<m>> \in Seq(Msgs)
    BY ElementType
<1>1. a \in Seq(Msgs) /\ Len(a) = i - 1 /\ \A j \in 1..(i - 1) : a[j] = q[j]
    BY <1>0
<1>2. b \in Seq(Msgs) /\ Len(b) = Len(q) - i /\ \A j \in 1..(Len(q) - i) : b[j] = q[j + i]
    BY <1>0
<1>3. RemoveAt(q, i) = a \o b
    BY DEF RemoveAt
<1>4. q = a \o (<<m>> \o b)
    <2>1. Len(<<m>> \o b) = Len(q) - i + 1 /\ <<m>> \o b \in Seq(Msgs)
        BY <1>0, <1>2
    <2>2. \A j \in 1..(Len(q) - i + 1) : (<<m>> \o b)[j] = q[j + i - 1]
        BY <1>0, <1>2
    <2> DEFINE d == <<m>> \o b
    <2> HIDE DEF a, b, d, m
    <2>3. /\ a \o d \in Seq(Msgs) /\ Len(a \o d) = Len(q)
          /\ \A j \in 1..Len(q) : (a \o d)[j] = IF j <= i - 1 THEN a[j] ELSE d[j - (i - 1)]
        <3>1. Len(a) + Len(d) = Len(q) /\ d \in Seq(Msgs)
            BY <1>0, <1>1, <2>1 DEF d
        <3> QED BY <1>1, <3>1, ConcatFacts
    <2>4. \A j \in 1..Len(q) : (a \o d)[j] = q[j]
        <3> TAKE j \in 1..Len(q)
        <3>1. CASE j <= i - 1
            BY <1>0, <1>1, <2>3, <3>1
        <3>2. CASE ~(j <= i - 1)
            <4>1. j - (i - 1) \in 1..(Len(q) - i + 1) /\ (j - (i - 1)) + i - 1 = j
                BY <1>0, <3>2
            <4>2. d[j - (i - 1)] = q[j]
                BY <2>2, <4>1 DEF d
            <4> QED BY <2>3, <3>2, <4>2
        <3> QED BY <3>1, <3>2
    <2>5. q = a \o d
        <3> DEFINE e == a \o d
        <3> HIDE DEF e
        <3>1. e \in Seq(Msgs) /\ Len(q) = Len(e) /\ \A j \in 1..Len(q) : q[j] = e[j]
            BY <2>3, <2>4 DEF e
        <3>2. q = e
            BY <3>1, SameSequence
        <3> QED BY <3>2 DEF e
    <2> QED BY <2>5 DEF d
<1> HIDE DEF a, b, m
<1>5. ItemVals(a) = <<>>
    <2>1. /\ ItemParts(a) \in Seq(Seq(Vals))
          /\ \A j \in 1..Len(ItemParts(a)) : ItemParts(a)[j] = <<>>
        BY <1>0, <1>1, PartsFacts, MsgFacts, ElementType DEF ItemOf
    <2>2. FlattenSeq(ItemParts(a)) = <<>>
        BY <2>1, FlattenEmpties
    <2> QED BY <2>2 DEF ItemVals, ItemParts
<1>6. ItemOf(m) = <<m.val>> /\ RequesterOf(m) = <<>> /\ m.val \in Vals
    BY <1>0, MsgFacts DEF m
<1>7. <<m>> \o b \in Seq(Msgs)
    BY <1>0, <1>2
<1>8. /\ ItemVals(b) \in Seq(Vals) /\ Requesters(b) \in Seq(Clients) /\ Requesters(a) \in Seq(Clients)
    BY <1>1, <1>2, MailboxTypes
<1>9. /\ ItemVals(q) = ItemVals(a) \o (ItemVals(<<m>>) \o ItemVals(b))
      /\ Requesters(q) = Requesters(a) \o (Requesters(<<m>>) \o Requesters(b))
    BY <1>0, <1>1, <1>2, <1>4, <1>7, MailboxConcat, ZenonT(60)
<1>10. /\ ItemVals(a \o b) = ItemVals(a) \o ItemVals(b)
       /\ Requesters(a \o b) = Requesters(a) \o Requesters(b)
    BY <1>1, <1>2, MailboxConcat
<1>11. ItemVals(<<m>>) = <<m.val>> /\ Requesters(<<m>>) = <<>>
    BY <1>0, <1>6, MailboxOne
<1>12. /\ <<>> \o (<<m.val>> \o ItemVals(b)) = <<m.val>> \o (<<>> \o ItemVals(b))
       /\ <<>> \o Requesters(b) = Requesters(b)
    BY <1>6, <1>8
<1> QED BY <1>3, <1>5, <1>9, <1>10, <1>11, <1>12, Zenon DEF m

-----------------------------------------------------------------------------
(* The inductive invariant *)

BrokerMsgs == [kind : {"item"}, val : Vals] \union [kind : {"subscribe"}, sub : Subs]

Typed ==
    /\ nextVal \in 0..MaxVal
    /\ inbox \in [Servers -> Seq(Msgs)]
    /\ buffer \in [Servers -> Seq(Vals)]
    /\ asker \in [Servers -> Clients \union {None}]
    /\ limit \in [Servers -> Limits \union {Infinity, Unspawned}]
    /\ brokerBox \in Seq(BrokerMsgs)
    /\ subs \in Seq(Subs)
    /\ sending \in [to : Seq(Subs), val : 0..MaxVal]
    /\ wants \in [Clients -> Servers \union {None}]
    /\ replies \in [Clients -> Seq(Vals)]
    /\ arrived \in [Servers -> Seq(Vals)]
    /\ out \in [Servers -> Seq(Vals)]
    /\ askers \in [Servers -> Seq(Clients)]
    /\ served \in [Servers -> Seq(Clients)]

\* Nothing reaches a server before it is spawned, and a channel has no limit.
Spawned ==
    /\ \A p \in Servers : limit[p] = Unspawned => inbox[p] = <<>> /\ buffer[p] = <<>>
    /\ \A p \in Chans : limit[p] \in {Infinity, Unspawned}

\* The request that waits has met an empty buffer; a limited buffer is within
\* its limit.
BuffersInv ==
    \A p \in Servers :
        /\ asker[p] # None => buffer[p] = <<>>
        /\ limit[p] >= 0 => Len(buffer[p]) <= limit[p]

\* A caller that waits for its answer: it wants it from p and has none.
TokenInv ==
    /\ \A p \in Servers : IsInjective(Pending(p))
    /\ \A p \in Servers : \A c \in ToSet(Pending(p)) : wants[c] = p /\ replies[c] = <<>>
    /\ \A c \in Clients : replies[c] # <<>> => Len(replies[c]) = 1 /\ wants[c] # None

\* What came in is what was served and what waits; nothing is overtaken.
OrderInv ==
    \A p \in Servers :
        /\ askers[p] = served[p] \o Pending(p)
        /\ IsSubsequence(out[p] \o Waiting(p), arrived[p])

\* Subscribers are spawned, announced and registered once, and the broker has
\* an end of its list still to serve.
BrokerInv ==
    /\ \A i, j \in 1..Len(subs) : subs[i] = subs[j] => i = j
    /\ \A i \in 1..Len(subs) : limit[subs[i]] # Unspawned
    /\ \A i \in 1..Len(brokerBox) : ~IsItem(brokerBox[i]) =>
          /\ limit[brokerBox[i].sub] # Unspawned
          /\ ~Contains(subs, brokerBox[i].sub)
          /\ \A j \in 1..Len(brokerBox) :
                (j # i /\ ~IsItem(brokerBox[j])) => brokerBox[j].sub # brokerBox[i].sub
    /\ Len(sending.to) <= Len(subs)
    /\ \A k \in 1..Len(sending.to) : sending.to[k] = subs[k + (Len(subs) - Len(sending.to))]
    /\ sending.to # <<>> => sending.val \in Vals
    /\ \A p \in Subs : ~Contains(subs, p) => arrived[p] = <<>>

ChannelsInv ==
    Typed /\ Spawned /\ BuffersInv /\ TokenInv /\ OrderInv /\ BrokerInv /\ SameEvents

-----------------------------------------------------------------------------
(* Types *)

LEMMA NextVal ==
    ASSUME Typed, nextVal < MaxVal
    PROVE  nextVal + 1 \in Vals /\ nextVal + 1 \in 0..MaxVal
BY ChannelsAssumption DEF Typed, Vals

LEMMA BrokerMsgFacts ==
    ASSUME NEW m \in BrokerMsgs
    PROVE  /\ IsItem(m) => m.val \in Vals
           /\ ~IsItem(m) => m.sub \in Subs
           /\ m.val \in Vals => m.val \in 0..MaxVal
BY DEF BrokerMsgs, IsItem, Vals

\* What the head of server p's mailbox is, and what is left behind it.
LEMMA InboxHead ==
    ASSUME Typed, NEW p \in Servers, inbox[p] # <<>>
    PROVE  Head(inbox[p]) \in Msgs /\ Tail(inbox[p]) \in Seq(Msgs) /\ inbox[p] \in Seq(Msgs)
<1>1. inbox[p] \in Seq(Msgs)
    BY DEF Typed
<1> QED BY <1>1, TailType

\* An item reaches the mailbox of p.
Arrives(p, v) ==
    /\ inbox' = [inbox EXCEPT ![p] = Append(@, Item(v))]
    /\ arrived' = [arrived EXCEPT ![p] = Append(@, v)]

LEMMA ArrivesKeepsTypes ==
    ASSUME Typed, NEW p \in Servers, NEW v \in Vals, Arrives(p, v)
    PROVE  inbox' \in [Servers -> Seq(Msgs)] /\ arrived' \in [Servers -> Seq(Vals)]
<1>1. Item(v) \in Msgs
    BY NewMsgs
<1>2. inbox[p] \in Seq(Msgs) /\ arrived[p] \in Seq(Vals)
    BY DEF Typed
<1>3. Append(inbox[p], Item(v)) \in Seq(Msgs) /\ Append(arrived[p], v) \in Seq(Vals)
    BY <1>1, <1>2
<1> QED BY <1>3 DEF Typed, Arrives

LEMMA ProgramKeepsTypes ==
    ASSUME Typed,
           \/ \E p \in Chans : MakeChan(p) \/ ChanSend(p)
           \/ Emit
           \/ \E p \in Subs : Subscribe(p)
           \/ \E c \in Clients : PickUp(c) \/ \E p \in Servers : Ask(c, p)
    PROVE  Typed'
<1> USE DEF loopVars, brokerVars
<1>0. Chans \subseteq Servers /\ Subs \subseteq Servers
    BY DEF Servers
<1>1. ASSUME NEW p \in Chans, MakeChan(p) PROVE Typed'
    BY <1>0, <1>1 DEF Typed, MakeChan
<1>2. ASSUME NEW p \in Chans, ChanSend(p) PROVE Typed'
    <2>1. nextVal + 1 \in Vals /\ nextVal + 1 \in 0..MaxVal
        BY <1>2, NextVal DEF ChanSend
    <2>2. Arrives(p, nextVal + 1)
        BY <1>2 DEF ChanSend, Arrives
    <2>3. inbox' \in [Servers -> Seq(Msgs)] /\ arrived' \in [Servers -> Seq(Vals)]
        BY <1>0, <2>1, <2>2, ArrivesKeepsTypes
    <2> QED BY <1>2, <2>1, <2>3 DEF Typed, ChanSend
<1>3. ASSUME Emit PROVE Typed'
    <2>1. nextVal + 1 \in Vals /\ nextVal + 1 \in 0..MaxVal
        BY <1>3, NextVal DEF Emit
    <2>2. Item(nextVal + 1) \in BrokerMsgs
        BY <2>1 DEF Item, BrokerMsgs
    <2> QED BY <1>3, <2>1, <2>2 DEF Typed, Emit
<1>4. ASSUME NEW p \in Subs, Subscribe(p) PROVE Typed'
    <2>1. [kind |-> "subscribe", sub |-> p] \in BrokerMsgs
        BY DEF BrokerMsgs
    <2>2. limit' \in [Servers -> Limits \union {Infinity, Unspawned}]
        BY <1>0, <1>4 DEF Typed, Subscribe
    <2> QED BY <1>4, <2>1, <2>2, SMTT(30) DEF Typed, Subscribe
<1>5. ASSUME NEW c \in Clients, PickUp(c) PROVE Typed'
    <2>1. replies[c] \in Seq(Vals) /\ replies[c] # <<>>
        BY <1>5 DEF Typed, PickUp
    <2>2. Tail(replies[c]) \in Seq(Vals)
        BY <2>1, TailType
    <2> QED BY <1>5, <2>2 DEF Typed, PickUp
<1>6. ASSUME NEW c \in Clients, NEW p \in Servers, Ask(c, p) PROVE Typed'
    <2>1. Request(c) \in Msgs
        BY NewMsgs
    <2>2. inbox' \in [Servers -> Seq(Msgs)] /\ askers' \in [Servers -> Seq(Clients)]
        BY <1>6, <2>1 DEF Typed, Ask
    <2> QED BY <1>6, <2>2 DEF Typed, Ask
<1> QED BY <1>1, <1>2, <1>3, <1>4, <1>5, <1>6

LEMMA BrokerKeepsTypes ==
    ASSUME Typed, BrokerInv, BrokerStep
    PROVE  Typed'
<1> USE DEF loopVars, brokerVars
<1>0. Chans \subseteq Servers /\ Subs \subseteq Servers
    BY DEF Servers
<1>1. ASSUME BrokerSubscribes PROVE Typed'
    <2>1. Head(brokerBox) \in BrokerMsgs /\ Tail(brokerBox) \in Seq(BrokerMsgs)
        BY <1>1, TailType DEF Typed, BrokerSubscribes
    <2>2. Head(brokerBox).sub \in Subs
        BY <1>1, <2>1, BrokerMsgFacts DEF BrokerSubscribes
    <2>3. subs' \in Seq(Subs)
        BY <1>1, <2>2 DEF Typed, BrokerSubscribes
    <2> QED BY <1>1, <2>1, <2>3 DEF Typed, BrokerSubscribes
<1>2. ASSUME BrokerTakesEvent PROVE Typed'
    <2>1. Head(brokerBox) \in BrokerMsgs /\ Tail(brokerBox) \in Seq(BrokerMsgs)
        BY <1>2, TailType DEF Typed, BrokerTakesEvent
    <2>2. Head(brokerBox).val \in 0..MaxVal
        BY <1>2, <2>1, BrokerMsgFacts DEF BrokerTakesEvent
    <2> QED BY <1>2, <2>1, <2>2 DEF Typed, BrokerTakesEvent
<1>3. ASSUME BrokerSends PROVE Typed'
    <2> DEFINE p == Head(sending.to)
    <2>1. sending.to \in Seq(Subs) /\ sending.to # <<>>
        BY <1>3 DEF Typed, BrokerSends, Idle
    <2>2. p \in Subs /\ Tail(sending.to) \in Seq(Subs) /\ sending.val \in Vals
        BY <2>1, TailType DEF BrokerInv
    <2>3. Arrives(p, sending.val)
        BY <1>3 DEF BrokerSends, Arrives
    <2>4. inbox' \in [Servers -> Seq(Msgs)] /\ arrived' \in [Servers -> Seq(Vals)]
        BY <1>0, <2>2, <2>3, ArrivesKeepsTypes
    <2>5. sending' \in [to : Seq(Subs), val : 0..MaxVal]
        BY <1>3, <2>2 DEF Typed, BrokerSends
    <2> QED BY <1>3, <2>4, <2>5 DEF Typed, BrokerSends
<1> QED BY <1>1, <1>2, <1>3 DEF BrokerStep

LEMMA AnswerKeepsTypes ==
    ASSUME Typed, NEW p \in Servers, NEW c \in Clients, NEW v \in Vals, Answer(p, c, v)
    PROVE  /\ replies' \in [Clients -> Seq(Vals)] /\ out' \in [Servers -> Seq(Vals)]
           /\ served' \in [Servers -> Seq(Clients)]
BY DEF Typed, Answer

LEMMA LoopKeepsTypes ==
    ASSUME Typed, NEW p \in Servers, LoopStep(p)
    PROVE  Typed'
<1> USE DEF loopVars, brokerVars
<1>1. ASSUME LoopItem(p) PROVE Typed'
    <2>1. Head(inbox[p]) \in Msgs /\ Tail(inbox[p]) \in Seq(Msgs)
        BY <1>1, InboxHead DEF LoopItem, OuterReceive
    <2>2. Head(inbox[p]).val \in Vals
        BY <1>1, <2>1, MsgFacts DEF LoopItem
    <2>3. buffer' \in [Servers -> Seq(Vals)]
        BY <1>1, <2>2 DEF Typed, LoopItem
    <2> QED BY <1>1, <2>1, <2>3 DEF Typed, LoopItem
<1>2. ASSUME LoopRecv(p) PROVE Typed'
    <2> DEFINE c == Head(inbox[p]).from
    <2>1. Head(inbox[p]) \in Msgs /\ Tail(inbox[p]) \in Seq(Msgs)
        BY <1>2, InboxHead DEF LoopRecv, OuterReceive
    <2>2. c \in Clients
        BY <1>2, <2>1, MsgFacts DEF LoopRecv
    <2>3. inbox' \in [Servers -> Seq(Msgs)]
        BY <1>2, <2>1 DEF Typed, LoopRecv
    <2>4. CASE buffer[p] # <<>>
        <3>1. Head(buffer[p]) \in Vals /\ Tail(buffer[p]) \in Seq(Vals)
            BY <2>4, TailType DEF Typed
        <3>2. Answer(p, c, Head(buffer[p]))
            BY <1>2, <2>4 DEF LoopRecv
        <3>3. /\ replies' \in [Clients -> Seq(Vals)] /\ out' \in [Servers -> Seq(Vals)]
              /\ served' \in [Servers -> Seq(Clients)]
            BY <2>2, <3>1, <3>2, AnswerKeepsTypes
        <3>4. buffer' \in [Servers -> Seq(Vals)] /\ asker' = asker
            BY <1>2, <2>4, <3>1 DEF Typed, LoopRecv
        <3> QED BY <1>2, <2>3, <3>3, <3>4 DEF Typed, LoopRecv
    <2>5. CASE buffer[p] = <<>>
        <3>1. asker' \in [Servers -> Clients \union {None}]
            BY <1>2, <2>2, <2>5 DEF Typed, LoopRecv
        <3> QED BY <1>2, <2>3, <2>5, <3>1 DEF Typed, LoopRecv
    <2> QED BY <2>4, <2>5
<1>3. ASSUME LoopInner(p) PROVE Typed'
    <2>1. inbox[p] \in Seq(Msgs) /\ asker[p] \in Clients
        BY <1>3 DEF Typed, LoopInner
    <2>2. PICK i \in 1..Len(inbox[p]) :
             /\ IsItem(inbox[p][i]) /\ inbox' = [inbox EXCEPT ![p] = RemoveAt(@, i)]
             /\ Answer(p, asker[p], inbox[p][i].val)
        BY <1>3 DEF LoopInner
    <2>3. inbox[p][i].val \in Vals
        BY <2>1, <2>2, MsgFacts, ElementType
    <2>4. /\ replies' \in [Clients -> Seq(Vals)] /\ out' \in [Servers -> Seq(Vals)]
          /\ served' \in [Servers -> Seq(Clients)]
        BY <2>1, <2>2, <2>3, AnswerKeepsTypes
    <2>5. RemoveAt(inbox[p], i) \in Seq(Msgs)
        BY <2>1, RemoveFacts DEF RemoveAt
    <2>6. inbox' \in [Servers -> Seq(Msgs)]
        BY <2>2, <2>5 DEF Typed
    <2>7. asker' \in [Servers -> Clients \union {None}]
        BY <1>3 DEF Typed, LoopInner
    <2> QED BY <1>3, <2>4, <2>6, <2>7 DEF Typed, LoopInner
<1> QED BY <1>1, <1>2, <1>3 DEF LoopStep

LEMMA TypesKept ==
    ASSUME Typed, BrokerInv, ChannelsNext
    PROVE  Typed'
BY ProgramKeepsTypes, BrokerKeepsTypes, LoopKeepsTypes DEF ChannelsNext

-----------------------------------------------------------------------------
(* What a step does to the values and the callers that wait at the servers *)

Stays(p) == Waiting(p)' = Waiting(p) /\ Pending(p)' = Pending(p)
Others(p) == \A q \in Servers \ {p} : Stays(q)

\* A value comes to p.
Comes(p, v) ==
    /\ Waiting(p)' = Append(Waiting(p), v) /\ Pending(p)' = Pending(p) /\ Others(p)
    /\ arrived' = [arrived EXCEPT ![p] = Append(@, v)]
    /\ UNCHANGED <<out, served, askers, wants, replies>>

\* c asks p.
Asks(c, p) ==
    /\ Waiting(p)' = Waiting(p) /\ Pending(p)' = Append(Pending(p), c) /\ Others(p)
    /\ wants[c] = None /\ wants' = [wants EXCEPT ![c] = p]
    /\ askers' = [askers EXCEPT ![p] = Append(@, c)]
    /\ UNCHANGED <<out, served, arrived, replies>>

\* p answers the first caller with the first value.
Serves(p) ==
    /\ Waiting(p) # <<>> /\ Pending(p) # <<>>
    /\ Answer(p, Head(Pending(p)), Head(Waiting(p)))
    /\ Waiting(p)' = Tail(Waiting(p)) /\ Pending(p)' = Tail(Pending(p)) /\ Others(p)
    /\ UNCHANGED <<arrived, askers, wants>>

\* A limited p drops a value that waits.
Drops(p) ==
    /\ limit[p] >= 0
    /\ \E r \in Seq(Vals), v \in Vals :
          Waiting(p) = buffer[p] \o (<<v>> \o r) /\ Waiting(p)' = buffer[p] \o r
    /\ Pending(p)' = Pending(p) /\ Others(p)
    /\ UNCHANGED <<out, served, arrived, askers, wants, replies>>

\* c takes its answer.
Picks(c) ==
    /\ \A p \in Servers : Stays(p)
    /\ wants' = [wants EXCEPT ![c] = None]
    /\ replies[c] # <<>> /\ replies' = [replies EXCEPT ![c] = Tail(@)]
    /\ UNCHANGED <<out, served, arrived, askers>>

Nothing ==
    /\ \A p \in Servers : Stays(p)
    /\ UNCHANGED <<out, served, arrived, askers, wants, replies>>

Effect ==
    \/ \E p \in Servers : (\E v \in Vals : Comes(p, v)) \/ Serves(p) \/ Drops(p)
    \/ \E c \in Clients : Picks(c) \/ \E p \in Servers : Asks(c, p)
    \/ Nothing

LEMMA WaitTypes ==
    ASSUME Typed, NEW p \in Servers
    PROVE  /\ Waiting(p) \in Seq(Vals) /\ Pending(p) \in Seq(Clients)
           /\ inbox[p] \in Seq(Msgs) /\ buffer[p] \in Seq(Vals)
           /\ ItemVals(inbox[p]) \in Seq(Vals) /\ Requesters(inbox[p]) \in Seq(Clients)
           /\ asker[p] # None => asker[p] \in Clients
           /\ (IF asker[p] = None THEN <<>> ELSE <<asker[p]>>) \in Seq(Clients)
<1>1. inbox[p] \in Seq(Msgs) /\ buffer[p] \in Seq(Vals) /\ (asker[p] # None => asker[p] \in Clients)
    BY DEF Typed
<1>2. ItemVals(inbox[p]) \in Seq(Vals) /\ Requesters(inbox[p]) \in Seq(Clients)
    BY <1>1, MailboxTypes
<1>3. (IF asker[p] = None THEN <<>> ELSE <<asker[p]>>) \in Seq(Clients)
    BY <1>1
<1>4. Waiting(p) \in Seq(Vals)
    BY <1>1, <1>2, ConcatFacts DEF Waiting
<1>5. Pending(p) \in Seq(Clients)
    BY <1>2, <1>3, ConcatFacts DEF Pending
<1> QED BY <1>1, <1>2, <1>3, <1>4, <1>5

LEMMA AssocVals == \A a, b, c \in Seq(Vals) : a \o (b \o c) = (a \o b) \o c
BY ConcatAssoc

LEMMA AssocClients == \A a, b, c \in Seq(Clients) : a \o (b \o c) = (a \o b) \o c
BY ConcatAssoc

LEMMA SameLoop ==
    ASSUME NEW p, inbox'[p] = inbox[p], buffer'[p] = buffer[p], asker'[p] = asker[p]
    PROVE  Stays(p)
BY Zenon DEF Stays, Waiting, Pending

\* The mailbox of p gets one more message.
LEMMA OneMore ==
    ASSUME Typed, NEW p \in Servers, NEW m \in Msgs, UNCHANGED <<buffer, asker>>,
           inbox' = [inbox EXCEPT ![p] = Append(@, m)]
    PROVE  /\ Waiting(p)' = Waiting(p) \o ItemOf(m)
           /\ Pending(p)' = Pending(p) \o RequesterOf(m)
           /\ Others(p)
<1> DEFINE w == IF asker[p] = None THEN <<>> ELSE <<asker[p]>>
<1>1. inbox'[p] = Append(inbox[p], m) /\ \A q \in Servers \ {p} : inbox'[q] = inbox[q]
    BY DEF Typed
<1>2. Others(p)
    BY <1>1, SameLoop DEF Others
<1>3. /\ ItemVals(inbox'[p]) = ItemVals(inbox[p]) \o ItemOf(m)
      /\ Requesters(inbox'[p]) = Requesters(inbox[p]) \o RequesterOf(m)
    BY <1>1, WaitTypes, MailboxAppend
<1>4. ItemOf(m) \in Seq(Vals) /\ RequesterOf(m) \in Seq(Clients)
    BY MsgFacts
<1>5. buffer[p] \o (ItemVals(inbox[p]) \o ItemOf(m)) = (buffer[p] \o ItemVals(inbox[p])) \o ItemOf(m)
    <2>1. buffer[p] \in Seq(Vals) /\ ItemVals(inbox[p]) \in Seq(Vals)
        BY WaitTypes
    <2> QED BY <1>4, <2>1, AssocVals, Zenon
<1>6. w \o (Requesters(inbox[p]) \o RequesterOf(m)) = (w \o Requesters(inbox[p])) \o RequesterOf(m)
    <2>1. w \in Seq(Clients) /\ Requesters(inbox[p]) \in Seq(Clients)
        BY WaitTypes
    <2> QED BY <1>4, <2>1, AssocClients, ZenonT(60)
<1> QED BY <1>2, <1>3, <1>5, <1>6, Zenon DEF Waiting, Pending

LEMMA ArrivesEffect ==
    ASSUME Typed, NEW p \in Servers, NEW v \in Vals, Arrives(p, v),
           UNCHANGED <<buffer, asker, out, served, askers, wants, replies>>
    PROVE  Comes(p, v)
<1>1. Item(v) \in Msgs /\ ItemOf(Item(v)) = <<v>> /\ RequesterOf(Item(v)) = <<>>
    BY NewMsgs, MsgFacts
<1>2. /\ Waiting(p)' = Waiting(p) \o <<v>>
      /\ Pending(p)' = Pending(p) \o <<>>
      /\ Others(p)
    BY <1>1, OneMore DEF Arrives
<1>3. Waiting(p) \o <<v>> = Append(Waiting(p), v) /\ Pending(p) \o <<>> = Pending(p)
    BY WaitTypes
<1> QED BY <1>2, <1>3 DEF Comes, Arrives

LEMMA AskEffect ==
    ASSUME Typed, NEW c \in Clients, NEW p \in Servers, Ask(c, p)
    PROVE  Asks(c, p)
<1>1. Request(c) \in Msgs /\ ItemOf(Request(c)) = <<>> /\ RequesterOf(Request(c)) = <<c>>
    BY NewMsgs, MsgFacts
<1>2. /\ Waiting(p)' = Waiting(p) \o <<>>
      /\ Pending(p)' = Pending(p) \o <<c>>
      /\ Others(p)
    BY <1>1, OneMore DEF Ask
<1>3. Waiting(p) \o <<>> = Waiting(p) /\ Pending(p) \o <<c>> = Append(Pending(p), c)
    BY WaitTypes
<1> QED BY <1>2, <1>3 DEF Asks, Ask

LEMMA LoopItemEffect ==
    ASSUME Typed, Spawned, NEW p \in Servers, LoopItem(p)
    PROVE  Drops(p) \/ Nothing
<1> DEFINE m == Head(inbox[p])
           r == ItemVals(Tail(inbox[p]))
           b == buffer[p]
           v == m.val
<1>1. /\ m \in Msgs /\ Tail(inbox[p]) \in Seq(Msgs) /\ inbox[p] \in Seq(Msgs) /\ inbox[p] # <<>>
      /\ asker' = asker /\ UNCHANGED <<out, served, arrived, askers, wants, replies>>
    BY InboxHead DEF LoopItem, OuterReceive
<1>2. v \in Vals /\ ItemOf(m) = <<v>> /\ RequesterOf(m) = <<>>
    BY <1>1, MsgFacts DEF LoopItem
<1>3. r \in Seq(Vals) /\ Requesters(Tail(inbox[p])) \in Seq(Clients) /\ b \in Seq(Vals)
    BY <1>1, MailboxTypes, WaitTypes
<1>4. ItemVals(inbox[p]) = <<v>> \o r /\ Requesters(inbox[p]) = Requesters(Tail(inbox[p]))
    <2>1. <<>> \o Requesters(Tail(inbox[p])) = Requesters(Tail(inbox[p]))
        BY <1>3
    <2> QED BY <1>1, <1>2, <2>1, MailboxTail, Zenon
<1>5. /\ inbox'[p] = Tail(inbox[p])
      /\ \A q \in Servers \ {p} : inbox'[q] = inbox[q] /\ buffer'[q] = buffer[q]
    BY DEF LoopItem, Typed
<1>6. Others(p)
    BY <1>1, <1>5, SameLoop DEF Others
<1>7. Pending(p)' = Pending(p)
    BY <1>1, <1>4, <1>5, Zenon DEF Pending
<1>8. Waiting(p) = b \o (<<v>> \o r)
    BY <1>4, Zenon DEF Waiting
<1>9. CASE ShouldDrop(buffer[p], limit[p])
    <2>1. limit[p] >= 0
        <3>1. limit[p] \in Limits \union {Infinity, Unspawned} /\ limit[p] # Infinity /\ limit[p] # Unspawned
            BY <1>1, <1>9 DEF Spawned, ShouldDrop, Typed
        <3>2. limit[p] \in Nat
            BY <3>1, ChannelsAssumption
        <3> QED BY <3>2
    <2>2. Waiting(p)' = b \o r
        <3>1. buffer'[p] = b
            BY <1>9 DEF LoopItem
        <3> QED BY <1>5, <3>1, Zenon DEF Waiting
    <2> HIDE DEF b, v, r, m
    <2>3. \E r1 \in Seq(Vals), v1 \in Vals : Waiting(p) = b \o (<<v1>> \o r1) /\ Waiting(p)' = b \o r1
        BY <1>2, <1>3, <1>8, <2>2
    <2> QED BY <1>1, <1>6, <1>7, <2>1, <2>3 DEF Drops, b
<1>10. CASE ~ShouldDrop(buffer[p], limit[p])
    <2>1. buffer'[p] = Append(b, v)
        BY <1>10 DEF LoopItem, Typed
    <2>2. Waiting(p)' = Append(b, v) \o r
        BY <1>5, <2>1, Zenon DEF Waiting
    <2>3. Append(b, v) = b \o <<v>> /\ <<v>> \in Seq(Vals)
        <3>1. v \in Vals /\ b \in Seq(Vals)
            BY <1>2, <1>3
        <3> HIDE DEF b, v
        <3> QED BY <3>1
    <2>4. (b \o <<v>>) \o r = b \o (<<v>> \o r)
        BY <1>3, <2>3, AssocVals, Zenon
    <2>5. Waiting(p)' = Waiting(p)
        BY <1>8, <2>2, <2>3, <2>4, Zenon
    <2> QED BY <1>1, <1>6, <1>7, <2>5, Zenon DEF Nothing, Others, Stays
<1> QED BY <1>9, <1>10

LEMMA ConsFacts ==
    ASSUME NEW S, NEW e \in S, NEW q \in Seq(S)
    PROVE  <<e>> \o q # <<>> /\ Head(<<e>> \o q) = e /\ Tail(<<e>> \o q) = q
OBVIOUS

LEMMA HeadConcat ==
    ASSUME NEW S, NEW a \in Seq(S), NEW b \in Seq(S), a # <<>>
    PROVE  a \o b # <<>> /\ Head(a \o b) = Head(a) /\ Tail(a \o b) = Tail(a) \o b
<1>1. /\ a \o b \in Seq(S) /\ Len(a \o b) = Len(a) + Len(b) /\ Len(a) \in Nat \ {0} /\ Len(b) \in Nat
      /\ \A i \in 1..(Len(a) + Len(b)) : (a \o b)[i] = IF i <= Len(a) THEN a[i] ELSE b[i - Len(a)]
    BY ConcatFacts
<1>2. a \o b # <<>> /\ Head(a \o b) = Head(a)
    BY <1>1
<1>3. /\ Tail(a) \in Seq(S) /\ Len(Tail(a)) = Len(a) - 1
      /\ \A i \in 1..Len(Tail(a)) : Tail(a)[i] = a[i + 1]
    BY TailType
<1> DEFINE c == a \o b
           d == Tail(c)
<1>4. /\ d \in Seq(S) /\ Len(d) = Len(c) - 1
      /\ \A i \in 1..Len(d) : d[i] = c[i + 1]
    BY <1>1, <1>2, TailType
<1>5. Len(d) = Len(Tail(a)) + Len(b)
    BY <1>1, <1>3, <1>4
<1>6. \A i \in 1..(Len(Tail(a)) + Len(b)) : d[i] = IF i <= Len(Tail(a)) THEN Tail(a)[i] ELSE b[i - Len(Tail(a))]
    <2> TAKE i \in 1..(Len(Tail(a)) + Len(b))
    <2>1. i \in 1..Len(d) /\ i + 1 \in 1..(Len(a) + Len(b)) /\ d[i] = c[i + 1]
        BY <1>1, <1>3, <1>4, <1>5
    <2>2. CASE i <= Len(Tail(a))
        <3>1. i \in 1..Len(Tail(a)) /\ i + 1 <= Len(a)
            BY <1>1, <1>3, <2>2
        <3> QED BY <1>1, <1>3, <2>1, <2>2, <3>1, Zenon
    <2>3. CASE ~(i <= Len(Tail(a)))
        <3>1. ~(i + 1 <= Len(a)) /\ (i + 1) - Len(a) = i - Len(Tail(a))
            BY <1>1, <1>3, <2>3
        <3>2. c[i + 1] = b[(i + 1) - Len(a)]
            BY <1>1, <2>1, <3>1, Zenon
        <3> QED BY <2>1, <2>3, <3>1, <3>2, Zenon
    <2> QED BY <2>2, <2>3
<1>7. d = Tail(a) \o b
    <2> HIDE DEF d
    <2> QED BY <1>3, <1>4, <1>5, <1>6, ConcatIs, Zenon
<1> QED BY <1>2, <1>7

LEMMA LoopRecvEffect ==
    ASSUME Typed, NEW p \in Servers, LoopRecv(p)
    PROVE  Serves(p) \/ Nothing
<1> DEFINE m == Head(inbox[p])
           r == Requesters(Tail(inbox[p]))
           b == buffer[p]
           c == m.from
<1>1. /\ m \in Msgs /\ Tail(inbox[p]) \in Seq(Msgs) /\ inbox[p] \in Seq(Msgs) /\ inbox[p] # <<>>
      /\ asker[p] = None /\ UNCHANGED <<arrived, askers, wants>>
    BY InboxHead DEF LoopRecv, OuterReceive
<1>2. c \in Clients /\ ItemOf(m) = <<>> /\ RequesterOf(m) = <<c>>
    BY <1>1, MsgFacts DEF LoopRecv
<1>3. r \in Seq(Clients) /\ ItemVals(Tail(inbox[p])) \in Seq(Vals) /\ b \in Seq(Vals)
    BY <1>1, MailboxTypes, WaitTypes
<1>4. Requesters(inbox[p]) = <<c>> \o r /\ ItemVals(inbox[p]) = ItemVals(Tail(inbox[p]))
    <2>1. <<>> \o ItemVals(Tail(inbox[p])) = ItemVals(Tail(inbox[p]))
        BY <1>3
    <2> QED BY <1>1, <1>2, <2>1, MailboxTail, Zenon
<1>5. /\ inbox'[p] = Tail(inbox[p])
      /\ \A q \in Servers \ {p} : inbox'[q] = inbox[q] /\ buffer'[q] = buffer[q] /\ asker'[q] = asker[q]
    BY DEF LoopRecv, Typed
<1>6. Others(p)
    BY <1>5, SameLoop DEF Others
<1>7. Pending(p) = <<c>> \o r
    <2>1. <<>> \o (<<c>> \o r) = <<c>> \o r
        BY <1>2, <1>3
    <2> QED BY <1>1, <1>4, <2>1, Zenon DEF Pending
<1>8. CASE b # <<>>
    <2>1. Pending(p)' = r
        <3>1. asker'[p] = None
            BY <1>1, <1>8 DEF LoopRecv
        <3>2. <<>> \o r = r
            BY <1>3
        <3> QED BY <1>5, <3>1, <3>2, Zenon DEF Pending
    <2>2. Pending(p) # <<>> /\ Head(Pending(p)) = c /\ Tail(Pending(p)) = r
        BY <1>2, <1>3, <1>7, ConsFacts, Zenon
    <2>3. Waiting(p)' = Tail(b) \o ItemVals(inbox[p])
        <3>1. buffer'[p] = Tail(b)
            BY <1>8 DEF LoopRecv, Typed
        <3> QED BY <1>4, <1>5, <3>1, Zenon DEF Waiting
    <2>4. Waiting(p) # <<>> /\ Head(Waiting(p)) = Head(b) /\ Tail(Waiting(p)) = Tail(b) \o ItemVals(inbox[p])
        <3>1. ItemVals(inbox[p]) \in Seq(Vals)
            BY WaitTypes
        <3> HIDE DEF b
        <3>2. Waiting(p) = b \o ItemVals(inbox[p])
            BY DEF Waiting, b
        <3> QED BY <1>3, <1>8, <3>1, <3>2, HeadConcat, Zenon
    <2>5. Answer(p, c, Head(b))
        BY <1>8 DEF LoopRecv
    <2> HIDE DEF b, c, m, r
    <2> QED BY <1>1, <1>6, <2>1, <2>2, <2>3, <2>4, <2>5 DEF Serves
<1>9. CASE b = <<>>
    <2>1. asker'[p] = c /\ buffer' = buffer /\ UNCHANGED <<out, served, replies>>
        BY <1>9 DEF LoopRecv, Typed
    <2>2. c # None
        BY <1>2, ChannelsAssumption
    <2>3. Pending(p)' = <<c>> \o r
        BY <1>5, <2>1, <2>2, Zenon DEF Pending
    <2>4. Waiting(p)' = Waiting(p)
        BY <1>4, <1>5, <2>1, Zenon DEF Waiting
    <2>5. Stays(p)
        BY <1>7, <2>3, <2>4, Zenon DEF Stays
    <2> QED BY <1>1, <1>6, <2>1, <2>5 DEF Nothing, Others
<1> QED BY <1>8, <1>9

LEMMA LoopInnerEffect ==
    ASSUME Typed, BuffersInv, NEW p \in Servers, LoopInner(p)
    PROVE  Serves(p)
<1>1. PICK i \in 1..Len(inbox[p]) :
         /\ IsItem(inbox[p][i])
         /\ \A j \in 1..(i - 1) : ~IsItem(inbox[p][j])
         /\ inbox' = [inbox EXCEPT ![p] = RemoveAt(@, i)]
         /\ Answer(p, asker[p], inbox[p][i].val)
    BY DEF LoopInner
<1> DEFINE r == RemoveAt(inbox[p], i)
           v == inbox[p][i].val
           c == asker[p]
<1>2. /\ c \in Clients /\ c # None /\ buffer[p] = <<>> /\ inbox[p] \in Seq(Msgs)
      /\ buffer' = buffer /\ asker' = [asker EXCEPT ![p] = None] /\ UNCHANGED <<arrived, askers, wants>>
    BY WaitTypes DEF BuffersInv, LoopInner
<1>3. v \in Vals
    BY <1>1, <1>2, MsgFacts, ElementType
<1>4. ItemVals(inbox[p]) = <<v>> \o ItemVals(r) /\ Requesters(inbox[p]) = Requesters(r)
    BY <1>1, <1>2, MailboxRemove
<1>5. r \in Seq(Msgs)
    BY <1>2, RemoveFacts DEF RemoveAt
<1>6. ItemVals(r) \in Seq(Vals) /\ Requesters(r) \in Seq(Clients)
    BY <1>5, MailboxTypes
<1>7. /\ inbox'[p] = r /\ asker'[p] = None
      /\ \A q \in Servers \ {p} : inbox'[q] = inbox[q] /\ buffer'[q] = buffer[q] /\ asker'[q] = asker[q]
    BY <1>1, <1>2 DEF Typed
<1>8. Others(p)
    BY <1>7, SameLoop DEF Others
<1> HIDE DEF r, v, c
<1>9. Waiting(p) = <<v>> \o ItemVals(r) /\ Waiting(p)' = ItemVals(r)
    <2>1. <<>> \o (<<v>> \o ItemVals(r)) = <<v>> \o ItemVals(r) /\ <<>> \o ItemVals(r) = ItemVals(r)
        BY <1>3, <1>6
    <2> QED BY <1>2, <1>4, <1>7, <2>1, Zenon DEF Waiting
<1>10. Pending(p) = <<c>> \o Requesters(r) /\ Pending(p)' = Requesters(r)
    <2>1. <<>> \o Requesters(r) = Requesters(r)
        BY <1>6
    <2> QED BY <1>2, <1>4, <1>7, <2>1, Zenon DEF Pending, c
<1>11. /\ Waiting(p) # <<>> /\ Head(Waiting(p)) = v /\ Tail(Waiting(p)) = ItemVals(r)
    BY <1>3, <1>6, <1>9, ConsFacts, Zenon
<1>12. /\ Pending(p) # <<>> /\ Head(Pending(p)) = c /\ Tail(Pending(p)) = Requesters(r)
    BY <1>2, <1>6, <1>10, ConsFacts, Zenon
<1>13. Answer(p, c, v)
    BY <1>1 DEF c, v
<1> QED BY <1>2, <1>8, <1>9, <1>10, <1>11, <1>12, <1>13 DEF Serves

LEMMA StepEffect ==
    ASSUME Typed, Spawned, BuffersInv, BrokerInv, [ChannelsNext]_vars
    PROVE  Effect
<1> USE DEF loopVars, brokerVars
<1>0. Chans \subseteq Servers /\ Subs \subseteq Servers
    BY DEF Servers
<1>1. ASSUME UNCHANGED <<inbox, buffer, asker, out, served, arrived, askers, wants, replies>> PROVE Nothing
    BY <1>1, SameLoop DEF Nothing
<1>2. ASSUME NEW p \in Chans, ChanSend(p) PROVE Effect
    <2>1. nextVal + 1 \in Vals
        BY <1>2, NextVal DEF ChanSend
    <2>2. Arrives(p, nextVal + 1)
        BY <1>2 DEF ChanSend, Arrives
    <2>3. Comes(p, nextVal + 1)
        BY <1>0, <1>2, <2>1, <2>2, ArrivesEffect DEF ChanSend
    <2> QED BY <1>0, <2>1, <2>3 DEF Effect
<1>3. ASSUME BrokerSends PROVE Effect
    <2> DEFINE p == Head(sending.to)
    <2>1. sending.to \in Seq(Subs) /\ sending.to # <<>>
        BY <1>3 DEF Typed, BrokerSends, Idle
    <2>2. p \in Subs /\ sending.val \in Vals
        BY <2>1, TailType DEF BrokerInv
    <2>3. Arrives(p, sending.val)
        BY <1>3 DEF BrokerSends, Arrives
    <2> HIDE DEF p
    <2>4. Comes(p, sending.val)
        BY <1>0, <1>3, <2>2, <2>3, ArrivesEffect DEF BrokerSends
    <2> QED BY <1>0, <2>2, <2>4 DEF Effect
<1>4. ASSUME NEW c \in Clients, PickUp(c) PROVE Effect
    <2>1. Picks(c)
        BY <1>4, SameLoop DEF Picks, PickUp
    <2> QED BY <2>1 DEF Effect
<1>5. ASSUME NEW c \in Clients, NEW p \in Servers, Ask(c, p) PROVE Effect
    BY <1>5, AskEffect DEF Effect
<1>6. ASSUME NEW p \in Servers, LoopStep(p) PROVE Effect
    BY <1>6, LoopItemEffect, LoopRecvEffect, LoopInnerEffect DEF LoopStep, Effect
<1>7. ASSUME Emit \/ (\E p \in Chans : MakeChan(p)) \/ (\E p \in Subs : Subscribe(p))
             \/ BrokerSubscribes \/ BrokerTakesEvent \/ UNCHANGED vars
      PROVE  Effect
    <2>1. UNCHANGED <<inbox, buffer, asker, out, served, arrived, askers, wants, replies>>
        BY <1>7 DEF Emit, MakeChan, Subscribe, BrokerSubscribes, BrokerTakesEvent, vars
    <2> QED BY <1>1, <2>1 DEF Effect
<1> QED BY <1>2, <1>3, <1>4, <1>5, <1>6, <1>7 DEF ChannelsNext, BrokerStep

-----------------------------------------------------------------------------
(* Every caller is answered once *)

LEMMA TokenFrame ==
    ASSUME TokenInv, \A p \in Servers : Pending(p)' = Pending(p), UNCHANGED <<wants, replies>>
    PROVE  TokenInv'
<1>1. ASSUME NEW p \in Servers
      PROVE  IsInjective(Pending(p)') /\ \A c \in ToSet(Pending(p)') : wants'[c] = p /\ replies'[c] = <<>>
    <2>1. Pending(p)' = Pending(p) /\ wants' = wants /\ replies' = replies
        OBVIOUS
    <2>2. IsInjective(Pending(p)) /\ \A c \in ToSet(Pending(p)) : wants[c] = p /\ replies[c] = <<>>
        BY DEF TokenInv
    <2> QED BY <2>1, <2>2, Zenon
<1> QED BY <1>1, Zenon DEF TokenInv

\* A sequence of distinct elements with one more, and without its first.
LEMMA DistinctAppend ==
    ASSUME NEW S, NEW q \in Seq(S), NEW e \in S, IsInjective(q), e \notin ToSet(q)
    PROVE  IsInjective(Append(q, e)) /\ ToSet(Append(q, e)) = ToSet(q) \union {e}
<1> DEFINE r == Append(q, e)
<1>1. /\ r \in Seq(S) /\ Len(r) = Len(q) + 1 /\ Len(q) \in Nat
      /\ \A i \in 1..Len(q) : r[i] = q[i]
      /\ r[Len(q) + 1] = e
    BY AppendFacts
<1> HIDE DEF r
<1>2. DOMAIN q = 1..Len(q) /\ DOMAIN r = 1..(Len(q) + 1)
    BY <1>1
<1>3. \A i : i \in DOMAIN r <=> i \in DOMAIN q \/ i = Len(q) + 1
    BY <1>1, <1>2
<1>4. \A i \in DOMAIN q : q[i] # e /\ r[i] = q[i]
    BY <1>1, <1>2 DEF ToSet
<1>5. IsInjective(r)
    BY <1>1, <1>3, <1>4 DEF IsInjective
<1>6. \A x : x \in ToSet(r) <=> x \in ToSet(q) \/ x = e
    BY <1>1, <1>3, <1>4 DEF ToSet
<1> QED BY <1>5, <1>6, Zenon DEF r

LEMMA DistinctTail ==
    ASSUME NEW S, NEW q \in Seq(S), q # <<>>, IsInjective(q)
    PROVE  /\ IsInjective(Tail(q)) /\ Head(q) \in ToSet(q)
           /\ \A x \in ToSet(Tail(q)) : x \in ToSet(q) /\ x # Head(q)
<1> DEFINE r == Tail(q)
<1>1. /\ r \in Seq(S) /\ Len(r) = Len(q) - 1 /\ Len(q) \in Nat
      /\ \A i \in 1..Len(r) : r[i] = q[i + 1] /\ i + 1 \in 1..Len(q)
      /\ Head(q) = q[1] /\ 1 \in 1..Len(q)
    BY TailType
<1> HIDE DEF r
<1>2. DOMAIN q = 1..Len(q) /\ DOMAIN r = 1..Len(r)
    BY <1>1
<1>3. \A i, j \in 1..Len(q) : q[i] = q[j] => i = j
    BY <1>2 DEF IsInjective
<1>4. IsInjective(r)
    BY <1>1, <1>2, <1>3 DEF IsInjective
<1>5. \A x \in ToSet(r) : x \in ToSet(q) /\ x # Head(q)
    BY <1>1, <1>2, <1>3, SMTT(30) DEF ToSet
<1>6. Head(q) \in ToSet(q)
    BY <1>1, <1>2 DEF ToSet
<1> QED BY <1>4, <1>5, <1>6 DEF r

LEMMA AsksKeepsToken ==
    ASSUME Typed, TokenInv, NEW d \in Clients, NEW q \in Servers, Asks(d, q)
    PROVE  TokenInv'
<1>0. \A p \in Servers : p # None
    BY ChannelsAssumption
<1>1. wants[d] = None /\ replies[d] = <<>> /\ \A p \in Servers : d \notin ToSet(Pending(p))
    BY <1>0 DEF Asks, TokenInv
<1>2. /\ replies' = replies /\ wants' \in [Clients -> Servers \union {None}] /\ wants'[d] = q
      /\ \A c \in Clients : c # d => wants'[c] = wants[c]
    BY DEF Asks, Typed
<1>3. /\ Pending(q)' = Append(Pending(q), d)
      /\ \A p \in Servers : p # q => Pending(p)' = Pending(p)
    BY DEF Asks, Others, Stays
<1>4. ASSUME NEW p \in Servers
      PROVE  IsInjective(Pending(p)') /\ \A c \in ToSet(Pending(p)') : wants'[c] = p /\ replies'[c] = <<>>
    <2>0. Pending(p) \in Seq(Clients) /\ \A c \in ToSet(Pending(p)) : c \in Clients
        <3>1. Pending(p) \in Seq(Clients)
            BY WaitTypes
        <3> QED BY <3>1 DEF ToSet
    <2>1. /\ IsInjective(Pending(p)) /\ d \notin ToSet(Pending(p))
          /\ \A c \in ToSet(Pending(p)) : wants'[c] = p /\ replies'[c] = <<>>
        BY <1>1, <1>2, <2>0 DEF TokenInv
    <2>2. CASE p # q
        BY <1>3, <2>1, <2>2, Zenon
    <2>3. CASE p = q
        <3>1. IsInjective(Append(Pending(p), d)) /\ ToSet(Append(Pending(p), d)) = ToSet(Pending(p)) \union {d}
            BY <2>0, <2>1, DistinctAppend
        <3>2. wants'[d] = p /\ replies'[d] = <<>>
            BY <1>1, <1>2, <2>3
        <3> QED BY <1>3, <2>1, <2>3, <3>1, <3>2, Zenon
    <2> QED BY <2>2, <2>3
<1>5. ASSUME NEW c \in Clients, replies'[c] # <<>> PROVE Len(replies'[c]) = 1 /\ wants'[c] # None
    BY <1>1, <1>2, <1>5 DEF TokenInv
<1> QED BY <1>4, <1>5, Zenon DEF TokenInv

LEMMA ServesKeepsToken ==
    ASSUME Typed, TokenInv, NEW q \in Servers, Serves(q)
    PROVE  TokenInv'
<1> DEFINE d == Head(Pending(q))
           v == Head(Waiting(q))
<1>0. \A p \in Servers : p # None
    BY ChannelsAssumption
<1>1. Pending(q) \in Seq(Clients) /\ Pending(q) # <<>> /\ d \in Clients /\ v \in Vals
    BY WaitTypes, TailType DEF Serves
<1>2. /\ IsInjective(Tail(Pending(q))) /\ d \in ToSet(Pending(q))
      /\ \A c \in ToSet(Tail(Pending(q))) : c \in ToSet(Pending(q)) /\ c # d
    BY <1>1, DistinctTail DEF TokenInv
<1>3. wants[d] = q /\ replies[d] = <<>>
    BY <1>2 DEF TokenInv
<1>4. replies' = [replies EXCEPT ![d] = Append(@, v)] /\ wants' = wants
    BY DEF Serves, Answer
<1> HIDE DEF d, v
<1>5. Len(replies'[d]) = 1 /\ \A c \in Clients : c # d => replies'[c] = replies[c]
    BY <1>1, <1>3, <1>4 DEF Typed
<1>6. /\ Pending(q)' = Tail(Pending(q))
      /\ \A p \in Servers : p # q => Pending(p)' = Pending(p)
    BY DEF Serves, Others, Stays
<1>7. ASSUME NEW p \in Servers
      PROVE  IsInjective(Pending(p)') /\ \A c \in ToSet(Pending(p)') : wants'[c] = p /\ replies'[c] = <<>>
    <2>0. Pending(p) \in Seq(Clients) /\ \A c \in ToSet(Pending(p)) : c \in Clients
        <3>1. Pending(p) \in Seq(Clients)
            BY WaitTypes
        <3> QED BY <3>1 DEF ToSet
    <2>1. /\ IsInjective(Pending(p))
          /\ \A c \in ToSet(Pending(p)) : wants[c] = p /\ replies[c] = <<>>
        BY DEF TokenInv
    <2>2. CASE p # q
        <3>1. \A c \in ToSet(Pending(p)) : c # d
            BY <1>3, <2>1, <2>2
        <3> QED BY <1>4, <1>5, <1>6, <2>0, <2>1, <2>2, <3>1, Zenon
    <2>3. CASE p = q
        BY <1>2, <1>4, <1>5, <1>6, <2>0, <2>1, <2>3, Zenon
    <2> QED BY <2>2, <2>3
<1>8. ASSUME NEW c \in Clients, replies'[c] # <<>> PROVE Len(replies'[c]) = 1 /\ wants'[c] # None
    BY <1>0, <1>3, <1>4, <1>5, <1>8 DEF TokenInv
<1> QED BY <1>7, <1>8, Zenon DEF TokenInv

LEMMA PicksKeepsToken ==
    ASSUME Typed, TokenInv, NEW d \in Clients, Picks(d)
    PROVE  TokenInv'
<1>1. replies[d] \in Seq(Vals) /\ Len(replies[d]) = 1 /\ \A p \in Servers : d \notin ToSet(Pending(p))
    BY DEF Picks, TokenInv, Typed
<1>2. Tail(replies[d]) = <<>>
    <2>1. replies[d] # <<>>
        BY DEF Picks
    <2>2. Tail(replies[d]) \in Seq(Vals) /\ Len(Tail(replies[d])) = 0
        BY <1>1, <2>1, TailType
    <2>3. PICK r : r = Tail(replies[d])
        OBVIOUS
    <2>4. r \in Seq(Vals) /\ Len(r) = 0
        BY <2>2, <2>3, Zenon
    <2>5. r = <<>>
        BY <2>4
    <2> QED BY <2>3, <2>5, Zenon
<1>3. /\ replies'[d] = <<>>
      /\ \A c \in Clients : c # d => wants'[c] = wants[c] /\ replies'[c] = replies[c]
    BY <1>2 DEF Picks, Typed
<1>4. ASSUME NEW p \in Servers
      PROVE  IsInjective(Pending(p)') /\ \A c \in ToSet(Pending(p)') : wants'[c] = p /\ replies'[c] = <<>>
    <2>0. Pending(p)' = Pending(p) /\ \A c \in ToSet(Pending(p)) : c \in Clients
        <3>1. Pending(p) \in Seq(Clients)
            BY WaitTypes
        <3> QED BY <3>1 DEF ToSet, Picks, Stays
    <2>1. /\ IsInjective(Pending(p)) /\ d \notin ToSet(Pending(p))
          /\ \A c \in ToSet(Pending(p)) : wants'[c] = p /\ replies'[c] = <<>>
        BY <1>1, <1>3, <2>0 DEF TokenInv
    <2> QED BY <2>0, <2>1, Zenon
<1>5. ASSUME NEW c \in Clients, replies'[c] # <<>> PROVE Len(replies'[c]) = 1 /\ wants'[c] # None
    BY <1>3, <1>5 DEF TokenInv
<1> QED BY <1>4, <1>5, Zenon DEF TokenInv

LEMMA TokenKept ==
    ASSUME Typed, TokenInv, Effect
    PROVE  TokenInv'
<1>1. ASSUME NEW p \in Servers, (\E v \in Vals : Comes(p, v)) \/ Drops(p) PROVE TokenInv'
    <2>1. (\A q \in Servers : Pending(q)' = Pending(q)) /\ UNCHANGED <<wants, replies>>
        BY <1>1 DEF Comes, Drops, Others, Stays
    <2> QED BY <2>1, TokenFrame
<1>2. ASSUME Nothing PROVE TokenInv'
    <2>1. (\A q \in Servers : Pending(q)' = Pending(q)) /\ UNCHANGED <<wants, replies>>
        BY <1>2 DEF Nothing, Stays
    <2> QED BY <2>1, TokenFrame
<1> QED BY <1>1, <1>2, AsksKeepsToken, ServesKeepsToken, PicksKeepsToken DEF Effect

LEMMA TokenImpliesOneAnswer ==
    ASSUME Typed, TokenInv
    PROVE  OneAnswer
<1> SUFFICES ASSUME NEW c \in Clients
             PROVE  /\ Len(replies[c]) <= (IF wants[c] = None THEN 0 ELSE 1)
                    /\ replies[c] # <<>> => \A p \in Servers : asker[p] # c
    BY DEF OneAnswer
<1>1. Len(replies[c]) <= (IF wants[c] = None THEN 0 ELSE 1)
    <2>1. CASE replies[c] = <<>>
        BY <2>1
    <2>2. CASE replies[c] # <<>>
        BY <2>2 DEF TokenInv
    <2> QED BY <2>1, <2>2
<1>2. ASSUME replies[c] # <<>>, NEW p \in Servers, asker[p] = c PROVE FALSE
    <2>1. c # None
        BY ChannelsAssumption
    <2>2. Pending(p) = <<c>> \o Requesters(inbox[p])
        BY <1>2, <2>1, Zenon DEF Pending
    <2>3. Requesters(inbox[p]) \in Seq(Clients)
        BY WaitTypes
    <2>4. Pending(p) \in Seq(Clients) /\ Pending(p) # <<>> /\ Head(Pending(p)) = c
        BY <2>2, <2>3, WaitTypes, ConsFacts
    <2>5. c \in ToSet(Pending(p))
        BY <2>4, DistinctTail DEF TokenInv
    <2> QED BY <1>2, <2>5 DEF TokenInv
<1> QED BY <1>1, <1>2

-----------------------------------------------------------------------------
(* Nothing is overtaken *)

LEMMA SubsequenceAppend ==
    ASSUME NEW S, NEW q \in Seq(S), NEW r \in Seq(S), NEW e \in S, IsSubsequence(q, r)
    PROVE  IsSubsequence(Append(q, e), Append(r, e))
<1>1. PICK at \in [1..Len(q) -> 1..Len(r)] :
         /\ \A i, j \in 1..Len(q) : i < j => at[i] < at[j]
         /\ \A i \in 1..Len(q) : q[i] = r[at[i]]
    BY DEF IsSubsequence
<1> DEFINE q1 == Append(q, e)
           r1 == Append(r, e)
           n == Len(q)
           m == Len(r)
           to == [i \in 1..(n + 1) |-> IF i = n + 1 THEN m + 1 ELSE at[i]]
<1>2. /\ Len(q1) = n + 1 /\ n \in Nat /\ q1[n + 1] = e
      /\ \A i \in 1..n : q1[i] = q[i]
    BY AppendFacts
<1>3. /\ Len(r1) = m + 1 /\ m \in Nat /\ r1[m + 1] = e
      /\ \A i \in 1..m : r1[i] = r[i]
    BY AppendFacts
<1> HIDE DEF q1, r1, n, m
<1>4. \A i \in 1..n : at[i] \in 1..m
    BY <1>1 DEF n, m
<1>5. \A i \in 1..(n + 1) : i # n + 1 => i \in 1..n
    BY <1>2
<1>6. to \in [1..(n + 1) -> 1..(m + 1)]
    <2>1. \A i \in 1..(n + 1) : (IF i = n + 1 THEN m + 1 ELSE at[i]) \in 1..(m + 1)
        BY <1>3, <1>4, <1>5
    <2> QED BY <2>1
<1>7. ASSUME NEW i \in 1..(n + 1), NEW j \in 1..(n + 1), i < j PROVE to[i] < to[j]
    <2>1. i \in 1..n /\ at[i] \in 1..m
        BY <1>2, <1>4, <1>7
    <2>2. CASE j = n + 1
        BY <1>2, <1>3, <2>1, <2>2, SMTT(30)
    <2>3. CASE j # n + 1
        <3>1. j \in 1..n /\ i # n + 1
            BY <1>5, <1>2, <2>1, <2>3
        <3>2. at[i] < at[j]
            BY <1>1, <1>7, <2>1, <3>1 DEF n
        <3> QED BY <2>3, <3>1, <3>2
    <2> QED BY <2>2, <2>3
<1>8. ASSUME NEW i \in 1..(n + 1) PROVE q1[i] = r1[to[i]]
    <2>1. CASE i = n + 1
        BY <1>2, <1>3, <2>1
    <2>2. CASE i # n + 1
        <3>1. i \in 1..n /\ at[i] \in 1..m /\ to[i] = at[i]
            BY <1>4, <1>5, <2>2
        <3>2. q[i] = r[at[i]]
            BY <1>1, <3>1 DEF n
        <3> QED BY <1>2, <1>3, <3>1, <3>2
    <2> QED BY <2>1, <2>2
<1> HIDE DEF to
<1>9. \E f \in [1..Len(q1) -> 1..Len(r1)] :
         /\ \A i, j \in 1..Len(q1) : i < j => f[i] < f[j]
         /\ \A i \in 1..Len(q1) : q1[i] = r1[f[i]]
    BY <1>2, <1>3, <1>6, <1>7, <1>8
<1> QED BY <1>9 DEF IsSubsequence, q1, r1

LEMMA SubsequenceDrop ==
    ASSUME NEW S, NEW a \in Seq(S), NEW e \in S, NEW b \in Seq(S), NEW r \in Seq(S),
           IsSubsequence(a \o (<<e>> \o b), r)
    PROVE  IsSubsequence(a \o b, r)
<1> DEFINE q == a \o (<<e>> \o b)
           w == a \o b
           n == Len(a)
           k == Len(b)
           m == Len(r)
<1>1. /\ <<e>> \o b \in Seq(S) /\ Len(<<e>> \o b) = k + 1 /\ k \in Nat /\ n \in Nat /\ m \in Nat
      /\ \A i \in 1..k : (<<e>> \o b)[i + 1] = b[i]
    OBVIOUS
<1>2. /\ Len(q) = n + (k + 1)
      /\ \A i \in 1..(n + (k + 1)) : q[i] = IF i <= n THEN a[i] ELSE (<<e>> \o b)[i - n]
    <2> DEFINE x == <<e>> \o b
    <2> HIDE DEF x
    <2>1. x \in Seq(S) /\ Len(x) = k + 1
        BY <1>1 DEF x
    <2>2. /\ Len(a \o x) = Len(a) + Len(x)
          /\ \A i \in 1..(Len(a) + Len(x)) : (a \o x)[i] = IF i <= Len(a) THEN a[i] ELSE x[i - Len(a)]
        BY <2>1, ConcatFacts
    <2> QED BY <2>1, <2>2 DEF x
<1>3. /\ Len(w) = n + k
      /\ \A i \in 1..(n + k) : w[i] = IF i <= n THEN a[i] ELSE b[i - n]
    BY ConcatFacts
<1>4. PICK at \in [1..Len(q) -> 1..m] :
         /\ \A i, j \in 1..Len(q) : i < j => at[i] < at[j]
         /\ \A i \in 1..Len(q) : q[i] = r[at[i]]
    BY DEF IsSubsequence
<1> DEFINE Up(i) == IF i <= n THEN i ELSE i + 1
           to == [i \in 1..(n + k) |-> at[Up(i)]]
<1> HIDE DEF q, w, n, k, m
<1>5. \A i \in 1..(n + k) : Up(i) \in 1..Len(q) /\ \A j \in 1..(n + k) : i < j => Up(i) < Up(j)
    BY <1>1, <1>2
<1>6. ASSUME NEW i \in 1..(n + k) PROVE w[i] = q[Up(i)]
    <2>1. CASE i <= n
        <3>1. i \in 1..(n + (k + 1)) /\ Up(i) = i
            BY <1>1, <2>1
        <3> QED BY <1>2, <1>3, <2>1, <3>1, Zenon
    <2>2. CASE ~(i <= n)
        <3>1. /\ i + 1 \in 1..(n + (k + 1)) /\ Up(i) = i + 1 /\ ~(i + 1 <= n) /\ i - n \in 1..k
              /\ (i + 1) - n = (i - n) + 1
            BY <1>1, <2>2
        <3>2. q[i + 1] = (<<e>> \o b)[(i + 1) - n]
            BY <1>2, <3>1, Zenon
        <3>3. (<<e>> \o b)[(i - n) + 1] = b[i - n]
            BY <1>1, <3>1, Zenon
        <3>4. w[i] = b[i - n]
            BY <1>3, <2>2, Zenon
        <3> QED BY <3>1, <3>2, <3>3, <3>4, Zenon
    <2> QED BY <2>1, <2>2
<1> HIDE DEF Up
<1>7. to \in [1..(n + k) -> 1..m]
    BY <1>4, <1>5
<1>8. \A i, j \in 1..(n + k) : i < j => to[i] < to[j]
    BY <1>4, <1>5
<1>9. \A i \in 1..(n + k) : w[i] = r[to[i]]
    BY <1>4, <1>5, <1>6
<1> HIDE DEF to
<1>10. \E f \in [1..Len(w) -> 1..m] :
         /\ \A i, j \in 1..Len(w) : i < j => f[i] < f[j]
         /\ \A i \in 1..Len(w) : w[i] = r[f[i]]
    BY <1>3, <1>7, <1>8, <1>9
<1> QED BY <1>10 DEF IsSubsequence, w, m

OrderAt(p) ==
    /\ askers[p] = served[p] \o Pending(p)
    /\ IsSubsequence(out[p] \o Waiting(p), arrived[p])

LEMMA OrderIs == OrderInv <=> \A p \in Servers : OrderAt(p)
BY DEF OrderInv, OrderAt

LEMMA OrderFrame ==
    ASSUME NEW p, OrderAt(p), Stays(p),
           askers'[p] = askers[p], served'[p] = served[p], out'[p] = out[p], arrived'[p] = arrived[p]
    PROVE  OrderAt(p)'
BY Zenon DEF OrderAt, Stays

LEMMA HistTypes ==
    ASSUME Typed, NEW p \in Servers
    PROVE  /\ askers[p] \in Seq(Clients) /\ served[p] \in Seq(Clients)
           /\ out[p] \in Seq(Vals) /\ arrived[p] \in Seq(Vals)
BY DEF Typed

LEMMA OrderKept ==
    ASSUME Typed, OrderInv, Effect
    PROVE  OrderInv'
<1>0. \A p \in Servers : OrderAt(p)
    BY OrderIs
<1> USE <1>0
<1>1. ASSUME NEW p \in Servers, NEW v \in Vals, Comes(p, v), NEW q \in Servers PROVE OrderAt(q)'
    <2>1. CASE q # p
        BY <1>1, <2>1, OrderFrame DEF Comes, Others, Typed
    <2>2. CASE q = p
        <3>1. /\ askers'[p] = served'[p] \o Pending(p)' /\ out'[p] = out[p]
              /\ Waiting(p)' = Append(Waiting(p), v) /\ arrived'[p] = Append(arrived[p], v)
            BY <1>1 DEF Comes, Typed, OrderAt
        <3>2. out[p] \o Waiting(p) \in Seq(Vals) /\ arrived[p] \in Seq(Vals)
            BY WaitTypes, HistTypes, ConcatFacts
        <3>3. IsSubsequence(Append(out[p] \o Waiting(p), v), Append(arrived[p], v))
            BY <3>2, SubsequenceAppend DEF OrderAt
        <3>4. out[p] \o Append(Waiting(p), v) = Append(out[p] \o Waiting(p), v)
            <4>1. out[p] \in Seq(Vals) /\ Waiting(p) \in Seq(Vals)
                BY WaitTypes, HistTypes
            <4>2. \A a, b \in Seq(Vals), e \in Vals : a \o Append(b, e) = Append(a \o b, e)
                BY ConcatAppend
            <4> QED BY <4>1, <4>2, Zenon
        <3> QED BY <2>2, <3>1, <3>3, <3>4, Zenon DEF OrderAt
    <2> QED BY <2>1, <2>2
<1>2. ASSUME NEW p \in Servers, Serves(p), NEW q \in Servers PROVE OrderAt(q)'
    <2>1. CASE q # p
        BY <1>2, <2>1, OrderFrame DEF Serves, Answer, Others, Typed
    <2>2. CASE q = p
        <3>1. /\ askers'[p] = askers[p] /\ arrived'[p] = arrived[p]
              /\ served'[p] = Append(served[p], Head(Pending(p))) /\ Pending(p)' = Tail(Pending(p))
              /\ out'[p] = Append(out[p], Head(Waiting(p))) /\ Waiting(p)' = Tail(Waiting(p))
              /\ Pending(p) # <<>> /\ Waiting(p) # <<>>
            BY <1>2 DEF Serves, Answer, Typed
        <3>2. /\ served[p] \in Seq(Clients) /\ Pending(p) \in Seq(Clients)
              /\ out[p] \in Seq(Vals) /\ Waiting(p) \in Seq(Vals)
            BY WaitTypes, HistTypes
        <3>3. Append(served[p], Head(Pending(p))) \o Tail(Pending(p)) = served[p] \o Pending(p)
            BY <3>1, <3>2, ConcatMove
        <3>4. Append(out[p], Head(Waiting(p))) \o Tail(Waiting(p)) = out[p] \o Waiting(p)
            BY <3>1, <3>2, ConcatMove
        <3> QED BY <2>2, <3>1, <3>3, <3>4, Zenon DEF OrderAt
    <2> QED BY <2>1, <2>2
<1>3. ASSUME NEW p \in Servers, Drops(p), NEW q \in Servers PROVE OrderAt(q)'
    <2>1. CASE q # p
        BY <1>3, <2>1, OrderFrame DEF Drops, Others
    <2>2. CASE q = p
        <3>1. PICK r \in Seq(Vals), v \in Vals :
                 Waiting(p) = buffer[p] \o (<<v>> \o r) /\ Waiting(p)' = buffer[p] \o r
            BY <1>3 DEF Drops
        <3>2. out[p] \in Seq(Vals) /\ buffer[p] \in Seq(Vals) /\ arrived[p] \in Seq(Vals)
            BY WaitTypes, HistTypes
        <3>3. out[p] \o buffer[p] \in Seq(Vals) /\ <<v>> \o r \in Seq(Vals)
            BY <3>2, ConcatFacts
        <3>4. /\ out[p] \o (buffer[p] \o (<<v>> \o r)) = (out[p] \o buffer[p]) \o (<<v>> \o r)
              /\ out[p] \o (buffer[p] \o r) = (out[p] \o buffer[p]) \o r
            <4>1. out[p] \o (buffer[p] \o (<<v>> \o r)) = (out[p] \o buffer[p]) \o (<<v>> \o r)
                <5> DEFINE w == <<v>> \o r
                <5>1. w \in Seq(Vals)
                    BY <3>3
                <5> HIDE DEF w
                <5>2. \A a, b \in Seq(Vals) : a \o (b \o w) = (a \o b) \o w
                    BY <5>1, ConcatAssoc
                <5>3. out[p] \o (buffer[p] \o w) = (out[p] \o buffer[p]) \o w
                    BY <3>2, <5>2, Zenon
                <5> QED BY <5>3 DEF w
            <4>2. out[p] \o (buffer[p] \o r) = (out[p] \o buffer[p]) \o r
                BY <3>2, AssocVals, ZenonT(60)
            <4> QED BY <4>1, <4>2
        <3>5. IsSubsequence((out[p] \o buffer[p]) \o (<<v>> \o r), arrived[p])
            BY <3>1, <3>4, Zenon DEF OrderAt
        <3>6. IsSubsequence((out[p] \o buffer[p]) \o r, arrived[p])
            BY <3>2, <3>3, <3>5, SubsequenceDrop
        <3>7. /\ askers'[p] = served'[p] \o Pending(p)' /\ out'[p] = out[p] /\ arrived'[p] = arrived[p]
            BY <1>3 DEF Drops, OrderAt
        <3> QED BY <2>2, <3>1, <3>4, <3>6, <3>7, Zenon DEF OrderAt
    <2> QED BY <2>1, <2>2
<1>4. ASSUME NEW c \in Clients, NEW p \in Servers, Asks(c, p), NEW q \in Servers PROVE OrderAt(q)'
    <2>1. CASE q # p
        BY <1>4, <2>1, OrderFrame DEF Asks, Others, Typed
    <2>2. CASE q = p
        <3>1. /\ askers'[p] = Append(askers[p], c) /\ Pending(p)' = Append(Pending(p), c)
              /\ served'[p] = served[p] /\ out'[p] = out[p] /\ arrived'[p] = arrived[p]
              /\ Waiting(p)' = Waiting(p)
            BY <1>4 DEF Asks, Typed
        <3>2. served[p] \o Append(Pending(p), c) = Append(served[p] \o Pending(p), c)
            <4>1. served[p] \in Seq(Clients) /\ Pending(p) \in Seq(Clients)
                BY WaitTypes, HistTypes
            <4>2. \A a, b \in Seq(Clients), e \in Clients : a \o Append(b, e) = Append(a \o b, e)
                BY ConcatAppend
            <4> QED BY <4>1, <4>2, Zenon
        <3> QED BY <2>2, <3>1, <3>2, Zenon DEF OrderAt
    <2> QED BY <2>1, <2>2
<1>5. ASSUME (\E c \in Clients : Picks(c)) \/ Nothing, NEW q \in Servers PROVE OrderAt(q)'
    <2>1. Stays(q) /\ UNCHANGED <<out, served, arrived, askers>>
        BY <1>5 DEF Picks, Nothing
    <2> QED BY <2>1, OrderFrame
<1>6. \A q \in Servers : OrderAt(q)'
    BY <1>1, <1>2, <1>3, <1>4, <1>5 DEF Effect
<1> QED BY <1>6 DEF OrderInv, OrderAt

-----------------------------------------------------------------------------
(* Spawning, buffers and limits *)

LEMMA LimitsOrdered == Infinity # Unspawned /\ Unspawned \notin Limits /\ ~(Unspawned >= 0) /\ ~(Infinity >= 0)
<1>1. Unspawned \notin Nat /\ Infinity # Unspawned /\ ~(Unspawned >= 0) /\ ~(Infinity >= 0)
    BY DEF Infinity, Unspawned
<1> QED BY <1>1, ChannelsAssumption

\* limit[p] changes only when p is spawned.
LEMMA LimitKept ==
    ASSUME Typed, [ChannelsNext]_vars
    PROVE  \A p \in Servers : limit[p] # Unspawned => limit'[p] = limit[p]
<1> USE DEF loopVars, brokerVars
<1>1. ASSUME NEW q \in Servers, MakeChan(q) \/ Subscribe(q), NEW p \in Servers, limit[p] # Unspawned
      PROVE  limit'[p] = limit[p]
    BY <1>1 DEF MakeChan, Subscribe, CanSpawn, Typed
<1>2. ASSUME NEW q \in Servers, ChanSend(q) \/ LoopStep(q) PROVE limit' = limit
    BY <1>2 DEF ChanSend, LoopStep, LoopItem, LoopRecv, LoopInner
<1>3. ASSUME NEW c \in Clients, PickUp(c) \/ \E p \in Servers : Ask(c, p) PROVE limit' = limit
    BY <1>3 DEF PickUp, Ask
<1>4. ASSUME Emit \/ BrokerStep \/ UNCHANGED vars PROVE limit' = limit
    BY <1>4 DEF Emit, BrokerStep, BrokerSubscribes, BrokerTakesEvent, BrokerSends, vars
<1>5. Chans \subseteq Servers /\ Subs \subseteq Servers
    BY DEF Servers
<1> QED BY <1>1, <1>2, <1>3, <1>4, <1>5 DEF ChannelsNext

\* What BrokerSends serves is a registered subscriber.
LEMMA SendsToSubscriber ==
    ASSUME Typed, BrokerInv, ~Idle
    PROVE  /\ sending.to \in Seq(Subs) /\ sending.to # <<>> /\ Head(sending.to) \in Subs
           /\ Head(sending.to) = sending.to[1] /\ 1 \in 1..Len(sending.to)
           /\ limit[Head(sending.to)] # Unspawned /\ Contains(subs, Head(sending.to))
<1>1. sending.to \in Seq(Subs) /\ sending.to # <<>> /\ Len(subs) \in Nat
    BY DEF Typed, Idle
<1>2. Head(sending.to) = sending.to[1] /\ 1 \in 1..Len(sending.to) /\ Head(sending.to) \in Subs
    BY <1>1
<1> DEFINE k == 1 + (Len(subs) - Len(sending.to))
<1>3. k \in 1..Len(subs) /\ sending.to[1] = subs[k]
    <2>1. Len(sending.to) \in Nat /\ Len(sending.to) >= 1 /\ Len(sending.to) <= Len(subs)
        BY <1>1, <1>2 DEF BrokerInv
    <2>2. sending.to[1] = subs[1 + (Len(subs) - Len(sending.to))]
        BY <1>2 DEF BrokerInv
    <2> QED BY <1>1, <2>1, <2>2
<1> QED BY <1>1, <1>2, <1>3 DEF BrokerInv, Contains

\* A mailbox that gets a message belongs to a spawned server.
LEMMA SpawnedFrame ==
    ASSUME Typed, Spawned, NEW p \in Servers, limit[p] # Unspawned, limit' = limit,
           \A q \in Servers : q # p => inbox'[q] = inbox[q] /\ buffer'[q] = buffer[q]
    PROVE  Spawned'
BY DEF Spawned

LEMMA LoopRuns ==
    ASSUME Typed, Spawned, NEW p \in Servers, LoopStep(p)
    PROVE  /\ limit[p] # Unspawned /\ limit' = limit
           /\ \A q \in Servers : q # p => /\ inbox'[q] = inbox[q] /\ buffer'[q] = buffer[q]
                                         /\ asker'[q] = asker[q]
<1>1. inbox[p] # <<>>
    BY DEF LoopStep, LoopItem, LoopRecv, LoopInner, OuterReceive
<1>2. limit[p] # Unspawned
    BY <1>1 DEF Spawned
<1>3. ASSUME LoopItem(p), NEW q \in Servers, q # p
      PROVE  inbox'[q] = inbox[q] /\ buffer'[q] = buffer[q] /\ asker'[q] = asker[q]
    BY <1>3 DEF LoopItem, Typed
<1>4. ASSUME LoopRecv(p), NEW q \in Servers, q # p
      PROVE  inbox'[q] = inbox[q] /\ buffer'[q] = buffer[q] /\ asker'[q] = asker[q]
    BY <1>4 DEF LoopRecv, Typed
<1>5. ASSUME LoopInner(p), NEW q \in Servers, q # p
      PROVE  inbox'[q] = inbox[q] /\ buffer'[q] = buffer[q] /\ asker'[q] = asker[q]
    BY <1>5 DEF LoopInner, Typed
<1>6. limit' = limit
    BY DEF LoopStep, LoopItem, LoopRecv, LoopInner
<1> QED BY <1>2, <1>3, <1>4, <1>5, <1>6 DEF LoopStep

LEMMA SpawnedKept ==
    ASSUME Typed, Spawned, BrokerInv, [ChannelsNext]_vars
    PROVE  Spawned'
<1> USE DEF loopVars, brokerVars
<1>0. Chans \subseteq Servers /\ Subs \subseteq Servers
    BY DEF Servers
<1>1. ASSUME NEW p \in Chans, MakeChan(p) PROVE Spawned'
    BY <1>0, <1>1, LimitsOrdered DEF MakeChan, CanSpawn, Spawned, Typed
<1>2. ASSUME NEW p \in Subs, Subscribe(p) PROVE Spawned'
    <2>1. \A q \in Servers : q # p => limit'[q] = limit[q]
        BY <1>0, <1>2 DEF Subscribe, Typed
    <2>2. p \notin Chans /\ limit[p] = Unspawned /\ UNCHANGED <<inbox, buffer>>
        BY <1>2, ChannelsAssumption DEF Subscribe, CanSpawn
    <2> QED BY <1>0, <2>1, <2>2 DEF Spawned
<1>3. ASSUME NEW p \in Servers, ChanSend(p) PROVE Spawned'
    BY <1>3, SpawnedFrame DEF ChanSend, Typed
<1>4. ASSUME NEW c \in Clients, NEW p \in Servers, Ask(c, p) PROVE Spawned'
    BY <1>4, SpawnedFrame DEF Ask, Typed
<1>5. ASSUME BrokerSends PROVE Spawned'
    <2>1. Head(sending.to) \in Servers /\ limit[Head(sending.to)] # Unspawned
        BY <1>0, <1>5, SendsToSubscriber DEF BrokerSends
    <2>2. /\ limit' = limit
          /\ \A q \in Servers : q # Head(sending.to) => inbox'[q] = inbox[q] /\ buffer'[q] = buffer[q]
        BY <1>5 DEF BrokerSends, Typed
    <2> QED BY <2>1, <2>2, SpawnedFrame
<1>6. ASSUME NEW p \in Servers, LoopStep(p) PROVE Spawned'
    BY <1>6, LoopRuns, SpawnedFrame
<1>7. ASSUME Emit \/ (\E c \in Clients : PickUp(c)) \/ BrokerSubscribes \/ BrokerTakesEvent \/ UNCHANGED vars
      PROVE  Spawned'
    <2>1. UNCHANGED <<limit, inbox, buffer>>
        BY <1>7 DEF Emit, PickUp, BrokerSubscribes, BrokerTakesEvent, vars
    <2> QED BY <2>1 DEF Spawned
<1> QED BY <1>0, <1>1, <1>2, <1>3, <1>4, <1>5, <1>6, <1>7 DEF ChannelsNext, BrokerStep

LEMMA BuffersFrame ==
    ASSUME BuffersInv, NEW p \in Servers, limit' = limit,
           \A q \in Servers : q # p => buffer'[q] = buffer[q] /\ asker'[q] = asker[q],
           asker'[p] # None => buffer'[p] = <<>>,
           limit[p] >= 0 => Len(buffer'[p]) <= limit[p]
    PROVE  BuffersInv'
BY DEF BuffersInv

LEMMA LoopKeepsBuffers ==
    ASSUME Typed, Spawned, BuffersInv, NEW p \in Servers, LoopStep(p)
    PROVE  BuffersInv'
<1>0. /\ limit' = limit
      /\ \A q \in Servers : q # p => buffer'[q] = buffer[q] /\ asker'[q] = asker[q]
    BY LoopRuns
<1>1. buffer[p] \in Seq(Vals) /\ Len(buffer[p]) \in Nat
    BY DEF Typed
<1>2. limit[p] >= 0 => Len(buffer[p]) <= limit[p] /\ limit[p] \in Nat /\ limit[p] # Infinity
    <2>1. limit[p] \in Limits \union {Infinity, Unspawned}
        BY DEF Typed
    <2>2. limit[p] >= 0 => limit[p] \in Nat
        BY <2>1, LimitsOrdered, ChannelsAssumption
    <2> QED BY <2>2, LimitsOrdered DEF BuffersInv
<1>3. ASSUME LoopItem(p) PROVE BuffersInv'
    <2>1. asker'[p] = None
        BY <1>3 DEF LoopItem, OuterReceive
    <2>2. CASE ShouldDrop(buffer[p], limit[p])
        <3>1. buffer' = buffer
            BY <1>3, <2>2 DEF LoopItem
        <3> QED BY <1>0, <1>2, <2>1, <3>1, BuffersFrame
    <2>3. CASE ~ShouldDrop(buffer[p], limit[p])
        <3> DEFINE v == Head(inbox[p]).val
        <3>1. buffer'[p] = Append(buffer[p], v)
            BY <1>3, <2>3 DEF LoopItem, Typed
        <3>2. Len(Append(buffer[p], v)) = Len(buffer[p]) + 1
            BY <1>1
        <3>3. limit[p] >= 0 => ~(Len(buffer[p]) >= limit[p])
            BY <1>2, <2>3 DEF ShouldDrop
        <3>4. limit[p] >= 0 => Len(buffer[p]) + 1 <= limit[p]
            BY <1>1, <1>2, <3>3
        <3> QED BY <1>0, <2>1, <3>1, <3>2, <3>4, BuffersFrame
    <2> QED BY <2>2, <2>3
<1>4. ASSUME LoopRecv(p) PROVE BuffersInv'
    <2>1. CASE buffer[p] # <<>>
        <3>1. buffer'[p] = Tail(buffer[p]) /\ asker'[p] = None
            BY <1>4, <2>1 DEF LoopRecv, OuterReceive, Typed
        <3>2. Len(Tail(buffer[p])) = Len(buffer[p]) - 1
            BY <1>1, <2>1, TailType
        <3>3. limit[p] >= 0 => Len(buffer'[p]) <= limit[p]
            BY <1>1, <1>2, <3>1, <3>2
        <3> QED BY <1>0, <3>1, <3>3, BuffersFrame
    <2>2. CASE buffer[p] = <<>>
        <3>1. buffer' = buffer
            BY <1>4, <2>2 DEF LoopRecv
        <3> QED BY <1>0, <1>2, <2>2, <3>1, BuffersFrame
    <2> QED BY <2>1, <2>2
<1>5. ASSUME LoopInner(p) PROVE BuffersInv'
    <2>1. asker'[p] = None /\ buffer' = buffer
        BY <1>5 DEF LoopInner, Typed
    <2> QED BY <1>0, <1>2, <2>1, BuffersFrame
<1> QED BY <1>3, <1>4, <1>5 DEF LoopStep

LEMMA BuffersKept ==
    ASSUME Typed, Spawned, BuffersInv, [ChannelsNext]_vars
    PROVE  BuffersInv'
<1> USE DEF loopVars, brokerVars
<1>0. Chans \subseteq Servers /\ Subs \subseteq Servers
    BY DEF Servers
<1>1. ASSUME NEW p \in Servers, limit[p] = Unspawned, limit'[p] \in Nat \union {Infinity},
             UNCHANGED <<buffer, asker>>, \A q \in Servers : q # p => limit'[q] = limit[q]
      PROVE  BuffersInv'
    <2>1. buffer[p] = <<>> /\ Len(buffer[p]) = 0
        BY <1>1 DEF Spawned
    <2>2. limit'[p] >= 0 => 0 <= limit'[p]
        BY <1>1, LimitsOrdered
    <2> QED BY <1>1, <2>1, <2>2 DEF BuffersInv
<1>2. ASSUME NEW p \in Chans, MakeChan(p) PROVE BuffersInv'
    <2>1. /\ p \in Servers /\ limit[p] = Unspawned /\ limit'[p] = Infinity /\ UNCHANGED <<buffer, asker>>
          /\ \A q \in Servers : q # p => limit'[q] = limit[q]
        BY <1>0, <1>2 DEF MakeChan, CanSpawn, Typed
    <2> QED BY <1>1, <2>1
<1>3. ASSUME NEW p \in Subs, Subscribe(p) PROVE BuffersInv'
    <2>1. /\ p \in Servers /\ limit[p] = Unspawned /\ limit'[p] \in Limits /\ UNCHANGED <<buffer, asker>>
          /\ \A q \in Servers : q # p => limit'[q] = limit[q]
        BY <1>0, <1>3 DEF Subscribe, CanSpawn, Typed
    <2> QED BY <1>1, <2>1, ChannelsAssumption
<1>4. ASSUME UNCHANGED <<limit, buffer, asker>> PROVE BuffersInv'
    BY <1>4 DEF BuffersInv
<1>5. ASSUME NEW p \in Servers, ChanSend(p) \/ \E c \in Clients : Ask(c, p) PROVE BuffersInv'
    BY <1>4, <1>5 DEF ChanSend, Ask
<1>6. ASSUME Emit \/ (\E c \in Clients : PickUp(c)) \/ BrokerStep \/ UNCHANGED vars
      PROVE  BuffersInv'
    <2>1. UNCHANGED <<limit, buffer, asker>>
        BY <1>6 DEF Emit, PickUp, BrokerStep, BrokerSubscribes, BrokerTakesEvent, BrokerSends, vars
    <2> QED BY <1>4, <2>1
<1> QED BY <1>0, <1>2, <1>3, <1>5, <1>6, LoopKeepsBuffers DEF ChannelsNext

-----------------------------------------------------------------------------
(* The broker *)

SubsInv ==
    /\ \A i, j \in 1..Len(subs) : subs[i] = subs[j] => i = j
    /\ \A i \in 1..Len(subs) : limit[subs[i]] # Unspawned
AnnouncedInv ==
    \A i \in 1..Len(brokerBox) : ~IsItem(brokerBox[i]) =>
        /\ limit[brokerBox[i].sub] # Unspawned
        /\ ~Contains(subs, brokerBox[i].sub)
        /\ \A j \in 1..Len(brokerBox) :
              (j # i /\ ~IsItem(brokerBox[j])) => brokerBox[j].sub # brokerBox[i].sub
SendingInv ==
    /\ Len(sending.to) <= Len(subs)
    /\ \A k \in 1..Len(sending.to) : sending.to[k] = subs[k + (Len(subs) - Len(sending.to))]
    /\ sending.to # <<>> => sending.val \in Vals
LateInv == \A p \in Subs : ~Contains(subs, p) => arrived[p] = <<>>

LEMMA BrokerParts == BrokerInv <=> SubsInv /\ AnnouncedInv /\ SendingInv /\ LateInv
BY DEF BrokerInv, SubsInv, AnnouncedInv, SendingInv, LateInv

LEMMA BoxTypes ==
    ASSUME Typed
    PROVE  /\ \A i \in 1..Len(subs) : subs[i] \in Subs
           /\ \A i \in 1..Len(brokerBox) : brokerBox[i] \in BrokerMsgs
           /\ \A i \in 1..Len(brokerBox) : ~IsItem(brokerBox[i]) => brokerBox[i].sub \in Subs
           /\ Len(subs) \in Nat /\ Len(brokerBox) \in Nat
           /\ subs \in Seq(Subs) /\ brokerBox \in Seq(BrokerMsgs)
<1>1. subs \in Seq(Subs) /\ brokerBox \in Seq(BrokerMsgs)
    BY DEF Typed
<1>2. /\ \A i \in 1..Len(subs) : subs[i] \in Subs
      /\ \A i \in 1..Len(brokerBox) : brokerBox[i] \in BrokerMsgs
    BY <1>1, ElementType
<1> QED BY <1>1, <1>2, BrokerMsgFacts

\* More servers are spawned; nothing else changes for the broker.
LEMMA SpawnKeepsBroker ==
    ASSUME Typed, BrokerInv, UNCHANGED <<subs, brokerBox, sending>>,
           \A p \in Subs : limit[p] # Unspawned => limit'[p] = limit[p],
           \A p \in Subs : arrived'[p] = arrived[p]
    PROVE  BrokerInv'
<1>1. SubsInv /\ AnnouncedInv /\ SendingInv /\ LateInv
    BY BrokerParts
<1>2. SubsInv'
    BY <1>1, BoxTypes DEF SubsInv
<1>3. AnnouncedInv'
    <2> SUFFICES ASSUME NEW i \in 1..Len(brokerBox), ~IsItem(brokerBox[i])
                 PROVE  limit'[brokerBox[i].sub] # Unspawned
        BY <1>1 DEF AnnouncedInv
    <2> QED BY <1>1, BoxTypes DEF AnnouncedInv
<1>4. SendingInv' /\ LateInv'
    BY <1>1 DEF SendingInv, LateInv
<1> QED BY <1>2, <1>3, <1>4 DEF BrokerInv, SubsInv, AnnouncedInv, SendingInv, LateInv

LEMMA EmitKeepsBroker ==
    ASSUME Typed, BrokerInv, Emit
    PROVE  BrokerInv'
<1> DEFINE m == Item(nextVal + 1)
           n == Len(brokerBox)
<1>1. SubsInv /\ AnnouncedInv /\ SendingInv /\ LateInv
    BY BrokerParts
<1>2. nextVal + 1 \in Vals
    BY NextVal DEF Emit
<1>3. m \in BrokerMsgs /\ IsItem(m)
    BY <1>2 DEF Item, BrokerMsgs, IsItem
<1>4. UNCHANGED <<limit, subs, sending, arrived>> /\ brokerBox' = Append(brokerBox, m)
    BY DEF Emit
<1> HIDE DEF m
<1>5. /\ Len(brokerBox') = n + 1 /\ n \in Nat /\ brokerBox'[n + 1] = m
      /\ \A i \in 1..n : brokerBox'[i] = brokerBox[i]
    BY <1>3, <1>4, BoxTypes, AppendFacts
<1>6. \A i \in 1..Len(brokerBox') : ~IsItem(brokerBox'[i]) => i \in 1..n /\ brokerBox'[i] = brokerBox[i]
    BY <1>3, <1>5
<1>7. AnnouncedInv'
    BY <1>1, <1>4, <1>6 DEF AnnouncedInv
<1>8. SubsInv' /\ SendingInv' /\ LateInv'
    BY <1>1, <1>4 DEF SubsInv, SendingInv, LateInv
<1> QED BY <1>7, <1>8 DEF BrokerInv, SubsInv, AnnouncedInv, SendingInv, LateInv

LEMMA SubscribeKeepsBroker ==
    ASSUME Typed, BrokerInv, NEW p \in Subs, Subscribe(p)
    PROVE  BrokerInv'
<1> DEFINE m == [kind |-> "subscribe", sub |-> p]
           n == Len(brokerBox)
<1>0. p \in Servers /\ Subs \subseteq Servers
    BY DEF Servers
<1>1. SubsInv /\ AnnouncedInv /\ SendingInv /\ LateInv
    BY BrokerParts
<1>2. m \in BrokerMsgs /\ ~IsItem(m) /\ m.sub = p
    BY DEF BrokerMsgs, IsItem
<1>3. /\ UNCHANGED <<subs, sending, arrived>> /\ brokerBox' = Append(brokerBox, m)
      /\ limit[p] = Unspawned /\ limit'[p] # Unspawned
      /\ \A q \in Servers : q # p => limit'[q] = limit[q]
    BY <1>0, LimitsOrdered DEF Subscribe, CanSpawn, Typed
<1> HIDE DEF m
<1>4. /\ Len(brokerBox') = n + 1 /\ n \in Nat /\ brokerBox'[n + 1] = m
      /\ \A i \in 1..n : brokerBox'[i] = brokerBox[i]
    BY <1>2, <1>3, BoxTypes, AppendFacts
<1>5. ~Contains(subs, p)
    BY <1>1, <1>3 DEF Contains, SubsInv
<1>6. \A i \in 1..n : ~IsItem(brokerBox[i]) => brokerBox[i].sub # p /\ brokerBox[i].sub \in Subs
    BY <1>1, <1>3, BoxTypes DEF AnnouncedInv
<1>7. \A q \in Subs : limit[q] # Unspawned => limit'[q] # Unspawned
    BY <1>0, <1>3
<1>8. AnnouncedInv'
    <2> SUFFICES ASSUME NEW i \in 1..(n + 1), ~IsItem(brokerBox'[i])
                 PROVE  /\ limit'[brokerBox'[i].sub] # Unspawned
                        /\ ~Contains(subs, brokerBox'[i].sub)
                        /\ \A j \in 1..(n + 1) :
                              (j # i /\ ~IsItem(brokerBox'[j])) => brokerBox'[j].sub # brokerBox'[i].sub
        BY <1>3, <1>4 DEF AnnouncedInv
    <2>0. \A j \in 1..(n + 1) : j = n + 1 \/ j \in 1..n
        BY <1>4
    <2>1. CASE i = n + 1
        BY <1>2, <1>3, <1>4, <1>5, <1>6, <2>0, <2>1
    <2>2. CASE i \in 1..n
        <3>1. /\ limit[brokerBox[i].sub] # Unspawned /\ ~Contains(subs, brokerBox[i].sub)
              /\ brokerBox[i].sub \in Subs /\ brokerBox[i].sub # p
              /\ \A j \in 1..n : (j # i /\ ~IsItem(brokerBox[j])) => brokerBox[j].sub # brokerBox[i].sub
            BY <1>1, <1>4, <1>6, <2>2 DEF AnnouncedInv
        <3> QED BY <1>2, <1>4, <1>7, <2>0, <2>2, <3>1
    <2> QED BY <2>0, <2>1, <2>2
<1>9. SubsInv' /\ SendingInv' /\ LateInv'
    BY <1>1, <1>3, <1>7, BoxTypes DEF SubsInv, SendingInv, LateInv
<1> QED BY <1>8, <1>9 DEF BrokerInv, SubsInv, AnnouncedInv, SendingInv, LateInv

LEMMA BoxTail ==
    ASSUME Typed, brokerBox # <<>>
    PROVE  /\ Head(brokerBox) = brokerBox[1] /\ 1 \in 1..Len(brokerBox)
           /\ Len(Tail(brokerBox)) = Len(brokerBox) - 1
           /\ \A i \in 1..Len(Tail(brokerBox)) : Tail(brokerBox)[i] = brokerBox[i + 1] /\ i + 1 \in 1..Len(brokerBox)
<1>1. brokerBox \in Seq(BrokerMsgs)
    BY DEF Typed
<1> QED BY <1>1, TailType

LEMMA TakesEventKeepsBroker ==
    ASSUME Typed, BrokerInv, BrokerTakesEvent
    PROVE  BrokerInv'
<1>1. SubsInv /\ AnnouncedInv /\ SendingInv /\ LateInv
    BY BrokerParts
<1>2. /\ UNCHANGED <<limit, subs, arrived>> /\ brokerBox' = Tail(brokerBox) /\ brokerBox # <<>>
      /\ sending'.to = subs /\ sending'.val = Head(brokerBox).val /\ IsItem(Head(brokerBox))
    BY DEF BrokerTakesEvent
<1>3. sending'.val \in Vals
    BY <1>2, BoxTail, BoxTypes, BrokerMsgFacts
<1>4. AnnouncedInv'
    <2>1. \A i \in 1..Len(brokerBox') : brokerBox'[i] = brokerBox[i + 1] /\ i + 1 \in 1..Len(brokerBox)
        BY <1>2, BoxTail
    <2>2. \A i, j \in 1..Len(brokerBox') : i # j => i + 1 # j + 1
        OBVIOUS
    <2> QED BY <1>1, <1>2, <2>1, <2>2 DEF AnnouncedInv
<1>5. SendingInv'
    <2>1. \A k \in 1..Len(subs) : k + (Len(subs) - Len(subs)) = k
        BY BoxTypes
    <2> QED BY <1>2, <1>3, <2>1, BoxTypes DEF SendingInv
<1>6. SubsInv' /\ LateInv'
    BY <1>1, <1>2 DEF SubsInv, LateInv
<1> QED BY <1>4, <1>5, <1>6 DEF BrokerInv, SubsInv, AnnouncedInv, SendingInv, LateInv

LEMMA SubscribesFacts ==
    ASSUME Typed, BrokerInv, BrokerSubscribes
    PROVE  LET p == Head(brokerBox).sub
           IN  /\ p \in Subs /\ subs' = <<p>> \o subs /\ ~Contains(subs, p) /\ limit[p] # Unspawned
               /\ Len(subs') = Len(subs) + 1 /\ subs'[1] = p
               /\ \A i \in 1..Len(subs) : subs'[i + 1] = subs[i]
               /\ \A i \in 1..(Len(subs) + 1) : i = 1 \/ (i - 1 \in 1..Len(subs) /\ subs'[i] = subs[i - 1])
<1> DEFINE p == Head(brokerBox).sub
<1>1. brokerBox # <<>> /\ ~IsItem(brokerBox[1]) /\ 1 \in 1..Len(brokerBox) /\ p = brokerBox[1].sub
    BY BoxTail DEF BrokerSubscribes
<1>2. p \in Subs /\ ~Contains(subs, p) /\ limit[p] # Unspawned
    BY <1>1, BoxTypes DEF BrokerInv
<1>3. subs' = <<p>> \o subs /\ subs \in Seq(Subs)
    BY BoxTypes DEF BrokerSubscribes
<1> HIDE DEF p
<1>4. /\ Len(subs') = Len(subs) + 1 /\ subs'[1] = p /\ Len(subs) \in Nat
      /\ \A i \in 1..Len(subs) : subs'[i + 1] = subs[i]
    BY <1>2, <1>3
<1>5. \A i \in 1..(Len(subs) + 1) : i = 1 \/ (i - 1 \in 1..Len(subs) /\ subs'[i] = subs[i - 1])
    <2> TAKE i \in 1..(Len(subs) + 1)
    <2>1. i # 1 => i - 1 \in 1..Len(subs) /\ (i - 1) + 1 = i
        BY <1>4
    <2> QED BY <1>4, <2>1
<1> QED BY <1>2, <1>3, <1>4, <1>5 DEF p

LEMMA SubscribesKeepsBroker ==
    ASSUME Typed, BrokerInv, BrokerSubscribes
    PROVE  BrokerInv'
<1> DEFINE p == Head(brokerBox).sub
<1>1. SubsInv /\ AnnouncedInv /\ SendingInv /\ LateInv
    BY BrokerParts
<1>2. /\ UNCHANGED <<limit, sending, arrived>> /\ brokerBox' = Tail(brokerBox) /\ brokerBox # <<>>
      /\ sending.to = <<>> /\ p = brokerBox[1].sub /\ ~IsItem(brokerBox[1]) /\ 1 \in 1..Len(brokerBox)
    BY BoxTail DEF BrokerSubscribes, Idle
<1>3. /\ p \in Subs /\ ~Contains(subs, p) /\ limit[p] # Unspawned
      /\ Len(subs') = Len(subs) + 1 /\ subs'[1] = p
      /\ \A i \in 1..(Len(subs) + 1) : i = 1 \/ (i - 1 \in 1..Len(subs) /\ subs'[i] = subs[i - 1])
    BY SubscribesFacts
<1>3a. \A i \in 1..Len(subs) : subs'[i + 1] = subs[i] /\ i + 1 \in 1..(Len(subs) + 1)
    BY SubscribesFacts, BoxTypes
<1>4. \A q : Contains(subs, q) => Contains(subs', q)
    BY <1>3, <1>3a DEF Contains
<1>5. \A q : Contains(subs', q) => q = p \/ Contains(subs, q)
    BY <1>3 DEF Contains
<1> HIDE DEF p
<1>6. SubsInv'
    <2>1. ASSUME NEW i \in 1..(Len(subs) + 1), NEW j \in 1..(Len(subs) + 1), subs'[i] = subs'[j] PROVE i = j
        <3>1. \A k \in 1..Len(subs) : subs[k] # p
            BY <1>3 DEF Contains
        <3>2. i = 1 <=> j = 1
            BY <1>3, <2>1, <3>1
        <3>3. i # 1 => i - 1 = j - 1
            BY <1>1, <1>3, <2>1, <3>2 DEF SubsInv
        <3> QED BY <3>2, <3>3
    <2>2. \A i \in 1..(Len(subs) + 1) : limit[subs'[i]] # Unspawned
        BY <1>1, <1>3 DEF SubsInv
    <2> QED BY <1>2, <1>3, <2>1, <2>2 DEF SubsInv
<1>7. AnnouncedInv'
    <2>1. \A i \in 1..Len(brokerBox') : brokerBox'[i] = brokerBox[i + 1] /\ i + 1 \in 1..Len(brokerBox) /\ i + 1 # 1
        BY <1>2, BoxTail
    <2>2. \A i, j \in 1..Len(brokerBox') : i # j => i + 1 # j + 1
        OBVIOUS
    <2> SUFFICES ASSUME NEW i \in 1..Len(brokerBox'), ~IsItem(brokerBox'[i])
                 PROVE  /\ limit'[brokerBox'[i].sub] # Unspawned
                        /\ ~Contains(subs', brokerBox'[i].sub)
                        /\ \A j \in 1..Len(brokerBox') :
                              (j # i /\ ~IsItem(brokerBox'[j])) => brokerBox'[j].sub # brokerBox'[i].sub
        BY DEF AnnouncedInv
    <2>3. /\ limit[brokerBox[i + 1].sub] # Unspawned /\ ~Contains(subs, brokerBox[i + 1].sub)
          /\ \A j \in 1..Len(brokerBox) :
                (j # i + 1 /\ ~IsItem(brokerBox[j])) => brokerBox[j].sub # brokerBox[i + 1].sub
        BY <1>1, <2>1 DEF AnnouncedInv
    <2>4. brokerBox[i + 1].sub # p
        BY <1>2, <2>1, <2>3
    <2> QED BY <1>2, <1>5, <2>1, <2>2, <2>3, <2>4
<1>8. SendingInv'
    BY <1>2, <1>3, BoxTypes DEF SendingInv
<1>9. LateInv'
    BY <1>1, <1>2, <1>4 DEF LateInv
<1> QED BY <1>6, <1>7, <1>8, <1>9 DEF BrokerInv, SubsInv, AnnouncedInv, SendingInv, LateInv

LEMMA SendsKeepsBroker ==
    ASSUME Typed, BrokerInv, BrokerSends
    PROVE  BrokerInv'
<1> DEFINE p == Head(sending.to)
           n == Len(sending.to)
<1>1. SubsInv /\ AnnouncedInv /\ SendingInv /\ LateInv
    BY BrokerParts
<1>2. p \in Subs /\ Contains(subs, p) /\ sending.to \in Seq(Subs) /\ sending.to # <<>>
    BY SendsToSubscriber DEF BrokerSends
<1>3. /\ UNCHANGED <<limit, subs, brokerBox>> /\ sending'.to = Tail(sending.to) /\ sending'.val = sending.val
      /\ \A q \in Servers : q # p => arrived'[q] = arrived[q]
    BY DEF BrokerSends, Typed
<1>4. /\ Len(Tail(sending.to)) = n - 1 /\ n \in Nat
      /\ \A k \in 1..(n - 1) : Tail(sending.to)[k] = sending.to[k + 1] /\ k + 1 \in 1..n
    BY <1>2, TailType
<1>5. SendingInv'
    <2>1. n - 1 <= Len(subs)
        BY <1>1, <1>4, BoxTypes DEF SendingInv
    <2>2. ASSUME NEW k \in 1..(n - 1) PROVE Tail(sending.to)[k] = subs[k + (Len(subs) - (n - 1))]
        <3>1. Tail(sending.to)[k] = subs[(k + 1) + (Len(subs) - n)]
            BY <1>1, <1>4 DEF SendingInv
        <3>2. (k + 1) + (Len(subs) - n) = k + (Len(subs) - (n - 1))
            <4>1. k \in Int /\ n \in Int /\ Len(subs) \in Int
                BY <1>4, BoxTypes
            <4> HIDE DEF n
            <4> QED BY <4>1
        <3> QED BY <3>1, <3>2
    <2>3. sending.val \in Vals
        BY <1>1, <1>2 DEF SendingInv
    <2> HIDE DEF n
    <2> QED BY <1>3, <1>4, <2>1, <2>2, <2>3 DEF SendingInv
<1>6. LateInv'
    <2>1. Subs \subseteq Servers
        BY DEF Servers
    <2> QED BY <1>1, <1>2, <1>3, <2>1 DEF LateInv
<1>7. SubsInv' /\ AnnouncedInv'
    BY <1>1, <1>3 DEF SubsInv, AnnouncedInv
<1> QED BY <1>5, <1>6, <1>7 DEF BrokerInv, SubsInv, AnnouncedInv, SendingInv, LateInv

LEMMA BrokerKept ==
    ASSUME Typed, BrokerInv, [ChannelsNext]_vars
    PROVE  BrokerInv'
<1> USE DEF loopVars, brokerVars
<1>0. Chans \subseteq Servers /\ Subs \subseteq Servers /\ \A p \in Subs : p \notin Chans
    BY ChannelsAssumption DEF Servers
<1>1. ASSUME UNCHANGED <<subs, brokerBox, sending>>, \A p \in Subs : arrived'[p] = arrived[p] PROVE BrokerInv'
    BY <1>0, <1>1, LimitKept, SpawnKeepsBroker
<1>2. ASSUME NEW p \in Chans, ChanSend(p) \/ MakeChan(p) PROVE BrokerInv'
    <2>1. UNCHANGED <<subs, brokerBox, sending>>
        BY <1>2 DEF ChanSend, MakeChan
    <2>2. \A q \in Subs : arrived'[q] = arrived[q]
        BY <1>0, <1>2 DEF ChanSend, MakeChan, Typed
    <2> QED BY <1>1, <2>1, <2>2
<1>3. ASSUME NEW c \in Clients, PickUp(c) \/ \E p \in Servers : Ask(c, p) PROVE BrokerInv'
    BY <1>1, <1>3 DEF PickUp, Ask
<1>4. ASSUME NEW p \in Servers, LoopStep(p) PROVE BrokerInv'
    BY <1>1, <1>4 DEF LoopStep, LoopItem, LoopRecv, LoopInner
<1>5. ASSUME UNCHANGED vars PROVE BrokerInv'
    BY <1>1, <1>5 DEF vars
<1> QED BY <1>2, <1>3, <1>4, <1>5, EmitKeepsBroker, SubscribeKeepsBroker, TakesEventKeepsBroker,
           SubscribesKeepsBroker, SendsKeepsBroker DEF ChannelsNext, BrokerStep

-----------------------------------------------------------------------------
(* Subscribers see the same events *)

EndsLike(s, t) ==
    /\ Len(s) <= Len(t)
    /\ \A k \in 1..Len(s) : s[k] = t[k + (Len(t) - Len(s))]

LEMMA SuffixIs ==
    ASSUME NEW S, NEW s \in Seq(S), NEW t \in Seq(S)
    PROVE  IsSuffix(s, t) <=> EndsLike(s, t)
<1> DEFINE n == Len(s)
           m == Len(t)
           rs == Reverse(s)
           rt == Reverse(t)
<1>0. n \in Nat /\ m \in Nat
    OBVIOUS
<1>1. rs \in Seq(S) /\ Len(rs) = n /\ \A i \in 1..n : rs[i] = s[(n - i) + 1]
    BY DEF Reverse
<1>2. rt \in Seq(S) /\ Len(rt) = m /\ \A i \in 1..m : rt[i] = t[(m - i) + 1]
    BY DEF Reverse
<1>3. IsSuffix(s, t) <=> n <= m /\ SubSeq(rs, 1, n) = SubSeq(rt, 1, n)
    BY <1>1, <1>2 DEF IsSuffix, IsPrefix
<1> HIDE DEF rs, rt
<1>4. SUFFICES ASSUME n <= m
               PROVE  SubSeq(rs, 1, n) = SubSeq(rt, 1, n) <=> \A k \in 1..n : s[k] = t[k + (m - n)]
    BY <1>3 DEF EndsLike
<1>5. /\ SubSeq(rs, 1, n) \in Seq(S) /\ Len(SubSeq(rs, 1, n)) = n
      /\ \A i \in 1..n : SubSeq(rs, 1, n)[i] = s[(n - i) + 1]
    BY <1>0, <1>1, SMTT(30)
<1>6. /\ SubSeq(rt, 1, n) \in Seq(S) /\ Len(SubSeq(rt, 1, n)) = n
      /\ \A i \in 1..n : SubSeq(rt, 1, n)[i] = t[(m - i) + 1]
    BY <1>0, <1>2, <1>4
<1> DEFINE a == SubSeq(rs, 1, n)
           b == SubSeq(rt, 1, n)
<1>7. a = b <=> \A i \in 1..n : a[i] = b[i]
    <2> HIDE DEF a, b
    <2>1. a \in Seq(S) /\ b \in Seq(S) /\ Len(a) = n /\ Len(b) = n
        BY <1>5, <1>6 DEF a, b
    <2> HIDE DEF n
    <2>2. (\A i \in 1..n : a[i] = b[i]) => a = b
        BY <2>1, SameSequence
    <2> QED BY <2>2
<1> HIDE DEF a, b
<1>8. ASSUME \A i \in 1..n : a[i] = b[i], NEW k \in 1..n PROVE s[k] = t[k + (m - n)]
    <2> DEFINE i == (n - k) + 1
    <2>1. i \in 1..n /\ (n - i) + 1 = k /\ (m - i) + 1 = k + (m - n)
        BY <1>0
    <2> HIDE DEF i
    <2>2. a[i] = s[(n - i) + 1] /\ b[i] = t[(m - i) + 1] /\ a[i] = b[i]
        BY <1>5, <1>6, <1>8, <2>1 DEF a, b
    <2> QED BY <2>1, <2>2
<1>9. ASSUME \A k \in 1..n : s[k] = t[k + (m - n)], NEW i \in 1..n PROVE a[i] = b[i]
    <2> DEFINE k == (n - i) + 1
    <2>1. k \in 1..n /\ k + (m - n) = (m - i) + 1
        BY <1>0
    <2>2. a[i] = s[k] /\ b[i] = t[(m - i) + 1]
        BY <1>5, <1>6 DEF a, b
    <2> HIDE DEF k
    <2> QED BY <1>9, <2>1, <2>2
<1> QED BY <1>7, <1>8, <1>9 DEF a, b

LEMMA SuffixAppend ==
    ASSUME NEW S, NEW s \in Seq(S), NEW t \in Seq(S), NEW e \in S, EndsLike(s, t)
    PROVE  EndsLike(Append(s, e), Append(t, e))
<1> DEFINE n == Len(s)
           m == Len(t)
           s1 == Append(s, e)
           t1 == Append(t, e)
<1>1. /\ Len(s1) = n + 1 /\ n \in Nat /\ s1[n + 1] = e
      /\ \A i \in 1..n : s1[i] = s[i]
    BY AppendFacts
<1>2. /\ Len(t1) = m + 1 /\ m \in Nat /\ t1[m + 1] = e
      /\ \A i \in 1..m : t1[i] = t[i]
    BY AppendFacts
<1>3. n <= m /\ \A k \in 1..n : s[k] = t[k + (m - n)]
    BY DEF EndsLike
<1> HIDE DEF n, m, s1, t1
<1>4. ASSUME NEW k \in 1..(n + 1) PROVE s1[k] = t1[k + ((m + 1) - (n + 1))]
    <2>1. CASE k = n + 1
        <3>1. k + ((m + 1) - (n + 1)) = m + 1
            BY <1>1, <1>2, <2>1
        <3> QED BY <1>1, <1>2, <2>1, <3>1
    <2>2. CASE k # n + 1
        <3>1. k \in 1..n /\ k + (m - n) \in 1..m /\ k + ((m + 1) - (n + 1)) = k + (m - n)
            BY <1>1, <1>2, <1>3, <2>2
        <3> QED BY <1>1, <1>2, <1>3, <3>1
    <2> QED BY <2>1, <2>2
<1>5. n + 1 <= m + 1
    BY <1>1, <1>2, <1>3
<1> QED BY <1>1, <1>2, <1>4, <1>5 DEF EndsLike, s1, t1

LEMMA ReachedTypes ==
    ASSUME Typed, BrokerInv, NEW p \in Subs
    PROVE  /\ Reached(p) \in Seq(Vals) /\ arrived[p] \in Seq(Vals)
           /\ ~Contains(sending.to, p) => Reached(p) = arrived[p]
           /\ Contains(sending.to, p) => Reached(p) = Append(arrived[p], sending.val) /\ sending.val \in Vals
<1>0. p \in Servers
    BY DEF Servers
<1>1. arrived[p] \in Seq(Vals)
    BY <1>0 DEF Typed
<1>2. CASE ~Contains(sending.to, p)
    <2>1. Reached(p) = arrived[p] \o <<>>
        BY <1>2, Zenon DEF Reached
    <2>2. arrived[p] \o <<>> = arrived[p]
        BY <1>1
    <2> QED BY <1>1, <1>2, <2>1, <2>2, Zenon
<1>3. CASE Contains(sending.to, p)
    <2>1. Reached(p) = arrived[p] \o <<sending.val>>
        BY <1>3, Zenon DEF Reached
    <2>2. sending.to # <<>>
        BY <1>3 DEF Contains
    <2>3. sending.val \in Vals
        BY <2>2 DEF BrokerInv
    <2>4. arrived[p] \o <<sending.val>> = Append(arrived[p], sending.val) /\ Append(arrived[p], sending.val) \in Seq(Vals)
        BY <1>1, <2>3
    <2> QED BY <1>1, <1>3, <2>1, <2>3, <2>4, Zenon
<1> QED BY <1>2, <1>3

\* SameEvents speaks of Reached alone.
LEMMA SameEventsFrame ==
    ASSUME Typed, SameEvents, subs' = subs, \A p \in Subs : Reached(p)' = Reached(p)
    PROVE  SameEvents'
<1>1. ASSUME NEW i \in 1..Len(subs), NEW j \in 1..Len(subs), i <= j
      PROVE  IsSuffix(Reached(subs[i])', Reached(subs[j])')
    <2>1. subs[i] \in Subs /\ subs[j] \in Subs
        BY BoxTypes
    <2>2. IsSuffix(Reached(subs[i]), Reached(subs[j]))
        BY <1>1 DEF SameEvents
    <2>3. \A p \in Subs : arrived'[p] \o (IF Contains(sending'.to, p) THEN <<sending'.val>> ELSE <<>>) = Reached(p)
        BY DEF Reached
    <2>4. Reached(subs[i])' = Reached(subs[i]) /\ Reached(subs[j])' = Reached(subs[j])
        BY <2>1, <2>3 DEF Reached
    <2> QED BY <2>2, <2>4, Zenon
<1> QED BY <1>1 DEF SameEvents

ReachedIn(p, arr, s) == arr[p] \o (IF Contains(s.to, p) THEN <<s.val>> ELSE <<>>)

LEMMA ReachedPrime ==
    /\ \A p : Reached(p) = ReachedIn(p, arrived, sending)
    /\ \A p : Reached(p)' = ReachedIn(p, arrived', sending')
    /\ SameEvents' <=> \A i, j \in 1..Len(subs') : i <= j =>
          IsSuffix(ReachedIn(subs'[i], arrived', sending'), ReachedIn(subs'[j], arrived', sending'))
BY Zenon DEF Reached, ReachedIn, SameEvents

LEMMA TakesEventKeepsSame ==
    ASSUME Typed, BrokerInv, Typed', BrokerInv', SameEvents, BrokerTakesEvent
    PROVE  SameEvents'
<1> DEFINE v == Head(brokerBox).val
<1>1. subs' = subs /\ arrived' = arrived /\ sending' = [to |-> subs, val |-> v] /\ sending.to = <<>> /\ brokerBox # <<>>
    BY DEF BrokerTakesEvent, Idle
<1>2. v \in Vals
    BY <1>1, BoxTail, BoxTypes, BrokerMsgFacts DEF BrokerTakesEvent
<1> HIDE DEF v
<1>3. ASSUME NEW i \in 1..Len(subs)
      PROVE  /\ Reached(subs[i]) = arrived[subs[i]] /\ arrived[subs[i]] \in Seq(Vals)
             /\ ReachedIn(subs[i], arrived', sending') = Append(arrived[subs[i]], v)
    <2>1. subs[i] \in Subs
        BY BoxTypes
    <2>2. ~Contains(sending.to, subs[i])
        BY <1>1 DEF Contains
    <2>3. Reached(subs[i]) = arrived[subs[i]] /\ arrived[subs[i]] \in Seq(Vals)
        BY <2>1, <2>2, ReachedTypes
    <2>4. Contains(sending'.to, subs[i]) /\ sending'.val = v
        BY <1>1 DEF Contains
    <2>5. ReachedIn(subs[i], arrived', sending') = arrived[subs[i]] \o <<v>>
        BY <1>1, <2>4, Zenon DEF ReachedIn
    <2>6. arrived[subs[i]] \o <<v>> = Append(arrived[subs[i]], v)
        BY <1>2, <2>3
    <2> QED BY <2>3, <2>5, <2>6, Zenon
<1>4. ASSUME NEW i \in 1..Len(subs), NEW j \in 1..Len(subs), i <= j
      PROVE  IsSuffix(ReachedIn(subs[i], arrived', sending'), ReachedIn(subs[j], arrived', sending'))
    <2> DEFINE a == arrived[subs[i]]
               b == arrived[subs[j]]
    <2>1. a \in Seq(Vals) /\ b \in Seq(Vals)
        BY <1>3
    <2>2. IsSuffix(Reached(subs[i]), Reached(subs[j]))
        BY <1>4 DEF SameEvents
    <2>3. IsSuffix(a, b)
        BY <1>3, <2>2
    <2> HIDE DEF a, b
    <2>4. EndsLike(Append(a, v), Append(b, v))
        BY <1>2, <2>1, <2>3, SuffixIs, SuffixAppend
    <2>5. Append(a, v) \in Seq(Vals) /\ Append(b, v) \in Seq(Vals)
        BY <1>2, <2>1
    <2>6. IsSuffix(Append(a, v), Append(b, v))
        BY <2>4, <2>5, SuffixIs
    <2> QED BY <1>3, <2>6 DEF a, b
<1> QED BY <1>1, <1>4, ReachedPrime

LEMMA SubscribesKeepsSame ==
    ASSUME Typed, BrokerInv, SameEvents, BrokerSubscribes
    PROVE  SameEvents'
<1> DEFINE p == Head(brokerBox).sub
<1>1. UNCHANGED <<arrived, sending>> /\ sending.to = <<>>
    BY DEF BrokerSubscribes, Idle
<1>2. /\ p \in Subs /\ ~Contains(subs, p)
      /\ Len(subs') = Len(subs) + 1 /\ subs'[1] = p
      /\ \A i \in 1..(Len(subs) + 1) : i = 1 \/ (i - 1 \in 1..Len(subs) /\ subs'[i] = subs[i - 1])
    BY SubscribesFacts
<1> HIDE DEF p
<1>3. Reached(p) = <<>>
    <2>1. ~Contains(sending.to, p)
        BY <1>1 DEF Contains
    <2>2. arrived[p] = <<>>
        BY <1>2 DEF BrokerInv
    <2> QED BY <1>2, <2>1, <2>2, ReachedTypes
<1>4. ASSUME NEW i \in 1..(Len(subs) + 1), NEW j \in 1..(Len(subs) + 1), i <= j
      PROVE  IsSuffix(Reached(subs'[i]), Reached(subs'[j]))
    <2>1. subs'[j] \in Subs
        BY <1>2, BoxTypes
    <2>2. CASE i = 1
        <3>1. Reached(subs'[j]) \in Seq(Vals)
            BY <2>1, ReachedTypes
        <3>2. EndsLike(<<>>, Reached(subs'[j]))
            BY <3>1 DEF EndsLike
        <3>3. <<>> \in Seq(Vals)
            OBVIOUS
        <3>4. IsSuffix(<<>>, Reached(subs'[j]))
            BY <3>1, <3>2, <3>3, SuffixIs
        <3> QED BY <1>2, <1>3, <2>2, <3>4
    <2>3. CASE i # 1
        <3>1. i - 1 \in 1..Len(subs) /\ j - 1 \in 1..Len(subs) /\ i - 1 <= j - 1
            BY <1>2, <1>4, <2>3
        <3>2. subs'[i] = subs[i - 1] /\ subs'[j] = subs[j - 1]
            BY <1>2, <1>4, <2>3
        <3> QED BY <3>1, <3>2 DEF SameEvents
    <2> QED BY <2>2, <2>3
<1>5. \A q : Reached(q) = ReachedIn(q, arrived', sending')
    BY <1>1, ReachedPrime, Zenon
<1>6. \A i, j \in 1..Len(subs') : i <= j =>
          IsSuffix(ReachedIn(subs'[i], arrived', sending'), ReachedIn(subs'[j], arrived', sending'))
    BY <1>2, <1>4, <1>5
<1> QED BY <1>6, ReachedPrime

LEMMA SendsKeepsSame ==
    ASSUME Typed, BrokerInv, SameEvents, BrokerSends
    PROVE  SameEvents'
<1> DEFINE p == Head(sending.to)
           n == Len(sending.to)
           v == sending.val
<1>1. /\ p \in Subs /\ sending.to \in Seq(Subs) /\ sending.to # <<>>
      /\ p = sending.to[1] /\ 1 \in 1..n
    BY SendsToSubscriber DEF BrokerSends
<1>2. /\ subs' = subs /\ sending'.to = Tail(sending.to) /\ sending'.val = v
      /\ arrived' = [arrived EXCEPT ![p] = Append(@, v)]
    BY DEF BrokerSends, Typed
<1>3. /\ Len(Tail(sending.to)) = n - 1 /\ n \in Nat
      /\ \A k \in 1..(n - 1) : Tail(sending.to)[k] = sending.to[k + 1] /\ k + 1 \in 1..n
    BY <1>1, TailType
<1>4. \A k \in 1..(n - 1) : Tail(sending.to)[k] # p
    <2> TAKE k \in 1..(n - 1)
    <2> DEFINE d == Len(subs) - n
    <2>1. Len(subs) \in Nat /\ n <= Len(subs)
        BY BoxTypes DEF BrokerInv
    <2>2. sending.to[k + 1] = subs[(k + 1) + d] /\ sending.to[1] = subs[1 + d]
        BY <1>1, <1>3 DEF BrokerInv
    <2>3. (k + 1) + d \in 1..Len(subs) /\ 1 + d \in 1..Len(subs) /\ (k + 1) + d # 1 + d
        BY <1>3, <2>1
    <2> HIDE DEF d, n, p
    <2>4. subs[(k + 1) + d] # subs[1 + d]
        BY <2>3 DEF BrokerInv
    <2> QED BY <1>1, <1>3, <2>2, <2>4
<1>5. ~Contains(sending'.to, p) /\ Contains(sending.to, p)
    BY <1>1, <1>2, <1>3, <1>4 DEF Contains
<1>6. ASSUME NEW q \in Subs, q # p PROVE Contains(sending'.to, q) <=> Contains(sending.to, q)
    <2>1. ASSUME NEW k \in 1..n, sending.to[k] = q PROVE k - 1 \in 1..(n - 1) /\ Tail(sending.to)[k - 1] = q
        <3>1. k # 1
            BY <1>1, <1>6, <2>1
        <3>2. k - 1 \in 1..(n - 1) /\ (k - 1) + 1 = k
            BY <1>3, <3>1
        <3> QED BY <1>3, <2>1, <3>2
    <2>2. Contains(sending.to, q) => Contains(sending'.to, q)
        BY <1>2, <1>3, <2>1 DEF Contains
    <2>3. Contains(sending'.to, q) => Contains(sending.to, q)
        BY <1>2, <1>3 DEF Contains
    <2> QED BY <2>2, <2>3
<1>7. p \in Servers /\ Subs \subseteq Servers
    BY <1>1 DEF Servers
<1>8. ASSUME NEW q \in Subs PROVE ReachedIn(q, arrived', sending') = Reached(q)
    <2>1. CASE q = p
        <3>1. arrived'[p] = Append(arrived[p], v) /\ arrived[p] \in Seq(Vals)
            BY <1>2, <1>7 DEF Typed
        <3>2. Reached(p) = Append(arrived[p], v) /\ v \in Vals
            BY <1>1, <1>5, ReachedTypes
        <3>3. ReachedIn(p, arrived', sending') = Append(arrived[p], v) \o <<>>
            BY <1>5, <3>1, Zenon DEF ReachedIn
        <3> HIDE DEF p, v
        <3>4. Append(arrived[p], v) \o <<>> = Append(arrived[p], v)
            BY <3>1, <3>2
        <3> QED BY <2>1, <3>2, <3>3, <3>4, Zenon
    <2>2. CASE q # p
        <3>1. arrived'[q] = arrived[q]
            BY <1>2, <1>7, <2>2 DEF Typed
        <3>2. Contains(sending'.to, q) <=> Contains(sending.to, q)
            BY <1>6, <2>2
        <3> QED BY <1>2, <3>1, <3>2 DEF ReachedIn, Reached
    <2> QED BY <2>1, <2>2
<1>9. \A q \in Subs : Reached(q)' = Reached(q)
    BY <1>8, ReachedPrime
<1> QED BY <1>2, <1>9, SameEventsFrame

LEMMA SameEventsKept ==
    ASSUME Typed, BrokerInv, Typed', BrokerInv', SameEvents, [ChannelsNext]_vars
    PROVE  SameEvents'
<1> USE DEF loopVars, brokerVars
<1>0. Chans \subseteq Servers /\ Subs \subseteq Servers /\ \A p \in Subs : p \notin Chans
    BY ChannelsAssumption DEF Servers
<1>1. ASSUME UNCHANGED <<subs, sending>>, \A p \in Subs : arrived'[p] = arrived[p] PROVE SameEvents'
    <2>1. \A p \in Subs : ReachedIn(p, arrived', sending') = ReachedIn(p, arrived, sending)
        BY <1>1 DEF ReachedIn
    <2>2. \A p \in Subs : Reached(p)' = Reached(p)
        BY <2>1, ReachedPrime
    <2> QED BY <1>1, <2>2, SameEventsFrame
<1>2. ASSUME NEW p \in Chans, ChanSend(p) \/ MakeChan(p) PROVE SameEvents'
    <2>1. UNCHANGED <<subs, sending>>
        BY <1>2 DEF ChanSend, MakeChan
    <2>2. \A q \in Subs : arrived'[q] = arrived[q]
        BY <1>0, <1>2 DEF ChanSend, MakeChan, Typed
    <2> QED BY <1>1, <2>1, <2>2
<1>3. ASSUME NEW c \in Clients, PickUp(c) \/ \E p \in Servers : Ask(c, p) PROVE SameEvents'
    BY <1>1, <1>3 DEF PickUp, Ask
<1>4. ASSUME NEW p \in Servers, LoopStep(p) PROVE SameEvents'
    BY <1>1, <1>4 DEF LoopStep, LoopItem, LoopRecv, LoopInner
<1>5. ASSUME UNCHANGED vars \/ Emit \/ \E p \in Subs : Subscribe(p) PROVE SameEvents'
    BY <1>1, <1>5 DEF vars, Emit, Subscribe
<1> QED BY <1>2, <1>3, <1>4, <1>5, TakesEventKeepsSame, SubscribesKeepsSame, SendsKeepsSame
    DEF ChannelsNext, BrokerStep

-----------------------------------------------------------------------------
(* The theorems *)

LEMMA EmptyMailbox == ItemVals(<<>>) = <<>> /\ Requesters(<<>>) = <<>>
<1>1. /\ [i \in 1..Len(<<>>) |-> ItemOf(<<>>[i])] = <<>>
      /\ [i \in 1..Len(<<>>) |-> RequesterOf(<<>>[i])] = <<>>
    OBVIOUS
<1>2. FlattenSeq(<<>>) = <<>>
    BY DEF FlattenSeq
<1> QED BY <1>1, <1>2, Zenon DEF ItemVals, Requesters

LEMMA InitEmpty ==
    ASSUME ChannelsInit, NEW p \in Servers
    PROVE  Waiting(p) = <<>> /\ Pending(p) = <<>> /\ out[p] = <<>> /\ served[p] = <<>>
           /\ askers[p] = <<>> /\ arrived[p] = <<>>
<1>1. inbox[p] = <<>> /\ buffer[p] = <<>> /\ asker[p] = None
    BY DEF ChannelsInit
<1>2. <<>> \o <<>> = <<>>
    OBVIOUS
<1>3. Waiting(p) = <<>> /\ Pending(p) = <<>>
    BY <1>1, <1>2, EmptyMailbox, Zenon DEF Waiting, Pending
<1> QED BY <1>3 DEF ChannelsInit

LEMMA InitInv ==
    ASSUME ChannelsInit
    PROVE  ChannelsInv
<1>1. Typed
    <2>1. 0 \in 0..MaxVal
        BY ChannelsAssumption
    <2> QED BY <2>1 DEF ChannelsInit, Typed
<1>2. Spawned /\ BuffersInv
    BY LimitsOrdered DEF ChannelsInit, Spawned, BuffersInv, Servers
<1>3. TokenInv
    <2>1. \A p \in Servers : Pending(p) = <<>>
        BY InitEmpty
    <2>2. IsInjective(<<>>) /\ ToSet(<<>>) = {}
        BY DEF IsInjective, ToSet
    <2>3. \A c \in Clients : replies[c] = <<>>
        BY DEF ChannelsInit
    <2> QED BY <2>1, <2>2, <2>3 DEF TokenInv
<1>4. OrderInv
    <2>1. IsSubsequence(<<>> \o <<>>, <<>>)
        <3>1. Len(<<>> \o <<>>) = 0 /\ Len(<<>>) = 0 /\ 1..0 = {}
            OBVIOUS
        <3>2. [i \in 1..0 |-> i] \in [1..0 -> 1..0]
            OBVIOUS
        <3> QED BY <3>1, <3>2 DEF IsSubsequence
    <2>2. <<>> = <<>> \o <<>>
        OBVIOUS
    <2> QED BY <2>1, <2>2, InitEmpty, Zenon DEF OrderInv
<1>5. BrokerInv /\ SameEvents
    <2>1. /\ subs = <<>> /\ brokerBox = <<>> /\ sending.to = <<>> /\ Len(<<>>) = 0 /\ 1..0 = {}
          /\ \A p \in Subs : arrived[p] = <<>>
        BY DEF ChannelsInit, Servers
    <2> QED BY <2>1 DEF BrokerInv, SameEvents
<1> QED BY <1>1, <1>2, <1>3, <1>4, <1>5 DEF ChannelsInv

LEMMA NextInv ==
    ASSUME ChannelsInv, [ChannelsNext]_vars
    PROVE  ChannelsInv'
<1>1. Typed /\ Spawned /\ BuffersInv /\ TokenInv /\ OrderInv /\ BrokerInv /\ SameEvents
    BY DEF ChannelsInv
<1>2. Typed'
    <2>1. CASE UNCHANGED vars
        BY <1>1, <2>1 DEF Typed, vars, loopVars, brokerVars
    <2> QED BY <1>1, <2>1, TypesKept
<1>3. Effect
    BY <1>1, StepEffect
<1>4. BrokerInv'
    BY <1>1, BrokerKept
<1>5. SameEvents'
    BY <1>1, <1>2, <1>4, SameEventsKept
<1>6. Spawned' /\ BuffersInv' /\ TokenInv' /\ OrderInv'
    BY <1>1, <1>3, SpawnedKept, BuffersKept, TokenKept, OrderKept
<1> QED BY <1>2, <1>4, <1>5, <1>6 DEF ChannelsInv

LEMMA ChannelsAlwaysInv == ChannelsSpec => []ChannelsInv
<1>1. ChannelsInit => ChannelsInv
    BY InitInv
<1>2. ChannelsInv /\ [ChannelsNext]_vars => ChannelsInv'
    BY NextInv
<1> QED BY <1>1, <1>2, PTL DEF ChannelsSpec

LEMMA InvImplies ==
    ASSUME ChannelsInv
    PROVE  TypeOK /\ OneAnswer /\ AskersInOrder /\ LimitHolds /\ SameEvents
<1>1. Typed /\ Spawned /\ BuffersInv /\ TokenInv /\ OrderInv /\ BrokerInv /\ SameEvents
    BY DEF ChannelsInv
<1>2. TypeOK
    <2>1. \A p \in Servers : \A i \in 1..Len(inbox[p]) : inbox[p][i] \in Msgs
        <3>1. \A p \in Servers : inbox[p] \in Seq(Msgs)
            BY <1>1 DEF Typed
        <3> QED BY <3>1, ElementType
    <2> QED BY <1>1, <2>1 DEF TypeOK, Typed, Msgs
<1>3. OneAnswer
    BY <1>1, TokenImpliesOneAnswer
<1>4. AskersInOrder
    BY <1>1 DEF AskersInOrder, BuffersInv, OrderInv
<1>5. LimitHolds
    <2>1. Subs \subseteq Servers
        BY DEF Servers
    <2> QED BY <1>1, <2>1 DEF LimitHolds, BuffersInv, OrderInv
<1> QED BY <1>1, <1>2, <1>3, <1>4, <1>5

\* Every variable keeps its type.
THEOREM ChannelsTypeCorrect == ChannelsSpec => []TypeOK
<1>1. ChannelsInv => TypeOK
    BY InvImplies
<1> QED BY <1>1, ChannelsAlwaysInv, PTL

\* recv and recv_sub, which have no reference to tell answers apart, never have
\* more than the one answer they wait for: each request is in one mailbox, or
\* with the server it was sent to, or answered.
THEOREM ChannelsOneAnswer == ChannelsSpec => []OneAnswer
<1>1. ChannelsInv => OneAnswer
    BY InvImplies
<1> QED BY <1>1, ChannelsAlwaysInv, PTL

\* chan_loop and sub_loop answer the requests in the order they were made, also
\* those that pile up in the mailbox behind the nested receive.
THEOREM ChannelsAskersInOrder == ChannelsSpec => []AskersInOrder
<1>1. ChannelsInv => AskersInOrder
    BY InvImplies
<1> QED BY <1>1, ChannelsAlwaysInv, PTL

\* A subscriber's buffer keeps to the limit of should_drop, and what it answers
\* with is what came, in that order and none twice, with some left out.
THEOREM ChannelsLimitHolds == ChannelsSpec => []LimitHolds
<1>1. ChannelsInv => LimitHolds
    BY InvImplies
<1> QED BY <1>1, ChannelsAlwaysInv, PTL

\* stream_loop sends every event to every registered subscriber: a later one
\* got exactly the end of what an earlier one got.
THEOREM ChannelsSameEvents == ChannelsSpec => []SameEvents
<1>1. ChannelsInv => SameEvents
    BY InvImplies
<1> QED BY <1>1, ChannelsAlwaysInv, PTL

-----------------------------------------------------------------------------
(* Channels implement FIFO queues *)

LEMMA FifoInitHolds ==
    ASSUME ChannelsInit
    PROVE  Fifo!FifoInit
<1>1. \A p \in Chans : Waiting(p) = <<>> /\ out[p] = <<>>
    BY InitEmpty DEF Servers
<1> QED BY <1>1 DEF Fifo!FifoInit

QueueOf == [p \in Chans |-> Waiting(p)]
OutOf == [p \in Chans |-> out[p]]

LEMMA FifoStutter ==
    ASSUME \A p \in Chans : Waiting(p)' = Waiting(p) /\ out'[p] = out[p]
    PROVE  QueueOf' = QueueOf /\ OutOf' = OutOf
BY DEF QueueOf, OutOf

LEMMA FifoStep ==
    ASSUME ChannelsInv, [ChannelsNext]_vars
    PROVE  Fifo!FifoNext \/ (QueueOf' = QueueOf /\ OutOf' = OutOf)
<1>0. Typed /\ Spawned /\ Effect /\ Chans \subseteq Servers
    BY StepEffect DEF ChannelsInv, Servers
<1>1. ASSUME NEW p \in Servers, NEW v \in Vals, Comes(p, v)
      PROVE  Fifo!FifoNext \/ (QueueOf' = QueueOf /\ OutOf' = OutOf)
    <2>1. /\ \A q \in Chans : out'[q] = out[q] /\ (q # p => Waiting(q)' = Waiting(q))
          /\ Waiting(p)' = Append(Waiting(p), v)
        BY <1>0, <1>1 DEF Comes, Others, Stays
    <2>2. CASE p \in Chans
        <3>1. QueueOf' = [QueueOf EXCEPT ![p] = Append(@, v)]
            BY <2>1, <2>2 DEF QueueOf
        <3>2. OutOf' = OutOf
            BY <2>1 DEF OutOf
        <3>3. Fifo!Put(p)
            BY <3>1, <3>2 DEF Fifo!Put, QueueOf, OutOf
        <3> QED BY <2>2, <3>3 DEF Fifo!FifoNext
    <2>3. CASE p \notin Chans
        <3>1. \A q \in Chans : Waiting(q)' = Waiting(q) /\ out'[q] = out[q]
            BY <2>1, <2>3
        <3> QED BY <3>1, FifoStutter
    <2> QED BY <2>2, <2>3
<1>2. ASSUME NEW p \in Servers, Serves(p)
      PROVE  Fifo!FifoNext \/ (QueueOf' = QueueOf /\ OutOf' = OutOf)
    <2>1. /\ \A q \in Chans : q # p => Waiting(q)' = Waiting(q) /\ out'[q] = out[q]
          /\ Waiting(p)' = Tail(Waiting(p)) /\ Waiting(p) # <<>>
          /\ out'[p] = Append(out[p], Head(Waiting(p)))
        BY <1>0, <1>2 DEF Serves, Answer, Others, Stays, Typed
    <2>2. CASE p \in Chans
        <3>1. QueueOf' = [QueueOf EXCEPT ![p] = Tail(@)]
            BY <2>1, <2>2 DEF QueueOf
        <3>2. OutOf' = [OutOf EXCEPT ![p] = Append(@, Head(Waiting(p)))]
            BY <2>1, <2>2 DEF OutOf
        <3>3. QueueOf[p] = Waiting(p)
            BY <2>2 DEF QueueOf
        <3>4. Fifo!Get(p)
            BY <2>1, <3>1, <3>2, <3>3, Zenon DEF Fifo!Get, QueueOf, OutOf
        <3> QED BY <2>2, <3>4 DEF Fifo!FifoNext
    <2>3. CASE p \notin Chans
        <3>1. \A q \in Chans : Waiting(q)' = Waiting(q) /\ out'[q] = out[q]
            BY <2>1, <2>3
        <3> QED BY <3>1, FifoStutter
    <2> QED BY <2>2, <2>3
<1>3. ASSUME NEW p \in Servers, Drops(p)
      PROVE  QueueOf' = QueueOf /\ OutOf' = OutOf
    <2>1. p \notin Chans
        BY <1>0, <1>3, LimitsOrdered DEF Drops, Spawned
    <2>2. \A q \in Chans : Waiting(q)' = Waiting(q) /\ out'[q] = out[q]
        BY <1>0, <1>3, <2>1 DEF Drops, Others, Stays
    <2> QED BY <2>2, FifoStutter
<1>4. ASSUME NEW c \in Clients, Picks(c) \/ \E p \in Servers : Asks(c, p)
      PROVE  QueueOf' = QueueOf /\ OutOf' = OutOf
    <2>1. \A q \in Chans : Waiting(q)' = Waiting(q) /\ out'[q] = out[q]
        BY <1>0, <1>4 DEF Picks, Asks, Others, Stays
    <2> QED BY <2>1, FifoStutter
<1>5. ASSUME Nothing PROVE QueueOf' = QueueOf /\ OutOf' = OutOf
    <2>1. \A q \in Chans : Waiting(q)' = Waiting(q) /\ out'[q] = out[q]
        BY <1>0, <1>5 DEF Nothing, Stays
    <2> QED BY <2>1, FifoStutter
<1> QED BY <1>0, <1>1, <1>2, <1>3, <1>4, <1>5 DEF Effect

\* Every channel is a first-in first-out queue of the values sent to it: none is
\* lost, doubled or overtaken, whoever sends and whoever waits in recv.
THEOREM ChannelsImplementFifo == ChannelsSpec => ChannelRefinesFifo
<1>1. ChannelsInit => Fifo!FifoInit
    BY FifoInitHolds
<1>2. ChannelsInv /\ [ChannelsNext]_vars
        => [Fifo!FifoNext]_<<[p \in Chans |-> Waiting(p)], [p \in Chans |-> out[p]]>>
    BY FifoStep DEF QueueOf, OutOf
<1> QED BY <1>1, <1>2, ChannelsAlwaysInv, PTL DEF ChannelsSpec, ChannelRefinesFifo, Fifo!FifoSpec
=============================================================================
