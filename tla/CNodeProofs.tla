---------------------------- MODULE CNodeProofs ----------------------------
(***************************************************************************)
(* Theorems about the CNode, for any number of Connects, senders and       *)
(* remote nodes.                                                           *)
(***************************************************************************)
EXTENDS CNode, SeqFacts, TLAPS

LEMMA NextSteps ==
    ASSUME [Next]_vars
    PROVE  \/ \E c \in Connects : OwnStep(c) \/ PeerStep(c)
           \/ Close
           \/ \E s \in Senders : SendStep(s)
           \/ UNCHANGED vars
BY DEF Next

(***************************************************************************)
(* Type correctness needs that a socket's owner was given a node, and that *)
(* a goroutine past the start of SendRegSend has a connection to write to. *)
(***************************************************************************)
NodeGiven == \A c \in Connects : pc[c] # "idle" => node[c] \in Nodes
SenderHasConn == \A s \in Senders : send[s].pc # "idle" => send[s].to \in Connects

TypeInv == TypeOK /\ NodeGiven /\ SenderHasConn

LEMMA OwnKeepsTypes == ASSUME TypeInv, NEW c \in Connects, OwnStep(c) PROVE TypeInv'
<1> USE DEF TypeInv, TypeOK, NodeGiven, SenderHasConn, Goto, connectVars, sendVars
<1>1. ASSUME NEW n \in Nodes, Connect(c, n) PROVE TypeInv'
    <2>1. pc' \in [Connects -> {"idle", "lookup", "dial", "name", "status", "challenge", "reply",
                               "ack", "register", "up", "failed", "panicked"}]
        BY <1>1 DEF Connect
    <2>2. \A d \in Connects : d # c => pc'[d] = pc[d]
        BY <1>1 DEF Connect
    <2> QED BY <1>1, <2>1, <2>2 DEF Connect
<1>2. CASE LookupFinds(c) \/ LookupFails(c)
    BY <1>2 DEF LookupFinds, LookupFails
<1>3. CASE Dial(c)
    BY <1>3 DEF Dial
<1>4. CASE sendName(c) \/ sendChallengeReply(c)
    BY <1>4 DEF sendName, sendChallengeReply, Writes
<1>5. CASE recvStatus(c) \/ recvChallenge(c) \/ recvChallengeAck(c)
    <2>1. ASSUME NEW at, NEW good, NEW panics, NEW next \in {"challenge", "reply", "register"},
                 at # "idle", Reads(c, at, good, panics, next)
          PROVE  TypeInv'
        <3>1. /\ pc[c] = at /\ UNCHANGED <<node, peer, wire, conns, registered, sendVars, closes>>
              /\ \/ pc' = [pc EXCEPT ![c] = next] /\ sock' = sock
                 \/ pc' = [pc EXCEPT ![c] = "panicked"] /\ sock' = sock
                 \/ pc' = [pc EXCEPT ![c] = "failed"] /\ sock' = [sock EXCEPT ![c] = "closed"]
            BY <2>1 DEF Reads, Abort
        <3>2. pc' \in [Connects -> {"idle", "lookup", "dial", "name", "status", "challenge", "reply",
                                   "ack", "register", "up", "failed", "panicked"}]
            BY <2>1, <3>1
        <3>3. sock' \in [Connects -> {"none", "open", "closed"}]
            BY <3>1
        <3>4. NodeGiven'
            BY <2>1, <3>1
        <3> QED BY <3>1, <3>2, <3>3, <3>4
    <2> QED BY <1>5, <2>1 DEF recvStatus, recvChallenge, recvChallengeAck
<1>6. CASE HandshakeFails(c)
    BY <1>6 DEF HandshakeFails, Abort
<1>7. CASE Register(c)
    <2>1. registered' \in Seq(Connects)
        BY <1>7 DEF Register
    <2>2. conns' \in [Nodes -> Connects \union {None}]
        BY <1>7 DEF Register
    <2> QED BY <1>7, <2>1, <2>2 DEF Register
<1>8. CASE CloseConn(c)
    BY <1>8 DEF CloseConn
<1> QED BY <1>1, <1>2, <1>3, <1>4, <1>5, <1>6, <1>7, <1>8 DEF OwnStep, ConnectStep

LEMMA OthersKeepTypes ==
    ASSUME TypeInv,
           \/ \E c \in Connects : PeerStep(c)
           \/ Close
           \/ \E s \in Senders : SendStep(s)
           \/ UNCHANGED vars
    PROVE  TypeInv'
<1> USE DEF TypeInv, TypeOK, NodeGiven, SenderHasConn, connectVars, sendVars
<1>1. ASSUME NEW c \in Connects, PeerStep(c) PROVE TypeInv'
    BY <1>1 DEF PeerStep, PeerStatus, PeerChallenge, PeerHangsUp, PeerErrs, PeerAck, Becomes, PeerSteps
<1>2. CASE Close
    BY <1>2, CNodeAssumption DEF Close
<1>3. ASSUME NEW s \in Senders, SendStep(s) PROVE TypeInv'
    <2>1. ASSUME NEW c \in Connects, SendRegSend(s, c) PROVE TypeInv'
        <3>1. sends' = [sends EXCEPT ![s] = sends[s] + 1] /\ sends[s] + 1 \in 0..MaxSends
            BY <2>1, CNodeAssumption DEF SendRegSend
        <3>2. sends' \in [Senders -> 0..MaxSends]
            BY <3>1
        <3> QED BY <2>1, <3>2 DEF SendRegSend
    <2>2. ASSUME NEW l \in {"idle", "hdr", "body"}, At(s, l), send[s].pc # "idle",
                 mu' \in [Connects -> Senders \union {None}],
                 UNCHANGED <<pc, node, sock, peer, conns, registered, sends, closes>>
          PROVE  TypeInv'
        <3>1. PICK a : a = [send[s] EXCEPT !.pc = l]
            OBVIOUS
        <3>2. /\ a \in [pc : {"idle", "lock", "hdr", "body"}, to : Connects \union {None}]
              /\ a.to = send[s].to
            BY <3>1
        <3>3. send' = [send EXCEPT ![s] = a]
            BY <2>2, <3>1 DEF At
        <3>4. send' \in [Senders -> [pc : {"idle", "lock", "hdr", "body"}, to : Connects \union {None}]]
            BY <3>2, <3>3
        <3>5. SenderHasConn'
            BY <2>2, <3>2, <3>3
        <3> QED BY <2>2, <3>4, <3>5
    <2>3. CASE Lock(s)
        <3>1. mu' \in [Connects -> Senders \union {None}]
            BY <2>3 DEF Lock
        <3> QED BY <2>2, <2>3, <3>1 DEF Lock
    <2>4. CASE WriteHeader(s)
        BY <2>2, <2>4 DEF WriteHeader
    <2>5. CASE WritePayload(s) \/ WriteFails(s)
        <3>1. mu' \in [Connects -> Senders \union {None}]
            BY <2>5 DEF WritePayload, WriteFails, Unlock
        <3> QED BY <2>2, <2>5, <3>1 DEF WritePayload, WriteFails
    <2> QED BY <1>3, <2>1, <2>3, <2>4, <2>5 DEF SendStep
<1>4. CASE UNCHANGED vars
    BY <1>4 DEF vars
<1> QED BY <1>1, <1>2, <1>3, <1>4

LEMMA CNodeAlwaysTyped == CNodeSpec => []TypeInv
<1>1. Init => TypeInv
    BY CNodeAssumption DEF Init, TypeInv, TypeOK, NodeGiven, SenderHasConn
<1>2. TypeInv /\ [Next]_vars => TypeInv'
    BY NextSteps, OwnKeepsTypes, OthersKeepTypes
<1> QED BY <1>1, <1>2, PTL DEF CNodeSpec

\* Type correctness: the table names connections only, and every lock is free
\* or held by a sender.
THEOREM CNodeTypeCorrect == CNodeSpec => []TypeOK
BY CNodeAlwaysTyped, PTL DEF TypeInv

-----------------------------------------------------------------------------
(***************************************************************************)
(* The table of connections.  OpenIsKnown needs that no socket exists      *)
(* before the dial, and that every connection was entered once: a later    *)
(* entry of the same name is then the one that replaced it.                *)
(***************************************************************************)
NoSocketYet == \A c \in Connects : pc[c] \in {"idle", "lookup", "dial"} => sock[c] = "none"
UpIsRegistered == \A c \in Connects : pc[c] = "up" => \E i \in DOMAIN registered : registered[i] = c
RegisteredIsUp == \A i \in DOMAIN registered : pc[registered[i]] = "up"

TableInv == NoSocketYet /\ UpIsRegistered /\ RegisteredIsUp /\ OpenIsKnown

Replaced(c) == \E d \in Connects : Before(c, d) /\ node[d] = node[c]

LEMMA TableUnchanged ==
    ASSUME TypeInv, TableInv, UNCHANGED <<conns, registered, node>>,
           \A c \in Connects :
              \/ pc'[c] = pc[c] /\ (sock'[c] = "open" => sock[c] = "open")
                                /\ (sock[c] = "none" => sock'[c] = "none")
              \/ pc[c] # "up" /\ pc'[c] \notin {"up", "idle"} /\ sock'[c] = sock[c]
                 /\ (pc'[c] \in {"lookup", "dial", "failed"} => pc[c] \in {"idle", "lookup", "dial"})
              \/ pc[c] # "up" /\ pc'[c] = "failed" /\ sock'[c] = "closed"
              \/ pc[c] = "dial" /\ pc'[c] = "name"
    PROVE  TableInv'
<1> USE DEF TypeInv, TypeOK
<1>0. \A i \in DOMAIN registered : registered[i] \in Connects
    BY ElementType
<1>1. NoSocketYet' /\ UpIsRegistered' /\ RegisteredIsUp'
    <2>1. RegisteredIsUp'
        <3>1. \A i \in DOMAIN registered : pc[registered[i]] = "up"
            BY DEF TableInv, RegisteredIsUp
        <3>2. \A i \in DOMAIN registered : pc'[registered[i]] = "up"
            BY <1>0, <3>1
        <3> QED BY <3>2 DEF RegisteredIsUp
    <2>2. NoSocketYet'
        BY DEF TableInv, NoSocketYet
    <2>3. UpIsRegistered'
        <3>1. \A c \in Connects : pc'[c] = "up" => pc[c] = "up"
            OBVIOUS
        <3> QED BY <3>1 DEF TableInv, UpIsRegistered
    <2> QED BY <2>1, <2>2, <2>3
<1>2. \A c, d \in Connects : Before(c, d)' = Before(c, d)
    BY DEF Before
<1>3. \A n \in Nodes : conns'[n] # None => pc'[conns'[n]] = "up" /\ node'[conns'[n]] = n
    BY DEF TableInv, OpenIsKnown
<1>4. ASSUME NEW c \in Connects, sock'[c] = "open", Returned(c)'
      PROVE  Returned(c) /\ sock[c] = "open"
    BY <1>4 DEF TableInv, NoSocketYet, Returned
<1>5. OpenIsKnown'
    BY <1>2, <1>3, <1>4 DEF TableInv, OpenIsKnown
<1> QED BY <1>1, <1>5 DEF TableInv

LEMMA RegisterKeepsTable ==
    ASSUME TypeInv, TableInv, NEW c \in Connects, Register(c) PROVE TableInv'
<1> USE DEF TypeInv, TypeOK
<1>1. /\ pc[c] = "register" /\ pc' = [pc EXCEPT ![c] = "up"] /\ UNCHANGED <<node, sock>>
      /\ conns' = [conns EXCEPT ![node[c]] = c] /\ registered' = Append(registered, c)
    BY DEF Register, Goto
<1>2. node[c] \in Nodes
    BY <1>1 DEF NodeGiven
<1>3. /\ Len(registered) \in Nat /\ Len(registered') = Len(registered) + 1
      /\ registered'[Len(registered) + 1] = c
      /\ \A i \in 1..Len(registered) : registered'[i] = registered[i]
      /\ DOMAIN registered = 1..Len(registered) /\ DOMAIN registered' = 1..Len(registered')
    <2>1. registered' \in Seq(Connects)
        BY <1>1
    <2> QED BY <1>1, <2>1, AppendFacts
<1>4. \A i \in DOMAIN registered : i \in DOMAIN registered' /\ registered'[i] = registered[i] /\ i < Len(registered) + 1
    BY <1>3
<1>5. Len(registered) + 1 \in DOMAIN registered'
    BY <1>3
<1>6. NoSocketYet' /\ UpIsRegistered' /\ RegisteredIsUp'
    <2>1. \A i \in DOMAIN registered : registered[i] \in Connects
        BY <1>3, ElementType
    <2>2. \A i \in DOMAIN registered' : i \in DOMAIN registered \/ i = Len(registered) + 1
        BY <1>3
    <2>3. RegisteredIsUp'
        <3>1. \A i \in DOMAIN registered : pc[registered[i]] = "up"
            BY DEF TableInv, RegisteredIsUp
        <3>2. \A d \in Connects : pc[d] = "up" \/ d = c => pc'[d] = "up"
            BY <1>1
        <3> QED BY <1>3, <1>4, <2>1, <2>2, <3>1, <3>2 DEF RegisteredIsUp
    <2>4. NoSocketYet'
        BY <1>1 DEF TableInv, NoSocketYet
    <2>5. UpIsRegistered'
        <3>1. \A d \in Connects : pc'[d] = "up" => d = c \/ pc[d] = "up"
            BY <1>1
        <3> QED BY <1>3, <1>4, <1>5, <3>1 DEF TableInv, UpIsRegistered
    <2> QED BY <2>3, <2>4, <2>5
<1>7. \A e, d \in Connects : Before(e, d) => Before(e, d)'
    BY <1>4 DEF Before
<1>8. \A e \in Connects : pc[e] = "up" => Before(e, c)'
    BY <1>3, <1>4, <1>5 DEF TableInv, UpIsRegistered, Before
<1>9. ASSUME NEW e \in Connects, sock'[e] = "open"
      PROVE  ~Returned(e)' \/ conns'[node'[e]] = e \/ Replaced(e)'
    <2>1. CASE e = c
        BY <1>1, <1>2, <2>1
    <2>2. CASE e # c /\ ~Returned(e)
        BY <1>1, <2>2 DEF Returned
    <2>3. CASE e # c /\ Replaced(e)
        BY <1>1, <1>7, <2>3 DEF Replaced
    <2>4. CASE e # c /\ conns[node[e]] = e /\ Returned(e)
        <3>1. node[e] \in Nodes
            BY <2>4 DEF NodeGiven, Returned
        <3>2. pc[e] = "up"
            BY <2>4, <3>1, CNodeAssumption DEF TableInv, OpenIsKnown
        <3>3. CASE node[e] = node[c]
            BY <1>1, <1>8, <3>2, <3>3 DEF Replaced
        <3>4. CASE node[e] # node[c]
            BY <1>1, <2>4, <3>1, <3>4
        <3> QED BY <3>3, <3>4
    <2> QED BY <1>1, <1>9, <2>1, <2>2, <2>3, <2>4 DEF TableInv, OpenIsKnown, Replaced
<1>10. \A n \in Nodes : conns'[n] # None => pc'[conns'[n]] = "up" /\ node'[conns'[n]] = n
    BY <1>1, <1>2 DEF TableInv, OpenIsKnown
<1>11. OpenIsKnown'
    BY <1>9, <1>10 DEF OpenIsKnown, Replaced
<1> QED BY <1>6, <1>11 DEF TableInv

LEMMA CloseKeepsTable == ASSUME TypeInv, TableInv, Close PROVE TableInv'
<1> USE DEF TypeInv, TypeOK
<1>1. UNCHANGED <<pc, node, registered>> /\ conns' = [n \in Nodes |-> None]
    BY DEF Close
<1>2. \A c \in Connects : sock'[c] = IF \E n \in Nodes : conns[n] = c THEN "closed" ELSE sock[c]
    BY DEF Close
<1>3. \A c, d \in Connects : Before(c, d)' = Before(c, d)
    BY <1>1 DEF Before
<1>4. NoSocketYet'
    <2>1. \A n \in Nodes, c \in Connects : conns[n] = c => pc[c] = "up"
        BY CNodeAssumption DEF TableInv, OpenIsKnown
    <2> QED BY <1>1, <1>2, <2>1 DEF TableInv, NoSocketYet
<1>5. UpIsRegistered' /\ RegisteredIsUp'
    BY <1>1 DEF TableInv, UpIsRegistered, RegisteredIsUp
<1>6. ASSUME NEW c \in Connects, sock'[c] = "open", Returned(c)'
      PROVE  Replaced(c)'
    <2>1. sock[c] = "open" /\ Returned(c) /\ \A n \in Nodes : conns[n] # c
        BY <1>1, <1>2, <1>6 DEF Returned
    <2>2. node[c] \in Nodes
        BY <2>1 DEF NodeGiven, Returned
    <2> QED BY <1>1, <1>3, <2>1, <2>2 DEF TableInv, OpenIsKnown, Replaced
<1>7. OpenIsKnown'
    BY <1>1, <1>6 DEF OpenIsKnown, Replaced
<1> QED BY <1>4, <1>5, <1>7 DEF TableInv

LEMMA ConnectKeepsTable ==
    ASSUME TypeInv, TableInv, NEW c \in Connects, NEW n \in Nodes, Connect(c, n) PROVE TableInv'
<1> USE DEF TypeInv, TypeOK
<1>1. /\ pc[c] = "idle" /\ pc'[c] \in {"lookup", "dial"} /\ UNCHANGED <<sock, conns, registered>>
      /\ \A d \in Connects : d # c => pc'[d] = pc[d] /\ node'[d] = node[d]
    BY DEF Connect, Goto
<1>2. NoSocketYet' /\ UpIsRegistered' /\ RegisteredIsUp'
    <2>1. \A i \in DOMAIN registered : registered[i] \in Connects
        BY ElementType
    <2>2. RegisteredIsUp'
        <3>1. \A i \in DOMAIN registered : pc[registered[i]] = "up"
            BY DEF TableInv, RegisteredIsUp
        <3> QED BY <1>1, <2>1, <3>1 DEF RegisteredIsUp
    <2> QED BY <1>1, <2>2 DEF TableInv, NoSocketYet, UpIsRegistered
<1>3. \A e, d \in Connects : Before(e, d)' = Before(e, d) /\ (Before(e, d) => e # c /\ d # c)
    BY <1>1 DEF Before, TableInv, RegisteredIsUp
<1>4. \A m \in Nodes : conns[m] # None => conns[m] # c /\ conns[m] \in Connects
    BY <1>1 DEF TableInv, OpenIsKnown
<1>5. ASSUME NEW e \in Connects, sock'[e] = "open", Returned(e)'
      PROVE  conns'[node'[e]] = e \/ Replaced(e)'
    <2>1. e # c /\ sock[e] = "open" /\ Returned(e)
        BY <1>1, <1>5 DEF Returned
    <2>2. CASE conns[node[e]] = e
        BY <1>1, <2>1, <2>2
    <2>3. CASE Replaced(e)
        BY <1>1, <1>3, <2>1, <2>3 DEF Replaced
    <2> QED BY <2>1, <2>2, <2>3 DEF TableInv, OpenIsKnown, Replaced
<1>6. \A m \in Nodes : conns'[m] # None => pc'[conns'[m]] = "up" /\ node'[conns'[m]] = m
    BY <1>1, <1>4 DEF TableInv, OpenIsKnown
<1>7. OpenIsKnown'
    BY <1>5, <1>6 DEF OpenIsKnown, Replaced
<1> QED BY <1>2, <1>7 DEF TableInv

LEMMA CNodeStepTable == TypeInv /\ TableInv /\ [Next]_vars => TableInv'
<1> SUFFICES ASSUME TypeInv, TableInv, [Next]_vars PROVE TableInv'
    OBVIOUS
<1>0. TypeOK
    BY DEF TypeInv
<1>1. ASSUME NEW c \in Connects, OwnStep(c) PROVE TableInv'
    <2>1. CASE \E n \in Nodes : Connect(c, n)
        BY <2>1, ConnectKeepsTable
    <2>2. CASE Register(c)
        BY <2>2, RegisterKeepsTable
    <2>3. CASE LookupFinds(c) \/ LookupFails(c) \/ Dial(c) \/ sendName(c) \/ sendChallengeReply(c)
              \/ recvStatus(c) \/ recvChallenge(c) \/ recvChallengeAck(c) \/ HandshakeFails(c)
              \/ CloseConn(c)
        <3> USE DEF LookupFinds, LookupFails, Dial, sendName, sendChallengeReply, Writes,
                recvStatus, recvChallenge, recvChallengeAck, Reads, HandshakeFails, CloseConn,
                Abort, Goto
        <3>1. UNCHANGED <<conns, registered, node>>
            BY <2>3
        <3>2. \A d \in Connects : d # c => pc'[d] = pc[d] /\ sock'[d] = sock[d]
            BY <1>0, <2>3 DEF TypeOK
        <3>3. \/ pc'[c] = pc[c] /\ sock[c] = "open" /\ sock'[c] = "closed"
              \/ /\ pc[c] # "up" /\ pc'[c] \notin {"up", "idle"} /\ sock'[c] = sock[c]
                 /\ pc'[c] \in {"lookup", "dial", "failed"} => pc[c] \in {"idle", "lookup", "dial"}
              \/ pc[c] # "up" /\ pc'[c] = "failed" /\ sock'[c] = "closed"
              \/ pc[c] = "dial" /\ pc'[c] = "name"
            BY <1>0, <2>3 DEF TypeOK
        <3> QED BY <3>1, <3>2, <3>3, TableUnchanged
    <2> QED BY <1>1, <2>1, <2>2, <2>3 DEF OwnStep, ConnectStep
<1>2. CASE Close
    BY <1>2, CloseKeepsTable
<1>3. CASE UNCHANGED <<pc, node, sock, conns, registered>>
    BY <1>3, TableUnchanged
<1>4. ASSUME NEW c \in Connects, PeerStep(c) PROVE UNCHANGED <<pc, node, sock, conns, registered>>
    BY <1>4 DEF PeerStep, PeerStatus, PeerChallenge, PeerHangsUp, PeerErrs, PeerAck, PeerSteps
<1>5. ASSUME NEW s \in Senders, SendStep(s) PROVE UNCHANGED <<pc, node, sock, conns, registered>>
    BY <1>5 DEF SendStep, SendRegSend, Lock, WriteHeader, WritePayload, WriteFails, connectVars
<1>6. UNCHANGED vars => UNCHANGED <<pc, node, sock, conns, registered>>
    BY DEF vars
<1> QED BY NextSteps, <1>1, <1>2, <1>3, <1>4, <1>5, <1>6

\* However Connects, Closes and hang-ups interleave: an open socket belongs to a
\* Connect under way, is in the table, or was replaced there by a later Connect
\* to the same name; and the table holds no connection under a wrong name.
THEOREM CNodeOpenIsKnown == CNodeSpec => []OpenIsKnown
<1>1. Init => TableInv
    BY DEF Init, TableInv, NoSocketYet, UpIsRegistered, RegisteredIsUp, OpenIsKnown
<1>2. TableInv => OpenIsKnown
    BY DEF TableInv
<1> QED BY <1>1, <1>2, CNodeAlwaysTyped, CNodeStepTable, PTL DEF CNodeSpec

-----------------------------------------------------------------------------
(***************************************************************************)
(* The handshake.  That a message goes only to a node that knows our       *)
(* cookie rests on every ack of the peer being its answer to our own       *)
(* challenge, hence on how far our side has written when it answers.  Once *)
(* the peer is gone, what we write is lost.                                *)
(***************************************************************************)
WireFrames ==
    {Name} \union {Reply(c) : c \in Connects}
    \union {Part(k, s) : k \in {"hdr", "body"}, s \in Senders}

HeardFrames ==
    {[k |-> "status", status |-> st] : st \in Statuses}
    \union {[k |-> "challenge", challenge |-> Theirs(c)] : c \in Connects}
    \union {[k |-> "ack", digest |-> computeDigest(CookieOf[n], Ours(c))] : n \in Nodes, c \in Connects}
    \union {[k |-> k] : k \in {"empty", "other"}}

QueueTypes == wire \in [Connects -> Seq(WireFrames)] /\ heard \in [Connects -> Seq(HeardFrames)]

Alive(c) == peer[c] # "gone"

Dialled(c) ==
    /\ pc[c] \in {"idle", "lookup", "dial"} => peer[c] = "none"
    /\ pc[c] \in {"name", "status", "challenge", "reply", "ack", "register", "up"} => peer[c] # "none"
    /\ peer[c] = "none" => wire[c] = <<>> /\ heard[c] = <<>>

Wrote(c) ==
    /\ pc[c] = "name" => Len(wire[c]) = 0
    /\ pc[c] \in {"status", "challenge", "reply"} => Len(wire[c]) <= 1 /\ (Alive(c) => Len(wire[c]) = 1)
    /\ pc[c] \in {"ack", "register"} => Len(wire[c]) <= 2 /\ (Alive(c) => Len(wire[c]) = 2)
    /\ pc[c] \in {"failed", "panicked"} => Len(wire[c]) <= 2
    /\ pc[c] = "up" /\ Alive(c) => Len(wire[c]) >= 2
    /\ Len(wire[c]) >= 1 => wire[c][1] = Name
    /\ Len(wire[c]) >= 2 => wire[c][2] = Reply(c)

AckGenuine(c) ==
    \A i \in 1..Len(heard[c]) :
        heard[c][i].k = "ack" => heard[c][i].digest = computeDigest(CookieOf[node[c]], Ours(c))

CookieKnown(c) == pc[c] \in {"register", "up"} => CookieOf[node[c]] = Cookie

ConnInv(c) == Dialled(c) /\ Wrote(c) /\ AckGenuine(c) /\ CookieKnown(c)

HandshakeInv == QueueTypes /\ \A c \in Connects : ConnInv(c)

SameConn(c) ==
    /\ pc'[c] = pc[c] /\ node'[c] = node[c] /\ peer'[c] = peer[c]
    /\ wire'[c] = wire[c] /\ heard'[c] = heard[c]

LEMMA FramesTyped ==
    /\ Name \in WireFrames
    /\ \A c \in Connects : Reply(c) \in WireFrames
    /\ \A k \in {"hdr", "body"}, s \in Senders : Part(k, s) \in WireFrames
    /\ \A st \in Statuses : [k |-> "status", status |-> st] \in HeardFrames
    /\ \A c \in Connects : [k |-> "challenge", challenge |-> Theirs(c)] \in HeardFrames
    /\ \A n \in Nodes, c \in Connects :
          [k |-> "ack", digest |-> computeDigest(CookieOf[n], Ours(c))] \in HeardFrames
    /\ \A k \in {"empty", "other"} : [k |-> k] \in HeardFrames
BY DEF WireFrames, HeardFrames

LEMMA ConnUnchanged == ASSUME NEW c, ConnInv(c), SameConn(c) PROVE ConnInv(c)'
<1>1. Dialled(c)' /\ CookieKnown(c)'
    BY DEF ConnInv, Dialled, CookieKnown, SameConn
<1>2. Wrote(c)'
    BY DEF ConnInv, Wrote, Alive, SameConn
<1>4. AckGenuine(c)'
    BY DEF ConnInv, AckGenuine, SameConn
<1> QED BY <1>1, <1>2, <1>4 DEF ConnInv

\* A step of one connection: its own invariant is all there is to show.
LEMMA OneConn ==
    ASSUME HandshakeInv, NEW c \in Connects, QueueTypes', ConnInv(c)',
           \A d \in Connects : d # c => SameConn(d)
    PROVE  HandshakeInv'
BY ConnUnchanged DEF HandshakeInv

LEMMA StartKeepsHandshake ==
    ASSUME TypeInv, HandshakeInv, NEW c \in Connects,
           (\E n \in Nodes : Connect(c, n)) \/ LookupFinds(c) \/ LookupFails(c) \/ Dial(c)
    PROVE  HandshakeInv'
<1> USE DEF Connect, LookupFinds, LookupFails, Dial, Goto
<1>1. UNCHANGED <<wire, heard>> /\ wire[c] = <<>> /\ heard[c] = <<>> /\ peer[c] = "none"
    BY DEF HandshakeInv, ConnInv, Dialled
<1>2. QueueTypes'
    BY <1>1 DEF HandshakeInv, QueueTypes
<1>3. \A d \in Connects : d # c => SameConn(d)
    BY <1>1 DEF SameConn, TypeInv, TypeOK
<1>4. \/ pc'[c] \in {"lookup", "dial", "failed"} /\ peer'[c] = "none"
      \/ pc'[c] = "name" /\ peer'[c] = "accepted"
    BY <1>1 DEF TypeInv, TypeOK
<1>5. ConnInv(c)'
    BY <1>1, <1>4 DEF ConnInv, Dialled, Wrote, Alive, AckGenuine, CookieKnown
<1> QED BY <1>2, <1>3, <1>5, OneConn

\* sendName and sendChallengeReply: the frame arrives or is lost.
LEMMA WriteKeepsHandshake ==
    ASSUME TypeInv, HandshakeInv, NEW c \in Connects, sendName(c) \/ sendChallengeReply(c)
    PROVE  HandshakeInv'
<1>1. PICK f \in WireFrames :
          /\ Written(c, f)
          /\ \/ pc[c] = "name" /\ f = Name /\ pc'[c] = "status"
             \/ pc[c] = "reply" /\ f = Reply(c) /\ pc'[c] = "ack"
    BY FramesTyped DEF sendName, sendChallengeReply, Writes, Goto, TypeInv, TypeOK
<1>2. UNCHANGED <<node, peer, heard>> /\ \A d \in Connects : d # c => pc'[d] = pc[d]
    BY DEF sendName, sendChallengeReply, Writes, Goto, TypeInv, TypeOK
<1>3. /\ wire'[c] = IF Alive(c) THEN Append(wire[c], f) ELSE wire[c]
      /\ \A d \in Connects : d # c => wire'[d] = wire[d]
      /\ wire[c] \in Seq(WireFrames) /\ DOMAIN wire' = Connects /\ wire' \in [Connects -> Seq(WireFrames)]
    <2>1. wire \in [Connects -> Seq(WireFrames)] /\ wire[c] \in Seq(WireFrames)
        BY DEF HandshakeInv, QueueTypes
    <2>2. Append(wire[c], f) \in Seq(WireFrames)
        BY <2>1, AppendFacts
    <2>3. CASE Alive(c)
        <3>1. wire' = [wire EXCEPT ![c] = Append(wire[c], f)]
            BY <1>1, <2>3 DEF Written, Alive
        <3> QED BY <2>1, <2>2, <2>3, <3>1
    <2>4. CASE ~Alive(c)
        BY <1>1, <2>1, <2>4 DEF Written, Alive
    <2> QED BY <2>3, <2>4
<1>4. Wrote(c)'
    <2> DEFINE w == wire[c]
    <2>0. ConnInv(c)
        BY DEF HandshakeInv
    <2>1. CASE ~Alive(c)
        BY <1>1, <1>2, <1>3, <2>0, <2>1 DEF ConnInv, Wrote, Alive
    <2>2. CASE Alive(c)
        <3>1. /\ Len(wire'[c]) = Len(w) + 1 /\ wire'[c][Len(w) + 1] = f
              /\ \A i \in 1..Len(w) : wire'[c][i] = w[i]
            BY <1>3, <2>2, AppendFacts
        <3>2. CASE pc[c] = "name"
            BY <1>1, <1>2, <2>0, <2>2, <3>1, <3>2 DEF ConnInv, Wrote, Alive
        <3>3. CASE pc[c] = "reply"
            <4>1. Len(w) = 1 /\ w[1] = Name
                BY <2>0, <2>2, <3>3 DEF ConnInv, Wrote
            <4>2. Len(wire'[c]) = 2 /\ wire'[c][1] = Name /\ wire'[c][2] = Reply(c) /\ pc'[c] = "ack"
                BY <1>1, <3>1, <3>3, <4>1
            <4> QED BY <4>2 DEF Wrote
        <3> QED BY <1>1, <3>2, <3>3
    <2> QED BY <2>1, <2>2
<1>5. ConnInv(c)'
    <2>0. ConnInv(c)
        BY DEF HandshakeInv
    <2> QED BY <1>1, <1>2, <1>4, <2>0
            DEF ConnInv, Dialled, AckGenuine, CookieKnown
<1>6. QueueTypes' /\ \A d \in Connects : d # c => SameConn(d)
    BY <1>2, <1>3 DEF HandshakeInv, QueueTypes, SameConn
<1> QED BY <1>5, <1>6, OneConn

\* A read of the handshake; it goes on to "register" only with a genuine ack.
LEMMA ReadKeepsHandshake ==
    ASSUME TypeInv, HandshakeInv, NEW c \in Connects,
           recvStatus(c) \/ recvChallenge(c) \/ recvChallengeAck(c)
    PROVE  HandshakeInv'
<1> DEFINE h == heard[c]
<1>0. ConnInv(c) /\ h \in Seq(HeardFrames)
    BY DEF HandshakeInv, QueueTypes
<1>1. /\ h # <<>> /\ heard' = [heard EXCEPT ![c] = Tail(h)]
      /\ UNCHANGED <<node, peer, wire>> /\ \A d \in Connects : d # c => pc'[d] = pc[d]
    BY DEF recvStatus, recvChallenge, recvChallengeAck, Reads, Abort, Goto, TypeInv, TypeOK
<1>2. \/ pc[c] = "status" /\ pc'[c] = "challenge"
      \/ pc[c] = "challenge" /\ pc'[c] = "reply"
      \/ /\ pc[c] = "ack" /\ pc'[c] = "register"
         /\ Head(h).k = "ack" /\ Head(h).digest = computeDigest(Cookie, Ours(c))
      \/ pc[c] \in {"status", "challenge", "ack"} /\ pc'[c] \in {"failed", "panicked"}
    BY DEF recvStatus, recvChallenge, recvChallengeAck, Reads, NextIs, Abort, Goto, TypeInv, TypeOK
<1>3. /\ heard'[c] \in Seq(HeardFrames) /\ Len(heard'[c]) = Len(h) - 1 /\ Len(h) \in Nat \ {0}
      /\ \A i \in 1..Len(heard'[c]) : heard'[c][i] = h[i + 1] /\ i + 1 \in 1..Len(h)
      /\ Head(h) = h[1] /\ 1 \in 1..Len(h)
    <2>1. heard'[c] = Tail(h)
        BY <1>1 DEF HandshakeInv, QueueTypes
    <2> HIDE DEF h
    <2>2. h # <<>>
        BY <1>1
    <2> QED BY <1>0, <2>1, <2>2, TailType
<1>4. QueueTypes' /\ \A d \in Connects : d # c => SameConn(d)
    BY <1>1, <1>3 DEF HandshakeInv, QueueTypes, SameConn
<1>7. AckGenuine(c)'
    BY <1>0, <1>1, <1>3 DEF ConnInv, AckGenuine
<1>8. CookieKnown(c)'
    <2>1. CASE pc[c] = "ack" /\ pc'[c] = "register"
        <3>1. h[1].k = "ack"
            BY <1>2, <1>3, <2>1
        <3>2. computeDigest(CookieOf[node[c]], Ours(c)) = computeDigest(Cookie, Ours(c))
            BY <1>0, <1>2, <1>3, <2>1, <3>1 DEF ConnInv, AckGenuine
        <3> QED BY <1>1, <3>2 DEF CookieKnown, computeDigest
    <2> QED BY <1>2, <2>1 DEF CookieKnown
<1>9. Dialled(c)' /\ Wrote(c)'
    BY <1>0, <1>1, <1>2, <1>3 DEF ConnInv, Dialled, Wrote, Alive
<1> QED BY <1>4, <1>7, <1>8, <1>9, OneConn DEF ConnInv

\* The handshake ends, well or badly; the queues stay as they are.
LEMMA EndKeepsHandshake ==
    ASSUME TypeInv, HandshakeInv, NEW c \in Connects, HandshakeFails(c) \/ Register(c)
    PROVE  HandshakeInv'
<1>1. /\ UNCHANGED <<node, peer, wire, heard>> /\ \A d \in Connects : d # c => pc'[d] = pc[d]
      /\ \/ pc[c] \in {"name", "status", "challenge", "reply", "ack"} /\ pc'[c] = "failed"
         \/ pc[c] = "register" /\ pc'[c] = "up"
    BY DEF HandshakeFails, Register, Abort, Goto, TypeInv, TypeOK
<1>2. QueueTypes' /\ \A d \in Connects : d # c => SameConn(d)
    BY <1>1 DEF HandshakeInv, QueueTypes, SameConn
<1>3. ConnInv(c) /\ Len(wire[c]) \in Nat
    BY DEF HandshakeInv, QueueTypes
<1>4. Dialled(c)' /\ CookieKnown(c)' /\ AckGenuine(c)'
    BY <1>1, <1>3 DEF ConnInv, Dialled, CookieKnown, AckGenuine
<1>5. Wrote(c)'
    BY <1>1, <1>3 DEF ConnInv, Wrote, Alive
<1> QED BY <1>2, <1>4, <1>5, OneConn DEF ConnInv

\* A frame of the peer: if it is an ack, it answers our challenge.
LEMMA AnswerKeepsHandshake ==
    ASSUME TypeInv, HandshakeInv, NEW c \in Connects, NEW f \in HeardFrames, NEW to,
           Answers(c, f), Becomes(c, to), PeerSteps(c),
           peer[c] \notin {"none", "gone"}, to # "none",
           f.k = "ack" => f.digest = computeDigest(CookieOf[node[c]], Ours(c))
    PROVE  HandshakeInv'
<1> DEFINE h == heard[c]
<1>0. ConnInv(c) /\ h \in Seq(HeardFrames) /\ Len(wire[c]) \in Nat
    BY DEF HandshakeInv, QueueTypes
<1>1. UNCHANGED <<pc, node, wire>> /\ heard' = [heard EXCEPT ![c] = Append(h, f)] /\ peer'[c] = to
      /\ \A d \in Connects : d # c => peer'[d] = peer[d]
    BY DEF Answers, Becomes, PeerSteps, TypeInv, TypeOK
<1>2. /\ heard'[c] \in Seq(HeardFrames) /\ Len(heard'[c]) = Len(h) + 1 /\ Len(h) \in Nat
      /\ \A i \in 1..Len(h) : heard'[c][i] = h[i]
      /\ heard'[c][Len(h) + 1] = f
    <2>1. heard'[c] = Append(h, f)
        BY <1>1 DEF HandshakeInv, QueueTypes
    <2> HIDE DEF h
    <2> QED BY <1>0, <2>1, AppendFacts
<1>3. QueueTypes' /\ \A d \in Connects : d # c => SameConn(d)
    BY <1>1, <1>2 DEF HandshakeInv, QueueTypes, SameConn
<1>4. Dialled(c)' /\ CookieKnown(c)'
    BY <1>0, <1>1 DEF ConnInv, Dialled, CookieKnown
<1>5. Wrote(c)'
    BY <1>0, <1>1 DEF ConnInv, Wrote, Alive
<1>6. \A i \in 1..Len(heard'[c]) : i \in 1..Len(h) \/ i = Len(h) + 1
    BY <1>2
<1>7. AckGenuine(c)'
    BY <1>0, <1>1, <1>2, <1>6 DEF ConnInv, AckGenuine
<1> QED BY <1>3, <1>4, <1>5, <1>7, OneConn DEF ConnInv

LEMMA PeerKeepsHandshake ==
    ASSUME TypeInv, HandshakeInv, NEW c \in Connects, PeerStep(c)
    PROVE  HandshakeInv'
<1>1. ASSUME NEW st \in Statuses, PeerStatus(c, st) PROVE HandshakeInv'
    BY <1>1, FramesTyped, AnswerKeepsHandshake DEF PeerStatus
<1>2. CASE PeerChallenge(c)
    BY <1>2, FramesTyped, AnswerKeepsHandshake DEF PeerChallenge
<1>3. ASSUME NEW checks \in BOOLEAN, PeerAck(c, checks) PROVE HandshakeInv'
    <2>1. wire[c][2] = Reply(c)
        BY <1>3 DEF PeerAck, HandshakeInv, ConnInv, Wrote
    <2>2. wire[c][2].challenge = Ours(c)
        BY <2>1 DEF Reply
    <2>3. node[c] \in Nodes
        <3>1. pc[c] # "idle"
            BY <1>3 DEF PeerAck, HandshakeInv, ConnInv, Dialled
        <3> QED BY <3>1 DEF TypeInv, NodeGiven
    <2> DEFINE f == [k |-> "ack", digest |-> computeDigest(CookieOf[node[c]], Ours(c))]
    <2>4. f \in HeardFrames /\ f.k = "ack" /\ f.digest = computeDigest(CookieOf[node[c]], Ours(c))
        BY <2>3, FramesTyped
    <2>5. Answers(c, f) /\ Becomes(c, "up") /\ PeerSteps(c) /\ peer[c] = "challenged"
        BY <1>3, <2>2 DEF PeerAck
    <2> HIDE DEF f
    <2> QED BY <2>4, <2>5, AnswerKeepsHandshake
<1>4. CASE PeerHangsUp(c)
    <2>1. UNCHANGED <<pc, node, wire, heard>> /\ peer'[c] = "gone" /\ peer[c] # "none"
          /\ \A d \in Connects : d # c => peer'[d] = peer[d]
        BY <1>4 DEF PeerHangsUp, Becomes, PeerSteps, TypeInv, TypeOK
    <2>2. QueueTypes' /\ \A d \in Connects : d # c => SameConn(d)
        BY <2>1 DEF HandshakeInv, QueueTypes, SameConn
    <2>3. ConnInv(c) /\ Len(wire[c]) \in Nat
        BY DEF HandshakeInv, QueueTypes
    <2>5. ConnInv(c)'
        BY <2>1, <2>3 DEF ConnInv, Dialled, Wrote, Alive, AckGenuine, CookieKnown
    <2> QED BY <2>2, <2>5, OneConn
<1>5. ASSUME NEW k \in {"empty", "other"}, PeerErrs(c, k) PROVE HandshakeInv'
    BY <1>5, FramesTyped, AnswerKeepsHandshake DEF PeerErrs
<1> QED BY <1>1, <1>2, <1>3, <1>4, <1>5 DEF PeerStep

-----------------------------------------------------------------------------
(***************************************************************************)
(* Sending.  DistConn.mu keeps header and payload together, so that on an  *)
(* open connection only the sender at its payload has an open frame.       *)
(***************************************************************************)
Writing(s, c) == send[s].to = c /\ send[s].pc \in {"hdr", "body"}
AtPayload(s, c) == send[s].to = c /\ send[s].pc = "body"

SendersInv ==
    /\ \A s \in Senders : send[s].pc # "idle" => pc[send[s].to] = "up"
    /\ \A s \in Senders, c \in Connects : mu[c] = s <=> Writing(s, c)

Paired(c) ==
    \A i \in 3..Len(wire[c]) :
        IF i % 2 = 1 THEN wire[c][i].k = "hdr" ELSE wire[c][i] = Part("body", wire[c][i - 1].of)

OpenFrame(c) ==
    pc[c] = "up" /\ sock[c] = "open" /\ Alive(c) =>
        /\ Len(wire[c]) % 2 = 1 => \E s \in Senders : AtPayload(s, c)
        /\ \A s \in Senders : AtPayload(s, c) =>
              Len(wire[c]) % 2 = 1 /\ wire[c][Len(wire[c])].of = s

SendInv == SendersInv /\ \A c \in Connects : Paired(c) /\ OpenFrame(c)

ProtocolInv == TypeInv /\ HandshakeInv /\ SendInv

LEMMA ProtocolImplies == ProtocolInv => SpeaksProtocol
<1> SUFFICES ASSUME ProtocolInv, NEW c \in Connects
             PROVE  /\ Len(wire[c]) >= 1 => wire[c][1] = Name
                    /\ Len(wire[c]) >= 2 => wire[c][2] = Reply(c)
                    /\ \A i \in 3..Len(wire[c]) :
                          IF i % 2 = 1 THEN wire[c][i].k = "hdr"
                                       ELSE wire[c][i] = Part("body", wire[c][i - 1].of)
                    /\ pc[c] \in {"register", "up"} \/ Len(wire[c]) >= 3 => CookieOf[node[c]] = Cookie
    BY DEF SpeaksProtocol
<1>1. ConnInv(c) /\ Paired(c) /\ Len(wire[c]) \in Nat
    BY DEF ProtocolInv, HandshakeInv, QueueTypes, SendInv
<1>2. Len(wire[c]) >= 3 => pc[c] = "up"
    <2>1. pc[c] \in {"idle", "lookup", "dial"} => Len(wire[c]) = 0
        BY <1>1 DEF ConnInv, Dialled
    <2> QED BY <1>1, <2>1 DEF ConnInv, Wrote, ProtocolInv, TypeInv, TypeOK
<1> QED BY <1>1, <1>2 DEF ConnInv, Wrote, CookieKnown, Paired

\* What a sender writes arrives behind the frames that are there, or is lost.
LEMMA WrittenFacts ==
    ASSUME HandshakeInv, NEW c \in Connects, NEW f \in WireFrames, Written(c, f)
    PROVE  /\ wire' \in [Connects -> Seq(WireFrames)]
           /\ \A d \in Connects : d # c => wire'[d] = wire[d]
           /\ ~Alive(c) => wire'[c] = wire[c]
           /\ Alive(c) => /\ Len(wire'[c]) = Len(wire[c]) + 1 /\ wire'[c][Len(wire[c]) + 1] = f
                          /\ \A i \in 1..Len(wire[c]) : wire'[c][i] = wire[c][i]
<1>1. wire \in [Connects -> Seq(WireFrames)] /\ wire[c] \in Seq(WireFrames)
    BY DEF HandshakeInv, QueueTypes
<1>2. CASE Alive(c)
    <2>1. wire' = [wire EXCEPT ![c] = Append(wire[c], f)]
        BY <1>2 DEF Written, Alive
    <2>2. wire'[c] = Append(wire[c], f)
        BY <1>1, <2>1
    <2>3. Append(wire[c], f) \in Seq(WireFrames)
        BY <1>1, AppendFacts
    <2>4. /\ Len(wire'[c]) = Len(wire[c]) + 1 /\ wire'[c][Len(wire[c]) + 1] = f
          /\ \A i \in 1..Len(wire[c]) : wire'[c][i] = wire[c][i]
        BY <1>1, <2>2, AppendFacts
    <2> QED BY <1>1, <1>2, <2>1, <2>3, <2>4
<1>3. CASE ~Alive(c)
    BY <1>1, <1>3 DEF Written, Alive
<1> QED BY <1>2, <1>3

\* A sender adds to the wire of a connection whose handshake is over.
LEMMA SendKeepsHandshake ==
    ASSUME HandshakeInv, NEW c \in Connects, NEW f \in WireFrames, Written(c, f),
           pc[c] = "up", UNCHANGED <<pc, node, peer, heard>>
    PROVE  HandshakeInv'
<1>1. QueueTypes' /\ \A d \in Connects : d # c => SameConn(d)
    BY WrittenFacts DEF HandshakeInv, QueueTypes, SameConn
<1>2. ConnInv(c) /\ Len(wire[c]) \in Nat
    BY DEF HandshakeInv, QueueTypes
<1>3. Wrote(c)'
    <2>1. CASE ~Alive(c)
        <3>1. wire'[c] = wire[c]
            BY <2>1, WrittenFacts
        <3> QED BY <1>2, <2>1, <3>1 DEF ConnInv, Wrote, Alive
    <2>2. CASE Alive(c)
        <3>1. Len(wire[c]) >= 2 /\ wire[c][1] = Name /\ wire[c][2] = Reply(c)
            BY <1>2, <2>2 DEF ConnInv, Wrote
        <3>2. Len(wire'[c]) >= 2 /\ wire'[c][1] = wire[c][1] /\ wire'[c][2] = wire[c][2]
            BY <1>2, <2>2, <3>1, WrittenFacts
        <3> QED BY <3>1, <3>2 DEF Wrote
    <2> QED BY <2>1, <2>2
<1>4. Dialled(c)'
    BY <1>2 DEF ConnInv, Dialled
<1>5. AckGenuine(c)' /\ CookieKnown(c)'
    BY <1>2 DEF ConnInv, AckGenuine, CookieKnown
<1> QED BY <1>1, <1>3, <1>4, <1>5, OneConn DEF ConnInv

\* A step that is not a sender's: no connection is taken back, and one that has
\* just come up has the two frames of the handshake on its wire.
LEMMA SendsUnchanged ==
    ASSUME TypeInv, HandshakeInv, HandshakeInv', SendInv, UNCHANGED <<mu, send>>,
           \A d \in Connects :
              /\ pc[d] = "up" => pc'[d] = "up"
              /\ wire'[d] = wire[d] \/ pc'[d] \in {"status", "ack"}
              /\ pc'[d] = "up" /\ sock'[d] = "open" /\ Alive(d)' =>
                    Alive(d) /\ (pc[d] = "register" \/ (pc[d] = "up" /\ sock[d] = "open"))
    PROVE  SendInv'
<1>1. SendersInv'
    BY DEF SendInv, SendersInv, Writing, TypeInv, SenderHasConn
<1>2. ASSUME NEW d \in Connects PROVE Paired(d)'
    <2>1. CASE wire'[d] = wire[d]
        BY <2>1 DEF SendInv, Paired
    <2>2. CASE pc'[d] \in {"status", "ack"}
        <3>1. Len(wire'[d]) <= 2 /\ Len(wire'[d]) \in Nat
            BY <2>2 DEF HandshakeInv, QueueTypes, ConnInv, Wrote
        <3>2. \A i \in 3..Len(wire'[d]) : FALSE
            BY <3>1
        <3> QED BY <3>2 DEF Paired
    <2> QED BY <2>1, <2>2
<1>3. ASSUME NEW d \in Connects, pc'[d] = "up", sock'[d] = "open", Alive(d)' PROVE OpenFrame(d)'
    <2>1. wire'[d] = wire[d]
        BY <1>3
    <2>2. CASE pc[d] = "register"
        <3>1. Len(wire[d]) = 2
            BY <1>3, <2>2 DEF HandshakeInv, ConnInv, Wrote
        <3>2. \A s \in Senders : ~AtPayload(s, d)'
            BY <2>2 DEF SendInv, SendersInv, AtPayload
        <3> QED BY <2>1, <3>1, <3>2, Parity DEF OpenFrame
    <2>3. CASE Alive(d) /\ pc[d] = "up" /\ sock[d] = "open"
        <3>1. OpenFrame(d) /\ \A s \in Senders : AtPayload(s, d)' <=> AtPayload(s, d)
            BY DEF SendInv, AtPayload
        <3> QED BY <2>1, <2>3, <3>1 DEF OpenFrame
    <2> QED BY <1>3, <2>2, <2>3
<1>4. \A d \in Connects : OpenFrame(d)'
    BY <1>3 DEF OpenFrame
<1> QED BY <1>1, <1>2, <1>4 DEF SendInv

LEMMA OthersKeepProtocol ==
    ASSUME ProtocolInv,
           \/ \E c \in Connects : OwnStep(c) \/ PeerStep(c)
           \/ Close
           \/ UNCHANGED vars
    PROVE  HandshakeInv' /\ SendInv'
<1>0. TypeInv /\ TypeOK /\ HandshakeInv /\ SendInv
    BY DEF ProtocolInv, TypeInv
<1>1. ASSUME UNCHANGED <<pc, node, peer, wire, heard>> PROVE HandshakeInv'
    <2>1. QueueTypes' /\ \A c \in Connects : SameConn(c)
        BY <1>0, <1>1 DEF HandshakeInv, QueueTypes, SameConn
    <2> QED BY <1>0, <2>1, ConnUnchanged DEF HandshakeInv
<1>2. ASSUME NEW c \in Connects, OwnStep(c) PROVE HandshakeInv' /\ SendInv'
    <2>1. CASE CloseConn(c)
        <3>1. UNCHANGED <<pc, node, peer, wire, heard, mu, send>> /\ sock'[c] = "closed"
              /\ \A d \in Connects : d # c => sock'[d] = sock[d]
            BY <1>0, <2>1 DEF CloseConn, sendVars, TypeOK
        <3>2. HandshakeInv'
            BY <1>1, <3>1
        <3> QED BY <1>0, <3>1, <3>2, SendsUnchanged DEF Alive
    <2>2. CASE \/ (\E n \in Nodes : Connect(c, n)) \/ LookupFinds(c) \/ LookupFails(c) \/ Dial(c)
               \/ HandshakeFails(c) \/ Register(c)
        <3>1. HandshakeInv'
            BY <1>0, <2>2, StartKeepsHandshake, EndKeepsHandshake
        <3>2. UNCHANGED <<wire, mu, send>>
            BY <2>2 DEF Connect, LookupFinds, LookupFails, Dial, HandshakeFails, Register, sendVars
        <3>3. \A d \in Connects : d # c => pc'[d] = pc[d] /\ sock'[d] = sock[d] /\ peer'[d] = peer[d]
            BY <1>0, <2>2 DEF Connect, LookupFinds, LookupFails, Dial, HandshakeFails, Register, Abort, Goto, TypeOK
        <3>4. pc[c] # "up" /\ (pc'[c] = "up" => pc[c] = "register" /\ peer'[c] = peer[c])
            BY <1>0, <2>2 DEF Connect, LookupFinds, LookupFails, Dial, HandshakeFails, Register, Abort, Goto, TypeOK
        <3>5. \A d \in Connects :
                /\ pc[d] = "up" => pc'[d] = "up"
                /\ wire'[d] = wire[d]
                /\ pc'[d] = "up" /\ sock'[d] = "open" /\ Alive(d)' =>
                      Alive(d) /\ (pc[d] = "register" \/ (pc[d] = "up" /\ sock[d] = "open"))
            BY <3>2, <3>3, <3>4 DEF Alive
        <3> QED BY <1>0, <3>1, <3>2, <3>5, SendsUnchanged
    <2>3. CASE sendName(c) \/ sendChallengeReply(c)
        <3>1. HandshakeInv'
            BY <1>0, <2>3, WriteKeepsHandshake
        <3> USE DEF sendName, sendChallengeReply, Writes, Goto, sendVars
        <3>2. UNCHANGED <<mu, send, sock, peer>>
            BY <2>3
        <3>3. \A d \in Connects : d # c => pc'[d] = pc[d] /\ wire'[d] = wire[d]
            BY <1>0, <2>3 DEF TypeOK, HandshakeInv, QueueTypes, Written
        <3>4. pc[c] # "up" /\ pc'[c] \in {"status", "ack"}
            BY <1>0, <2>3 DEF TypeOK
        <3> QED BY <1>0, <3>1, <3>2, <3>3, <3>4, SendsUnchanged DEF Alive
    <2>4. CASE recvStatus(c) \/ recvChallenge(c) \/ recvChallengeAck(c)
        <3>1. HandshakeInv'
            BY <1>0, <2>4, ReadKeepsHandshake
        <3> USE DEF recvStatus, recvChallenge, recvChallengeAck, Reads, Abort, Goto, sendVars
        <3>2. UNCHANGED <<mu, send, wire, peer>>
            BY <2>4
        <3>3. \A d \in Connects : d # c => pc'[d] = pc[d] /\ sock'[d] = sock[d]
            BY <1>0, <2>4 DEF TypeOK
        <3>4. pc[c] # "up" /\ pc'[c] # "up"
            BY <1>0, <2>4 DEF TypeOK
        <3> QED BY <1>0, <3>1, <3>2, <3>3, <3>4, SendsUnchanged DEF Alive
    <2> QED BY <1>2, <2>1, <2>2, <2>3, <2>4 DEF OwnStep, ConnectStep
<1>3. ASSUME NEW c \in Connects, PeerStep(c) PROVE HandshakeInv' /\ SendInv'
    <2>1. HandshakeInv'
        BY <1>0, <1>3, PeerKeepsHandshake
    <2>2. UNCHANGED <<pc, sock, wire, mu, send>> /\ peer[c] # "gone"
          /\ \A d \in Connects : d # c => peer'[d] = peer[d]
        BY <1>0, <1>3 DEF PeerStep, PeerStatus, PeerChallenge, PeerHangsUp, PeerErrs, PeerAck, PeerSteps, Becomes,
               sendVars, TypeOK
    <2> QED BY <1>0, <2>1, <2>2, SendsUnchanged DEF Alive
<1>4. CASE Close
    <2>1. UNCHANGED <<pc, node, peer, wire, heard, mu, send>>
        BY <1>4 DEF Close, sendVars
    <2>2. \A d \in Connects : sock'[d] = "open" => sock[d] = "open"
        BY <1>4 DEF Close
    <2> QED BY <1>0, <1>1, <2>1, <2>2, SendsUnchanged DEF Alive
<1>5. CASE UNCHANGED vars
    <2>1. UNCHANGED <<pc, node, sock, peer, wire, heard, mu, send>>
        BY <1>5 DEF vars
    <2> QED BY <1>0, <1>1, <2>1, SendsUnchanged DEF Alive
<1> QED BY <1>2, <1>3, <1>4, <1>5

\* The lock is taken on free connections only, and lies with who is writing.
LEMMA SenderKeepsLock ==
    ASSUME ProtocolInv, NEW s \in Senders, SendStep(s)
    PROVE  SendersInv'
<1> USE DEF ProtocolInv, TypeInv, TypeOK, SenderHasConn, SendInv, SendersInv, Writing, connectVars
<1>1. ASSUME NEW c \in Connects, SendRegSend(s, c) PROVE SendersInv'
    BY <1>1 DEF SendRegSend
<1>2. CASE Lock(s)
    <2>1. /\ send[s].to \in Connects /\ mu[send[s].to] = None /\ mu' = [mu EXCEPT ![send[s].to] = s]
          /\ send' = [send EXCEPT ![s].pc = "hdr"] /\ pc' = pc /\ send[s].pc = "lock"
        BY <1>2 DEF Lock, At
    <2>2. \A r \in Senders : r # s => send'[r] = send[r]
        BY <2>1
    <2>3. send'[s].pc = "hdr" /\ send'[s].to = send[s].to
        BY <2>1
    <2>4. \A r \in Senders : send'[r].pc # "idle" => pc'[send'[r].to] = "up"
        BY <2>1, <2>2, <2>3
    <2>5. \A r \in Senders, c \in Connects : mu'[c] = r <=> Writing(r, c)'
        BY <2>1, <2>2, <2>3, CNodeAssumption
    <2> QED BY <2>4, <2>5
<1>3. CASE WriteHeader(s)
    BY <1>3 DEF WriteHeader, At
<1>4. CASE WritePayload(s) \/ WriteFails(s)
    <2>1. /\ send[s].to \in Connects /\ mu' = [mu EXCEPT ![send[s].to] = None]
          /\ send' = [send EXCEPT ![s].pc = "idle"] /\ pc' = pc /\ send[s].pc \in {"hdr", "body"}
        BY <1>4 DEF WritePayload, WriteFails, At, Unlock
    <2>2. \A r \in Senders : r # s => send'[r] = send[r]
        BY <2>1
    <2>3. send'[s].pc = "idle" /\ mu[send[s].to] = s
        BY <2>1
    <2>4. \A r \in Senders : send'[r].pc # "idle" => pc'[send'[r].to] = "up"
        BY <2>1, <2>2, <2>3
    <2>5. \A r \in Senders, c \in Connects : mu'[c] = r <=> Writing(r, c)'
        BY <2>1, <2>2, <2>3, CNodeAssumption
    <2> QED BY <2>4, <2>5
<1> QED BY <1>1, <1>2, <1>3, <1>4 DEF SendStep

\* Frames of other connections, and of one whose wire and writers are the same.
LEMMA FrameUnchanged ==
    ASSUME NEW d, Paired(d), OpenFrame(d), wire'[d] = wire[d],
           UNCHANGED <<pc, sock, peer>>, \A r \in Senders : AtPayload(r, d)' <=> AtPayload(r, d)
    PROVE  Paired(d)' /\ OpenFrame(d)'
<1>1. Paired(d)'
    BY DEF Paired
<1>2. OpenFrame(d)'
    BY DEF OpenFrame, Alive
<1> QED BY <1>1, <1>2

\* Only the holder of the lock is at its header or payload.
LEMMA OneWriter ==
    ASSUME ProtocolInv, NEW c \in Connects, NEW r \in Senders, NEW s \in Senders,
           Writing(r, c), Writing(s, c)
    PROVE  r = s
BY DEF ProtocolInv, SendInv, SendersInv

\* A header or a payload goes out on a connection that is open.
LEMMA FrameWritten ==
    ASSUME ProtocolInv, NEW s \in Senders, WriteHeader(s) \/ WritePayload(s), NEW c, c = send[s].to
    PROVE  c \in Connects /\ HandshakeInv' /\ Paired(c)' /\ OpenFrame(c)'
<1>0. c \in Connects /\ pc[c] = "up" /\ sock[c] = "open" /\ Writing(s, c)
    BY DEF ProtocolInv, TypeInv, SenderHasConn, SendInv, SendersInv, Writing, WriteHeader, WritePayload
<1>1. PICK f \in WireFrames :
          /\ Written(c, f) /\ UNCHANGED <<pc, node, sock, peer, heard>>
          /\ \/ send[s].pc = "hdr" /\ f = Part("hdr", s) /\ send'[s].pc = "body"
             \/ send[s].pc = "body" /\ f = Part("body", s) /\ send'[s].pc = "idle"
    BY FramesTyped DEF WriteHeader, WritePayload, At, ProtocolInv, TypeInv, TypeOK
<1>2. /\ \A r \in Senders : r # s => send'[r] = send[r]
      /\ send'[s].to = c
    BY DEF WriteHeader, WritePayload, At, ProtocolInv, TypeInv, TypeOK
<1>3. HandshakeInv /\ Paired(c) /\ OpenFrame(c) /\ ConnInv(c)
      /\ wire[c] \in Seq(WireFrames) /\ Len(wire[c]) \in Nat
    BY <1>0 DEF ProtocolInv, SendInv, HandshakeInv, QueueTypes
<1>4. HandshakeInv'
    BY <1>0, <1>1, <1>3, SendKeepsHandshake
<1>5. CASE ~Alive(c)
    <2>1. wire'[c] = wire[c]
        BY <1>0, <1>1, <1>3, <1>5, WrittenFacts
    <2> QED BY <1>0, <1>1, <1>3, <1>4, <1>5, <2>1 DEF Paired, OpenFrame, Alive
<1>6. CASE Alive(c)
    <2> DEFINE n == Len(wire[c])
    <2>1. /\ Len(wire'[c]) = n + 1 /\ wire'[c][n + 1] = f
          /\ \A i \in 1..n : wire'[c][i] = wire[c][i]
        BY <1>0, <1>1, <1>3, <1>6, WrittenFacts
    <2>2. n \in Nat /\ n >= 2
        BY <1>0, <1>3, <1>6 DEF ConnInv, Wrote
    <2>3. \A r \in Senders : r # s => ~AtPayload(r, c) /\ ~AtPayload(r, c)'
        <3> TAKE r \in Senders
        <3>1. AtPayload(r, c) => r = s
            BY <1>0, OneWriter DEF AtPayload, Writing
        <3> QED BY <1>2, <3>1 DEF AtPayload
    <2>4. pc[c] = "up" /\ sock[c] = "open" /\ Alive(c)
        BY <1>0, <1>6
    <2>5. \A i \in 3..n : IF i % 2 = 1 THEN wire[c][i].k = "hdr"
                                       ELSE wire[c][i] = Part("body", wire[c][i - 1].of)
        BY <1>3 DEF Paired
    <2> HIDE DEF n
    <2>6. \A i \in 3..n : IF i % 2 = 1 THEN wire'[c][i].k = "hdr"
                                       ELSE wire'[c][i] = Part("body", wire'[c][i - 1].of)
        <3> TAKE i \in 3..n
        <3>1. i \in 1..n /\ i - 1 \in 1..n
            BY <2>2
        <3> QED BY <2>1, <2>5, <3>1
    <2>7. CASE send[s].pc = "hdr"
        <3>1. f = Part("hdr", s) /\ AtPayload(s, c)' /\ ~AtPayload(s, c)
            BY <1>1, <1>2, <2>7 DEF AtPayload
        <3>2. n % 2 = 0
            <4>1. \A r \in Senders : ~AtPayload(r, c)
                BY <2>3, <3>1
            <4>2. n % 2 # 1
                BY <1>3, <2>4, <4>1 DEF OpenFrame, n
            <4> QED BY <2>2, <4>2, Parity
        <3>3. (n + 1) % 2 = 1 /\ f.k = "hdr" /\ f.of = s
            BY <2>2, <3>1, <3>2, Parity DEF Part
        <3>4. \A i \in 3..(n + 1) : i \in 3..n \/ i = n + 1
            BY <2>2
        <3>5. Paired(c)'
            BY <2>1, <2>6, <3>3, <3>4 DEF Paired
        <3>6. OpenFrame(c)'
            BY <2>1, <2>3, <3>1, <3>3 DEF OpenFrame
        <3> QED BY <1>0, <1>4, <3>5, <3>6
    <2>8. CASE send[s].pc = "body"
        <3>1. f = Part("body", s) /\ AtPayload(s, c) /\ ~AtPayload(s, c)'
            BY <1>1, <2>8 DEF AtPayload
        <3>2. n % 2 = 1 /\ wire[c][n].of = s
            BY <1>3, <2>4, <3>1 DEF OpenFrame, n
        <3>3. (n + 1) % 2 # 1 /\ wire'[c][n + 1] = Part("body", wire'[c][n].of)
            <4>1. wire'[c][n] = wire[c][n]
                BY <2>1, <2>2
            <4>2. (n + 1) % 2 # 1
                BY <2>2, <3>2, Parity
            <4> QED BY <2>1, <3>1, <3>2, <4>1, <4>2
        <3>4. \A i \in 3..(n + 1) : i \in 3..n \/ i = n + 1
            BY <2>2
        <3>5. Paired(c)'
            <4>1. (n + 1) - 1 = n
                BY <2>2
            <4> QED BY <2>1, <2>6, <3>3, <3>4, <4>1 DEF Paired
        <3>6. OpenFrame(c)'
            BY <2>1, <2>3, <3>1, <3>3 DEF OpenFrame
        <3> QED BY <1>0, <1>4, <3>5, <3>6
    <2> QED BY <1>1, <2>7, <2>8
<1> QED BY <1>5, <1>6

LEMMA SenderKeepsProtocol ==
    ASSUME ProtocolInv, NEW s \in Senders, SendStep(s)
    PROVE  HandshakeInv' /\ SendInv'
<1>0. TypeInv /\ TypeOK /\ HandshakeInv /\ SendInv /\ \A d \in Connects : Paired(d) /\ OpenFrame(d)
    BY DEF ProtocolInv, TypeInv, SendInv
<1>1. SendersInv'
    BY SenderKeepsLock
<1>2. CASE WriteHeader(s) \/ WritePayload(s)
    <2>1. PICK c : c = send[s].to
        OBVIOUS
    <2>2. c \in Connects /\ HandshakeInv' /\ Paired(c)' /\ OpenFrame(c)'
        BY <1>2, <2>1, FrameWritten
    <2>3. ASSUME NEW d \in Connects, d # c PROVE Paired(d)' /\ OpenFrame(d)'
        <3>1. UNCHANGED <<pc, sock, peer>> /\ wire'[d] = wire[d]
            BY <1>0, <1>2, <2>1, <2>3 DEF WriteHeader, WritePayload, Written, HandshakeInv, QueueTypes
        <3>2. \A r \in Senders : AtPayload(r, d)' <=> AtPayload(r, d)
            <4>1. \A r \in Senders : r # s => send'[r] = send[r]
                BY <1>0, <1>2 DEF WriteHeader, WritePayload, At, TypeOK
            <4>2. send'[s].to = c
                BY <1>0, <1>2, <2>1 DEF WriteHeader, WritePayload, At, TypeOK
            <4> QED BY <2>1, <2>3, <4>1, <4>2 DEF AtPayload
        <3> QED BY <1>0, <3>1, <3>2, FrameUnchanged
    <2> QED BY <1>1, <2>2, <2>3 DEF SendInv
<1>3. CASE (\E c \in Connects : SendRegSend(s, c)) \/ Lock(s) \/ WriteFails(s)
    <2>1. UNCHANGED <<pc, node, sock, peer, wire, heard>>
        BY <1>3 DEF SendRegSend, Lock, WriteFails, connectVars
    <2>2. HandshakeInv'
        <3>1. QueueTypes' /\ \A d \in Connects : SameConn(d)
            BY <1>0, <2>1 DEF HandshakeInv, QueueTypes, SameConn
        <3> QED BY <1>0, <3>1, ConnUnchanged DEF HandshakeInv
    <2>3. ASSUME NEW d \in Connects PROVE Paired(d)' /\ OpenFrame(d)'
        <3>1. CASE WriteFails(s) /\ d = send[s].to
            <4>1. ~(sock[d] = "open" /\ Alive(d))
                BY <3>1 DEF WriteFails, Alive
            <4> QED BY <1>0, <2>1, <4>1 DEF Paired, OpenFrame, Alive
        <3>2. CASE ~(WriteFails(s) /\ d = send[s].to)
            <4>1. \A r \in Senders : AtPayload(r, d)' <=> AtPayload(r, d)
                <5>1. \A r \in Senders : r # s => send'[r] = send[r]
                    BY <1>0, <1>3 DEF SendRegSend, Lock, WriteFails, At, TypeOK
                <5>2. AtPayload(s, d)' <=> AtPayload(s, d)
                    BY <1>0, <1>3, <3>2 DEF SendRegSend, Lock, WriteFails, At, TypeOK, AtPayload
                <5> QED BY <5>1, <5>2 DEF AtPayload
            <4> QED BY <1>0, <2>1, <4>1, FrameUnchanged
        <3> QED BY <3>1, <3>2
    <2> QED BY <1>1, <2>2, <2>3 DEF SendInv
<1> QED BY <1>2, <1>3 DEF SendStep

LEMMA CNodeStepProtocol == ProtocolInv /\ [Next]_vars => ProtocolInv'
BY NextSteps, OwnKeepsTypes, OthersKeepTypes, OthersKeepProtocol, SenderKeepsProtocol DEF ProtocolInv

\* Whatever goroutines connect, send and close at the same time, and whenever a
\* peer hangs up or stays silent: a node reads the handshake in its order and
\* then whole messages of one sender each, and messages go only to a node that
\* has answered our challenge with our cookie.
THEOREM CNodeSpeaksProtocol == CNodeSpec => []SpeaksProtocol
<1>1. Init => ProtocolInv
    <2> SUFFICES ASSUME Init PROVE ProtocolInv
        OBVIOUS
    <2>1. TypeInv
        BY CNodeAssumption DEF Init, TypeInv, TypeOK, NodeGiven, SenderHasConn
    <2>2. HandshakeInv
        BY DEF Init, HandshakeInv, QueueTypes, ConnInv, Dialled, Wrote, Alive, AckGenuine,
               CookieKnown
    <2>3. SendInv
        BY CNodeAssumption
           DEF Init, SendInv, SendersInv, Writing, Paired, OpenFrame, AtPayload
    <2> QED BY <2>1, <2>2, <2>3 DEF ProtocolInv
<1> QED BY <1>1, CNodeStepProtocol, ProtocolImplies, PTL DEF CNodeSpec
=============================================================================
