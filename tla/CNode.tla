------------------------------- MODULE CNode -------------------------------
(***************************************************************************)
(* src/cnode/cnode.go: a Go program that joins Erlang nodes.  Goroutines   *)
(* call Connect, which looks the node up at EPMD, dials and shakes hands;  *)
(* others send on the connections they were given, close one of them or    *)
(* the whole CNode.                                                        *)
(*                                                                         *)
(* A Connect c makes at most one socket, which has its name.  A frame that *)
(* reaches the peer is in wire[c], in the order written; heard[c] are the  *)
(* frames of the peer not read yet.  Challenges are random numbers: they   *)
(* are taken to be different, so that (side, c) stands for one, and        *)
(* <<cookie, challenge>> for the digest of both.                           *)
(***************************************************************************)
EXTENDS Naturals, Sequences

CONSTANTS Connects,    \* calls of Connect
          Senders,     \* goroutines that call SendRegSend
          Nodes,       \* remote names
          Cookie,      \* CNode.Cookie
          CookieOf,    \* the cookie of every remote node
          None,
          MaxSends,    \* calls of SendRegSend of a goroutine
          MaxCloses    \* calls of CNode.Close

ASSUME CNodeAssumption ==
    /\ CookieOf \in [Nodes -> STRING]
    /\ None \notin Connects /\ None \notin Senders
    /\ MaxSends \in Nat /\ MaxCloses \in Nat

VARIABLES pc,          \* where each Connect is
          node,        \* the remote name it was given
          sock,        \* our end of its socket
          peer,        \* the node at the other end
          wire, heard,
          conns,       \* CNode.conns: remote name -> connection
          registered,  \* history: the connections entered into it, in order
          mu,          \* DistConn.mu: the sender that holds it
          send,        \* where each sender is, on which connection
          sends, closes

connectVars == <<pc, node, sock, wire, heard>>
sendVars == <<mu, send, sends>>
vars == <<pc, node, sock, peer, wire, heard, conns, registered, mu, send, sends, closes>>

Ours(c) == <<"ours", c>>
Theirs(c) == <<"theirs", c>>
computeDigest(cookie, challenge) == <<cookie, challenge>>

Name == [k |-> "name"]
Reply(c) == [k |-> "reply", challenge |-> Ours(c), digest |-> computeDigest(Cookie, Theirs(c))]
Part(k, s) == [k |-> k, of |-> s]

Init ==
    /\ pc = [c \in Connects |-> "idle"]
    /\ node = [c \in Connects |-> None]
    /\ sock = [c \in Connects |-> "none"]
    /\ peer = [c \in Connects |-> "none"]
    /\ wire = [c \in Connects |-> <<>>]
    /\ heard = [c \in Connects |-> <<>>]
    /\ conns = [n \in Nodes |-> None]
    /\ registered = <<>>
    /\ mu = [c \in Connects |-> None]
    /\ send = [s \in Senders |-> [pc |-> "idle", to |-> None]]
    /\ sends = [s \in Senders |-> 0]
    /\ closes = 0

-----------------------------------------------------------------------------
(* Connect.                                                                *)
Goto(c, l) == pc' = [pc EXCEPT ![c] = l]

\* With an address EPMD is not asked.
Connect(c, n) ==
    /\ pc[c] = "idle"
    /\ node' = [node EXCEPT ![c] = n]
    /\ Goto(c, "lookup") \/ Goto(c, "dial")
    /\ UNCHANGED <<sock, peer, wire, heard, conns, registered, sendVars, closes>>

\* LookupNode closes its own connection to EPMD on every path.  It sets no
\* deadline: while EPMD says nothing, the Connect stays in "lookup".
LookupFinds(c) ==
    /\ pc[c] = "lookup"
    /\ Goto(c, "dial")
    /\ UNCHANGED <<node, sock, peer, wire, heard, conns, registered, sendVars, closes>>

\* A malformed name, no EPMD, a broken answer, or an unknown node.
LookupFails(c) ==
    /\ pc[c] = "lookup"
    /\ Goto(c, "failed")
    /\ UNCHANGED <<node, sock, peer, wire, heard, conns, registered, sendVars, closes>>

Dial(c) ==
    /\ pc[c] = "dial"
    /\ \/ /\ Goto(c, "name")
          /\ sock' = [sock EXCEPT ![c] = "open"]
          /\ peer' = [peer EXCEPT ![c] = "accepted"]
       \/ /\ Goto(c, "failed")
          /\ UNCHANGED <<sock, peer>>
    /\ UNCHANGED <<node, wire, heard, conns, registered, sendVars, closes>>

\* What is written to a peer that is gone is lost.
Written(c, f) == wire' = IF peer[c] = "gone" THEN wire ELSE [wire EXCEPT ![c] = Append(@, f)]

\* Handshake writes f and goes on to read.
Writes(c, at, f, next) ==
    /\ pc[c] = at
    /\ Written(c, f)
    /\ Goto(c, next)
    /\ UNCHANGED <<node, sock, peer, heard, conns, registered, sendVars, closes>>
sendName(c) == Writes(c, "name", Name, "status")
sendChallengeReply(c) == Writes(c, "reply", Reply(c), "ack")

\* Connect closes the socket when Handshake fails.
Abort(c) ==
    /\ Goto(c, "failed")
    /\ sock' = [sock EXCEPT ![c] = "closed"]

\* Handshake reads the next frame: a good one, one that it refuses, or one
\* that makes it panic.
Reads(c, at, good, panics, next) ==
    /\ pc[c] = at
    /\ heard[c] # <<>>
    /\ heard' = [heard EXCEPT ![c] = Tail(@)]
    /\ \/ good /\ Goto(c, next) /\ UNCHANGED sock
       \/ panics /\ Goto(c, "panicked") /\ UNCHANGED sock
       \/ ~good /\ ~panics /\ Abort(c)
    /\ UNCHANGED <<node, peer, wire, conns, registered, sendVars, closes>>

NextIs(c, k) == Head(heard[c]).k = k

\* An empty frame is too short, and the error message of recvStatus and of
\* recvChallengeAck then shows body[0].  recvChallenge checks for it.
recvStatus(c) ==
    Reads(c, "status", NextIs(c, "status") /\ Head(heard[c]).status \in {"ok", "ok_simultaneous"},
          NextIs(c, "empty"), "challenge")
recvChallenge(c) == Reads(c, "challenge", NextIs(c, "challenge"), FALSE, "reply")
recvChallengeAck(c) ==
    Reads(c, "ack", NextIs(c, "ack") /\ Head(heard[c]).digest = computeDigest(Cookie, Ours(c)),
          NextIs(c, "empty"), "register")

\* Mutant: the handshake has no deadline.
FailsAtEof(c) ==
    /\ pc[c] \in {"name", "status", "challenge", "reply", "ack"}
    /\ peer[c] = "gone" /\ heard[c] = <<>>
    /\ Abort(c)
    /\ UNCHANGED <<node, peer, wire, heard, conns, registered, sendVars, closes>>
\* A read or a write of the handshake fails: the peer is gone, or the deadline
\* has passed.
HandshakeFails(c) ==
    /\ pc[c] \in {"name", "status", "challenge", "reply", "ack"}
    /\ Abort(c)
    /\ UNCHANGED <<node, peer, wire, heard, conns, registered, sendVars, closes>>

\* The deadline is taken back, and the connection entered under its name.
Register(c) ==
    /\ pc[c] = "register"
    /\ Goto(c, "up")
    /\ conns' = [conns EXCEPT ![node[c]] = c]
    /\ registered' = Append(registered, c)
    /\ UNCHANGED <<node, sock, peer, wire, heard, sendVars, closes>>

\* Connect has returned, with a connection or an error.
Returned(c) == pc[c] \in {"up", "failed"}

\* Nothing recovers from a panic: it ends the program.
Running == \A c \in Connects : pc[c] # "panicked"

-----------------------------------------------------------------------------
(* Close of a connection by its user, and of the CNode.                    *)
CloseConn(c) ==
    /\ pc[c] = "up" /\ sock[c] = "open"
    /\ sock' = [sock EXCEPT ![c] = "closed"]
    /\ UNCHANGED <<pc, node, peer, wire, heard, conns, registered, sendVars, closes>>

\* Mutant: the table is emptied and nothing closed.
CloseForgets ==
    /\ closes < MaxCloses
    /\ closes' = closes + 1
    /\ conns' = [n \in Nodes |-> None]
    /\ UNCHANGED <<pc, node, sock, peer, wire, heard, registered, sendVars>>
\* Close holds CNode.mu throughout.  The connections have nothing to do with
\* each other, so closing them is one step.
Close ==
    /\ closes < MaxCloses
    /\ closes' = closes + 1
    /\ sock' = [c \in Connects |-> IF \E n \in Nodes : conns[n] = c THEN "closed" ELSE sock[c]]
    /\ conns' = [n \in Nodes |-> None]
    /\ UNCHANGED <<pc, node, peer, wire, heard, registered, sendVars>>

-----------------------------------------------------------------------------
(* SendRegSend, on a connection that Connect has returned.                 *)
At(s, l) == send' = [send EXCEPT ![s].pc = l]
SendRegSend(s, c) ==
    /\ send[s].pc = "idle" /\ sends[s] < MaxSends
    /\ pc[c] = "up"
    /\ send' = [send EXCEPT ![s] = [pc |-> "lock", to |-> c]]
    /\ sends' = [sends EXCEPT ![s] = @ + 1]
    /\ UNCHANGED <<connectVars, peer, conns, registered, mu, closes>>

\* Mutant: the connection is not locked.
WriteUnlocked(s) ==
    /\ send[s].pc = "lock"
    /\ At(s, "hdr")
    /\ UNCHANGED <<connectVars, peer, conns, registered, mu, sends, closes>>
Lock(s) ==
    /\ send[s].pc = "lock"
    /\ mu[send[s].to] = None
    /\ mu' = [mu EXCEPT ![send[s].to] = s]
    /\ At(s, "hdr")
    /\ UNCHANGED <<connectVars, peer, conns, registered, sends, closes>>

WriteHeader(s) ==
    /\ send[s].pc = "hdr"
    /\ sock[send[s].to] = "open"
    /\ Written(send[s].to, Part("hdr", s))
    /\ At(s, "body")
    /\ UNCHANGED <<pc, node, sock, heard, peer, conns, registered, mu, sends, closes>>

\* Either way sendMsg unlocks and returns.
Unlock(s) == mu' = [mu EXCEPT ![send[s].to] = None]
WritePayload(s) ==
    /\ send[s].pc = "body"
    /\ sock[send[s].to] = "open"
    /\ Written(send[s].to, Part("body", s))
    /\ At(s, "idle") /\ Unlock(s)
    /\ UNCHANGED <<pc, node, sock, heard, peer, conns, registered, sends, closes>>
WriteFails(s) ==
    /\ send[s].pc \in {"hdr", "body"}
    /\ sock[send[s].to] = "closed" \/ peer[send[s].to] = "gone"
    /\ At(s, "idle") /\ Unlock(s)
    /\ UNCHANGED <<connectVars, peer, conns, registered, sends, closes>>

-----------------------------------------------------------------------------
(* The node at the other end.  It may hang up or fall silent at any point, *)
(* and need not check our digest (as the server of the tests does not).    *)
Answers(c, f) == heard' = [heard EXCEPT ![c] = Append(@, f)]
Becomes(c, st) == peer' = [peer EXCEPT ![c] = st]
PeerSteps(c) == UNCHANGED <<pc, node, sock, wire, conns, registered, sendVars, closes>>

Statuses == {"ok", "ok_simultaneous", "not_allowed"}
PeerStatus(c, st) ==
    /\ peer[c] = "accepted" /\ Len(wire[c]) >= 1
    /\ Answers(c, [k |-> "status", status |-> st])
    /\ Becomes(c, IF st = "not_allowed" THEN "gone" ELSE "named")
    /\ PeerSteps(c)
PeerChallenge(c) ==
    /\ peer[c] = "named"
    /\ Answers(c, [k |-> "challenge", challenge |-> Theirs(c)])
    /\ Becomes(c, "challenged")
    /\ PeerSteps(c)
PeerAck(c, checks) ==
    /\ peer[c] = "challenged" /\ Len(wire[c]) >= 2
    /\ checks => wire[c][2].digest = computeDigest(CookieOf[node[c]], Theirs(c))
    /\ Answers(c, [k |-> "ack", digest |-> computeDigest(CookieOf[node[c]], wire[c][2].challenge)])
    /\ Becomes(c, "up")
    /\ PeerSteps(c)
\* A frame that is neither status, challenge nor ack, perhaps an empty one.
\* The handshake ends when it is read, so the node may as well hang up.
PeerErrs(c, k) ==
    /\ peer[c] \in {"accepted", "named", "challenged"}
    /\ Answers(c, [k |-> k])
    /\ Becomes(c, "gone")
    /\ PeerSteps(c)
PeerHangsUp(c) ==
    /\ peer[c] \notin {"none", "gone"}
    /\ Becomes(c, "gone")
    /\ UNCHANGED heard
    /\ PeerSteps(c)

-----------------------------------------------------------------------------
\* The steps of a Connect that do not wait for EPMD.
ConnectStep(c) ==
    /\ Running
    /\ \/ Dial(c) \/ sendName(c) \/ recvStatus(c) \/ recvChallenge(c) \/ sendChallengeReply(c)
       \/ recvChallengeAck(c) \/ HandshakeFails(c) \/ Register(c)
OwnStep(c) ==
    \/ \E n \in Nodes : Connect(c, n)
    \/ LookupFinds(c) \/ LookupFails(c) \/ ConnectStep(c) \/ CloseConn(c)
PeerStep(c) ==
    \/ \E st \in Statuses : PeerStatus(c, st)
    \/ PeerChallenge(c) \/ PeerHangsUp(c)
    \/ \E checks \in BOOLEAN : PeerAck(c, checks)
    \/ \E k \in {"empty", "other"} : PeerErrs(c, k)
SendStep(s) ==
    \/ \E c \in Connects : SendRegSend(s, c)
    \/ Lock(s) \/ WriteHeader(s) \/ WritePayload(s) \/ WriteFails(s)
Next ==
    /\ Running
    /\ \/ \E c \in Connects : OwnStep(c) \/ PeerStep(c)
       \/ Close
       \/ \E s \in Senders : SendStep(s)

CNodeSpec == Init /\ [][Next]_vars

\* Dialling has a timeout of 5 s and the handshake a deadline of 15 s, so that
\* a Connect that has got past EPMD always takes a next step.
CNodeFairSpec == CNodeSpec /\ \A c \in Connects : WF_vars(ConnectStep(c))

-----------------------------------------------------------------------------
(* Properties *)

\* Every variable keeps its type.
TypeOK ==
    /\ pc \in [Connects -> {"idle", "lookup", "dial", "name", "status", "challenge", "reply",
                            "ack", "register", "up", "failed", "panicked"}]
    /\ node \in [Connects -> Nodes \union {None}]
    /\ sock \in [Connects -> {"none", "open", "closed"}]
    /\ peer \in [Connects -> {"none", "accepted", "named", "challenged", "up", "gone"}]
    /\ conns \in [Nodes -> Connects \union {None}]
    /\ registered \in Seq(Connects)
    /\ mu \in [Connects -> Senders \union {None}]
    /\ send \in [Senders -> [pc : {"idle", "lock", "hdr", "body"}, to : Connects \union {None}]]
    /\ sends \in [Senders -> 0..MaxSends] /\ closes \in 0..MaxCloses

\* What a node reads from us is the handshake in its order and then whole
\* messages, header and payload of one sender, however many goroutines send
\* and whoever closes in between; and messages go only to a node that has
\* shown that it knows our cookie.
SpeaksProtocol ==
    \A c \in Connects :
        LET w == wire[c] IN
        /\ Len(w) >= 1 => w[1] = Name
        /\ Len(w) >= 2 => w[2] = Reply(c)
        /\ \A i \in 3..Len(w) : IF i % 2 = 1 THEN w[i].k = "hdr" ELSE w[i] = Part("body", w[i - 1].of)
        /\ pc[c] \in {"register", "up"} \/ Len(w) >= 3 => CookieOf[node[c]] = Cookie

Before(c, d) == \E i, j \in DOMAIN registered : i < j /\ registered[i] = c /\ registered[j] = d

\* A socket is open only in a Connect under way, or as a connection that Close
\* will find in the table, with one exception: Connect replaces an entry of
\* the same name without closing it.  The table holds no connection under a
\* wrong name.
OpenIsKnown ==
    /\ \A c \in Connects : sock[c] = "open" =>
        \/ ~Returned(c)
        \/ conns[node[c]] = c
        \/ \E d \in Connects : Before(c, d) /\ node[d] = node[c]
    /\ \A n \in Nodes : conns[n] # None => pc[conns[n]] = "up" /\ node[conns[n]] = n

\* A Connect that has got past EPMD returns, if the remote node hangs up, falls
\* silent, has another cookie or sends what is no frame of the handshake.  One
\* thing can keep it from returning: an empty frame in the place of status or
\* ack, on which it panics and the program ends.
ConnectReturns ==
    \A c \in Connects : pc[c] = "dial" ~>
        Returned(c) \/ \E d \in Connects : pc[d] = "panicked"
=============================================================================
