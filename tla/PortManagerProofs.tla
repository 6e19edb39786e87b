------------------------- MODULE PortManagerProofs -------------------------
(***************************************************************************)
(* Theorems about port.Manager, for any number of calls and Stops and any  *)
(* capacity of the pipes: its safety properties, that packets reach the    *)
(* runner whole, and that it implements the request/reply channel Rpc.     *)
(***************************************************************************)
EXTENDS PortManager, SeqFacts, TLAPS

LEMMA NoOutcomeIsNone ==
    /\ NoOutcome \notin Outcomes
    /\ \A k \in Failures : Failure(k) \in Outcomes /\ Failure(k) # NoOutcome
BY DEF NoOutcome, Outcomes, Failure, Failures, Answers, Seqs

LEMMA PortInitType == PortInit => TypeOK
<1> SUFFICES ASSUME PortInit PROVE TypeOK
    OBVIOUS
<1>1. hasCmd \in BOOLEAN /\ stdinOpen \in BOOLEAN /\ done \in BOOLEAN
    BY Zenon DEF PortInit
<1>2. hand \in [to : {0} \union Seqs, out : Outcomes \union {NoOutcome}]
    BY DEF PortInit
<1>3. /\ stdin \in Seq(Fragments) /\ stdout \in Seq(Packets)
      /\ mailbox \in Seq({0} \union Seqs)
    BY DEF PortInit
<1>4. nextSeq \in 0..MaxSeq
    BY PortAssumption DEF PortInit
<1>5. /\ ch \in [Seqs -> Outcomes \union {NoOutcome}]
      /\ result \in [Seqs -> Outcomes \union {NoOutcome}]
      /\ executed \in [Seqs -> Nat]
    BY DEF PortInit
<1> QED BY <1>1, <1>2, <1>3, <1>4, <1>5 DEF PortInit, TypeOK

LEMMA CallKeepsType ==
    ASSUME TypeOK, NEW s \in Seqs, CallStep(s) PROVE TypeOK'
<1> USE DEF TypeOK, Goto, Return, callVars, stopVars, readVars, erlVars
<1>1. CASE Register(s)
    <2>1. pc' \in [Seqs -> {"idle", "register", "lock", "hdr", "body", "wait", "undo", "expire", "ret"}]
        BY <1>1 DEF Register
    <2> QED BY <1>1, <2>1 DEF Register
<1>2. CASE LockWrite(s) BY <1>2 DEF LockWrite
<1>3. CASE WriteHdr(s) BY <1>3 DEF WriteHdr, Fragments
<1>4. CASE WriteBody(s) BY <1>4 DEF WriteBody, Fragments
<1>5. CASE WriteFails(s) BY <1>5 DEF WriteFails
<1>6. CASE Undo(s) BY <1>6, NoOutcomeIsNone DEF Undo, Failures
<1>7. CASE TakeResult(s) BY <1>7 DEF TakeResult
<1>8. CASE TimerFires(s) BY <1>8 DEF TimerFires
<1>9. CASE Expire(s) BY <1>9, NoOutcomeIsNone DEF Expire, Failures
<1>10. CASE SeeDone(s) BY <1>10, NoOutcomeIsNone DEF SeeDone, Failures
<1> QED BY <1>1, <1>2, <1>3, <1>4, <1>5, <1>6, <1>7, <1>8, <1>9, <1>10 DEF CallStep

LEMMA DrainKeepsType ==
    ASSUME TypeOK, NEW err \in Failures, DrainPending(err)
    PROVE  pending' \subseteq Seqs /\ ch' \in [Seqs -> Outcomes \union {NoOutcome}]
BY NoOutcomeIsNone DEF TypeOK, DrainPending

LEMMA ReadKeepsType ==
    ASSUME TypeOK, ReadStep PROVE TypeOK'
<1> USE DEF TypeOK, callVars, stopVars, readVars, erlVars
<1>1. CASE SkipBadTerm BY <1>1 DEF SkipBadTerm, NextPacket
<1>2. CASE ReadOversized BY <1>2 DEF ReadOversized, NextPacket
<1>3. CASE Lookup
    <2>1. Head(stdout) \in Packets /\ Tail(stdout) \in Seq(Packets) /\ Head(stdout).tag \in Answers
        BY <1>3 DEF Lookup, NextPacket
    <2>2. [kind |-> Head(stdout).tag, of |-> Head(stdout).val] \in Outcomes
        BY <2>1 DEF Packets, Outcomes
    <2> QED BY <1>3, <2>1, <2>2 DEF Lookup, NextPacket, Packets
<1>4. CASE Send BY <1>4 DEF Send
<1>5. CASE ReadFails BY <1>5 DEF ReadFails
<1>6. CASE DrainOversized
    BY <1>6, DrainKeepsType DEF DrainOversized, DrainPending, Failures
<1>7. CASE DrainAtExit
    BY <1>7, DrainKeepsType DEF DrainAtExit, DrainPending, Failures
<1> QED BY <1>1, <1>2, <1>3, <1>4, <1>5, <1>6, <1>7 DEF ReadStep

LEMMA StopKeepsType ==
    ASSUME TypeOK, NEW p \in Stoppers, StopStep(p) PROVE TypeOK'
<1> USE DEF TypeOK, StopAt, callVars, stopVars, readVars, erlVars
<1>1. CASE StopBegin(p) BY <1>1 DEF StopBegin
<1>2. CASE StopCloseStdin(p)
    <2>1. stdinOpen' \in BOOLEAN BY <1>2, Zenon DEF StopCloseStdin
    <2> QED BY <1>2, <2>1 DEF StopCloseStdin
<1>3. CASE StopCloseDone(p) BY <1>3 DEF StopCloseDone
<1>4. CASE StopWait(p) BY <1>4 DEF StopWait
<1>5. CASE StopAgain(p) BY <1>5 DEF StopAgain
<1> QED BY <1>1, <1>2, <1>3, <1>4, <1>5 DEF StopStep

\* Halting at EOF does to the shared state what any end of the VM does.
LEMMA ErlSteps ==
    ErlStep => \/ DriverReads \/ DriverEof \/ RunnerTakes \/ ErlDies
               \/ \E tag \in ReplyTags : RunnerReplies(tag)
BY DEF ErlStep, RunnerHalts, ErlDies

LEMMA ErlKeepsType ==
    ASSUME TypeOK, ErlStep PROVE TypeOK'
<1> USE DEF TypeOK, callVars, stopVars, readVars, erlVars
<1>1. CASE DriverReads
    <2>1. Tail(Tail(stdin)) \in Seq(Fragments)
        BY <1>1, Tail2Type DEF DriverReads
    <2>3. stdin[1] \in Fragments
        BY <1>1 DEF DriverReads
    <2>4. mailbox' \in Seq({0} \union Seqs)
        BY <1>1, <2>3 DEF DriverReads, Fragments
    <2> QED BY <1>1, <2>1, <2>4 DEF DriverReads
<1>2. CASE DriverEof BY <1>2 DEF DriverEof
<1>3. CASE RunnerTakes BY <1>3 DEF RunnerTakes
<1>4. ASSUME NEW tag \in ReplyTags, RunnerReplies(tag) PROVE TypeOK'
    BY <1>4 DEF RunnerReplies, Packets
<1>5. CASE ErlDies BY <1>5 DEF ErlDies
<1> QED BY <1>1, <1>2, <1>3, <1>4, <1>5, ErlSteps

LEMMA PortStepType == TypeOK /\ [PortNext]_vars => TypeOK'
<1> SUFFICES ASSUME TypeOK, [PortNext]_vars PROVE TypeOK'
    OBVIOUS
<1>1. CASE CallBegin
    BY <1>1, PortAssumption DEF TypeOK, CallBegin, Goto, Seqs, callVars, stopVars, readVars, erlVars
<1>2. CASE UNCHANGED vars
    BY <1>2 DEF TypeOK, vars, callVars, stopVars, readVars, erlVars
<1> QED BY <1>1, <1>2, CallKeepsType, ReadKeepsType, StopKeepsType, ErlKeepsType DEF PortNext

\* Type correctness of the manager, its pipes and the runner: nextSeq, the
\* pending map, every channel and packet stay in their ranges.
THEOREM PortTypeCorrect == PortSpec => []TypeOK
BY PortInitType, PortStepType, PTL DEF PortSpec

-----------------------------------------------------------------------------
(***************************************************************************)
(* The hand-over of a result.  ChannelRoom and WaiterIsReachable are not   *)
(* inductive: that a channel is empty while its call is in the map rests   *)
(* on the entry being gone before anything is sent, on a call number being *)
(* drawn only once, and on nothing being sent for a call not yet entered.  *)
(***************************************************************************)
InHand(s) == reader = "send" /\ hand.to = s

\* Numbers beyond the counter were never drawn.
SeqsFresh == \A s \in Seqs : s > nextSeq => pc[s] = "idle"

\* A call that has not entered itself in the map is known to nobody.
Unentered ==
    \A s \in Seqs : pc[s] \in {"idle", "register"} =>
        s \notin pending /\ ch[s] = NoOutcome /\ ~InHand(s)

\* Map entry, reader's hand and channel hold a call at most one at a time.
OnePlace ==
    /\ \A s \in pending : ch[s] = NoOutcome /\ ~InHand(s)
    /\ reader = "send" => ch[hand.to] = NoOutcome

\* From its registration to its return a call that did not fail to send is in
\* one of the three places.
SomePlace ==
    \A s \in Seqs : pc[s] \in {"lock", "hdr", "body", "wait"} =>
        s \in pending \/ ch[s] # NoOutcome \/ InHand(s)

HandoverInv == SeqsFresh /\ Unentered /\ OnePlace /\ SomePlace /\ NoLeakedEntry

LEMMA HandoverImplies == HandoverInv => ChannelRoom /\ WaiterIsReachable /\ NoLeakedEntry
BY DEF HandoverInv, OnePlace, SomePlace, ChannelRoom, WaiterIsReachable, InHand

LEMMA PortInitHandover == PortInit => HandoverInv
BY DEF PortInit, HandoverInv, SeqsFresh, Unentered, OnePlace, SomePlace, NoLeakedEntry, InHand

LEMMA CallKeepsHandover ==
    ASSUME TypeOK, HandoverInv, NEW s \in Seqs, CallStep(s) PROVE HandoverInv'
<1> USE DEF TypeOK, HandoverInv, SeqsFresh, Unentered, OnePlace, SomePlace, NoLeakedEntry,
        InHand, Goto, Return, callVars, stopVars, readVars, erlVars
<1>1. CASE Register(s)
    <2>1. s \notin pending /\ ch[s] = NoOutcome /\ ~InHand(s) /\ ~(s > nextSeq)
        BY <1>1 DEF Register
    <2>2. pc'[s] \in {"lock", "undo"} /\ \A r \in Seqs \ {s} : pc'[r] = pc[r]
        BY <1>1 DEF Register
    <2> QED BY <1>1, <2>1, <2>2 DEF Register
<1>2. CASE LockWrite(s) BY <1>2 DEF LockWrite
<1>3. CASE WriteHdr(s) BY <1>3 DEF WriteHdr
<1>4. CASE WriteBody(s) BY <1>4 DEF WriteBody
<1>5. CASE WriteFails(s) BY <1>5 DEF WriteFails
<1>6. CASE Undo(s) BY <1>6 DEF Undo
<1>7. CASE TakeResult(s) BY <1>7 DEF TakeResult
<1>8. CASE TimerFires(s) BY <1>8 DEF TimerFires
<1>9. CASE Expire(s) BY <1>9 DEF Expire
<1>10. CASE SeeDone(s) BY <1>10 DEF SeeDone
<1> QED BY <1>1, <1>2, <1>3, <1>4, <1>5, <1>6, <1>7, <1>8, <1>9, <1>10 DEF CallStep

LEMMA ReadKeepsHandover ==
    ASSUME TypeOK, HandoverInv, ReadStep PROVE HandoverInv'
<1> USE DEF TypeOK, HandoverInv, SeqsFresh, Unentered, OnePlace, SomePlace, NoLeakedEntry,
        InHand, callVars, stopVars, readVars, erlVars
<1>1. CASE SkipBadTerm BY <1>1 DEF SkipBadTerm, NextPacket
<1>2. CASE ReadOversized BY <1>2 DEF ReadOversized, NextPacket
<1>3. CASE Lookup
    <2>1. Head(stdout) \in Packets
        BY <1>3, TailType DEF Lookup, NextPacket
    <2> QED BY <1>3, <2>1 DEF Lookup, NextPacket, Packets
<1>4. CASE Send
    <2>1. hand.out # NoOutcome /\ hand.to \in Seqs BY <1>4, NoOutcomeIsNone DEF Send
    <2> QED BY <1>4, <2>1 DEF Send
<1>5. CASE ReadFails BY <1>5 DEF ReadFails
<1>6. CASE DrainOversized
    <2>1. Failure("oversized") # NoOutcome BY NoOutcomeIsNone DEF Failures
    <2> QED BY <1>6, <2>1 DEF DrainOversized, DrainPending
<1>7. CASE DrainAtExit
    <2>1. Failure("closed") # NoOutcome BY NoOutcomeIsNone DEF Failures
    <2> QED BY <1>7, <2>1 DEF DrainAtExit, DrainPending
<1> QED BY <1>1, <1>2, <1>3, <1>4, <1>5, <1>6, <1>7 DEF ReadStep

LEMMA OthersKeepHandover ==
    ASSUME TypeOK, HandoverInv,
           UNCHANGED <<callVars, pending, ch, readVars>>
    PROVE  HandoverInv'
BY DEF HandoverInv, SeqsFresh, Unentered, OnePlace, SomePlace, NoLeakedEntry, InHand,
       callVars, readVars

LEMMA StopAndErlLeaveCalls ==
    ASSUME (\E p \in Stoppers : StopStep(p)) \/ ErlStep \/ UNCHANGED vars
    PROVE  UNCHANGED <<callVars, pending, ch, readVars>>
BY ErlSteps DEF StopStep, StopBegin, StopCloseStdin, StopCloseDone, StopWait, StopAgain,
       DriverReads, DriverEof, RunnerTakes, RunnerReplies, ErlDies, vars

LEMMA PortStepHandover == TypeOK /\ HandoverInv /\ [PortNext]_vars => HandoverInv'
<1> SUFFICES ASSUME TypeOK, HandoverInv, [PortNext]_vars PROVE HandoverInv'
    OBVIOUS
<1>1. CASE CallBegin
    <2>1. nextSeq + 1 \in Seqs /\ pc[nextSeq + 1] = "idle"
        BY <1>1, PortAssumption DEF TypeOK, HandoverInv, SeqsFresh, CallBegin, Seqs
    <2> QED BY <1>1, <2>1, PortAssumption
            DEF TypeOK, HandoverInv, SeqsFresh, Unentered, OnePlace, SomePlace, NoLeakedEntry,
                InHand, CallBegin, Goto, Seqs, readVars
<1> QED BY <1>1, CallKeepsHandover, ReadKeepsHandover, StopAndErlLeaveCalls, OthersKeepHandover
        DEF PortNext

LEMMA PortAlwaysHandover == PortSpec => []HandoverInv
<1>1. PortInit => TypeOK /\ HandoverInv
    BY PortInitType, PortInitHandover
<1>2. TypeOK /\ HandoverInv /\ [PortNext]_vars => (TypeOK /\ HandoverInv)'
    BY PortStepType, PortStepHandover
<1> QED BY <1>1, <1>2, PTL DEF PortSpec

\* However calls, timeouts, the reader's exit and Stop interleave, no send on
\* a call's channel ever blocks, in dispatch or in drainPending.
THEOREM PortChannelRoom == PortSpec => []ChannelRoom
BY PortAlwaysHandover, HandoverImplies, PTL

\* No interleaving of dispatch, drainPending and the other calls' timeouts
\* puts a call that waits in its select out of the reader's reach.
THEOREM PortWaiterIsReachable == PortSpec => []WaiterIsReachable
BY PortAlwaysHandover, HandoverImplies, PTL

\* Only the manager-stopped case of Call's select leaves an entry behind in
\* the pending map.
THEOREM PortNoLeakedEntry == PortSpec => []NoLeakedEntry
BY PortAlwaysHandover, HandoverImplies, PTL

-----------------------------------------------------------------------------
(***************************************************************************)
(* Whose answer a call returns.  OwnAnswer speaks of results; it is        *)
(* carried there through the packets on stdout, the reader's hand and the  *)
(* channels, so the invariant follows the value along that way.            *)
(***************************************************************************)
Genuine(s, o) == o.kind \in Answers => o.of = s /\ executed[s] > 0

RunnerGenuine == running # 0 => executed[running] > 0
PacketsGenuine ==
    \A i \in 1..Len(stdout) : stdout[i].val = stdout[i].seq /\ executed[stdout[i].seq] > 0
HandGenuine == reader = "send" => Genuine(hand.to, hand.out)
ChannelsGenuine == \A s \in Seqs : Genuine(s, ch[s]) /\ Genuine(s, result[s])

AnswerInv == RunnerGenuine /\ PacketsGenuine /\ HandGenuine /\ ChannelsGenuine

LEMMA FailuresGenuine ==
    ASSUME NEW s
    PROVE  Genuine(s, NoOutcome) /\ \A k \in Failures : Genuine(s, Failure(k))
BY DEF Genuine, NoOutcome, Failure, Failures, Answers

LEMMA PortInitAnswer == PortInit => AnswerInv
BY FailuresGenuine DEF PortInit, AnswerInv, RunnerGenuine, PacketsGenuine, HandGenuine, ChannelsGenuine

\* Only RunnerTakes changes executed; every other action preserves the
\* conjuncts on the variables it leaves alone.
LEMMA CallKeepsAnswer ==
    ASSUME TypeOK, AnswerInv, NEW s \in Seqs, CallStep(s) PROVE AnswerInv'
<1>0. UNCHANGED <<stdout, reader, hand, running, executed>>
    BY DEF CallStep, Register, LockWrite, WriteHdr, WriteBody, WriteFails, Undo, TakeResult,
           TimerFires, Expire, SeeDone, readVars, erlVars
<1>1. (RunnerGenuine /\ PacketsGenuine /\ HandGenuine)'
    BY <1>0 DEF AnswerInv, RunnerGenuine, PacketsGenuine, HandGenuine, Genuine
<1>2. ChannelsGenuine'
    <2> USE <1>0 DEF AnswerInv, ChannelsGenuine, TypeOK, Return, Goto
    <2>1. CASE UNCHANGED <<ch, result>>
        BY <2>1 DEF Genuine
    <2>2. CASE Undo(s)
        BY <2>2, FailuresGenuine DEF Undo, Genuine, Failures
    <2>3. CASE TakeResult(s)
        BY <2>3, FailuresGenuine DEF TakeResult, Genuine
    <2>4. CASE Expire(s)
        BY <2>4, FailuresGenuine DEF Expire, Genuine, Failures
    <2>5. CASE SeeDone(s)
        BY <2>5, FailuresGenuine DEF SeeDone, Genuine, Failures
    <2> QED
        BY <2>1, <2>2, <2>3, <2>4, <2>5
        DEF CallStep, Register, LockWrite, WriteHdr, WriteBody, WriteFails, TimerFires
<1> QED BY <1>1, <1>2 DEF AnswerInv

LEMMA ReadKeepsAnswer ==
    ASSUME TypeOK, AnswerInv, ReadStep PROVE AnswerInv'
<1>0. UNCHANGED <<result, running, executed>>
    BY DEF ReadStep, SkipBadTerm, ReadOversized, Lookup, Send, ReadFails, DrainOversized,
           DrainAtExit, DrainPending, callVars, erlVars
<1>1. RunnerGenuine'
    BY <1>0 DEF AnswerInv, RunnerGenuine
<1>2. PacketsGenuine'
    <2>1. CASE UNCHANGED stdout
        BY <1>0, <2>1 DEF AnswerInv, PacketsGenuine
    <2>2. CASE stdout # <<>> /\ stdout' = Tail(stdout)
        BY <1>0, <2>2, TailType DEF AnswerInv, PacketsGenuine, TypeOK
    <2> QED
        BY <2>1, <2>2 DEF ReadStep, SkipBadTerm, ReadOversized, Lookup, Send, ReadFails,
           DrainOversized, DrainAtExit, DrainPending, NextPacket
<1>3. HandGenuine'
    <2>1. CASE Lookup
        <3> DEFINE p == Head(stdout)
        <3>1. p = stdout[1] /\ 1 \in 1..Len(stdout) /\ p \in Packets
            BY <2>1 DEF Lookup, NextPacket, TypeOK
        <3>2. p.val = p.seq /\ executed[p.seq] > 0
            BY <3>1 DEF AnswerInv, PacketsGenuine
        <3>3. CASE p.seq \in pending
            BY <1>0, <2>1, <3>2, <3>3 DEF Lookup, HandGenuine, Genuine
        <3>4. CASE p.seq \notin pending
            BY <1>0, <2>1, <3>4 DEF Lookup, AnswerInv, HandGenuine, Genuine, readVars
        <3> QED BY <3>3, <3>4
    <2>2. CASE reader' # "send"
        BY <2>2 DEF HandGenuine
    <2>3. CASE SkipBadTerm
        BY <1>0, <2>3 DEF SkipBadTerm, AnswerInv, HandGenuine, Genuine, readVars
    <2> QED
        BY <2>1, <2>2, <2>3 DEF ReadStep, ReadOversized, Send, ReadFails, DrainOversized, DrainAtExit
<1>4. ChannelsGenuine'
    <2> USE <1>0 DEF AnswerInv, ChannelsGenuine, TypeOK
    <2>1. CASE UNCHANGED ch
        BY <2>1 DEF Genuine
    <2>2. CASE Send
        BY <2>2 DEF Send, HandGenuine, Genuine
    <2>3. ASSUME NEW err \in Failures, DrainPending(err) PROVE ChannelsGenuine'
        BY <2>3, FailuresGenuine DEF DrainPending, Genuine
    <2> QED
        BY <2>1, <2>2, <2>3 DEF ReadStep, SkipBadTerm, ReadOversized, Lookup, ReadFails,
           DrainOversized, DrainAtExit, Failures
<1> QED BY <1>1, <1>2, <1>3, <1>4 DEF AnswerInv

LEMMA ErlKeepsAnswer ==
    ASSUME TypeOK, AnswerInv, ErlStep PROVE AnswerInv'
<1>0. UNCHANGED <<ch, result, reader, hand>>
    BY ErlSteps DEF DriverReads, DriverEof, RunnerTakes, RunnerReplies, ErlDies, callVars, readVars
<1>1. ASSUME \A s \in Seqs : executed'[s] \in Nat /\ executed'[s] >= executed[s]
      PROVE  (HandGenuine /\ ChannelsGenuine)'
    BY <1>0, <1>1 DEF AnswerInv, HandGenuine, ChannelsGenuine, Genuine, TypeOK
<1>2. CASE RunnerTakes
    <2>1. Head(mailbox) \in {0} \union Seqs
        BY <1>2, TailType DEF RunnerTakes, TypeOK
    <2>2. \A s \in Seqs : executed'[s] \in Nat /\ executed'[s] >= executed[s]
        BY <1>2 DEF RunnerTakes, TypeOK
    <2>3. RunnerGenuine'
        BY <1>2, <2>1 DEF RunnerTakes, RunnerGenuine, TypeOK
    <2>4. \A i \in 1..Len(stdout) : stdout[i].seq \in Seqs
        <3>1. \A i \in 1..Len(stdout) : stdout[i] \in Packets
            BY DEF TypeOK
        <3> QED BY <3>1 DEF Packets
    <2>5. PacketsGenuine'
        BY <1>2, <2>2, <2>4 DEF RunnerTakes, AnswerInv, PacketsGenuine, TypeOK
    <2> QED BY <1>1, <2>2, <2>3, <2>5 DEF AnswerInv
<1>3. ASSUME NEW tag \in ReplyTags, RunnerReplies(tag) PROVE AnswerInv'
    <2>1. executed' = executed /\ running' = 0 /\ running \in Seqs /\ executed[running] > 0
        BY <1>3 DEF RunnerReplies, AnswerInv, RunnerGenuine, TypeOK
    <2>2. PacketsGenuine'
        BY <1>3, <2>1 DEF RunnerReplies, AnswerInv, PacketsGenuine, TypeOK
    <2>3. RunnerGenuine'
        BY <2>1 DEF RunnerGenuine
    <2> QED BY <1>1, <2>1, <2>2, <2>3 DEF AnswerInv, TypeOK
<1>4. CASE UNCHANGED <<executed, stdout>> /\ (running' = 0 \/ UNCHANGED running)
    BY <1>1, <1>4 DEF AnswerInv, RunnerGenuine, PacketsGenuine, TypeOK
<1> QED BY <1>2, <1>3, <1>4, ErlSteps DEF DriverReads, DriverEof, ErlDies

LEMMA PortStepAnswer == TypeOK /\ AnswerInv /\ [PortNext]_vars => AnswerInv'
<1> SUFFICES ASSUME TypeOK, AnswerInv, [PortNext]_vars PROVE AnswerInv'
    OBVIOUS
<1>1. CASE UNCHANGED <<stdout, reader, hand, running, executed, ch, result>>
    BY <1>1 DEF AnswerInv, RunnerGenuine, PacketsGenuine, HandGenuine, ChannelsGenuine, Genuine
<1> QED BY <1>1, CallKeepsAnswer, ReadKeepsAnswer, ErlKeepsAnswer
        DEF PortNext, CallBegin, StopStep, StopBegin, StopCloseStdin, StopCloseDone, StopWait,
            StopAgain, vars, callVars, readVars, erlVars

\* Replies may be late, undecodable or lost and calls may time out in any
\* order: an answer a call returns is the one its own function produced.
THEOREM PortOwnAnswer == PortSpec => []OwnAnswer
<1>1. PortInit => TypeOK /\ AnswerInv
    BY PortInitType, PortInitAnswer
<1>2. TypeOK /\ AnswerInv /\ [PortNext]_vars => (TypeOK /\ AnswerInv)'
    BY PortStepType, PortStepAnswer
<1>3. AnswerInv => OwnAnswer
    BY DEF AnswerInv, ChannelsGenuine, Genuine, OwnAnswer
<1> QED BY <1>1, <1>2, <1>3, PTL DEF PortSpec

-----------------------------------------------------------------------------
(***************************************************************************)
(* What Stop guarantees when it returns.  The winner of closeOnce reaches  *)
(* each of its places only after the steps before it, and a later Stop     *)
(* returns only once closeOnce is done, so that state carries the facts.   *)
(***************************************************************************)
StopProgress ==
    \A p \in Stoppers :
        /\ stopPc[p] \in {"done", "reap"} => ~stdinOpen
        /\ stopPc[p] = "reap" => done

OnceDone == once = "done" => ~stdinOpen /\ done /\ (hasCmd => erl = "dead")

StopInv == StopProgress /\ OnceDone /\ StopIsFinal

LEMMA PortStepStop == TypeOK /\ StopInv /\ [PortNext]_vars => StopInv'
<1> SUFFICES ASSUME TypeOK, StopInv, [PortNext]_vars PROVE StopInv'
    OBVIOUS
<1> USE DEF TypeOK, StopInv, StopProgress, OnceDone, StopIsFinal
<1>1. ASSUME NEW p \in Stoppers, StopStep(p) PROVE StopInv'
    <2> USE DEF StopAt, erlVars
    <2>1. CASE StopBegin(p) BY <2>1 DEF StopBegin
    <2>2. CASE StopCloseStdin(p) BY <2>2 DEF StopCloseStdin
    <2>3. CASE StopCloseDone(p) BY <2>3 DEF StopCloseDone
    <2>4. CASE StopWait(p) BY <2>4 DEF StopWait
    <2>5. CASE StopAgain(p) BY <2>5 DEF StopAgain
    <2> QED BY <1>1, <2>1, <2>2, <2>3, <2>4, <2>5 DEF StopStep
<1>2. CASE UNCHANGED stopVars /\ (erl = "dead" => erl' = "dead")
    BY <1>2 DEF stopVars
<1>3. ASSUME CallBegin \/ (\E s \in Seqs : CallStep(s)) \/ ReadStep \/ ErlStep \/ UNCHANGED vars
      PROVE  UNCHANGED stopVars /\ (erl = "dead" => erl' = "dead")
    BY <1>3, ErlSteps DEF CallBegin, CallStep, Register, LockWrite, WriteHdr, WriteBody, WriteFails,
        Undo, TakeResult, TimerFires, Expire, SeeDone, ReadStep, SkipBadTerm, ReadOversized, Lookup,
        Send, ReadFails, DrainOversized, DrainAtExit, DrainPending, DriverReads,
        DriverEof, RunnerTakes, RunnerReplies, ErlDies, vars, erlVars
<1> QED BY <1>1, <1>2, <1>3 DEF PortNext

\* However many goroutines call Stop: when one of the calls returns, stdin and
\* done are closed and a spawned process has exited.
THEOREM PortStopIsFinal == PortSpec => []StopIsFinal
<1>1. PortInit => TypeOK /\ StopInv
    BY PortInitType DEF PortInit, StopInv, StopProgress, OnceDone, StopIsFinal
<1>2. TypeOK /\ StopInv /\ [PortNext]_vars => (TypeOK /\ StopInv)'
    BY PortStepType, PortStepStop
<1> QED BY <1>1, <1>2, PTL DEF PortSpec, StopInv

-----------------------------------------------------------------------------
(***************************************************************************)
(* Framing.  FramesIntact speaks of the runner's mailbox; it rests on the  *)
(* shape of the pipe, which writeMu protects: headers and payloads         *)
(* alternate, each payload after its own header, and only the call at its  *)
(* second write has an open frame.  A write that fails leaves a lone       *)
(* header behind, but then nobody writes any more.                         *)
(***************************************************************************)
WriterHoldsMu == \A s \in Seqs : pc[s] \in {"hdr", "body"} <=> writeMu = s

FramesPaired ==
    \A i \in 1..Len(stdin) :
        IF i % 2 = 1 THEN stdin[i].part = "hdr"
                     ELSE stdin[i].part = "body" /\ stdin[i].seq = stdin[i - 1].seq

OpenFrame ==
    stdinOpen /\ erl # "dead" =>
        /\ Len(stdin) % 2 = 1 => \E s \in Seqs : pc[s] = "body"
        /\ \A s \in Seqs : pc[s] = "body" =>
              Len(stdin) % 2 = 1 /\ stdin[Len(stdin)].seq = s

FramesInv == WriterHoldsMu /\ FramesPaired /\ OpenFrame /\ FramesIntact

LEMMA ZeroIsNoCall == 0 \notin Seqs
BY PortAssumption DEF Seqs

\* Actions that touch neither the pipe nor the mailbox, and no writer.
LEMMA OthersKeepFrames ==
    ASSUME FramesInv, UNCHANGED <<stdin, mailbox, writeMu>>,
           stdinOpen' => stdinOpen, erl = "dead" => erl' = "dead",
           \A s \in Seqs : pc'[s] = pc[s] \/ {pc[s], pc'[s]} \intersect {"hdr", "body"} = {}
    PROVE  FramesInv'
<1>1. WriterHoldsMu' /\ FramesPaired' /\ FramesIntact'
    BY DEF FramesInv, WriterHoldsMu, FramesPaired, FramesIntact
<1>2. \A s \in Seqs : pc'[s] = "body" <=> pc[s] = "body"
    OBVIOUS
<1>3. OpenFrame'
    BY <1>2 DEF FramesInv, OpenFrame
<1> QED BY <1>1, <1>3 DEF FramesInv

LEMMA CallKeepsFrames ==
    ASSUME TypeOK, FramesInv, NEW s \in Seqs, CallStep(s) PROVE FramesInv'
<1> USE DEF Goto, stopVars, erlVars
<1>1. CASE LockWrite(s)
    <2>1. \A r \in Seqs : pc[r] \notin {"hdr", "body"}
        BY <1>1, ZeroIsNoCall DEF LockWrite, FramesInv, WriterHoldsMu
    <2>2. WriterHoldsMu' BY <1>1, <2>1 DEF LockWrite, WriterHoldsMu, TypeOK
    <2>3. OpenFrame' BY <1>1, <2>1 DEF LockWrite, FramesInv, OpenFrame, TypeOK
    <2> QED BY <1>1, <2>2, <2>3 DEF LockWrite, FramesInv, FramesPaired, FramesIntact
<1>2. CASE WriteHdr(s)
    <2> DEFINE f == [seq |-> s, part |-> "hdr"]
    <2>1. f \in Fragments BY DEF Fragments
    <2>2. /\ stdin' = Append(stdin, f) /\ Len(stdin') = Len(stdin) + 1 /\ Len(stdin) \in Nat
          /\ \A i \in 1..Len(stdin) : stdin'[i] = stdin[i]
          /\ stdin'[Len(stdin) + 1] = f
        BY <1>2, <2>1, AppendFacts DEF WriteHdr, TypeOK
    <2>3. \A r \in Seqs : pc[r] # "body" /\ (pc'[r] = "body" => r = s)
        BY <1>2 DEF WriteHdr, FramesInv, WriterHoldsMu, TypeOK
    <2>4. Len(stdin) % 2 # 1
        BY <1>2, <2>3 DEF WriteHdr, CanWrite, FramesInv, OpenFrame
    <2>5. (Len(stdin) + 1) % 2 = 1
        BY <2>2, <2>4, Parity
    <2>6. FramesPaired'
        <3> SUFFICES ASSUME NEW i \in 1..Len(stdin')
                     PROVE  IF i % 2 = 1 THEN stdin'[i].part = "hdr"
                            ELSE stdin'[i].part = "body" /\ stdin'[i].seq = stdin'[i - 1].seq
            BY DEF FramesPaired
        <3>1. CASE i = Len(stdin) + 1
            BY <2>2, <2>5, <3>1
        <3>2. CASE i \in 1..Len(stdin)
            <4>1. i % 2 # 1 => i - 1 \in 1..Len(stdin)
                BY <2>2, <3>2, Parity
            <4> QED BY <2>2, <3>2, <4>1 DEF FramesInv, FramesPaired
        <3> QED BY <2>2, <3>1, <3>2
    <2>7. OpenFrame'
        BY <1>2, <2>2, <2>3, <2>5 DEF WriteHdr, OpenFrame, TypeOK
    <2>8. WriterHoldsMu'
        BY <1>2 DEF WriteHdr, FramesInv, WriterHoldsMu, TypeOK
    <2> QED BY <1>2, <2>6, <2>7, <2>8 DEF WriteHdr, FramesInv, FramesIntact
<1>3. CASE WriteBody(s)
    <2> DEFINE f == [seq |-> s, part |-> "body"]
    <2>1. f \in Fragments BY DEF Fragments
    <2>2. /\ stdin' = Append(stdin, f) /\ Len(stdin') = Len(stdin) + 1 /\ Len(stdin) \in Nat
          /\ \A i \in 1..Len(stdin) : stdin'[i] = stdin[i]
          /\ stdin'[Len(stdin) + 1] = f
        BY <1>3, <2>1, AppendFacts DEF WriteBody, TypeOK
    <2>3. \A r \in Seqs : pc'[r] \notin {"hdr", "body"}
        BY <1>3 DEF WriteBody, FramesInv, WriterHoldsMu, TypeOK
    <2>4. Len(stdin) % 2 = 1 /\ stdin[Len(stdin)].seq = s
        BY <1>3 DEF WriteBody, CanWrite, FramesInv, OpenFrame
    <2>5. (Len(stdin) + 1) % 2 # 1 /\ Len(stdin) >= 1
        BY <2>2, <2>4, Parity
    <2>6. FramesPaired'
        <3> SUFFICES ASSUME NEW i \in 1..Len(stdin')
                     PROVE  IF i % 2 = 1 THEN stdin'[i].part = "hdr"
                            ELSE stdin'[i].part = "body" /\ stdin'[i].seq = stdin'[i - 1].seq
            BY DEF FramesPaired
        <3>1. CASE i = Len(stdin) + 1
            BY <2>2, <2>4, <2>5, <3>1
        <3>2. CASE i \in 1..Len(stdin)
            <4>1. i % 2 # 1 => i - 1 \in 1..Len(stdin)
                BY <2>2, <3>2, Parity
            <4> QED BY <2>2, <3>2, <4>1 DEF FramesInv, FramesPaired
        <3> QED BY <2>2, <3>1, <3>2
    <2>7. OpenFrame'
        BY <2>2, <2>3, <2>5 DEF OpenFrame
    <2>8. WriterHoldsMu'
        BY <1>3, <2>3, ZeroIsNoCall DEF WriteBody, WriterHoldsMu
    <2> QED BY <1>3, <2>6, <2>7, <2>8 DEF WriteBody, FramesInv, FramesIntact
<1>4. CASE WriteFails(s)
    <2>1. WriterHoldsMu'
        BY <1>4, ZeroIsNoCall DEF WriteFails, FramesInv, WriterHoldsMu, TypeOK
    <2> QED BY <1>4, <2>1 DEF WriteFails, WriteMustFail, FramesInv, FramesPaired, OpenFrame, FramesIntact
<1>5. CASE Register(s) \/ Undo(s) \/ TakeResult(s) \/ TimerFires(s) \/ Expire(s) \/ SeeDone(s)
    <2> USE DEF Return, Register, Undo, TakeResult, TimerFires, Expire, SeeDone
    <2>1. UNCHANGED <<stdin, mailbox, writeMu, stdinOpen, erl>>
        BY <1>5
    <2>2. pc[s] \notin {"hdr", "body"} /\ pc'[s] \notin {"hdr", "body"}
        BY <1>5 DEF TypeOK
    <2>3. \A r \in Seqs \ {s} : pc'[r] = pc[r]
        BY <1>5 DEF TypeOK
    <2> QED BY <2>1, <2>2, <2>3, OthersKeepFrames
<1> QED BY <1>1, <1>2, <1>3, <1>4, <1>5 DEF CallStep

LEMMA ErlKeepsFrames ==
    ASSUME TypeOK, FramesInv, ErlStep PROVE FramesInv'
<1> USE DEF callVars, stopVars, erlVars
<1>1. CASE DriverReads
    <2>1. /\ stdin' = Tail(Tail(stdin)) /\ Len(stdin') = Len(stdin) - 2 /\ Len(stdin) \in Nat
          /\ \A i \in 1..Len(stdin') : stdin'[i] = stdin[i + 2] /\ i + 2 \in 1..Len(stdin)
        <3>1. stdin \in Seq(Fragments) /\ Len(stdin) >= 2 /\ stdin' = Tail(Tail(stdin))
            BY <1>1 DEF DriverReads, TypeOK
        <3>2. Len(stdin) \in Nat
            BY <3>1
        <3> QED BY <3>1, <3>2, Tail2Type, Zenon
    <2>2. FramesPaired'
        <3> SUFFICES ASSUME NEW i \in 1..Len(stdin')
                     PROVE  IF i % 2 = 1 THEN stdin'[i].part = "hdr"
                            ELSE stdin'[i].part = "body" /\ stdin'[i].seq = stdin'[i - 1].seq
            BY DEF FramesPaired
        <3>1. (i + 2) % 2 = i % 2 /\ i \in Nat
            BY <2>1, Parity
        <3>2. CASE i % 2 = 1
            BY <2>1, <3>1, <3>2 DEF FramesInv, FramesPaired
        <3>3. CASE i % 2 # 1
            <4>0. i # 1
                BY <3>3, Parity
            <4>1. i - 1 \in 1..Len(stdin') /\ (i - 1) + 2 = (i + 2) - 1
                BY <2>1, <3>1, <4>0
            <4>2. i + 2 \in 1..Len(stdin) /\ stdin'[i] = stdin[i + 2] /\ stdin'[i - 1] = stdin[(i + 2) - 1]
                BY <2>1, <4>1
            <4>3. stdin[i + 2].part = "body" /\ stdin[i + 2].seq = stdin[(i + 2) - 1].seq
                BY <3>1, <3>3, <4>2 DEF FramesInv, FramesPaired
            <4> QED BY <3>3, <4>2, <4>3
        <3> QED BY <3>2, <3>3
    <2>3. OpenFrame'
        <3>1. Len(stdin') % 2 = Len(stdin) % 2
            <4>1. (Len(stdin) - 2) % 2 = Len(stdin) % 2 BY <2>1, Parity
            <4> QED BY <2>1, <4>1
        <3>2. Len(stdin) % 2 = 1 => Len(stdin') \in 1..Len(stdin') /\ Len(stdin') + 2 = Len(stdin)
            <4>1. Len(stdin) >= 2 BY <1>1 DEF DriverReads
            <4>2. ASSUME NEW n \in Nat, n % 2 = 1, n >= 2 PROVE n - 2 >= 1
                BY <4>2
            <4>3. Len(stdin) \in Nat /\ Len(stdin') = Len(stdin) - 2 BY <2>1, Zenon
            <4>4. Len(stdin) % 2 = 1 => Len(stdin) - 2 >= 1 BY <4>1, <4>2, <4>3, Zenon
            <4> QED BY <4>3, <4>4
        <3> QED BY <1>1, <2>1, <3>1, <3>2 DEF DriverReads, FramesInv, OpenFrame
    <2>4. stdin[1].part = "hdr" /\ stdin[2].part = "body" /\ stdin[2].seq = stdin[1].seq
        <3>1. 1 \in 1..Len(stdin) /\ 2 \in 1..Len(stdin) /\ 1 % 2 = 1 /\ 2 % 2 # 1 /\ 2 - 1 = 1
            BY <1>1, <2>1, Parity DEF DriverReads
        <3> QED BY <3>1 DEF FramesInv, FramesPaired
    <2>5. FramesIntact'
        <3>1. stdin[1].seq \in Seqs
            <4>1. stdin[1] \in Fragments BY <1>1 DEF DriverReads, TypeOK
            <4> QED BY <4>1 DEF Fragments
        <3>2. mailbox' = Append(mailbox, stdin[1].seq)
            BY <1>1, <2>4 DEF DriverReads
        <3> QED BY <3>1, <3>2, ZeroIsNoCall DEF FramesInv, FramesIntact, TypeOK
    <2> QED BY <1>1, <2>2, <2>3, <2>5 DEF DriverReads, FramesInv, WriterHoldsMu
<1>2. CASE DriverEof BY <1>2, OthersKeepFrames DEF DriverEof
<1>3. CASE RunnerTakes
    <2>1. FramesIntact'
        BY <1>3, TailType DEF RunnerTakes, FramesInv, FramesIntact, TypeOK
    <2> QED BY <1>3, <2>1 DEF RunnerTakes, FramesInv, WriterHoldsMu, FramesPaired, OpenFrame
<1>4. ASSUME NEW tag \in ReplyTags, RunnerReplies(tag) PROVE FramesInv'
    BY <1>4, OthersKeepFrames DEF RunnerReplies
<1>5. CASE ErlDies
    BY <1>5 DEF ErlDies, FramesInv, WriterHoldsMu, FramesPaired, OpenFrame, FramesIntact
<1> QED BY <1>1, <1>2, <1>3, <1>4, <1>5, ErlSteps

LEMMA PortStepFrames == TypeOK /\ HandoverInv /\ FramesInv /\ [PortNext]_vars => FramesInv'
<1> SUFFICES ASSUME TypeOK, HandoverInv, FramesInv, [PortNext]_vars PROVE FramesInv'
    OBVIOUS
<1> USE DEF callVars, erlVars, stopVars
<1>1. CASE CallBegin
    <2>1. UNCHANGED <<stdin, mailbox, writeMu, stdinOpen, erl>>
        BY <1>1 DEF CallBegin
    <2>2. \A s \in Seqs : s # nextSeq + 1 => pc'[s] = pc[s]
        BY <1>1 DEF CallBegin, Goto, TypeOK
    <2>3. nextSeq + 1 \in Seqs /\ pc[nextSeq + 1] = "idle" /\ pc'[nextSeq + 1] = "register"
        BY <1>1, PortAssumption DEF CallBegin, Goto, TypeOK, HandoverInv, SeqsFresh, Seqs
    <2> QED BY <2>1, <2>2, <2>3, OthersKeepFrames
<1>2. CASE ReadStep
    <2>1. UNCHANGED <<stdin, mailbox, writeMu, stdinOpen, erl, pc>>
        BY <1>2 DEF ReadStep, SkipBadTerm, ReadOversized, Lookup, Send, ReadFails,
               DrainOversized, DrainAtExit, DrainPending
    <2> QED BY <2>1, OthersKeepFrames
<1>3. CASE \E p \in Stoppers : StopStep(p)
    BY <1>3, OthersKeepFrames DEF StopStep, StopBegin, StopCloseStdin, StopCloseDone, StopWait, StopAgain
<1>4. CASE UNCHANGED vars
    BY <1>4, OthersKeepFrames DEF vars
<1> QED BY <1>1, <1>2, <1>3, <1>4, CallKeepsFrames, ErlKeepsFrames DEF PortNext

\* However many calls write at once, and wherever a write fails or the VM dies:
\* header and payload arrive together and the runner gets no garbled packet.
THEOREM PortFramesIntact == PortSpec => []FramesIntact
<1>1. PortInit => TypeOK /\ HandoverInv /\ FramesInv
    BY ZeroIsNoCall, Parity, PortInitType, PortInitHandover
    DEF PortInit, FramesInv, WriterHoldsMu, FramesPaired, OpenFrame, FramesIntact
<1>2. TypeOK /\ HandoverInv /\ FramesInv /\ [PortNext]_vars => (TypeOK /\ HandoverInv /\ FramesInv)'
    BY PortStepType, PortStepHandover, PortStepFrames
<1> QED BY <1>1, <1>2, PTL DEF PortSpec, FramesInv

-----------------------------------------------------------------------------
(***************************************************************************)
(* At most once.  The request of a call is on its way at most once: in the *)
(* pipe, in the mailbox, or executed, and before its payload is written it *)
(* is nowhere.                                                             *)
(***************************************************************************)
Unsent == {"idle", "register", "lock", "hdr", "body"}

Bodies == {i \in 1..Len(stdin) : stdin[i].part = "body"}

NotSentYet ==
    \A s \in Seqs : pc[s] \in Unsent =>
        /\ \A i \in Bodies : stdin[i].seq # s
        /\ \A i \in 1..Len(mailbox) : mailbox[i] # s
        /\ executed[s] = 0

PipeOnce ==
    \A i \in Bodies :
        /\ \A j \in Bodies : stdin[i].seq = stdin[j].seq => i = j
        /\ \A j \in 1..Len(mailbox) : mailbox[j] # stdin[i].seq
        /\ executed[stdin[i].seq] = 0

MailboxOnce ==
    \A i \in 1..Len(mailbox) : mailbox[i] # 0 =>
        /\ \A j \in 1..Len(mailbox) : mailbox[i] = mailbox[j] => i = j
        /\ executed[mailbox[i]] = 0

AtMostOnce == \A s \in Seqs : executed[s] \in {0, 1}

OnceInv == NotSentYet /\ PipeOnce /\ MailboxOnce /\ AtMostOnce

LEMMA OthersKeepOnce ==
    ASSUME OnceInv, UNCHANGED <<stdin, mailbox, executed>>,
           \A s \in Seqs : pc'[s] \in Unsent => pc[s] \in Unsent
    PROVE  OnceInv'
<1>1. Bodies' = Bodies
    BY DEF Bodies
<1> QED BY <1>1 DEF OnceInv, NotSentYet, PipeOnce, MailboxOnce, AtMostOnce

\* A fragment added to the pipe: a header, or the payload of an unsent call.
LEMMA WriteKeepsOnce ==
    ASSUME TypeOK, OnceInv, NEW s \in Seqs, WriteHdr(s) \/ WriteBody(s)
    PROVE  OnceInv'
<1>1. UNCHANGED <<mailbox, executed>>
    BY DEF WriteHdr, WriteBody, erlVars
<1>2. \A r \in Seqs : pc'[r] \in Unsent => pc[r] \in Unsent
    BY DEF WriteHdr, WriteBody, Goto, Unsent, TypeOK
<1>3. PICK f \in Fragments :
          /\ stdin' = Append(stdin, f)
          /\ f.part = "body" => f.seq = s /\ pc[s] = "body" /\ pc'[s] = "wait"
    BY DEF WriteHdr, WriteBody, Goto, TypeOK, Fragments
<1>4. /\ Len(stdin') = Len(stdin) + 1 /\ Len(stdin) \in Nat
      /\ \A i \in 1..Len(stdin) : stdin'[i] = stdin[i]
      /\ stdin'[Len(stdin) + 1] = f
    BY <1>3, AppendFacts DEF TypeOK
<1>5. \A i \in Bodies' :
          \/ i \in Bodies /\ stdin'[i] = stdin[i]
          \/ i = Len(stdin) + 1 /\ stdin'[i] = f /\ f.part = "body"
    BY <1>4 DEF Bodies
<1>6. f.part = "body" =>
          /\ \A i \in Bodies : stdin[i].seq # s
          /\ \A i \in 1..Len(mailbox) : mailbox[i] # s
          /\ executed[s] = 0
    BY <1>3 DEF OnceInv, NotSentYet, Unsent
<1>7. NotSentYet'
    BY <1>1, <1>2, <1>3, <1>5, ZenonT(60) DEF OnceInv, NotSentYet, Unsent
<1>8. PipeOnce'
    <2> SUFFICES ASSUME NEW i \in Bodies'
                 PROVE  /\ \A j \in Bodies' : stdin'[i].seq = stdin'[j].seq => i = j
                        /\ \A j \in 1..Len(mailbox) : mailbox[j] # stdin'[i].seq
                        /\ executed[stdin'[i].seq] = 0
        BY <1>1 DEF PipeOnce
    <2>1. CASE i \in Bodies /\ stdin'[i] = stdin[i]
        BY <1>3, <1>5, <1>6, <2>1, ZenonT(60) DEF OnceInv, PipeOnce
    <2>2. CASE i = Len(stdin) + 1 /\ stdin'[i] = f /\ f.part = "body"
        BY <1>3, <1>5, <1>6, <2>2
    <2> QED BY <1>5, <2>1, <2>2
<1> QED BY <1>1, <1>7, <1>8 DEF OnceInv, MailboxOnce, AtMostOnce

\* A packet moved to the mailbox: its payload leaves the pipe in the same step.
LEMMA DriverKeepsOnce ==
    ASSUME TypeOK, OnceInv, DriverReads PROVE OnceInv'
<1>1. UNCHANGED <<executed, pc>>
    BY DEF DriverReads, callVars
<1>2. stdin \in Seq(Fragments) /\ Len(stdin) >= 2 /\ stdin' = Tail(Tail(stdin))
    BY DEF DriverReads, TypeOK
<1>3. \A i \in 1..Len(stdin') : stdin'[i] = stdin[i + 2] /\ i + 2 \in 1..Len(stdin)
    BY <1>2, Tail2Type, Zenon
<1>4. \A i \in Bodies' : i \in Nat \ {0} /\ i + 2 \in Bodies /\ stdin'[i] = stdin[i + 2]
    BY <1>3 DEF Bodies
<1>5. PICK x \in {0} \union Seqs :
          /\ mailbox' = Append(mailbox, x)
          /\ x # 0 => 2 \in Bodies /\ stdin[2].seq = x
    <2> DEFINE y == IF /\ stdin[1].part = "hdr" /\ stdin[2].part = "body"
                       /\ stdin[1].seq = stdin[2].seq
                    THEN stdin[1].seq ELSE 0
    <2>1. stdin[1] \in Fragments /\ 2 \in 1..Len(stdin)
        BY <1>2
    <2>2. mailbox' = Append(mailbox, y)
        BY DEF DriverReads
    <2>3. y \in {0} \union Seqs /\ (y # 0 => 2 \in Bodies /\ stdin[2].seq = y)
        BY <2>1 DEF Bodies, Fragments
    <2> QED BY <2>2, <2>3
<1>6. /\ Len(mailbox') = Len(mailbox) + 1 /\ Len(mailbox) \in Nat
      /\ \A i \in 1..Len(mailbox) : mailbox'[i] = mailbox[i]
      /\ mailbox'[Len(mailbox) + 1] = x
    BY <1>5, AppendFacts DEF TypeOK
<1>7. \A i \in 1..Len(mailbox') :
          \/ i \in 1..Len(mailbox) /\ mailbox'[i] = mailbox[i]
          \/ i = Len(mailbox) + 1 /\ mailbox'[i] = x
    BY <1>6
<1>8. x # 0 =>
          /\ \A i \in Bodies' : stdin'[i].seq # x
          /\ \A i \in 1..Len(mailbox) : mailbox[i] # x
          /\ executed[x] = 0
          /\ \A s \in Seqs : pc[s] \in Unsent => s # x
    BY <1>4, <1>5 DEF OnceInv, PipeOnce, NotSentYet
<1>9. NotSentYet'
    BY <1>1, <1>4, <1>7, <1>8, ZeroIsNoCall DEF OnceInv, NotSentYet
<1>10. PipeOnce'
    <2>1. \A i \in Bodies' : stdin'[i].seq # 0
        <3>1. \A i \in 1..Len(stdin) : stdin[i] \in Fragments
            BY <1>2
        <3> QED BY <1>4, <3>1, ZeroIsNoCall DEF Bodies, Fragments
    <2> QED BY <1>1, <1>4, <1>7, <1>8, <2>1 DEF OnceInv, PipeOnce
<1>11. MailboxOnce'
    BY <1>1, <1>7, <1>8 DEF OnceInv, MailboxOnce
<1> QED BY <1>1, <1>9, <1>10, <1>11 DEF OnceInv, AtMostOnce

\* The function of a call is applied: the request leaves the mailbox.
LEMMA RunnerKeepsOnce ==
    ASSUME TypeOK, OnceInv, RunnerTakes PROVE OnceInv'
<1> DEFINE x == Head(mailbox)
<1>1. UNCHANGED <<stdin, pc>> /\ Bodies' = Bodies
    BY DEF RunnerTakes, callVars, Bodies
<1>2. /\ mailbox # <<>> /\ mailbox' = Tail(mailbox)
      /\ executed' = [s \in Seqs |-> IF s = x THEN executed[s] + 1 ELSE executed[s]]
    BY DEF RunnerTakes
<1>3. 1 \in 1..Len(mailbox) /\ mailbox[1] = x /\ x \in {0} \union Seqs
    BY <1>2 DEF TypeOK
<1>4. \A i \in 1..Len(mailbox') :
          mailbox'[i] = mailbox[i + 1] /\ i + 1 \in 1..Len(mailbox) /\ i + 1 # 1
    BY <1>2, TailType DEF TypeOK
<1>5. x # 0 =>
          /\ \A i \in Bodies : stdin[i].seq # x
          /\ \A i \in 1..Len(mailbox') : mailbox'[i] # x
          /\ executed[x] = 0
          /\ \A s \in Seqs : pc[s] \in Unsent => s # x
    BY <1>3, <1>4 DEF OnceInv, PipeOnce, MailboxOnce, NotSentYet
<1>6. \A s \in Seqs : s # x => executed'[s] = executed[s]
    BY <1>2
<1> HIDE DEF x
<1>7. NotSentYet'
    BY <1>1, <1>3, <1>4, <1>5, <1>6, ZeroIsNoCall DEF OnceInv, NotSentYet
<1>8. PipeOnce'
    <2>1. \A i \in Bodies : stdin[i].seq \in Seqs
        <3>1. \A i \in 1..Len(stdin) : stdin[i] \in Fragments
            BY DEF TypeOK
        <3> QED BY <3>1 DEF Bodies, Fragments
    <2> QED BY <1>1, <1>3, <1>4, <1>5, <1>6, <2>1, ZeroIsNoCall DEF OnceInv, PipeOnce
<1>9. MailboxOnce'
    <2>1. \A i \in 1..Len(mailbox) : mailbox[i] \in {0} \union Seqs
        BY DEF TypeOK
    <2>2. \A i, j \in 1..Len(mailbox') : i + 1 = j + 1 => i = j
        OBVIOUS
    <2> QED BY <1>3, <1>4, <1>5, <1>6, <2>1, <2>2 DEF OnceInv, MailboxOnce
<1>10. AtMostOnce'
    BY <1>2, <1>3, <1>5, <1>6, ZeroIsNoCall DEF OnceInv, AtMostOnce
<1> QED BY <1>7, <1>8, <1>9, <1>10 DEF OnceInv

LEMMA PortStepOnce == TypeOK /\ HandoverInv /\ OnceInv /\ [PortNext]_vars => OnceInv'
<1> SUFFICES ASSUME TypeOK, HandoverInv, OnceInv, [PortNext]_vars PROVE OnceInv'
    OBVIOUS
<1> USE DEF callVars, erlVars
<1>1. CASE CallBegin
    <2>1. UNCHANGED <<stdin, mailbox, executed>>
        BY <1>1 DEF CallBegin
    <2>2. \A s \in Seqs : s # nextSeq + 1 => pc'[s] = pc[s]
        BY <1>1 DEF CallBegin, Goto, TypeOK
    <2>3. nextSeq + 1 \in Seqs /\ pc[nextSeq + 1] = "idle"
        BY <1>1, PortAssumption DEF CallBegin, TypeOK, HandoverInv, SeqsFresh, Seqs
    <2> QED BY <2>1, <2>2, <2>3, OthersKeepOnce DEF Unsent
<1>2. ASSUME NEW s \in Seqs, CallStep(s) PROVE OnceInv'
    <2>1. CASE WriteHdr(s) \/ WriteBody(s)
        BY <2>1, WriteKeepsOnce
    <2>2. CASE Register(s) \/ LockWrite(s) \/ WriteFails(s) \/ Undo(s) \/ TakeResult(s)
                 \/ TimerFires(s) \/ Expire(s) \/ SeeDone(s)
        <3> USE DEF Register, LockWrite, WriteFails, Undo, TakeResult, TimerFires, Expire, SeeDone
        <3>1. UNCHANGED <<stdin, mailbox, executed>>
            BY <2>2
        <3>2. \A r \in Seqs : pc'[r] \in Unsent => pc[r] \in Unsent
            BY <2>2 DEF Goto, Return, Unsent, TypeOK
        <3> QED BY <3>1, <3>2, OthersKeepOnce
    <2> QED BY <1>2, <2>1, <2>2 DEF CallStep
<1>3. CASE ReadStep
    <2>1. UNCHANGED <<stdin, mailbox, executed, pc>>
        BY <1>3 DEF ReadStep, SkipBadTerm, ReadOversized, Lookup, Send, ReadFails,
               DrainOversized, DrainAtExit, DrainPending
    <2> QED BY <2>1, OthersKeepOnce
<1>4. CASE \E p \in Stoppers : StopStep(p)
    <2>1. UNCHANGED <<stdin, mailbox, executed, pc>>
        BY <1>4 DEF StopStep, StopBegin, StopCloseStdin, StopCloseDone, StopWait, StopAgain
    <2> QED BY <2>1, OthersKeepOnce
<1>5. CASE ErlStep
    <2>1. CASE ErlDies
        BY <2>1 DEF ErlDies, OnceInv, NotSentYet, PipeOnce, MailboxOnce, AtMostOnce, Bodies
    <2>2. CASE DriverEof \/ \E tag \in ReplyTags : RunnerReplies(tag)
        <3>1. UNCHANGED <<stdin, mailbox, executed, pc>>
            BY <2>2 DEF DriverEof, RunnerReplies
        <3> QED BY <3>1, OthersKeepOnce
    <2> QED BY <1>5, <2>1, <2>2, DriverKeepsOnce, RunnerKeepsOnce, ErlSteps
<1>6. CASE UNCHANGED vars
    <2>1. UNCHANGED <<stdin, mailbox, executed, pc>>
        BY <1>6 DEF vars
    <2> QED BY <2>1, OthersKeepOnce
<1> QED BY <1>1, <1>2, <1>3, <1>4, <1>5, <1>6 DEF PortNext

-----------------------------------------------------------------------------
(***************************************************************************)
(* The refinement.  CallBegin is the abstract Begin, the four returns are  *)
(* Finish, RunnerTakes is Run, and everything else stutters.               *)
(***************************************************************************)
PortInv == TypeOK /\ HandoverInv /\ AnswerInv /\ OnceInv

StateOf(s) == CASE pc[s] = "idle" -> "new" [] pc[s] = "ret" -> "returned" [] OTHER -> "open"

LEMMA PortAlwaysInv == PortSpec => []PortInv
<1>1. PortInit => PortInv
    <2>1. PortInit => OnceInv
        BY ZeroIsNoCall DEF PortInit, OnceInv, NotSentYet, PipeOnce, MailboxOnce, AtMostOnce, Bodies
    <2> QED BY <2>1, PortInitType, PortInitHandover, PortInitAnswer DEF PortInv
<1>2. PortInv /\ [PortNext]_vars => PortInv'
    BY PortStepType, PortStepHandover, PortStepAnswer, PortStepOnce DEF PortInv
<1> QED BY <1>1, <1>2, PTL DEF PortSpec

LEMMA InitRefines == PortInit => Abstract!RpcInit
BY DEF PortInit, Abstract!RpcInit, Abstract!NoOutcome, NoOutcome

\* Nothing the abstract channel shows is changed.
LEMMA Stutters ==
    ASSUME UNCHANGED <<result, executed>>, \A s \in Seqs : StateOf(s)' = StateOf(s)
    PROVE  UNCHANGED Abstract!rpcVars
BY DEF Abstract!rpcVars, StateOf

LEMMA BeginRefines ==
    ASSUME TypeOK, HandoverInv, CallBegin PROVE Abstract!RpcNext
<1>1. nextSeq + 1 \in Seqs /\ pc[nextSeq + 1] = "idle"
    BY PortAssumption DEF CallBegin, TypeOK, HandoverInv, SeqsFresh, Seqs
<1>2. PICK d \in Seqs : d = nextSeq + 1
    BY <1>1
<1>3. pc' = [pc EXCEPT ![d] = "register"] /\ UNCHANGED <<result, executed>>
    BY <1>2 DEF CallBegin, Goto, erlVars
<1>4. Abstract!Begin(d)
    BY <1>1, <1>2, <1>3 DEF Abstract!Begin, TypeOK
<1> QED BY <1>4 DEF Abstract!RpcNext

\* The outcomes Finish allows a call to return.
LEMMA FinishRefines ==
    ASSUME TypeOK, NEW s \in Seqs, pc[s] \notin {"idle", "ret"}, NEW o,
           Return(s, o), UNCHANGED executed,
           \/ \E k \in Failures : o = Failure(k)
           \/ executed[s] = 1 /\ \E k \in Answers : o = [kind |-> k, of |-> s]
    PROVE  Abstract!RpcNext
<1>1. o \in Abstract!FailureOutcomes \union (IF executed[s] = 1 THEN Abstract!AnswerOf(s) ELSE {})
    BY DEF Abstract!FailureOutcomes, Abstract!AnswerOf, Failure
<1>2. Abstract!Finish(s)
    BY <1>1 DEF Abstract!Finish, Return, Goto, TypeOK
<1> QED BY <1>2 DEF Abstract!RpcNext

LEMMA CallRefines ==
    ASSUME PortInv, NEW s \in Seqs, CallStep(s)
    PROVE  Abstract!RpcNext \/ UNCHANGED Abstract!rpcVars
<1> USE DEF erlVars
<1>0. TypeOK
    BY DEF PortInv
<1>1. CASE Undo(s)
    BY <1>0, <1>1, FinishRefines DEF Undo, Failures
<1>2. CASE Expire(s)
    BY <1>0, <1>2, FinishRefines DEF Expire, Failures
<1>3. CASE SeeDone(s)
    BY <1>0, <1>3, FinishRefines DEF SeeDone, Failures
<1>4. CASE TakeResult(s)
    <2>1. ch[s] \in Outcomes /\ pc[s] = "wait" /\ Return(s, ch[s]) /\ UNCHANGED executed
        BY <1>0, <1>4 DEF TakeResult, TypeOK
    <2>2. CASE ch[s] \in [kind : Failures, of : {0}]
        <3>1. \E k \in Failures : ch[s] = Failure(k)
            BY <2>2 DEF Failure
        <3> QED BY <1>0, <2>1, <3>1, FinishRefines
    <2>3. CASE ch[s] \in [kind : Answers, of : Seqs]
        <3>1. ch[s].of = s /\ executed[s] > 0
            BY <2>3 DEF PortInv, AnswerInv, ChannelsGenuine, Genuine
        <3>2. executed[s] = 1
            BY <3>1 DEF PortInv, OnceInv, AtMostOnce
        <3>3. \E k \in Answers : ch[s] = [kind |-> k, of |-> s]
            BY <2>3, <3>1
        <3> QED BY <1>0, <2>1, <3>2, <3>3, FinishRefines
    <2> QED BY <2>1, <2>2, <2>3 DEF Outcomes
<1>5. CASE Register(s) \/ LockWrite(s) \/ WriteHdr(s) \/ WriteBody(s) \/ WriteFails(s) \/ TimerFires(s)
    <2> USE DEF Register, LockWrite, WriteHdr, WriteBody, WriteFails, TimerFires
    <2>1. UNCHANGED <<result, executed>>
        BY <1>5
    <2>2. pc[s] \notin {"idle", "ret"} /\ pc'[s] \notin {"idle", "ret"}
        BY <1>0, <1>5 DEF Goto, TypeOK
    <2>3. \A r \in Seqs \ {s} : pc'[r] = pc[r]
        BY <1>0, <1>5 DEF Goto, TypeOK
    <2>4. \A r \in Seqs : StateOf(r)' = StateOf(r)
        BY <2>2, <2>3 DEF StateOf
    <2> QED BY <2>1, <2>4, Stutters
<1> QED BY <1>1, <1>2, <1>3, <1>4, <1>5 DEF CallStep

LEMMA RunRefines ==
    ASSUME PortInv, RunnerTakes
    PROVE  Abstract!RpcNext \/ UNCHANGED Abstract!rpcVars
<1> DEFINE x == Head(mailbox)
<1>1. UNCHANGED <<pc, result>>
    BY DEF RunnerTakes, callVars
<1>2. executed' = [s \in Seqs |-> IF s = x THEN executed[s] + 1 ELSE executed[s]]
    BY DEF RunnerTakes
<1>3. 1 \in 1..Len(mailbox) /\ mailbox[1] = x /\ x \in {0} \union Seqs
    BY DEF RunnerTakes, PortInv, TypeOK
<1>4. executed \in [Seqs -> Nat]
    BY DEF PortInv, TypeOK
<1> HIDE DEF x
<1>5. CASE x = 0
    <2>1. executed' = executed
        BY <1>2, <1>4, <1>5, ZeroIsNoCall
    <2> QED BY <1>1, <2>1, Stutters DEF StateOf
<1>6. CASE x \in Seqs
    <2>1. executed[x] = 0 /\ pc[x] # "idle"
        BY <1>3, <1>6, ZeroIsNoCall DEF PortInv, OnceInv, MailboxOnce, NotSentYet, Unsent
    <2>2. executed' = [executed EXCEPT ![x] = 1]
        <3>1. \A s \in Seqs : executed'[s] = IF s = x THEN 1 ELSE executed[s]
            BY <1>2, <1>4, <2>1
        <3> QED BY <1>2, <1>4, <1>6, <3>1
    <2>3. Abstract!Run(x)
        BY <1>1, <1>6, <2>1, <2>2 DEF Abstract!Run
    <2> QED BY <1>6, <2>3 DEF Abstract!RpcNext
<1> QED BY <1>3, <1>5, <1>6

LEMMA StepRefines == PortInv /\ [PortNext]_vars => [Abstract!RpcNext]_(Abstract!rpcVars)
<1> SUFFICES ASSUME PortInv, [PortNext]_vars
             PROVE  Abstract!RpcNext \/ UNCHANGED Abstract!rpcVars
    OBVIOUS
<1>1. CASE CallBegin
    BY <1>1, BeginRefines DEF PortInv
<1>2. CASE UNCHANGED <<pc, result, executed>>
    BY <1>2, Stutters DEF StateOf
<1>3. ReadStep \/ (\E p \in Stoppers : StopStep(p)) \/ UNCHANGED vars => UNCHANGED <<pc, result, executed>>
    BY DEF ReadStep, SkipBadTerm, ReadOversized, Lookup, Send, ReadFails, DrainOversized,
           DrainAtExit, DrainPending, StopStep, StopBegin, StopCloseStdin, StopCloseDone,
           StopWait, StopAgain, vars, callVars, erlVars
<1>4. ErlStep => RunnerTakes \/ UNCHANGED <<pc, result, executed>>
    BY ErlSteps DEF DriverReads, DriverEof, RunnerReplies, ErlDies, callVars
<1> QED BY <1>1, <1>2, <1>3, <1>4, CallRefines, RunRefines DEF PortNext

\* port.Manager implements the request/reply channel: whatever calls, the
\* reader, Stop and the VM do in whatever order, a call is made once, its
\* function is applied at most once, and it returns once, with a failure or
\* with the answer of its own function.
THEOREM PortImplementsRpc == PortSpec => ImplementsRpc
BY PortAlwaysInv, InitRefines, StepRefines, PTL DEF PortSpec, ImplementsRpc, Abstract!RpcSpec
=============================================================================
