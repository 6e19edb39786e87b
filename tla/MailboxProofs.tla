--------------------------- MODULE MailboxProofs ---------------------------
(***************************************************************************)
(* Theorems about async.Mailbox, for any number of messages, Closes and    *)
(* Pushes and any channel capacity.                                        *)
(***************************************************************************)
EXTENDS Mailbox, SeqFacts, TLAPS

(***************************************************************************)
(* Types.  That only messages are counted as lost rests on poll holding    *)
(* one whenever it is between its Call and its send: the one taken last.   *)
(***************************************************************************)
HeldInv ==
    /\ taken <= queued
    /\ held # 0 <=> pollPc \in {"lock", "send"}
    /\ held # 0 => held = taken

LEMMA MailboxInitType == MailboxInit => TypeOK
<1> SUFFICES ASSUME MailboxInit PROVE TypeOK
    OBVIOUS
<1>1. chClosed \in BOOLEAN /\ closed \in BOOLEAN /\ stop \in BOOLEAN /\ done \in BOOLEAN /\ ended \in BOOLEAN
    BY Zenon DEF MailboxInit
<1>2. ch \in Seq(0..MaxMsg) /\ Len(ch) <= Cap /\ received \in Seq(0..MaxMsg)
    BY MailboxAssumption DEF MailboxInit
<1> QED BY <1>1, <1>2, MailboxAssumption DEF MailboxInit, TypeOK

LEMMA PollKeepsType ==
    ASSUME TypeOK, HeldInv, PollStep \/ PollCallFails PROVE TypeOK'
<1> USE MailboxAssumption DEF TypeOK, erlSide, pollVars, userVars
<1>1. CASE PollTick BY <1>1 DEF PollTick
<1>2. CASE PollStop BY <1>2 DEF PollStop, PollExit
<1>3. CASE PollEmpty BY <1>3 DEF PollEmpty
<1>4. CASE PollReceives BY <1>4 DEF PollReceives
<1>5. CASE PollFindsClosed BY <1>5 DEF PollFindsClosed, PollExit, HeldInv
<1>6. CASE PollLock BY <1>6 DEF PollLock
<1>7. CASE PollSend
    <2>1. held \in 1..MaxMsg
        BY <1>7 DEF PollSend, HeldInv
    <2>2. ch' \in Seq(0..MaxMsg) /\ Len(ch') <= Cap /\ lost' \subseteq 1..MaxMsg
        <3>1. CASE Len(ch) < Cap
            <4>1. ch' = Append(ch, held) /\ lost' = lost
                BY <1>7, <3>1 DEF PollSend
            <4> QED BY <2>1, <3>1, <4>1
        <3>2. CASE ~(Len(ch) < Cap)
            <4>1. ch' = ch /\ lost' = lost \union {held}
                BY <1>7, <3>2 DEF PollSend
            <4> QED BY <2>1, <4>1
        <3> QED BY <3>1, <3>2
    <2> QED BY <1>7, <2>2 DEF PollSend
<1>8. CASE PollCallFails
    <2>1. taken' \in 0..MaxMsg /\ lost' \subseteq 1..MaxMsg
        <3>1. CASE UNCHANGED <<taken, lost>> BY <3>1
        <3>2. CASE taken < queued /\ taken' = taken + 1 /\ lost' = lost \union {taken + 1}
            <4>1. taken + 1 \in 1..MaxMsg BY <3>2
            <4> QED BY <3>2, <4>1
        <3> QED BY <1>8, <3>1, <3>2 DEF PollCallFails
    <2>2. done' \in BOOLEAN
        BY <1>8, Zenon DEF PollCallFails, PollExit
    <2> QED BY <1>8, <2>1, <2>2 DEF PollCallFails, PollExit
<1> QED BY <1>1, <1>2, <1>3, <1>4, <1>5, <1>6, <1>7, <1>8 DEF PollStep

LEMMA UsersKeepType ==
    ASSUME TypeOK, \/ \E p \in Pushers : PushBegin(p) \/ PushStep(p)
                   \/ \E c \in Closers : CloseBegin(c) \/ CloseStep(c)
                   \/ Consume
    PROVE  TypeOK'
<1> USE MailboxAssumption DEF TypeOK, erlSide, pollVars, userVars
<1>1. ASSUME NEW p \in Pushers, PushBegin(p) \/ PushStep(p) PROVE TypeOK'
    <2>1. CASE PushBegin(p) BY <2>1 DEF PushBegin, PushAt
    <2>2. CASE PushLock(p)
        <3>1. CASE closed BY <2>2, <3>1 DEF PushLock, PushAt
        <3>2. CASE ~closed BY <2>2, <3>2 DEF PushLock, PushAt
        <3> QED BY <3>1, <3>2
    <2>3. CASE PushSend(p)
        <3>1. ch' \in Seq(0..MaxMsg) /\ Len(ch') <= Cap
            BY <2>3 DEF PushSend
        <3> QED BY <2>3, <3>1 DEF PushSend, PushAt
    <2> QED BY <1>1, <2>1, <2>2, <2>3 DEF PushStep
<1>2. ASSUME NEW c \in Closers, CloseBegin(c) \/ CloseStep(c) PROVE TypeOK'
    <2>1. closePc' \in [Closers -> {"idle", "lock", "await", "close", "ret"}]
        BY <1>2 DEF CloseStep, CloseBegin, CloseLock, CloseAwait, CloseChan, CloseAt
    <2> QED BY <1>2, <2>1 DEF CloseStep, CloseBegin, CloseLock, CloseAwait, CloseChan
<1>3. CASE Consume
    <2>1. CASE ch # <<>>
        <3>1. Head(ch) \in 0..MaxMsg /\ Tail(ch) \in Seq(0..MaxMsg) /\ Len(Tail(ch)) <= Cap
            BY <2>1
        <3>2. received' = Append(received, Head(ch))
            BY <1>3, <2>1 DEF Consume
        <3>3. received' \in Seq(0..MaxMsg)
            BY <3>1, <3>2
        <3> QED BY <1>3, <2>1, <3>1, <3>3 DEF Consume
    <2>2. CASE ch = <<>> BY <1>3, <2>2 DEF Consume
    <2> QED BY <2>1, <2>2
<1> QED BY <1>1, <1>2, <1>3

LEMMA MailboxStepType == TypeOK /\ HeldInv /\ [MailboxNext]_vars => TypeOK'
<1> SUFFICES ASSUME TypeOK, HeldInv, [MailboxNext]_vars PROVE TypeOK'
    OBVIOUS
<1>1. CASE ErlQueues
    BY <1>1, MailboxAssumption DEF TypeOK, ErlQueues, erlSide, pollVars, userVars
<1>2. CASE UNCHANGED vars
    BY <1>2 DEF TypeOK, vars, erlSide, pollVars, userVars
<1> QED BY <1>1, <1>2, PollKeepsType, UsersKeepType DEF MailboxNext

LEMMA MailboxStepHeld == TypeOK /\ HeldInv /\ [MailboxNext]_vars => HeldInv'
<1> SUFFICES ASSUME TypeOK, HeldInv, [MailboxNext]_vars PROVE HeldInv'
    OBVIOUS
<1> USE MailboxAssumption DEF TypeOK, HeldInv, erlSide, pollVars
<1>1. CASE PollStep \/ PollCallFails
    BY <1>1 DEF PollStep, PollTick, PollStop, PollEmpty, PollReceives, PollFindsClosed, PollLock,
        PollSend, PollCallFails, PollExit
<1>2. CASE ErlQueues
    BY <1>2 DEF ErlQueues
<1>3. CASE UNCHANGED <<taken, queued, held, pollPc>>
    BY <1>3
<1> QED BY <1>1, <1>2, <1>3
        DEF MailboxNext, PushBegin, PushStep, PushLock, PushSend, CloseBegin, CloseStep, CloseLock,
            CloseAwait, CloseChan, Consume, vars

LEMMA MailboxAlwaysTyped == MailboxSpec => [](TypeOK /\ HeldInv)
<1>1. MailboxInit => TypeOK /\ HeldInv
    BY MailboxInitType DEF MailboxInit, HeldInv
<1>2. TypeOK /\ HeldInv /\ [MailboxNext]_vars => (TypeOK /\ HeldInv)'
    BY MailboxStepType, MailboxStepHeld
<1> QED BY <1>1, <1>2, PTL DEF MailboxSpec

\* Type correctness: the channel never exceeds its capacity, and only messages
\* that were queued are held, delivered or counted as lost.
THEOREM MailboxTypeCorrect == MailboxSpec => []TypeOK
BY MailboxAlwaysTyped, PTL

-----------------------------------------------------------------------------
(***************************************************************************)
(* NoPanic.  The channel is closed outside mu, so it is not the lock that  *)
(* protects a send but the flag: Close sets it under mu, when nobody is    *)
(* between its check of the flag and its send, and only the Close that     *)
(* found it unset goes on to close the channel.                            *)
(***************************************************************************)
SenderHoldsMu ==
    /\ pollPc = "send" => mu = "poll"
    /\ \A p \in Pushers : pushPc[p] = "send" => mu = p

NoSendAfterClose == closed => pollPc # "send" /\ \A p \in Pushers : pushPc[p] # "send"

OneCloser ==
    /\ chClosed => closed
    /\ \A c \in Closers : closePc[c] \in {"await", "close"} => closed /\ ~chClosed
    /\ \A c, d \in Closers : closePc[c] \in {"await", "close"} /\ closePc[d] \in {"await", "close"} => c = d

PanicInv == SenderHoldsMu /\ NoSendAfterClose /\ OneCloser

LEMMA MailboxStepPanic == TypeOK /\ PanicInv /\ [MailboxNext]_vars => PanicInv'
<1> SUFFICES ASSUME TypeOK, PanicInv, [MailboxNext]_vars PROVE PanicInv'
    OBVIOUS
<1> USE DEF PanicInv, SenderHoldsMu, NoSendAfterClose, OneCloser, TypeOK, pollVars
<1>1. CASE PollStep \/ PollCallFails
    BY <1>1, MailboxAssumption
    DEF PollStep, PollTick, PollStop, PollEmpty, PollReceives, PollFindsClosed, PollLock, PollSend,
        PollCallFails, PollExit
<1>2. ASSUME NEW p \in Pushers, PushBegin(p) \/ PushStep(p) PROVE PanicInv'
    BY <1>2, MailboxAssumption DEF PushBegin, PushStep, PushLock, PushSend, PushAt
<1>3. ASSUME NEW c \in Closers, CloseBegin(c) PROVE PanicInv'
    BY <1>3 DEF CloseBegin, CloseAt
<1>4. ASSUME NEW c \in Closers, CloseLock(c) PROVE PanicInv'
    <2>1. pollPc # "send" /\ \A p \in Pushers : pushPc[p] # "send"
        BY <1>4, MailboxAssumption DEF CloseLock
    <2> QED BY <1>4, <2>1, SMTT(30) DEF CloseLock, CloseAt
<1>5. ASSUME NEW c \in Closers, CloseAwait(c) \/ CloseChan(c) PROVE PanicInv'
    BY <1>5, SMTT(30) DEF CloseAwait, CloseChan, CloseAt
<1>6. CASE UNCHANGED <<chClosed, mu, closed, pollPc, closePc, pushPc>>
    BY <1>6, SMTT(30)
<1> QED BY <1>1, <1>2, <1>3, <1>4, <1>5, <1>6 DEF MailboxNext, CloseStep, ErlQueues, Consume, vars

\* However Push, the poll goroutine and any number of Closes interleave, nobody
\* sends on a closed channel and nobody closes it twice.
THEOREM MailboxNoPanic == MailboxSpec => []NoPanic
<1>1. MailboxInit => PanicInv
    BY DEF MailboxInit, PanicInv, SenderHoldsMu, NoSendAfterClose, OneCloser
<1>2. PanicInv => NoPanic
    BY DEF PanicInv, NoSendAfterClose, OneCloser, NoPanic
<1> QED BY <1>1, <1>2, MailboxAlwaysTyped, MailboxStepPanic, PTL DEF MailboxSpec

-----------------------------------------------------------------------------
(***************************************************************************)
(* NothingVanishes.  What is missing to make it inductive: the message in  *)
(* hand is later than all that were delivered.                             *)
(***************************************************************************)
HeldLast == held # 0 => \A i \in 1..Len(Delivered) : Delivered[i] < held

MessageInv == HeldLast /\ NothingVanishes

\* A message put on the channel: 0 for a Push, else the one poll held.
LEMMA SendKeepsMessages ==
    ASSUME TypeOK, HeldInv, MessageInv, NEW m \in 0..MaxMsg,
           ch' = Append(ch, m), UNCHANGED <<received, taken, queued, lost>>,
           \/ m = 0 /\ UNCHANGED <<held, pollPc>>
           \/ m = held /\ pollPc = "send" /\ held' = 0 /\ pollPc' = "call"
    PROVE  MessageInv'
<1> DEFINE w == Delivered
<1>1. w \in Seq(0..MaxMsg)
    BY DEF Delivered, TypeOK
<1>2. Delivered' = Append(w, m)
    BY ConcatAppend DEF Delivered, TypeOK
<1>3. /\ Len(Delivered') = Len(w) + 1 /\ Len(w) \in Nat /\ Delivered'[Len(w) + 1] = m
      /\ \A i \in 1..Len(w) : Delivered'[i] = w[i] /\ w[i] \in Nat
    <2> HIDE DEF w
    <2>1. \A i \in 1..Len(w) : w[i] \in Nat
        <3>1. \A i \in 1..Len(w) : w[i] \in 0..MaxMsg
            BY <1>1, ElementType, Zenon
        <3> QED BY <3>1, MailboxAssumption
    <2> QED BY <1>1, <1>2, <2>1, AppendFacts
<1>4. m # 0 => \A i \in 1..Len(w) : w[i] < m
    BY DEF MessageInv, HeldLast
<1>5. \A i \in 1..Len(Delivered') : i \in 1..Len(w) \/ i = Len(w) + 1
    BY <1>3
<1>6. {Delivered'[i] : i \in 1..Len(Delivered')} = {w[i] : i \in 1..Len(w)} \union {m}
    BY <1>3, <1>5
<1>7. ({Delivered'[i] : i \in 1..Len(Delivered')} \union {held'}) \ {0}
        = ({w[i] : i \in 1..Len(w)} \union {held}) \ {0}
    BY <1>6
<1>8. \A i, j \in 1..Len(Delivered') :
        i < j /\ Delivered'[i] # 0 /\ Delivered'[j] # 0 => Delivered'[i] < Delivered'[j]
    BY <1>3, <1>4, <1>5 DEF MessageInv, NothingVanishes
<1>9. NothingVanishes'
    BY <1>7, <1>8 DEF MessageInv, NothingVanishes
<1>10. HeldLast'
    <2>1. CASE held' = 0
        BY <2>1 DEF HeldLast
    <2>2. CASE m = 0 /\ UNCHANGED held
        BY <1>3, <1>5, <2>2, SMTT(30) DEF MessageInv, HeldLast, TypeOK
    <2> QED BY <2>1, <2>2
<1> QED BY <1>9, <1>10 DEF MessageInv

\* A message taken from the Erlang side, or given up.
LEMMA TakeKeepsMessages ==
    ASSUME TypeOK, HeldInv, MessageInv,
           \/ PollReceives \/ PollCallFails \/ PollFindsClosed
           \/ PollSend /\ ~(Len(ch) < Cap)
    PROVE  MessageInv'
<1> DEFINE w == Delivered
           kept == {w[i] : i \in 1..Len(w)}
<1>1. Delivered' = w
    BY DEF PollReceives, PollCallFails, PollFindsClosed, PollSend, Delivered, userVars
<1>2. /\ ((kept \union {held}) \ {0}) \union lost = 1..taken
      /\ ((kept \union {held}) \ {0}) \intersect lost = {}
    BY DEF MessageInv, NothingVanishes
<1>3. \A i \in 1..Len(w) : w[i] \in kept
    OBVIOUS
<1>4. (kept \union {held}) \ {0} \subseteq 1..taken
    BY <1>2
<1>5. held # 0 => held \notin kept
    <2>1. \A i \in 1..Len(w) : w[i] < held \/ held = 0
        BY DEF MessageInv, HeldLast
    <2> QED BY <2>1 DEF TypeOK
<1> HIDE DEF kept, w
<1>6. CASE UNCHANGED <<taken, lost>> /\ held' = 0 /\ held = 0
    BY <1>1, <1>6 DEF MessageInv, HeldLast, NothingVanishes, w
<1>7. CASE taken' = taken + 1 /\ held = 0 /\ held' = taken + 1 /\ UNCHANGED lost
    <2>1. 1..taken' = 1..taken \union {taken + 1} /\ taken + 1 \notin 1..taken /\ taken + 1 # 0
        BY <1>7 DEF TypeOK
    <2>2. /\ ((kept \union {held'}) \ {0}) \union lost' = 1..taken'
          /\ ((kept \union {held'}) \ {0}) \intersect lost' = {}
        BY <1>2, <1>7, <2>1
    <2>3. NothingVanishes'
        BY <1>1, <2>2 DEF MessageInv, NothingVanishes, kept, w
    <2>4. \A i \in 1..Len(w) : w[i] < taken + 1
        BY <1>3, <1>4, <1>7 DEF TypeOK
    <2> QED BY <1>1, <1>7, <2>3, <2>4 DEF MessageInv, HeldLast, w
<1>8. CASE taken' = taken + 1 /\ held = 0 /\ held' = 0 /\ lost' = lost \union {taken + 1}
    <2>1. 1..taken' = 1..taken \union {taken + 1} /\ taken + 1 \notin 1..taken /\ taken + 1 # 0
        BY <1>8 DEF TypeOK
    <2>2. /\ ((kept \union {held'}) \ {0}) \union lost' = 1..taken'
          /\ ((kept \union {held'}) \ {0}) \intersect lost' = {}
        BY <1>2, <1>8, <2>1
    <2>3. NothingVanishes'
        BY <1>1, <2>2 DEF MessageInv, NothingVanishes, kept, w
    <2> QED BY <1>8, <2>3 DEF MessageInv, HeldLast
<1>9. CASE UNCHANGED taken /\ held # 0 /\ held' = 0 /\ lost' = lost \union {held}
    <2>1. /\ ((kept \union {held'}) \ {0}) \union lost' = 1..taken'
          /\ ((kept \union {held'}) \ {0}) \intersect lost' = {}
        BY <1>2, <1>5, <1>9
    <2>2. NothingVanishes'
        BY <1>1, <2>1 DEF MessageInv, NothingVanishes, kept, w
    <2> QED BY <1>9, <2>2 DEF MessageInv, HeldLast
<1> QED BY <1>6, <1>7, <1>8, <1>9 DEF PollReceives, PollCallFails, PollFindsClosed, PollSend, PollExit, HeldInv, erlSide

LEMMA MailboxStepMessages == TypeOK /\ HeldInv /\ MessageInv /\ [MailboxNext]_vars => MessageInv'
<1> SUFFICES ASSUME TypeOK, HeldInv, MessageInv, [MailboxNext]_vars PROVE MessageInv'
    OBVIOUS
<1>1. CASE UNCHANGED <<taken, lost, held, Delivered>>
    BY <1>1 DEF MessageInv, HeldLast, NothingVanishes
<1>2. CASE PollSend
    <2>1. CASE Len(ch) < Cap
        BY <1>2, <2>1, SendKeepsMessages DEF PollSend, TypeOK, erlSide, userVars
    <2>2. CASE ~(Len(ch) < Cap)
        BY <1>2, <2>2, TakeKeepsMessages
    <2> QED BY <2>1, <2>2
<1>3. ASSUME NEW p \in Pushers, PushSend(p) PROVE MessageInv'
    BY <1>3, MailboxAssumption, SendKeepsMessages DEF PushSend, erlSide, pollVars, userVars
<1>4. CASE Consume
    <2>1. Delivered' = Delivered
        <3>1. CASE ch # <<>>
            BY <1>4, <3>1, ConcatMove DEF Consume, Delivered, TypeOK
        <3>2. CASE ch = <<>>
            BY <1>4, <3>2 DEF Consume, Delivered
        <3> QED BY <3>1, <3>2
    <2> QED BY <1>1, <1>4, <2>1 DEF Consume, erlSide, pollVars
<1>5. CASE PollReceives \/ PollCallFails \/ PollFindsClosed
    BY <1>5, TakeKeepsMessages
<1>6. CASE PollTick \/ PollEmpty \/ PollLock \/ ErlQueues
    BY <1>1, <1>6 DEF PollTick, PollEmpty, PollLock, ErlQueues, Delivered, erlSide, pollVars, userVars
<1>7. CASE PollStop
    BY <1>1, <1>7 DEF PollStop, PollExit, HeldInv, Delivered, erlSide, userVars
<1>8. ASSUME NEW p \in Pushers, PushBegin(p) \/ PushLock(p) PROVE MessageInv'
    BY <1>1, <1>8 DEF PushBegin, PushLock, Delivered, erlSide, pollVars, userVars
<1>9. ASSUME NEW c \in Closers, CloseBegin(c) \/ CloseStep(c) PROVE MessageInv'
    BY <1>1, <1>9 DEF CloseBegin, CloseStep, CloseLock, CloseAwait, CloseChan, Delivered, erlSide,
        pollVars, userVars
<1>10. CASE UNCHANGED vars
    BY <1>1, <1>10 DEF vars, Delivered, erlSide, pollVars, userVars
<1> QED BY <1>2, <1>3, <1>4, <1>5, <1>6, <1>7, <1>8, <1>9, <1>10
        DEF MailboxNext, PollStep, PushStep

\* Every message taken from the Erlang process is delivered in its turn and once,
\* or dropped where the code drops it, whatever Close, Push and the consumer do.
THEOREM MailboxNothingVanishes == MailboxSpec => []NothingVanishes
<1>1. MailboxInit => MessageInv
    BY DEF MailboxInit, MessageInv, HeldLast, NothingVanishes, Delivered
<1>2. MessageInv => NothingVanishes
    BY DEF MessageInv
<1> QED BY <1>1, <1>2, MailboxAlwaysTyped, MailboxStepMessages, PTL DEF MailboxSpec
=============================================================================
