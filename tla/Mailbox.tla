------------------------------ MODULE Mailbox ------------------------------
(***************************************************************************)
(* async.Mailbox (async/async.go): a poll goroutine moves messages from an *)
(* Erlang mailbox process into a bounded Go channel that a consumer        *)
(* ranges over, while Close and Push run in other goroutines.              *)
(*                                                                         *)
(* The messages the Erlang process queues are 1, 2, ...; a pushed message  *)
(* is 0.  A Call (module PortManager) returns a message, `empty`, an       *)
(* unexpected term or an error; an error may come after the Erlang side    *)
(* already took the message out of its queue.                              *)
(***************************************************************************)
EXTENDS Integers, Sequences, FiniteSets

CONSTANTS
    MaxMsg,     \* bound: messages the Erlang process queues
    Cap,        \* bufSize: the capacity of the channel
    Closers,    \* goroutines that call Close
    Pushers     \* goroutines that call Push

ASSUME MailboxAssumption ==
    /\ MaxMsg \in Nat
    /\ Cap \in Nat \ {0}
    /\ {"free", "poll"} \intersect Pushers = {}

VARIABLES
    queued,     \* how many messages the Erlang process has queued
    taken,      \* how many of them recv has taken out of its queue
    ch,         \* the buffered channel
    chClosed,   \* it is closed
    mu,         \* who holds Mailbox.mu: "poll", a pusher, or "free"
    closed,     \* Mailbox.closed
    stop,       \* Mailbox.stop is closed
    done,       \* Mailbox.done is closed
    pollPc,     \* where the poll goroutine is
    held,       \* the message it holds, 0 when none
    closePc,    \* closePc[c]: where a Close is
    pushPc,     \* pushPc[p]: where a Push is
    received,   \* what the consumer got
    ended,      \* the consumer saw the channel closed and left its range loop
    lost        \* messages taken from the Erlang side and not put on the channel

erlSide == <<queued, taken>>
pollVars == <<pollPc, held, done, lost>>
userVars == <<received, ended>>
vars == <<erlSide, ch, chClosed, mu, closed, stop, pollVars, closePc, pushPc, userVars>>

\* NewMailbox starts the poll goroutine; NewMailboxFromChan has none and a
\* done channel that is closed from the start.
MailboxInit ==
    /\ pollPc \in {"select", "exit"}
    /\ done = (pollPc = "exit")
    /\ queued = 0
    /\ taken = 0
    /\ ch = <<>>
    /\ chClosed = FALSE
    /\ mu = "free"
    /\ closed = FALSE
    /\ stop = FALSE
    /\ held = 0
    /\ closePc = [c \in Closers |-> "idle"]
    /\ pushPc = [p \in Pushers |-> "idle"]
    /\ received = <<>>
    /\ ended = FALSE
    /\ lost = {}

-----------------------------------------------------------------------------
(* poll *)

ErlQueues ==
    /\ queued < MaxMsg
    /\ queued' = queued + 1
    /\ UNCHANGED <<taken, ch, chClosed, mu, closed, stop, pollVars, closePc, pushPc, userVars>>

PollTick ==
    /\ pollPc = "select"
    /\ pollPc' = "call"
    /\ UNCHANGED <<erlSide, ch, chClosed, mu, closed, stop, held, done, lost, closePc, pushPc, userVars>>

\* Every return of poll runs the deferred close(m.done).
PollExit == pollPc' = "exit" /\ done' = TRUE /\ held' = 0

PollStop ==
    /\ pollPc = "select"
    /\ stop
    /\ PollExit
    /\ UNCHANGED <<erlSide, ch, chClosed, mu, closed, stop, lost, closePc, pushPc, userVars>>

\* Mutant: the error return skips close(m.done).
PollCallFailsSilent ==
    /\ pollPc = "call"
    /\ pollPc' = "exit" /\ held' = 0
    /\ UNCHANGED <<erlSide, ch, chClosed, mu, closed, stop, done, lost, closePc, pushPc, userVars>>

\* Call fails; recv may or may not have run on the other side.
PollCallFails ==
    /\ pollPc = "call"
    /\ PollExit
    /\ \/ UNCHANGED <<taken, lost>>
       \/ /\ taken < queued
          /\ taken' = taken + 1
          /\ lost' = lost \union {taken + 1}
    /\ UNCHANGED <<queued, ch, chClosed, mu, closed, stop, closePc, pushPc, userVars>>

\* Mutant: after an empty answer the inner loop goes on, never seeing stop.
PollEmptyRepeats ==
    /\ pollPc = "call"
    /\ UNCHANGED vars

\* `empty`, or a term that is not {ok, Msg}: wait for the next tick.
PollEmpty ==
    /\ pollPc = "call"
    /\ pollPc' = "select"
    /\ UNCHANGED <<erlSide, ch, chClosed, mu, closed, stop, held, done, lost, closePc, pushPc, userVars>>

PollReceives ==
    /\ pollPc = "call"
    /\ taken < queued
    /\ taken' = taken + 1
    /\ held' = taken + 1
    /\ pollPc' = "lock"
    /\ UNCHANGED <<queued, ch, chClosed, mu, closed, stop, done, lost, closePc, pushPc, userVars>>

\* The message in hand is dropped when the mailbox was closed meanwhile.
PollFindsClosed ==
    /\ pollPc = "lock" /\ mu = "free"
    /\ closed
    /\ PollExit
    /\ lost' = lost \union {held}
    /\ UNCHANGED <<erlSide, ch, chClosed, mu, closed, stop, closePc, pushPc, userVars>>

PollLock ==
    /\ pollPc = "lock" /\ mu = "free"
    /\ ~closed
    /\ mu' = "poll"
    /\ pollPc' = "send"
    /\ UNCHANGED <<erlSide, ch, chClosed, closed, stop, held, done, lost, closePc, pushPc, userVars>>

\* Mutant: a full channel makes room by dropping its oldest message.
PollSendEvicts ==
    /\ pollPc = "send"
    /\ ch' = Append(IF Len(ch) < Cap THEN ch ELSE Tail(ch), held)
    /\ mu' = "free"
    /\ held' = 0
    /\ pollPc' = "call"
    /\ UNCHANGED <<erlSide, chClosed, closed, stop, done, lost, closePc, pushPc, userVars>>

\* The non-blocking send: a full buffer drops the message.
PollSend ==
    /\ pollPc = "send"
    /\ IF Len(ch) < Cap
       THEN ch' = Append(ch, held) /\ UNCHANGED lost
       ELSE lost' = lost \union {held} /\ UNCHANGED ch
    /\ mu' = "free"
    /\ held' = 0
    /\ pollPc' = "call"
    /\ UNCHANGED <<erlSide, chClosed, closed, stop, done, closePc, pushPc, userVars>>

-----------------------------------------------------------------------------
(* Push, Close and the consumer *)

PushAt(p, to) == pushPc' = [pushPc EXCEPT ![p] = to]
CloseAt(c, to) == closePc' = [closePc EXCEPT ![c] = to]

PushBegin(p) ==
    /\ pushPc[p] = "idle"
    /\ PushAt(p, "lock")
    /\ UNCHANGED <<erlSide, ch, chClosed, mu, closed, stop, pollVars, closePc, userVars>>

PushLock(p) ==
    /\ pushPc[p] = "lock" /\ mu = "free"
    /\ IF closed
       THEN PushAt(p, "ret") /\ UNCHANGED mu
       ELSE PushAt(p, "send") /\ mu' = p
    /\ UNCHANGED <<erlSide, ch, chClosed, closed, stop, pollVars, closePc, userVars>>

\* A blocking send under mu: with a full buffer Push waits for the consumer
\* and keeps poll and Close out.
PushSend(p) ==
    /\ pushPc[p] = "send"
    /\ Len(ch) < Cap
    /\ ch' = Append(ch, 0)
    /\ mu' = "free"
    /\ PushAt(p, "ret")
    /\ UNCHANGED <<erlSide, chClosed, closed, stop, pollVars, closePc, userVars>>

CloseBegin(c) ==
    /\ closePc[c] = "idle"
    /\ CloseAt(c, "lock")
    /\ UNCHANGED <<erlSide, ch, chClosed, mu, closed, stop, pollVars, pushPc, userVars>>

\* Mutant: Close does not look at the flag.
CloseLockTwice(c) ==
    /\ closePc[c] = "lock" /\ mu = "free"
    /\ CloseAt(c, "await")
    /\ closed' = TRUE
    /\ stop' = TRUE
    /\ UNCHANGED <<erlSide, ch, chClosed, mu, pollVars, pushPc, userVars>>

\* The critical section of Close.
CloseLock(c) ==
    /\ closePc[c] = "lock" /\ mu = "free"
    /\ CloseAt(c, IF closed THEN "ret" ELSE "await")
    /\ closed' = TRUE
    /\ stop' = TRUE
    /\ UNCHANGED <<erlSide, ch, chClosed, mu, pollVars, pushPc, userVars>>

CloseAwait(c) ==
    /\ closePc[c] = "await"
    /\ done
    /\ CloseAt(c, "close")
    /\ UNCHANGED <<erlSide, ch, chClosed, mu, closed, stop, pollVars, pushPc, userVars>>

CloseChan(c) ==
    /\ closePc[c] = "close"
    /\ chClosed' = TRUE
    /\ CloseAt(c, "ret")
    /\ UNCHANGED <<erlSide, ch, mu, closed, stop, pollVars, pushPc, userVars>>

\* Receiving from a closed channel yields what is left in it, then its end.
Consume ==
    /\ ~ended
    /\ IF ch # <<>>
       THEN /\ received' = Append(received, Head(ch))
            /\ ch' = Tail(ch)
            /\ UNCHANGED ended
       ELSE /\ chClosed
            /\ ended' = TRUE
            /\ UNCHANGED <<ch, received>>
    /\ UNCHANGED <<erlSide, chClosed, mu, closed, stop, pollVars, closePc, pushPc>>

-----------------------------------------------------------------------------

PollStep ==
    \/ PollTick \/ PollStop \/ PollEmpty \/ PollReceives \/ PollFindsClosed
    \/ PollLock \/ PollSend

PushStep(p) == PushLock(p) \/ PushSend(p)
CloseStep(c) == CloseLock(c) \/ CloseAwait(c) \/ CloseChan(c)

MailboxNext ==
    \/ ErlQueues
    \/ PollStep
    \/ PollCallFails
    \/ \E p \in Pushers : PushBegin(p) \/ PushStep(p)
    \/ \E c \in Closers : CloseBegin(c) \/ CloseStep(c)
    \/ Consume

MailboxSpec == MailboxInit /\ [][MailboxNext]_vars

\* Every Call returns (PortManager!CallReturns), a goroutine that can run does,
\* sync.Mutex is starvation free, and a select with several ready cases picks
\* one at random, so it does not ignore stop for ever.  The consumer may stop
\* receiving; nobody has to call Push or Close.
MailboxFairness ==
    /\ WF_vars(PollStep)
    /\ SF_vars(PollStop)
    /\ SF_vars(PollLock \/ PollFindsClosed)
    /\ \A p \in Pushers : SF_vars(PushStep(p))
    /\ \A c \in Closers : SF_vars(CloseStep(c))

MailboxFairSpec == MailboxSpec /\ MailboxFairness

-----------------------------------------------------------------------------
(* Properties *)

\* Every variable keeps its type.
TypeOK ==
    /\ queued \in 0..MaxMsg
    /\ taken \in 0..MaxMsg
    /\ ch \in Seq(0..MaxMsg) /\ Len(ch) <= Cap
    /\ chClosed \in BOOLEAN
    /\ mu \in {"free", "poll"} \union Pushers
    /\ closed \in BOOLEAN
    /\ stop \in BOOLEAN
    /\ done \in BOOLEAN
    /\ pollPc \in {"select", "call", "lock", "send", "exit"}
    /\ held \in 0..MaxMsg
    /\ closePc \in [Closers -> {"idle", "lock", "await", "close", "ret"}]
    /\ pushPc \in [Pushers -> {"idle", "lock", "send", "ret"}]
    /\ received \in Seq(0..MaxMsg)
    /\ ended \in BOOLEAN
    /\ lost \subseteq 1..MaxMsg

\* No goroutine is about to send on, or to close, a channel that is closed
\* already (a panic in Go), although Close closes the channel outside mu and a
\* second Close, a Push and the poll goroutine may all be under way.
NoPanic ==
    /\ chClosed => /\ pollPc # "send"
                   /\ \A p \in Pushers : pushPc[p] # "send"
                   /\ \A c \in Closers : closePc[c] # "close"
    /\ \A c, d \in Closers : closePc[c] = "close" /\ closePc[d] = "close" => c = d

\* What was ever put on the channel, in order.
Delivered == received \o ch

\* A message taken from the Erlang process reaches the consumer, in its turn and
\* once, or is dropped for one of the three reasons in the code (buffer full,
\* mailbox closed, call failed): nothing vanishes in between, and nothing
\* dropped or overtaken turns up later.
NothingVanishes ==
    LET w == Delivered
        kept == ({w[i] : i \in 1..Len(w)} \union {held}) \ {0}
    IN  /\ kept \union lost = 1..taken /\ kept \intersect lost = {}
        /\ \A i, j \in 1..Len(w) : i < j /\ w[i] # 0 /\ w[j] # 0 => w[i] < w[j]

\* A Close returns with the channel closed, or because another one is at it;
\* only a Push that waits under mu for room can hold it up.
CloseReturns ==
    \A c \in Closers : closePc[c] = "lock" ~>
        closePc[c] = "ret" \/ \E p \in Pushers : pushPc[p] = "send"

\* Once Close has set the flag nothing holds it up any more, not even an Erlang
\* mailbox that never runs empty: the poll goroutine leaves and the channel is
\* closed, so that a consumer ranging over it comes to an end.
CloseEndsChannel == closed ~> chClosed
=============================================================================
