---------------------------- MODULE PortManager ----------------------------
(***************************************************************************)
(* port.Manager (port/port.go): concurrent Call goroutines, the readLoop   *)
(* goroutine and Stop share the stdin and stdout pipes of an Erlang        *)
(* process; and the runner that answers there (runnerErlSource in          *)
(* build/rebar3.go).                                                       *)
(*                                                                         *)
(* A call is named by the sequence number it draws.  A packet on stdin is  *)
(* two fragments, because writePacket writes header and payload with two   *)
(* separate writes.  A value is named by the call whose function made it.  *)
(***************************************************************************)
EXTENDS Integers, Sequences, FiniteSets

CONSTANTS
    MaxSeq,     \* bound: how many calls are made; far below the uint32 wrap
    InCap,      \* bound: fragments the stdin pipe holds
    OutCap,     \* bound: packets the stdout pipe holds
    Stoppers,   \* goroutines that call Stop
    ReplyTags   \* kinds of packet the peer writes

ASSUME PortAssumption ==
    /\ MaxSeq \in Nat \ {0}
    /\ InCap \in Nat \ {0, 1}
    /\ OutCap \in Nat \ {0}
    /\ ReplyTags \subseteq {"reply", "error", "other", "badterm", "oversized"}

Seqs == 1..MaxSeq

VARIABLES
    hasCmd,     \* Manager.cmd # nil: made by Start, not by StartWithPipes
    nextSeq,    \* Manager.nextSeq
    pending,    \* the keys of Manager.pending
    ch,         \* ch[s]: the one-slot channel of call s
    pc,         \* pc[s]: where the goroutine of call s is
    result,     \* result[s]: what call s returned
    writeMu,    \* the call that holds Manager.writeMu, 0 when it is free
    stdin,      \* fragments in the stdin pipe
    stdinOpen,  \* Stop has not closed Manager.stdin
    stdout,     \* packets in the stdout pipe
    reader,     \* where readLoop is
    hand,       \* the result dispatch is about to send, and to which call
    done,       \* Manager.done is closed
    once,       \* Manager.closeOnce
    stopPc,     \* stopPc[p]: where a Stop call is
    erl,        \* the Erlang VM: "up", "eof" once its stdin port closed, "dead"
    mailbox,    \* the runner's message queue: calls, 0 for a garbled packet
    running,    \* the call whose function the runner applies, 0 for none
    executed    \* history: executed[s] counts how often s's function was applied

callVars == <<nextSeq, pc, result, writeMu>>
stopVars == <<hasCmd, stdinOpen, done, once, stopPc>>
readVars == <<reader, hand>>
erlVars == <<erl, mailbox, running, executed>>
vars == <<callVars, pending, ch, stdin, stdout, stopVars, readVars, erlVars>>

Answers == {"reply", "error", "other"}
Failures == {"oversized", "closed", "senderr", "timeout", "stopped"}
NoOutcome == [kind |-> "none", of |-> 0]
Failure(k) == [kind |-> k, of |-> 0]
Outcomes == [kind : Answers, of : Seqs] \union [kind : Failures, of : {0}]
Fragments == [seq : Seqs, part : {"hdr", "body"}]
Packets == [tag : ReplyTags, seq : Seqs, val : Seqs]

PortInit ==
    /\ hasCmd \in BOOLEAN
    /\ nextSeq = 0
    /\ pending = {}
    /\ ch = [s \in Seqs |-> NoOutcome]
    /\ pc = [s \in Seqs |-> "idle"]
    /\ result = [s \in Seqs |-> NoOutcome]
    /\ writeMu = 0
    /\ stdin = <<>>
    /\ stdinOpen = TRUE
    /\ stdout = <<>>
    /\ reader = "read"
    /\ hand = [to |-> 0, out |-> NoOutcome]
    /\ done = FALSE
    /\ once = "free"
    /\ stopPc = [p \in Stoppers |-> "idle"]
    /\ erl = "up"
    /\ mailbox = <<>>
    /\ running = 0
    /\ executed = [s \in Seqs |-> 0]

-----------------------------------------------------------------------------
(* Call *)

Goto(s, to) == pc' = [pc EXCEPT ![s] = to]

Return(s, o) ==
    /\ Goto(s, "ret")
    /\ result' = [result EXCEPT ![s] = o]

\* m.nextSeq.Add(1); the channel made for s is ch[s].
CallBegin ==
    /\ nextSeq < MaxSeq
    /\ nextSeq' = nextSeq + 1
    /\ Goto(nextSeq + 1, "register")
    /\ UNCHANGED <<pending, ch, result, writeMu, stdin, stdout, stopVars, readVars, erlVars>>

\* The map entry, then etf.Encode, which touches nothing shared: the packet is
\* ready to be written, or the arguments are not encodable.
Register(s) ==
    /\ pc[s] = "register"
    /\ pending' = pending \union {s}
    /\ Goto(s, "lock") \/ Goto(s, "undo")
    /\ UNCHANGED <<nextSeq, ch, result, writeMu, stdin, stdout, stopVars, readVars, erlVars>>

\* Mutant: writePacket without writeMu.
LockWriteUnguarded(s) ==
    /\ pc[s] = "lock"
    /\ writeMu' = s
    /\ Goto(s, "hdr")
    /\ UNCHANGED <<nextSeq, pending, ch, result, stdin, stdout, stopVars, readVars, erlVars>>

LockWrite(s) ==
    /\ pc[s] = "lock"
    /\ writeMu = 0
    /\ writeMu' = s
    /\ Goto(s, "hdr")
    /\ UNCHANGED <<nextSeq, pending, ch, result, stdin, stdout, stopVars, readVars, erlVars>>

\* A write goes through while the pipe has room and blocks when it has none.
CanWrite == stdinOpen /\ erl # "dead" /\ Len(stdin) < InCap

\* Closing stdin, or the death of the reading process, fails the write, a
\* blocked one included.
WriteMustFail == ~stdinOpen \/ erl = "dead"

WriteHdr(s) ==
    /\ pc[s] = "hdr"
    /\ CanWrite
    /\ stdin' = Append(stdin, [seq |-> s, part |-> "hdr"])
    /\ Goto(s, "body")
    /\ UNCHANGED <<nextSeq, pending, ch, result, writeMu, stdout, stopVars, readVars, erlVars>>

\* The deferred Unlock is part of the write that ends writePacket.
WriteBody(s) ==
    /\ pc[s] = "body"
    /\ CanWrite
    /\ stdin' = Append(stdin, [seq |-> s, part |-> "body"])
    /\ writeMu' = 0
    /\ Goto(s, "wait")
    /\ UNCHANGED <<nextSeq, pending, ch, result, stdout, stopVars, readVars, erlVars>>

\* Mutant: the error return of writePacket forgets the unlock.
WriteFailsLocked(s) ==
    /\ pc[s] \in {"hdr", "body"}
    /\ WriteMustFail
    /\ Goto(s, "undo")
    /\ UNCHANGED <<nextSeq, result, writeMu, pending, ch, stdin, stdout, stopVars, readVars, erlVars>>

WriteFails(s) ==
    /\ pc[s] \in {"hdr", "body"}
    /\ WriteMustFail
    /\ writeMu' = 0
    /\ Goto(s, "undo")
    /\ UNCHANGED <<nextSeq, pending, ch, result, stdin, stdout, stopVars, readVars, erlVars>>

Undo(s) ==
    /\ pc[s] = "undo"
    /\ pending' = pending \ {s}
    /\ Return(s, Failure("senderr"))
    /\ UNCHANGED <<nextSeq, ch, writeMu, stdin, stdout, stopVars, readVars, erlVars>>

\* The select of Call: any ready case may be chosen.
TakeResult(s) ==
    /\ pc[s] = "wait"
    /\ ch[s] # NoOutcome
    /\ ch' = [ch EXCEPT ![s] = NoOutcome]
    /\ Return(s, ch[s])
    /\ UNCHANGED <<nextSeq, pending, writeMu, stdin, stdout, stopVars, readVars, erlVars>>

\* The timer runs only from the end of the write on.
TimerFires(s) ==
    /\ pc[s] = "wait"
    /\ Goto(s, "expire")
    /\ UNCHANGED <<nextSeq, pending, ch, result, writeMu, stdin, stdout, stopVars, readVars, erlVars>>

\* Mutant: the timeout case leaves the entry in the map.
ExpireLeaks(s) ==
    /\ pc[s] = "expire"
    /\ Return(s, Failure("timeout"))
    /\ UNCHANGED <<nextSeq, pending, ch, writeMu, stdin, stdout, stopVars, readVars, erlVars>>

\* Mutant: the timeout case sends the request again.
ExpireRetries(s) ==
    /\ pc[s] = "expire"
    /\ Goto(s, "lock")
    /\ UNCHANGED <<nextSeq, result, pending, ch, writeMu, stdin, stdout, stopVars, readVars, erlVars>>

Expire(s) ==
    /\ pc[s] = "expire"
    /\ pending' = pending \ {s}
    /\ Return(s, Failure("timeout"))
    /\ UNCHANGED <<nextSeq, ch, writeMu, stdin, stdout, stopVars, readVars, erlVars>>

\* This case leaves the entry in the map.
SeeDone(s) ==
    /\ pc[s] = "wait"
    /\ done
    /\ Return(s, Failure("stopped"))
    /\ UNCHANGED <<nextSeq, pending, ch, writeMu, stdin, stdout, stopVars, readVars, erlVars>>

-----------------------------------------------------------------------------
(* readLoop *)

\* cmd.Wait closes our end of stdout before it returns.
StdoutClosed == hasCmd /\ once = "done"

NextPacket == reader = "read" /\ ~StdoutClosed /\ stdout # <<>>

\* etf.Decode fails: the packet is skipped.
SkipBadTerm ==
    /\ NextPacket
    /\ Head(stdout).tag = "badterm"
    /\ stdout' = Tail(stdout)
    /\ UNCHANGED <<callVars, pending, ch, stdin, stopVars, readVars, erlVars>>

\* The length check precedes the read of the payload.
ReadOversized ==
    /\ NextPacket
    /\ Head(stdout).tag = "oversized"
    /\ stdout' = Tail(stdout)
    /\ reader' = "drainOversized"
    /\ UNCHANGED <<callVars, pending, ch, stdin, stopVars, hand, erlVars>>

\* Mutant: dispatch leaves the entry in the map.
LookupKeeps ==
    /\ NextPacket
    /\ LET p == Head(stdout) IN
          /\ p.tag \in Answers
          /\ stdout' = Tail(stdout)
          /\ IF p.seq \in pending
             THEN /\ reader' = "send"
                  /\ hand' = [to |-> p.seq, out |-> [kind |-> p.tag, of |-> p.val]]
             ELSE UNCHANGED readVars
    /\ UNCHANGED <<callVars, pending, ch, stdin, stopVars, erlVars>>

\* Mutant: dispatch answers some waiting call without looking at SeqID.
LookupAny ==
    /\ NextPacket
    /\ Head(stdout).tag \in Answers
    /\ \E s \in pending :
          /\ pending' = pending \ {s}
          /\ hand' = [to |-> s, out |-> [kind |-> Head(stdout).tag, of |-> Head(stdout).val]]
    /\ stdout' = Tail(stdout)
    /\ reader' = "send"
    /\ UNCHANGED <<callVars, ch, stdin, stopVars, erlVars>>

\* dispatch: look the call up and remove it under pendMu ...
Lookup ==
    /\ NextPacket
    /\ LET p == Head(stdout) IN
          /\ p.tag \in Answers
          /\ stdout' = Tail(stdout)
          /\ pending' = pending \ {p.seq}
          /\ IF p.seq \in pending
             THEN /\ reader' = "send"
                  /\ hand' = [to |-> p.seq, out |-> [kind |-> p.tag, of |-> p.val]]
             ELSE UNCHANGED readVars
    /\ UNCHANGED <<callVars, ch, stdin, stopVars, erlVars>>

\* ... and send on its channel after the unlock; a full slot blocks.
Send ==
    /\ reader = "send"
    /\ ch[hand.to] = NoOutcome
    /\ ch' = [ch EXCEPT ![hand.to] = hand.out]
    /\ reader' = "read"
    /\ hand' = [to |-> 0, out |-> NoOutcome]
    /\ UNCHANGED <<callVars, pending, stdin, stdout, stopVars, erlVars>>

\* EOF once the peer is gone, or an error once cmd.Wait closed the pipe.
ReadFails ==
    /\ reader = "read"
    /\ StdoutClosed \/ (erl = "dead" /\ stdout = <<>>)
    /\ reader' = "drain"
    /\ UNCHANGED <<callVars, pending, ch, stdin, stdout, stopVars, hand, erlVars>>

\* Mutant: the drain empties the map without telling the waiting calls.
DrainPendingSilent(err) ==
    /\ pending' = {}
    /\ UNCHANGED <<callVars, ch, stdin, stdout, stopVars, hand, erlVars>>

\* drainPending(err) holds pendMu throughout; a full slot would block it there.
DrainPending(err) ==
    /\ \A s \in pending : ch[s] = NoOutcome
    /\ ch' = [s \in Seqs |-> IF s \in pending THEN Failure(err) ELSE ch[s]]
    /\ pending' = {}
    /\ UNCHANGED <<callVars, stdin, stdout, stopVars, hand, erlVars>>

DrainOversized ==
    /\ reader = "drainOversized"
    /\ DrainPending("oversized")
    /\ reader' = "drain"

\* The deferred drain that ends readLoop.
DrainAtExit ==
    /\ reader = "drain"
    /\ DrainPending("closed")
    /\ reader' = "stopped"

-----------------------------------------------------------------------------
(* Stop *)

StopAt(p, to) == stopPc' = [stopPc EXCEPT ![p] = to]

StopBegin(p) ==
    /\ stopPc[p] = "idle"
    /\ once = "free"
    /\ once' = "busy"
    /\ StopAt(p, "close")
    /\ UNCHANGED <<callVars, pending, ch, stdin, stdout, hasCmd, stdinOpen, done, readVars, erlVars>>

StopCloseStdin(p) ==
    /\ stopPc[p] = "close"
    /\ stdinOpen' = FALSE
    /\ StopAt(p, "done")
    /\ UNCHANGED <<callVars, pending, ch, stdin, stdout, hasCmd, done, once, readVars, erlVars>>

StopCloseDone(p) ==
    /\ stopPc[p] = "done"
    /\ done' = TRUE
    /\ StopAt(p, "reap")
    /\ UNCHANGED <<callVars, pending, ch, stdin, stdout, hasCmd, stdinOpen, once, readVars, erlVars>>

\* cmd.Wait returns once the process exited.
StopWait(p) ==
    /\ stopPc[p] = "reap"
    /\ hasCmd => erl = "dead"
    /\ once' = "done"
    /\ StopAt(p, "ret")
    /\ UNCHANGED <<callVars, pending, ch, stdin, stdout, hasCmd, stdinOpen, done, readVars, erlVars>>

\* Mutant: a flag instead of sync.Once lets the second Stop return at once.
StopAgainEarly(p) ==
    /\ stopPc[p] = "idle"
    /\ once # "free"
    /\ StopAt(p, "ret")
    /\ UNCHANGED <<callVars, pending, ch, stdin, stdout, hasCmd, stdinOpen, done, once, readVars, erlVars>>

\* A second Stop returns when the first one has; until then sync.Once blocks it.
StopAgain(p) ==
    /\ stopPc[p] = "idle"
    /\ once = "done"
    /\ StopAt(p, "ret")
    /\ UNCHANGED <<callVars, pending, ch, stdin, stdout, hasCmd, stdinOpen, done, once, readVars, erlVars>>

-----------------------------------------------------------------------------
(* The Erlang side: the runtime's fd port driver and the runner process *)

\* The driver delivers a packet once header and payload are there.  A header
\* followed by a foreign fragment delimits bytes that are no term.
DriverReads ==
    /\ erl = "up"
    /\ Len(stdin) >= 2
    /\ stdin' = Tail(Tail(stdin))
    /\ mailbox' = Append(mailbox,
            IF /\ stdin[1].part = "hdr" /\ stdin[2].part = "body"
               /\ stdin[1].seq = stdin[2].seq
            THEN stdin[1].seq ELSE 0)
    /\ UNCHANGED <<callVars, pending, ch, stdout, stopVars, readVars, erl, running, executed>>

\* At EOF the driver closes the port.  Its owner traps exits: `-run` applies
\* main/0 in the boot process of init, which set trap_exit (external, OTP).
\* So {'EXIT', Port, normal} joins the mailbox, behind the packets.
DriverEof ==
    /\ erl = "up"
    /\ ~stdinOpen /\ Len(stdin) < 2
    /\ erl' = "eof"
    /\ UNCHANGED <<callVars, pending, ch, stdin, stdout, stopVars, readVars, mailbox, running, executed>>

\* Undecodable data falls through to the catch-all clause of loop/1.
RunnerTakes ==
    /\ erl # "dead" /\ running = 0
    /\ mailbox # <<>>
    /\ mailbox' = Tail(mailbox)
    /\ running' = Head(mailbox)
    /\ executed' = [s \in Seqs |-> IF s = Head(mailbox) THEN executed[s] + 1 ELSE executed[s]]
    /\ UNCHANGED <<callVars, pending, ch, stdin, stdout, stopVars, readVars, erl>>

RunnerReplies(tag) ==
    /\ erl = "up"
    /\ running # 0
    /\ Len(stdout) < OutCap
    /\ stdout' = Append(stdout, [tag |-> tag, seq |-> running, val |-> running])
    /\ running' = 0
    /\ UNCHANGED <<callVars, pending, ch, stdin, stopVars, readVars, erl, mailbox, executed>>


\* The 'EXIT' clause of loop/1, once the packets before it are dealt with.
RunnerHalts ==
    /\ erl = "eof" /\ running = 0 /\ mailbox = <<>>
    /\ erl' = "dead"
    /\ stdin' = <<>>
    /\ UNCHANGED <<callVars, pending, ch, stdout, stopVars, readVars, mailbox, running, executed>>

\* The VM goes away: killed, halted by a called function, or taken down by a
\* crash of the runner (a Fun atom without a colon fails the match in
\* dispatch/3; port_command on a closed port is a badarg).  What it had not
\* read from stdin is lost.
ErlDies ==
    /\ erl # "dead"
    /\ erl' = "dead"
    /\ stdin' = <<>>
    /\ mailbox' = <<>>
    /\ running' = 0
    /\ UNCHANGED <<callVars, pending, ch, stdout, stopVars, readVars, executed>>

-----------------------------------------------------------------------------

CallStep(s) ==
    \/ Register(s) \/ LockWrite(s) \/ WriteHdr(s) \/ WriteBody(s)
    \/ WriteFails(s) \/ Undo(s) \/ TakeResult(s) \/ TimerFires(s) \/ Expire(s) \/ SeeDone(s)

ReadStep ==
    SkipBadTerm \/ ReadOversized \/ Lookup \/ Send \/ ReadFails \/ DrainOversized \/ DrainAtExit

StopStep(p) ==
    StopBegin(p) \/ StopCloseStdin(p) \/ StopCloseDone(p) \/ StopWait(p) \/ StopAgain(p)

ErlStep ==
    \/ DriverReads \/ DriverEof
    \/ RunnerTakes \/ (\E tag \in ReplyTags : RunnerReplies(tag)) \/ RunnerHalts
    \/ ErlDies

PortNext ==
    \/ CallBegin
    \/ \E s \in Seqs : CallStep(s)
    \/ ReadStep
    \/ \E p \in Stoppers : StopStep(p)
    \/ ErlStep

PortSpec == PortInit /\ [][PortNext]_vars

\* The Go scheduler runs every goroutine that can run; a timer that was armed
\* fires.  Nothing forces a call or a Stop to be made.
GoFairness ==
    /\ \A s \in Seqs : WF_vars(CallStep(s))
    /\ WF_vars(ReadStep)
    /\ \A p \in Stoppers : WF_vars(StopStep(p) /\ stopPc[p] # "idle")

\* A live VM keeps reading its fd port; its functions may still never end.
DriverFairness == WF_vars(DriverReads \/ DriverEof)

\* The VM also schedules the runner, and the functions it applies return; one
\* that returns after the port closed takes the runner down.
RunnerFairness ==
    /\ WF_vars(RunnerTakes \/ (\E tag \in ReplyTags : RunnerReplies(tag)) \/ RunnerHalts)
    /\ WF_vars(running # 0 /\ erl = "eof" /\ ErlDies)

\* Nothing is assumed of the peer.
PortGoSpec == PortSpec /\ GoFairness
PortFairSpec == PortSpec /\ GoFairness /\ DriverFairness

-----------------------------------------------------------------------------
(* Properties *)

\* Every variable keeps its type.
TypeOK ==
    /\ hasCmd \in BOOLEAN
    /\ nextSeq \in 0..MaxSeq
    /\ pending \subseteq Seqs
    /\ ch \in [Seqs -> Outcomes \union {NoOutcome}]
    /\ pc \in [Seqs -> {"idle", "register", "lock", "hdr", "body", "wait", "undo", "expire", "ret"}]
    /\ result \in [Seqs -> Outcomes \union {NoOutcome}]
    /\ writeMu \in {0} \union Seqs
    /\ stdin \in Seq(Fragments)
    /\ stdinOpen \in BOOLEAN
    /\ stdout \in Seq(Packets)
    /\ reader \in {"read", "send", "drainOversized", "drain", "stopped"}
    /\ hand \in [to : {0} \union Seqs, out : Outcomes \union {NoOutcome}]
    /\ reader = "send" => hand.to \in Seqs /\ hand.out \in Outcomes
    /\ done \in BOOLEAN
    /\ once \in {"free", "busy", "done"}
    /\ stopPc \in [Stoppers -> {"idle", "close", "done", "reap", "ret"}]
    /\ erl \in {"up", "eof", "dead"}
    /\ mailbox \in Seq({0} \union Seqs)
    /\ running \in {0} \union Seqs
    /\ executed \in [Seqs -> Nat]

\* No sender ever blocks on a call's one-slot channel.  dispatch sends outside
\* pendMu and drainPending inside it, so a full slot would stop the reader for
\* ever, in drainPending together with every Call that wants pendMu.
ChannelRoom ==
    /\ \A s \in pending : ch[s] = NoOutcome
    /\ reader = "send" => ch[hand.to] = NoOutcome

\* A call that has sent its request and waits can still be answered by the
\* reader: it is in the map, its result is being handed over, or is there.
WaiterIsReachable ==
    \A s \in Seqs : pc[s] = "wait" =>
        \/ s \in pending
        \/ ch[s] # NoOutcome
        \/ reader = "send" /\ hand.to = s

\* A call that returned has left no entry in the map, except through the
\* manager-stopped case of its select.
NoLeakedEntry ==
    \A s \in pending : pc[s] = "ret" => result[s] = Failure("stopped")

\* Whatever answer a call returns, late, reordered or racing with timeouts of
\* other calls, was produced by the function run for this very call.
OwnAnswer ==
    \A s \in Seqs : result[s].kind \in Answers => result[s].of = s /\ executed[s] > 0

\* Header and payload of concurrent calls never interleave on stdin: the
\* runner is never handed a garbled packet.
FramesIntact == \A i \in 1..Len(mailbox) : mailbox[i] # 0

\* Once Stop has returned on a spawned process, the process is gone, stdin is
\* closed and done is closed: no later Call can get its request across.
StopIsFinal ==
    \A p \in Stoppers : stopPc[p] = "ret" =>
        ~stdinOpen /\ done /\ (hasCmd => erl = "dead")

\* The manager implements the abstract request/reply channel: functions run at
\* most once per call, calls return once and only with their own answers.
Abstract == INSTANCE Rpc WITH
    Calls <- Seqs,
    state <- [s \in Seqs |-> CASE pc[s] = "idle" -> "new"
                               [] pc[s] = "ret" -> "returned"
                               [] OTHER -> "open"],
    outcome <- result,
    runs <- executed

ImplementsRpc == Abstract!RpcSpec

\* Every call returns, as long as the VM reads its stdin: neither a lost or
\* undecodable reply, nor the reader's exit, nor Stop leaves a caller behind.
CallReturns == \A s \in Seqs : pc[s] # "idle" ~> pc[s] = "ret"

\* Options.Timeout documents itself as "the per-call deadline": every call
\* returns whatever the peer does or fails to do.
CallDeadline == \A s \in Seqs : pc[s] # "idle" ~> pc[s] = "ret"

=============================================================================
