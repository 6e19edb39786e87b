------------------------------- MODULE Agents -------------------------------
(***************************************************************************)
(* Agents of the BEAM runtime (mochi_agent_server.erl) and the two         *)
(* supervisors above them (mochi_agent_sup.erl, mochi_sup.erl).  An agent  *)
(* is a process that dispatches the intents of its mailbox one at a time;  *)
(* clients call it (and wait for {reply, Ref, _}), cast to it or stop it.  *)
(*                                                                         *)
(* An intent is named by a number.  A cast runs a unit intent, which       *)
(* appends itself to the agent's state; a call runs a value intent, which  *)
(* answers with the state it finds: this is how lower.go compiles the two  *)
(* kinds of intent.  A state therefore shows which intents made it, and in *)
(* which order.                                                            *)
(***************************************************************************)
EXTENDS Integers, Sequences, FiniteSets, SequencesExt

CONSTANTS
    Clients,        \* processes that hold agent references
    MaxStarts,      \* bound: agents started by clients
    MaxOps,         \* bound: calls, casts and stops
    Intensity,      \* restarts mochi_agent_sup tolerates in one period
    TopIntensity,   \* restarts of mochi_agent_sup that mochi_sup tolerates
    OnClose         \* the agent type has an `on close' block: a terminate callback

ASSUME AgentsAssumption ==
    /\ {MaxStarts, MaxOps, Intensity, TopIntensity} \subseteq Nat
    /\ OnClose \in BOOLEAN

VARIABLES
    agent,      \* agent[p]: the process p
    inbox,      \* inbox[p]: its mailbox, oldest first
    waits,      \* waits[c]: the agent whose reply c waits for in call/3, or 0
    ref,        \* ref[c]: the Ref of c's last call
    replies,    \* replies[c]: replies in c's mailbox
    sup,        \* mochi_agent_sup
    top,        \* mochi_sup
    known,      \* pids returned to clients
    starts,     \* number of agents started by clients
    ops,        \* number of operations, the name of the last one
    sent,       \* history: sent[c][p], the casts of c to p
    final       \* history: final[p], states given to the terminate callback

vars == <<agent, inbox, waits, ref, replies, sup, top, known, starts, ops, sent, final>>

Pids == 1..(2 * MaxStarts)  \* each agent may be restarted once
NoAgent == [status |-> "none", state |-> <<>>, link |-> FALSE, origin |-> 0]
Live(p) == agent[p].status = "live"
NextPid == 1 + Cardinality({p \in Pids : agent[p].status # "none"})

\* As many restarts as each supervisor tolerates have already happened.
AgentsInit ==
    /\ agent = [p \in Pids |-> NoAgent]
    /\ inbox = [p \in Pids |-> <<>>]
    /\ waits = [c \in Clients |-> 0]
    /\ ref = [c \in Clients |-> 0]
    /\ replies = [c \in Clients |-> <<>>]
    /\ sup = [status |-> "up", children |-> {}, exits |-> <<>>, restarts |-> Intensity]
    /\ top = [status |-> "up", restarts |-> TopIntensity]
    /\ known = {}
    /\ starts = 0
    /\ ops = 0
    /\ sent = [c \in Clients |-> [p \in Pids |-> {}]]
    /\ final = [p \in Pids |-> <<>>]

-----------------------------------------------------------------------------
(* Clients.  A message to a process that is gone disappears.               *)

New(p, link, origin) ==
    [agent EXCEPT ![p] = [status |-> "live", state |-> <<>>, link |-> link, origin |-> origin]]

\* start/2 or, with a terminate callback, start/3.
Start(c) ==
    /\ waits[c] = 0
    /\ starts < MaxStarts /\ NextPid \in Pids
    /\ agent' = New(NextPid, FALSE, NextPid)
    /\ known' = known \union {NextPid}
    /\ starts' = starts + 1
    /\ UNCHANGED <<inbox, waits, ref, replies, sup, top, ops, sent, final>>

\* start_agent/2 and start_agent/3: the supervisor serves the request after
\* the exit signals that are in its mailbox.
StartAgent(c) ==
    /\ waits[c] = 0
    /\ starts < MaxStarts /\ NextPid \in Pids
    /\ sup.status = "up"
    /\ sup.exits = <<>>
    /\ agent' = New(NextPid, TRUE, NextPid)
    /\ sup' = [sup EXCEPT !.children = @ \union {NextPid}]
    /\ known' = known \union {NextPid}
    /\ starts' = starts + 1
    /\ UNCHANGED <<inbox, waits, ref, replies, top, ops, sent, final>>

Deliver(p, m) == inbox' = IF Live(p) THEN [inbox EXCEPT ![p] = Append(@, m)] ELSE inbox

Operate(c, p, kind) ==
    /\ waits[c] = 0
    /\ p \in known
    /\ ops < MaxOps
    /\ ops' = ops + 1
    /\ Deliver(p, [kind |-> kind, from |-> c, id |-> ops + 1])

Call(c, p) ==
    /\ Operate(c, p, "call")
    /\ ref' = [ref EXCEPT ![c] = ops + 1]
    /\ waits' = [waits EXCEPT ![c] = p]
    /\ UNCHANGED <<agent, replies, sup, top, known, starts, sent, final>>

Cast(c, p) ==
    /\ Operate(c, p, "cast")
    /\ sent' = [sent EXCEPT ![c][p] = @ \union {[from |-> c, id |-> ops + 1]}]
    /\ UNCHANGED <<agent, waits, ref, replies, sup, top, known, starts, final>>

Stop(c, p) ==
    /\ Operate(c, p, "stop")
    /\ UNCHANGED <<agent, waits, ref, replies, sup, top, known, starts, sent, final>>

\* call/3 takes the reply that carries its own Ref.
CallReturns(c) ==
    /\ waits[c] # 0
    /\ \E i \in DOMAIN replies[c] :
          /\ replies[c][i].ref = ref[c]
          /\ replies' = [replies EXCEPT ![c] = RemoveAt(@, i)]
    /\ waits' = [waits EXCEPT ![c] = 0]
    /\ UNCHANGED <<agent, inbox, ref, sup, top, known, starts, ops, sent, final>>

-----------------------------------------------------------------------------
(* The loop of an agent.                                                   *)

\* An exit signal reaches the supervisor of a linked process.
Exits(p, status, why) ==
    /\ agent' = [agent EXCEPT ![p].status = status, ![p].state = <<>>]
    /\ inbox' = [inbox EXCEPT ![p] = <<>>]
    /\ sup' = IF agent[p].link
              THEN [sup EXCEPT !.exits = Append(@, [pid |-> p, why |-> why])]
              ELSE sup

\* Mutant: a call is answered from the state after the intents still queued.
HandleCallLate(p) ==
    /\ Live(p)
    /\ inbox[p] # <<>>
    /\ \E i \in DOMAIN inbox[p] : LET m == inbox[p][i] IN
          /\ m.kind = "call"
          /\ replies' = [replies EXCEPT ![m.from] =
                           Append(@, [ref |-> m.id, state |-> agent[p].state, pid |-> p])]
          /\ inbox' = [inbox EXCEPT ![p] = RemoveAt(@, i)]
    /\ UNCHANGED <<agent, waits, ref, sup, top, known, starts, ops, sent, final>>

\* Mutant: an intent that answers `ok' sends no reply.
HandleCallSilent(p) ==
    /\ Live(p)
    /\ inbox[p] # <<>>
    /\ Head(inbox[p]).kind = "call"
    /\ inbox' = [inbox EXCEPT ![p] = Tail(@)]
    /\ UNCHANGED <<agent, waits, ref, replies, sup, top, known, starts, ops, sent, final>>

HandleCall(p) ==
    /\ Live(p)
    /\ inbox[p] # <<>>
    /\ LET m == Head(inbox[p]) IN
          /\ m.kind = "call"
          /\ replies' = [replies EXCEPT ![m.from] =
                           Append(@, [ref |-> m.id, state |-> agent[p].state, pid |-> p])]
          /\ inbox' = [inbox EXCEPT ![p] = Tail(@)]
    /\ UNCHANGED <<agent, waits, ref, sup, top, known, starts, ops, sent, final>>

HandleCast(p) ==
    /\ Live(p)
    /\ inbox[p] # <<>>
    /\ LET m == Head(inbox[p]) IN
          /\ m.kind = "cast"
          /\ agent' = [agent EXCEPT ![p].state = Append(@, [from |-> m.from, id |-> m.id])]
          /\ inbox' = [inbox EXCEPT ![p] = Tail(@)]
    /\ UNCHANGED <<waits, ref, replies, sup, top, known, starts, ops, sent, final>>

\* DispatchFun raises: the process dies with its mailbox, and nobody is told
\* but a linked supervisor.
Crash(p) ==
    /\ Live(p)
    /\ inbox[p] # <<>>
    /\ Head(inbox[p]).kind \in {"call", "cast"}
    /\ Exits(p, "crashed", "error")
    /\ UNCHANGED <<waits, ref, replies, top, known, starts, ops, sent, final>>

RunTerminate(p, m) ==
    final' = IF OnClose
             THEN [final EXCEPT ![p] = Append(@, [state |-> agent[p].state, stop |-> m])]
             ELSE final

\* Mutant: stop overtakes the messages in front of it.
HandleStopFirst(p) ==
    /\ Live(p)
    /\ \E i \in DOMAIN inbox[p] :
          /\ inbox[p][i].kind = "stop"
          /\ RunTerminate(p, inbox[p][i])
    /\ Exits(p, "stopped", "normal")
    /\ UNCHANGED <<waits, ref, replies, top, known, starts, ops, sent>>

\* Mutant: the process ends with an abnormal reason.
HandleStopAbnormal(p) ==
    /\ Live(p)
    /\ inbox[p] # <<>>
    /\ Head(inbox[p]).kind = "stop"
    /\ RunTerminate(p, Head(inbox[p]))
    /\ Exits(p, "stopped", "error")
    /\ UNCHANGED <<waits, ref, replies, top, known, starts, ops, sent>>

HandleStop(p) ==
    /\ Live(p)
    /\ inbox[p] # <<>>
    /\ Head(inbox[p]).kind = "stop"
    /\ RunTerminate(p, Head(inbox[p]))
    /\ Exits(p, "stopped", "normal")
    /\ UNCHANGED <<waits, ref, replies, top, known, starts, ops, sent>>

\* The terminate callback raises: the agent asked to stop has crashed.
TerminateCrashes(p) ==
    /\ Live(p)
    /\ OnClose
    /\ inbox[p] # <<>>
    /\ Head(inbox[p]).kind = "stop"
    /\ RunTerminate(p, Head(inbox[p]))
    /\ Exits(p, "crashed", "error")
    /\ UNCHANGED <<waits, ref, replies, top, known, starts, ops, sent>>

-----------------------------------------------------------------------------
(* mochi_agent_sup: simple_one_for_one, transient children.  When a child  *)
(* crashes, restarts that are older than the period no longer count.       *)

Exit == Head(sup.exits)

\* Mutant: the child is temporary, whatever its exit reason.
SupForgetsAny ==
    /\ sup.status = "up"
    /\ sup.exits # <<>>
    /\ sup' = [sup EXCEPT !.exits = Tail(@), !.children = @ \ {Exit.pid}]
    /\ UNCHANGED <<agent, inbox, waits, ref, replies, top, known, starts, ops, sent, final>>

\* A normal exit of a transient child: the child is forgotten.
SupForgets ==
    /\ sup.status = "up"
    /\ sup.exits # <<>>
    /\ Exit.why = "normal"
    /\ sup' = [sup EXCEPT !.exits = Tail(@), !.children = @ \ {Exit.pid}]
    /\ UNCHANGED <<agent, inbox, waits, ref, replies, top, known, starts, ops, sent, final>>

\* The same start arguments, InitState among them, make a new process.  No
\* client learns its pid.
SupRestarts ==
    /\ sup.status = "up"
    /\ sup.exits # <<>>
    /\ Exit.why = "error"
    /\ NextPid \in Pids
    /\ agent' = New(NextPid, TRUE, agent[Exit.pid].origin)
    /\ \E recent \in 0..sup.restarts :
          /\ recent < Intensity
          /\ sup' = [sup EXCEPT !.exits = Tail(@), !.restarts = recent + 1,
                                !.children = (@ \ {Exit.pid}) \union {NextPid}]
    /\ UNCHANGED <<inbox, waits, ref, replies, top, known, starts, ops, sent, final>>

\* More restarts in the period than the intensity allows.
SupGivesUp ==
    /\ sup.status = "up"
    /\ sup.exits # <<>>
    /\ Exit.why = "error"
    /\ sup.restarts = Intensity
    /\ sup' = [sup EXCEPT !.status = "stopping", !.exits = Tail(@),
                          !.children = @ \ {Exit.pid}]
    /\ UNCHANGED <<agent, inbox, waits, ref, replies, top, known, starts, ops, sent, final>>

\* Shutdown of one child: an agent does not trap exits and dies at once,
\* whatever its mailbox holds, without the terminate callback.
SupShutsDown(p) ==
    /\ sup.status = "stopping"
    /\ p \in sup.children
    /\ agent' = IF Live(p) THEN [agent EXCEPT ![p].status = "killed", ![p].state = <<>>] ELSE agent
    /\ inbox' = [inbox EXCEPT ![p] = <<>>]
    /\ sup' = [sup EXCEPT !.children = @ \ {p}]
    /\ UNCHANGED <<waits, ref, replies, top, known, starts, ops, sent, final>>

SupEnds ==
    /\ sup.status = "stopping"
    /\ sup.children = {}
    /\ sup' = [sup EXCEPT !.status = "down", !.exits = <<>>]
    /\ UNCHANGED <<agent, inbox, waits, ref, replies, top, known, starts, ops, sent, final>>

\* mochi_sup: one_for_one, mochi_agent_sup is a permanent child.
TopRestarts ==
    /\ top.status = "up"
    /\ sup.status = "down"
    /\ \E recent \in 0..top.restarts :
          /\ recent < TopIntensity
          /\ top' = [top EXCEPT !.restarts = recent + 1]
    /\ sup' = [status |-> "up", children |-> {}, exits |-> <<>>, restarts |-> 0]
    /\ UNCHANGED <<agent, inbox, waits, ref, replies, known, starts, ops, sent, final>>

TopGivesUp ==
    /\ top.status = "up"
    /\ sup.status = "down"
    /\ top.restarts = TopIntensity
    /\ top' = [top EXCEPT !.status = "down"]
    /\ UNCHANGED <<agent, inbox, waits, ref, replies, sup, known, starts, ops, sent, final>>

-----------------------------------------------------------------------------

ClientStep(c) ==
    \/ Start(c) \/ StartAgent(c)
    \/ \E p \in known : Call(c, p) \/ Cast(c, p) \/ Stop(c, p)
    \/ CallReturns(c)

AgentStep(p) ==
    HandleCall(p) \/ HandleCast(p) \/ Crash(p) \/ HandleStop(p) \/ TerminateCrashes(p)

SupStep ==
    SupForgets \/ SupRestarts \/ SupGivesUp \/ (\E p \in Pids : SupShutsDown(p)) \/ SupEnds

TopStep == TopRestarts \/ TopGivesUp

AgentsNext ==
    \/ \E c \in Clients : ClientStep(c)
    \/ \E p \in Pids : AgentStep(p)
    \/ SupStep
    \/ TopStep

\* The scheduler runs every process that can go on; intents end.
Fairness ==
    /\ \A c \in Clients : WF_vars(CallReturns(c))
    /\ \A p \in Pids : WF_vars(AgentStep(p))
    /\ WF_vars(SupStep)
    /\ WF_vars(TopStep)

AgentsSpec == AgentsInit /\ [][AgentsNext]_vars
AgentsFairSpec == AgentsSpec /\ Fairness
-----------------------------------------------------------------------------
(* Properties.                                                             *)

Casts == [from : Clients, id : 1..MaxOps]
Messages == [kind : {"call", "cast", "stop"}, from : Clients, id : 1..MaxOps]

\* The type of every variable: mailboxes hold the protocol's messages, and
\* neither supervisor counts more restarts than it tolerates.
TypeOK ==
    /\ agent \in [Pids -> [status : {"none", "live", "stopped", "crashed", "killed"},
                           state : Seq(Casts), link : BOOLEAN, origin : Pids \union {0}]]
    /\ inbox \in [Pids -> Seq(Messages)]
    /\ waits \in [Clients -> Pids \union {0}]
    /\ ref \in [Clients -> 0..MaxOps]
    /\ replies \in [Clients -> Seq([ref : 1..MaxOps, state : Seq(Casts), pid : Pids])]
    /\ sup \in [status : {"up", "stopping", "down"}, children : SUBSET Pids,
                exits : Seq([pid : Pids, why : {"normal", "error"}]), restarts : 0..Intensity]
    /\ top \in [status : {"up", "down"}, restarts : 0..TopIntensity]
    /\ known \subseteq Pids
    /\ starts \in 0..MaxStarts
    /\ ops \in 0..MaxOps
    /\ sent \in [Clients -> [Pids -> SUBSET Casts]]
    /\ final \in [Pids -> Seq([state : Seq(Casts), stop : Messages])]

\* The intents of c that state s shows, and that it shows all in the order in
\* which they were sent.
From(c, s) == {s[i] : i \in {j \in DOMAIN s : s[j].from = c}}
InOrder(s) == \A i, j \in DOMAIN s : i < j => s[i].id < s[j].id

\* A client reads its own writes: the one reply it can have is for the call
\* it is in, and shows every intent it cast to this agent before, in order.
\* (The loop takes messages in the order of the mailbox and threads State.)
ReadYourCasts ==
    \A c \in Clients :
        /\ Len(replies[c]) <= 1
        /\ \A i \in DOMAIN replies[c] : LET r == replies[c][i] IN
              /\ r.ref = ref[c]
              /\ r.pid = waits[c]
              /\ InOrder(r.state) /\ From(c, r.state) = sent[c][r.pid]

\* The terminate callback runs once when an agent is stopped, on a state that
\* has every intent the stopping client cast before; a process that is shut
\* down by its supervisor never runs it.
GracefulStop ==
    \A p \in Pids :
        /\ Len(final[p]) = IF agent[p].status = "stopped" /\ OnClose THEN 1
                           ELSE IF agent[p].status = "crashed" /\ final[p] # <<>> THEN 1
                           ELSE 0
        /\ \A i \in DOMAIN final[p] : LET f == final[p][i] IN
              /\ InOrder(f.state)
              /\ From(f.stop.from, f.state) = {e \in sent[f.stop.from][p] : e.id < f.stop.id}

\* No agent runs twice: of the processes made for one start_agent at most one
\* is alive.
OneIncarnation ==
    \A p, q \in Pids : Live(p) /\ Live(q) /\ agent[p].origin = agent[q].origin => p = q

\* Transient: an agent that ended normally has no later incarnation.
StoppedForGood ==
    \A p, q \in Pids :
        agent[p].status = "stopped" /\ agent[q].origin = agent[p].origin => q <= p

\* The supervisor's table: every live supervised agent is in it, and a child
\* in it that is not alive has its exit signal on the way.
TableIsCurrent ==
    /\ \A p \in Pids : Live(p) /\ agent[p].link => p \in sup.children
    /\ \A p \in sup.children : Live(p) \/ \E i \in DOMAIN sup.exits : sup.exits[i].pid = p

\* What supervision promises, also while a supervisor is taken down: no agent
\* runs twice, none is run again after a normal end, none is left behind.
SupervisionSound == OneIncarnation /\ StoppedForGood /\ TableIsCurrent

\* A call to an agent ends, unless the agent dies: call/3 waits without a
\* timeout and without a monitor.
CallsEnd ==
    \A c \in Clients : (waits[c] # 0) ~> (waits[c] = 0 \/ ~Live(waits[c]))

Again(p) == \E q \in Pids : q > p /\ agent[q].origin = agent[p].origin

\* An agent that crashes under mochi_agent_sup is started again, unless the
\* supervisor itself gives up.
CrashedComesBack ==
    \A p \in Pids :
        (agent[p].status = "crashed" /\ p \in sup.children) ~> (Again(p) \/ sup.status # "up")

\* The same for every agent a program spawns, as the comment in mochi_sup.erl
\* has it ("all spawned agents run under OTP supervision with transient restart
\* policy").
SpawnedComesBack ==
    [](sup.status = "up") => \A p \in Pids : (agent[p].status = "crashed") ~> Again(p)

=============================================================================
