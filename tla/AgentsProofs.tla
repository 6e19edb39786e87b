--------------------------- MODULE AgentsProofs ---------------------------
(***************************************************************************)
(* Theorems about agents and their supervisors, for any number of clients, *)
(* agents and operations, and any restart intensity.                       *)
(***************************************************************************)
EXTENDS Agents, SeqFacts, FiniteSetTheorems, TLAPS

Made(p) == agent[p].status # "none"

\* Pids are given out one after the other.
Contiguous == \E k \in 0..(2 * MaxStarts) : \A p \in Pids : Made(p) <=> p <= k

KnownIsMade == \A p \in known : Made(p)

TypeInv == TypeOK /\ Contiguous /\ KnownIsMade

LEMMA NextPidFacts ==
    ASSUME TypeInv
    PROVE  /\ NextPid \in 1..(2 * MaxStarts + 1)
           /\ \A p \in Pids : Made(p) <=> p < NextPid
<1>0. MaxStarts \in Nat
    BY AgentsAssumption
<1>1. PICK k \in 0..(2 * MaxStarts) : \A p \in Pids : Made(p) <=> p <= k
    BY DEF TypeInv, Contiguous
<1>2. {p \in Pids : agent[p].status # "none"} = 1..k
    BY <1>0, <1>1 DEF Made, Pids
<1>3. Cardinality(1..k) = k
    BY <1>0, FS_Interval
<1>4. NextPid = 1 + k
    BY <1>2, <1>3 DEF NextPid
<1> QED BY <1>0, <1>1, <1>4 DEF Pids

Replies == [ref : 1..MaxOps, state : Seq(Casts), pid : Pids]
Processes ==
    [status : {"none", "live", "stopped", "crashed", "killed"},
     state : Seq(Casts), link : BOOLEAN, origin : Pids \union {0}]

\* A new process.
LEMMA NewFacts ==
    ASSUME TypeInv, NEW n, n = NextPid, n \in Pids, NEW l \in BOOLEAN, NEW o \in Pids \union {0},
           agent' = New(n, l, o)
    PROVE  /\ agent' \in [Pids -> Processes] /\ Contiguous'
           /\ agent'[n] = [status |-> "live", state |-> <<>>, link |-> l, origin |-> o]
           /\ \A p \in Pids : p # n => agent'[p] = agent[p]
           /\ \A p \in Pids : Made(p)' <=> Made(p) \/ p = n
           /\ ~Made(n) /\ \A p \in Pids : Made(p) => p < n
<1>0. agent \in [Pids -> Processes]
    BY DEF TypeInv, TypeOK, Processes
<1>1. PICK r : r = [status |-> "live", state |-> <<>>, link |-> l, origin |-> o]
    OBVIOUS
<1>2. r \in Processes /\ r.status = "live"
    BY <1>1 DEF Processes
<1>3. agent' = [agent EXCEPT ![n] = r]
    BY <1>1 DEF New
<1>4. /\ agent' \in [Pids -> Processes] /\ agent'[n] = r
      /\ \A p \in Pids : p # n => agent'[p] = agent[p]
    BY <1>0, <1>2, <1>3
<1>5. \A p \in Pids : Made(p) <=> p < n
    BY NextPidFacts
<1>6. \A p \in Pids : Made(p)' <=> p < n \/ p = n
    BY <1>2, <1>4, <1>5 DEF Made
<1>7. Contiguous'
    <2>1. n \in 0..(2 * MaxStarts) /\ \A p \in Pids : p <= n <=> p < n \/ p = n
        BY AgentsAssumption DEF Pids
    <2> QED BY <1>6, <2>1 DEF Contiguous
<1>8. n \in Int /\ ~(n < n)
    BY AgentsAssumption DEF Pids
<1> QED BY <1>1, <1>4, <1>5, <1>6, <1>7, <1>8

Signals == [pid : Pids, why : {"normal", "error"}]
Supervisors ==
    [status : {"up", "stopping", "down"}, children : SUBSET Pids, exits : Seq(Signals), restarts : 0..Intensity]
Finals == [state : Seq(Casts), stop : Messages]

\* The types of the variables that a step of an agent or a supervisor changes.
ProcessTypes ==
    /\ agent \in [Pids -> Processes] /\ inbox \in [Pids -> Seq(Messages)]
    /\ replies \in [Clients -> Seq(Replies)]
    /\ sup \in Supervisors /\ top \in [status : {"up", "down"}, restarts : 0..TopIntensity]
    /\ final \in [Pids -> Seq(Finals)]

ClientTypes ==
    /\ waits \in [Clients -> Pids \union {0}] /\ ref \in [Clients -> 0..MaxOps]
    /\ known \subseteq Pids /\ starts \in 0..MaxStarts /\ ops \in 0..MaxOps
    /\ sent \in [Clients -> [Pids -> SUBSET Casts]]

LEMMA TypeParts == (TypeOK <=> ProcessTypes /\ ClientTypes) /\ (TypeOK' <=> ProcessTypes' /\ ClientTypes')
BY DEF TypeOK, ProcessTypes, ClientTypes, Processes, Replies, Signals, Supervisors, Finals

\* A step that makes no process keeps the pids.
LEMMA SamePids ==
    ASSUME TypeInv, known' = known, \A p \in Pids : Made(p)' <=> Made(p), ProcessTypes', ClientTypes'
    PROVE  TypeInv'
<1>1. Contiguous'
    BY DEF TypeInv, Contiguous
<1>2. KnownIsMade'
    BY DEF TypeInv, TypeOK, KnownIsMade
<1>3. TypeOK'
    BY TypeParts
<1> QED BY <1>1, <1>2, <1>3 DEF TypeInv

LEMMA StartKeepsTypes ==
    ASSUME TypeInv, NEW c \in Clients, Start(c) \/ StartAgent(c)
    PROVE  TypeInv'
<1>0. ProcessTypes /\ ClientTypes
    BY TypeParts DEF TypeInv
<1>1. PICK n \in Pids, l \in BOOLEAN :
          /\ n = NextPid /\ agent' = New(n, l, n) /\ known' = known \union {n}
          /\ starts' = starts + 1 /\ starts < MaxStarts
          /\ sup' = sup \/ sup' = [sup EXCEPT !.children = sup.children \union {n}]
    BY DEF Start, StartAgent
<1>2. UNCHANGED <<inbox, waits, ref, replies, top, ops, sent, final>>
    BY DEF Start, StartAgent
<1>3. /\ agent' \in [Pids -> Processes] /\ Contiguous'
      /\ \A p \in Pids : Made(p)' <=> Made(p) \/ p = n
    BY <1>1, NewFacts
<1>4. sup' \in Supervisors
    <2>1. sup \in Supervisors
        BY <1>0 DEF ProcessTypes
    <2> QED BY <1>1, <2>1 DEF Supervisors
<1>5. starts' \in 0..MaxStarts
    BY <1>0, <1>1, AgentsAssumption DEF ClientTypes
<1>6. ProcessTypes'
    BY <1>0, <1>2, <1>3, <1>4 DEF ProcessTypes
<1>7. ClientTypes'
    BY <1>0, <1>1, <1>2, <1>5 DEF ClientTypes
<1>8. KnownIsMade'
    BY <1>0, <1>1, <1>3 DEF TypeInv, KnownIsMade, ClientTypes
<1>9. TypeOK'
    BY <1>6, <1>7, TypeParts
<1> QED BY <1>3, <1>8, <1>9 DEF TypeInv

\* What an operation puts into a mailbox.
LEMMA DeliverFacts ==
    ASSUME TypeInv, NEW p \in Pids, NEW m \in Messages, Deliver(p, m)
    PROVE  inbox' \in [Pids -> Seq(Messages)]
<1>1. inbox \in [Pids -> Seq(Messages)] /\ inbox[p] \in Seq(Messages)
    BY DEF TypeInv, TypeOK
<1>2. Append(inbox[p], m) \in Seq(Messages)
    BY <1>1, AppendFacts
<1> QED BY <1>1, <1>2 DEF Deliver

LEMMA OperateFacts ==
    ASSUME TypeInv, NEW c \in Clients, NEW p, NEW k \in {"call", "cast", "stop"}, Operate(c, p, k)
    PROVE  /\ p \in Pids /\ ops + 1 \in 1..MaxOps /\ ops' = ops + 1 /\ waits[c] = 0
           /\ [kind |-> k, from |-> c, id |-> ops + 1] \in Messages
           /\ Deliver(p, [kind |-> k, from |-> c, id |-> ops + 1])
           /\ inbox' \in [Pids -> Seq(Messages)] /\ Made(p)
<1>1. p \in Pids /\ ops \in 0..MaxOps /\ ops < MaxOps /\ ops' = ops + 1 /\ waits[c] = 0 /\ Made(p)
    BY DEF Operate, TypeInv, TypeOK, KnownIsMade
<1>2. ops + 1 \in 1..MaxOps
    BY <1>1, AgentsAssumption
<1>3. [kind |-> k, from |-> c, id |-> ops + 1] \in Messages
    BY <1>2 DEF Messages
<1>4. Deliver(p, [kind |-> k, from |-> c, id |-> ops + 1])
    BY DEF Operate
<1> QED BY <1>1, <1>2, <1>3, <1>4, DeliverFacts

LEMMA OperationKeepsTypes ==
    ASSUME TypeInv, NEW c \in Clients, NEW p, Call(c, p) \/ Cast(c, p) \/ Stop(c, p)
    PROVE  TypeInv'
<1>0. ProcessTypes /\ ClientTypes
    BY TypeParts DEF TypeInv
<1>1. PICK k \in {"call", "cast", "stop"} : Operate(c, p, k)
    BY DEF Call, Cast, Stop
<1>2. p \in Pids /\ ops' \in 1..MaxOps /\ ops' = ops + 1 /\ inbox' \in [Pids -> Seq(Messages)]
    BY <1>1, OperateFacts
<1>3. UNCHANGED <<agent, replies, sup, top, known, starts, final>>
    BY DEF Call, Cast, Stop
<1>4. ProcessTypes'
    BY <1>0, <1>2, <1>3 DEF ProcessTypes
<1>5. waits' \in [Clients -> Pids \union {0}] /\ ref' \in [Clients -> 0..MaxOps]
    <2>1. waits' = waits \/ waits' = [waits EXCEPT ![c] = p]
        BY DEF Call, Cast, Stop
    <2>2. ref' = ref \/ ref' = [ref EXCEPT ![c] = ops']
        BY <1>2 DEF Call, Cast, Stop
    <2>3. ops' \in 0..MaxOps
        BY <1>2
    <2>4. waits \in [Clients -> Pids \union {0}] /\ ref \in [Clients -> 0..MaxOps]
        BY <1>0 DEF ClientTypes
    <2> QED BY <1>2, <2>1, <2>2, <2>3, <2>4
<1>6. sent' \in [Clients -> [Pids -> SUBSET Casts]]
    <2>1. [from |-> c, id |-> ops + 1] \in Casts
        BY <1>2 DEF Casts
    <2>2. sent' = sent \/ sent' = [sent EXCEPT ![c][p] = sent[c][p] \union {[from |-> c, id |-> ops + 1]}]
        BY DEF Call, Cast, Stop
    <2>3. sent[c][p] \union {[from |-> c, id |-> ops + 1]} \in SUBSET Casts
        BY <1>0, <1>2, <2>1 DEF ClientTypes
    <2>4. sent \in [Clients -> [Pids -> SUBSET Casts]]
        BY <1>0 DEF ClientTypes
    <2>5. PICK new : new = [sent[c] EXCEPT ![p] = sent[c][p] \union {[from |-> c, id |-> ops + 1]}]
        OBVIOUS
    <2>6. new \in [Pids -> SUBSET Casts]
        BY <1>2, <2>3, <2>4, <2>5
    <2>7. sent' = sent \/ sent' = [sent EXCEPT ![c] = new]
        BY <2>2, <2>5
    <2> QED BY <2>4, <2>6, <2>7
<1>7. ClientTypes'
    <2>1. ops' \in 0..MaxOps
        BY <1>2
    <2> QED BY <1>0, <1>3, <1>5, <1>6, <2>1 DEF ClientTypes
<1>8. \A q \in Pids : Made(q)' <=> Made(q)
    BY <1>3 DEF Made
<1> QED BY <1>3, <1>4, <1>7, <1>8, SamePids

LEMMA ReturnKeepsTypes ==
    ASSUME TypeInv, NEW c \in Clients, CallReturns(c)
    PROVE  TypeInv'
<1>0. ProcessTypes /\ ClientTypes
    BY TypeParts DEF TypeInv
<1>1. PICK i \in DOMAIN replies[c] : replies' = [replies EXCEPT ![c] = RemoveAt(replies[c], i)]
    BY DEF CallReturns
<1>2. replies \in [Clients -> Seq(Replies)] /\ replies[c] \in Seq(Replies) /\ i \in 1..Len(replies[c])
    BY <1>0, <1>1 DEF ProcessTypes
<1>3. RemoveAt(replies[c], i) \in Seq(Replies)
    BY <1>2, RemoveFacts DEF RemoveAt
<1>4. replies' \in [Clients -> Seq(Replies)]
    BY <1>1, <1>2, <1>3
<1>5. UNCHANGED <<agent, inbox, ref, sup, top, known, starts, ops, sent, final>>
      /\ waits' = [waits EXCEPT ![c] = 0]
    BY DEF CallReturns
<1>6. ProcessTypes' /\ ClientTypes'
    BY <1>0, <1>4, <1>5 DEF ProcessTypes, ClientTypes
<1>7. \A p \in Pids : Made(p)' <=> Made(p)
    BY <1>5 DEF Made
<1> QED BY <1>5, <1>6, <1>7, SamePids

\* The end of a process.
LEMMA ExitFacts ==
    ASSUME TypeInv, NEW p \in Pids, NEW st \in {"stopped", "crashed"}, NEW why \in {"normal", "error"},
           Live(p), Exits(p, st, why)
    PROVE  /\ agent' \in [Pids -> Processes] /\ inbox' \in [Pids -> Seq(Messages)] /\ sup' \in Supervisors
           /\ \A q \in Pids : q # p => agent'[q] = agent[q] /\ inbox'[q] = inbox[q]
           /\ agent'[p] = [agent[p] EXCEPT !.status = st, !.state = <<>>] /\ inbox'[p] = <<>>
           /\ \A q \in Pids : Made(q)' <=> Made(q)
           /\ sup'.children = sup.children /\ sup'.status = sup.status /\ sup'.restarts = sup.restarts
           /\ sup'.exits = IF agent[p].link THEN Append(sup.exits, [pid |-> p, why |-> why]) ELSE sup.exits
<1>0. agent \in [Pids -> Processes] /\ inbox \in [Pids -> Seq(Messages)] /\ sup \in Supervisors
    BY TypeParts DEF TypeInv, ProcessTypes
<1>1. agent' = [agent EXCEPT ![p] = [agent[p] EXCEPT !.status = st, !.state = <<>>]]
    BY DEF Exits
<1>2. [agent[p] EXCEPT !.status = st, !.state = <<>>] \in Processes
    <2>1. agent[p] \in Processes /\ <<>> \in Seq(Casts)
        BY <1>0
    <2> QED BY <2>1 DEF Processes
<1>3. inbox' = [inbox EXCEPT ![p] = <<>>]
    BY DEF Exits
<1>4. /\ agent' \in [Pids -> Processes] /\ inbox' \in [Pids -> Seq(Messages)]
      /\ \A q \in Pids : q # p => agent'[q] = agent[q] /\ inbox'[q] = inbox[q]
      /\ agent'[p] = [agent[p] EXCEPT !.status = st, !.state = <<>>] /\ inbox'[p] = <<>>
    BY <1>0, <1>1, <1>2, <1>3
<1>5. \A q \in Pids : Made(q)' <=> Made(q)
    <2>1. agent'[p].status = st
        BY <1>0, <1>4 DEF Processes
    <2> QED BY <1>4, <2>1 DEF Made, Live
<1>6. [pid |-> p, why |-> why] \in Signals
    BY DEF Signals
<1>7. sup.exits \in Seq(Signals)
    BY <1>0 DEF Supervisors
<1>8. Append(sup.exits, [pid |-> p, why |-> why]) \in Seq(Signals)
    BY <1>6, <1>7, AppendFacts
<1>9. sup' = IF agent[p].link
             THEN [sup EXCEPT !.exits = Append(sup.exits, [pid |-> p, why |-> why])] ELSE sup
    BY DEF Exits
<1>10. /\ sup' \in Supervisors
       /\ sup'.children = sup.children /\ sup'.status = sup.status /\ sup'.restarts = sup.restarts
       /\ sup'.exits = IF agent[p].link THEN Append(sup.exits, [pid |-> p, why |-> why]) ELSE sup.exits
    BY <1>0, <1>8, <1>9 DEF Supervisors
<1> QED BY <1>4, <1>5, <1>10

\* The message an agent handles.
LEMMA HeadFacts ==
    ASSUME TypeInv, NEW p \in Pids, inbox[p] # <<>>
    PROVE  /\ Head(inbox[p]) \in Messages /\ Head(inbox[p]) = inbox[p][1] /\ 1 \in DOMAIN inbox[p]
           /\ Tail(inbox[p]) \in Seq(Messages) /\ agent[p] \in Processes /\ agent[p].state \in Seq(Casts)
<1>1. inbox[p] \in Seq(Messages) /\ agent[p] \in Processes
    BY TypeParts DEF TypeInv, ProcessTypes
<1> QED BY <1>1, TailType DEF Processes

LEMMA HandleKeepsTypes ==
    ASSUME TypeInv, NEW p \in Pids, HandleCall(p) \/ HandleCast(p)
    PROVE  TypeInv'
<1>0. ProcessTypes /\ ClientTypes
    BY TypeParts DEF TypeInv
<1>1. PICK m : m = Head(inbox[p])
    OBVIOUS
<1>2. m \in Messages /\ m.from \in Clients /\ m.id \in 1..MaxOps
      /\ Tail(inbox[p]) \in Seq(Messages) /\ agent[p] \in Processes /\ agent[p].state \in Seq(Casts)
    <2>1. inbox[p] # <<>>
        BY DEF HandleCall, HandleCast
    <2> QED BY <1>1, <2>1, HeadFacts DEF Messages
<1>3. UNCHANGED <<waits, ref, sup, top, known, starts, ops, sent, final>>
      /\ inbox' = [inbox EXCEPT ![p] = Tail(inbox[p])]
    BY DEF HandleCall, HandleCast
<1>4. inbox' \in [Pids -> Seq(Messages)]
    BY <1>0, <1>2, <1>3 DEF ProcessTypes
<1>5. CASE HandleCall(p)
    <2>1. PICK r : r = [ref |-> m.id, state |-> agent[p].state, pid |-> p]
        OBVIOUS
    <2>2. agent' = agent /\ replies' = [replies EXCEPT ![m.from] = Append(replies[m.from], r)]
        BY <1>1, <1>5, <2>1 DEF HandleCall
    <2>3. r \in Replies
        BY <1>2, <2>1 DEF Replies
    <2>4. Append(replies[m.from], r) \in Seq(Replies)
        BY <1>0, <1>2, <2>3, AppendFacts DEF ProcessTypes
    <2>5. replies' \in [Clients -> Seq(Replies)]
        BY <1>0, <2>2, <2>4 DEF ProcessTypes
    <2>6. ProcessTypes'
        BY <1>0, <1>3, <1>4, <2>2, <2>5 DEF ProcessTypes
    <2>7. ClientTypes' /\ \A q \in Pids : Made(q)' <=> Made(q)
        BY <1>0, <1>3, <2>2 DEF ClientTypes, Made
    <2> QED BY <1>3, <2>6, <2>7, SamePids
<1>6. CASE HandleCast(p)
    <2>1. PICK e : e = [from |-> m.from, id |-> m.id]
        OBVIOUS
    <2>2. /\ agent' = [agent EXCEPT ![p].state = Append(agent[p].state, e)] /\ replies' = replies
        BY <1>1, <1>6, <2>1 DEF HandleCast
    <2>3. Append(agent[p].state, e) \in Seq(Casts)
        <3>1. e \in Casts
            BY <1>2, <2>1 DEF Casts
        <3> QED BY <1>2, <3>1, AppendFacts
    <2>4. PICK a : a = [agent[p] EXCEPT !.state = Append(agent[p].state, e)]
        OBVIOUS
    <2>5. a \in Processes /\ a.status = agent[p].status
        BY <1>2, <2>3, <2>4 DEF Processes
    <2>6. agent' = [agent EXCEPT ![p] = a]
        BY <2>2, <2>4
    <2>7. agent' \in [Pids -> Processes] /\ \A q \in Pids : Made(q)' <=> Made(q)
        BY <1>0, <2>5, <2>6 DEF ProcessTypes, Made
    <2>8. ProcessTypes' /\ ClientTypes'
        BY <1>0, <1>3, <1>4, <2>2, <2>7 DEF ProcessTypes, ClientTypes
    <2> QED BY <1>3, <2>7, <2>8, SamePids
<1> QED BY <1>5, <1>6

LEMMA EndKeepsTypes ==
    ASSUME TypeInv, NEW p \in Pids, Crash(p) \/ HandleStop(p) \/ TerminateCrashes(p)
    PROVE  TypeInv'
<1>0. ProcessTypes /\ ClientTypes
    BY TypeParts DEF TypeInv
<1>1. PICK st \in {"stopped", "crashed"}, why \in {"normal", "error"} : Exits(p, st, why)
    BY DEF Crash, HandleStop, TerminateCrashes
<1>2. Live(p) /\ inbox[p] # <<>>
      /\ UNCHANGED <<waits, ref, replies, top, known, starts, ops, sent>>
      /\ (final' = final \/ RunTerminate(p, Head(inbox[p])))
    BY DEF Crash, HandleStop, TerminateCrashes
<1>3. /\ agent' \in [Pids -> Processes] /\ inbox' \in [Pids -> Seq(Messages)] /\ sup' \in Supervisors
      /\ \A q \in Pids : Made(q)' <=> Made(q)
    BY <1>1, <1>2, ExitFacts
<1>4. final' \in [Pids -> Seq(Finals)]
    <2>1. PICK f : f = [state |-> agent[p].state, stop |-> Head(inbox[p])]
        OBVIOUS
    <2>2. f \in Finals
        BY <1>2, <2>1, HeadFacts DEF Finals
    <2>3. final \in [Pids -> Seq(Finals)] /\ Append(final[p], f) \in Seq(Finals)
        BY <1>0, <2>2, AppendFacts DEF ProcessTypes
    <2>4. final' = final \/ final' = [final EXCEPT ![p] = Append(final[p], f)]
        BY <1>2, <2>1 DEF RunTerminate
    <2> QED BY <2>3, <2>4
<1>5. ProcessTypes'
    BY <1>0, <1>2, <1>3, <1>4 DEF ProcessTypes
<1>6. ClientTypes'
    BY <1>0, <1>2 DEF ClientTypes
<1> QED BY <1>2, <1>3, <1>5, <1>6, SamePids

\* The signal a supervisor handles.
LEMMA SignalFacts ==
    ASSUME TypeInv, sup.exits # <<>>
    PROVE  /\ sup \in Supervisors /\ sup.exits \in Seq(Signals) /\ Tail(sup.exits) \in Seq(Signals)
           /\ Exit \in Signals /\ Exit.pid \in Pids /\ Exit.why \in {"normal", "error"}
           /\ Exit = sup.exits[1] /\ 1 \in 1..Len(sup.exits) /\ Len(sup.exits) \in Nat
           /\ Len(Tail(sup.exits)) = Len(sup.exits) - 1
           /\ \A i \in 1..Len(Tail(sup.exits)) :
                 Tail(sup.exits)[i] = sup.exits[i + 1] /\ i + 1 \in 1..Len(sup.exits)
<1>1. sup \in Supervisors
    BY TypeParts DEF TypeInv, ProcessTypes
<1>2. sup.exits \in Seq(Signals)
    BY <1>1 DEF Supervisors
<1>3. Exit \in Signals /\ Exit = sup.exits[1] /\ 1 \in 1..Len(sup.exits) /\ Len(sup.exits) \in Nat
    BY <1>2 DEF Exit
<1>4. Exit.pid \in Pids /\ Exit.why \in {"normal", "error"}
    BY <1>3 DEF Signals
<1> QED BY <1>1, <1>2, <1>3, <1>4, TailType

\* A supervisor handles an exit signal without a restart.
LEMMA DropFacts ==
    ASSUME TypeInv, SupForgets \/ SupGivesUp
    PROVE  /\ sup.exits # <<>> /\ sup' \in Supervisors /\ sup'.status \in {"up", "stopping"}
           /\ sup'.exits = Tail(sup.exits) /\ sup'.children = sup.children \ {Exit.pid}
           /\ UNCHANGED <<agent, inbox, waits, ref, replies, top, known, starts, ops, sent, final>>
<1>1. sup.exits # <<>>
    BY DEF SupForgets, SupGivesUp
<1>2. sup \in Supervisors /\ Tail(sup.exits) \in Seq(Signals)
    BY <1>1, SignalFacts
<1>3. PICK ex, ch : ex = Tail(sup.exits) /\ ch = sup.children \ {Exit.pid}
    OBVIOUS
<1>4. \/ sup.status = "up" /\ sup' = [sup EXCEPT !.exits = ex, !.children = ch]
      \/ sup' = [sup EXCEPT !.status = "stopping", !.exits = ex, !.children = ch]
    BY <1>3 DEF SupForgets, SupGivesUp
<1>5. ch \in SUBSET Pids /\ ex \in Seq(Signals)
    BY <1>2, <1>3 DEF Supervisors
<1>6. sup' \in Supervisors /\ sup'.status \in {"up", "stopping"} /\ sup'.exits = ex /\ sup'.children = ch
    BY <1>2, <1>4, <1>5 DEF Supervisors
<1>7. UNCHANGED <<agent, inbox, waits, ref, replies, top, known, starts, ops, sent, final>>
    BY DEF SupForgets, SupGivesUp
<1> QED BY <1>1, <1>3, <1>6, <1>7

LEMMA RestartFacts ==
    ASSUME TypeInv, SupRestarts
    PROVE  /\ sup.exits # <<>> /\ Exit.why = "error" /\ NextPid \in Pids
           /\ sup' \in Supervisors /\ sup'.status = "up"
           /\ sup'.exits = Tail(sup.exits) /\ sup'.children = (sup.children \ {Exit.pid}) \union {NextPid}
           /\ agent' = New(NextPid, TRUE, agent[Exit.pid].origin) /\ agent[Exit.pid].origin \in Pids \union {0}
           /\ UNCHANGED <<inbox, waits, ref, replies, top, known, starts, ops, sent, final>>
<1>1. sup.exits # <<>> /\ sup.status = "up" /\ Exit.why = "error" /\ NextPid \in Pids
      /\ agent' = New(NextPid, TRUE, agent[Exit.pid].origin)
      /\ UNCHANGED <<inbox, waits, ref, replies, top, known, starts, ops, sent, final>>
    BY DEF SupRestarts
<1>2. sup \in Supervisors /\ Tail(sup.exits) \in Seq(Signals) /\ Exit.pid \in Pids
    BY <1>1, SignalFacts
<1>3. PICK ex, ch : ex = Tail(sup.exits) /\ ch = (sup.children \ {Exit.pid}) \union {NextPid}
    OBVIOUS
<1>4. PICK recent \in 0..sup.restarts :
          recent < Intensity /\ sup' = [sup EXCEPT !.exits = ex, !.restarts = recent + 1, !.children = ch]
    BY <1>3 DEF SupRestarts
<1>5. ch \in SUBSET Pids /\ ex \in Seq(Signals)
    BY <1>1, <1>2, <1>3 DEF Supervisors
<1>6. recent + 1 \in 0..Intensity
    <2>1. sup.restarts \in 0..Intensity
        BY <1>2 DEF Supervisors
    <2> QED BY <1>4, <2>1, AgentsAssumption
<1>7. sup' \in Supervisors /\ sup'.status = "up" /\ sup'.exits = ex /\ sup'.children = ch
    BY <1>1, <1>2, <1>4, <1>5, <1>6 DEF Supervisors
<1>8. agent[Exit.pid].origin \in Pids \union {0}
    <2>1. agent[Exit.pid] \in Processes
        BY <1>2, TypeParts DEF TypeInv, ProcessTypes
    <2> QED BY <2>1 DEF Processes
<1> QED BY <1>1, <1>3, <1>7, <1>8

LEMMA ShutdownFacts ==
    ASSUME TypeInv, NEW p \in Pids, SupShutsDown(p)
    PROVE  /\ sup' \in Supervisors /\ sup'.status = "stopping" /\ sup'.exits = sup.exits
           /\ sup'.children = sup.children \ {p} /\ p \in sup.children
           /\ agent' \in [Pids -> Processes] /\ inbox' = [inbox EXCEPT ![p] = <<>>]
           /\ inbox' \in [Pids -> Seq(Messages)]
           /\ \A q \in Pids : q # p => agent'[q] = agent[q]
           /\ ~Live(p) => agent' = agent
           /\ Live(p) => agent'[p] = [agent[p] EXCEPT !.status = "killed", !.state = <<>>]
           /\ agent'[p].status = IF Live(p) THEN "killed" ELSE agent[p].status
           /\ agent'[p].origin = agent[p].origin
           /\ \A q \in Pids : Made(q)' <=> Made(q)
           /\ UNCHANGED <<waits, ref, replies, top, known, starts, ops, sent, final>>
<1>0. agent \in [Pids -> Processes] /\ agent[p] \in Processes /\ sup \in Supervisors
      /\ inbox \in [Pids -> Seq(Messages)]
    BY TypeParts DEF TypeInv, ProcessTypes
<1>1. PICK ch : ch = sup.children \ {p}
    OBVIOUS
<1>2. ch \in SUBSET Pids /\ sup' = [sup EXCEPT !.children = ch] /\ sup.status = "stopping" /\ p \in sup.children
    BY <1>0, <1>1 DEF SupShutsDown, Supervisors
<1>3. sup' \in Supervisors /\ sup'.status = "stopping" /\ sup'.exits = sup.exits /\ sup'.children = ch
    BY <1>0, <1>2 DEF Supervisors
<1>4. PICK a : a = [agent[p] EXCEPT !.status = "killed", !.state = <<>>]
    OBVIOUS
<1>5. a \in Processes /\ a.status = "killed" /\ a.origin = agent[p].origin
    <2>1. <<>> \in Seq(Casts)
        OBVIOUS
    <2> QED BY <1>0, <1>4, <2>1 DEF Processes
<1>6. agent' = IF Live(p) THEN [agent EXCEPT ![p] = a] ELSE agent
    BY <1>4 DEF SupShutsDown
<1>7. /\ agent' \in [Pids -> Processes] /\ \A q \in Pids : q # p => agent'[q] = agent[q]
      /\ ~Live(p) => agent' = agent
      /\ Live(p) => agent'[p] = a
    BY <1>0, <1>5, <1>6
<1>8. \A q \in Pids : Made(q)' <=> Made(q)
    BY <1>5, <1>7 DEF Made, Live
<1>9. inbox' = [inbox EXCEPT ![p] = <<>>]
      /\ UNCHANGED <<waits, ref, replies, top, known, starts, ops, sent, final>>
    BY DEF SupShutsDown
<1>10. inbox' \in [Pids -> Seq(Messages)]
    BY <1>0, <1>9
<1> QED BY <1>1, <1>2, <1>3, <1>4, <1>5, <1>7, <1>8, <1>9, <1>10

\* The end of a supervisor, and what mochi_sup does about it.
LEMMA TopFacts ==
    ASSUME TypeInv, SupEnds \/ TopRestarts \/ TopGivesUp
    PROVE  /\ sup' \in Supervisors /\ top' \in [status : {"up", "down"}, restarts : 0..TopIntensity]
           /\ \/ SupEnds /\ sup.children = {} /\ sup'.children = {} /\ sup'.exits = <<>>
              \/ TopRestarts /\ sup.status = "down" /\ sup'.children = {} /\ sup'.exits = <<>>
              \/ TopGivesUp /\ sup' = sup
           /\ UNCHANGED <<agent, inbox, waits, ref, replies, known, starts, ops, sent, final>>
<1>0. sup \in Supervisors /\ top \in [status : {"up", "down"}, restarts : 0..TopIntensity]
    BY TypeParts DEF TypeInv, ProcessTypes
<1>1. CASE SupEnds
    <2>1. sup' \in Supervisors /\ sup'.children = {} /\ sup'.exits = <<>>
        <3>1. <<>> \in Seq(Signals)
            OBVIOUS
        <3>2. sup' = [sup EXCEPT !.status = "down", !.exits = <<>>] /\ sup.children = {}
            BY <1>1 DEF SupEnds
        <3> QED BY <1>0, <3>1, <3>2 DEF Supervisors
    <2> QED BY <1>0, <1>1, <2>1 DEF SupEnds
<1>2. CASE TopRestarts
    <2>1. PICK recent \in 0..top.restarts : recent < TopIntensity /\ top' = [top EXCEPT !.restarts = recent + 1]
        BY <1>2 DEF TopRestarts
    <2>2. recent + 1 \in 0..TopIntensity
        BY <1>0, <2>1, AgentsAssumption
    <2>3. top' \in [status : {"up", "down"}, restarts : 0..TopIntensity]
        BY <1>0, <2>1, <2>2
    <2>4. sup' \in Supervisors /\ sup'.children = {} /\ sup'.exits = <<>>
        <3>1. <<>> \in Seq(Signals) /\ 0 \in 0..Intensity
            BY AgentsAssumption
        <3>2. sup' = [status |-> "up", children |-> {}, exits |-> <<>>, restarts |-> 0]
            BY <1>2 DEF TopRestarts
        <3> QED BY <3>1, <3>2 DEF Supervisors
    <2> QED BY <1>2, <2>3, <2>4 DEF TopRestarts
<1>3. CASE TopGivesUp
    BY <1>0, <1>3 DEF TopGivesUp
<1> QED BY <1>1, <1>2, <1>3

LEMMA SupKeepsTypes == ASSUME TypeInv, SupStep \/ TopStep PROVE TypeInv'
<1>0. ProcessTypes /\ ClientTypes
    BY TypeParts DEF TypeInv
<1>1. CASE SupForgets \/ SupGivesUp
    <2>1. sup' \in Supervisors
          /\ UNCHANGED <<agent, inbox, waits, ref, replies, top, known, starts, ops, sent, final>>
        BY <1>1, DropFacts
    <2>2. ProcessTypes' /\ ClientTypes' /\ \A q \in Pids : Made(q)' <=> Made(q)
        BY <1>0, <2>1 DEF ProcessTypes, ClientTypes, Made
    <2> QED BY <2>1, <2>2, SamePids
<1>2. CASE SupRestarts
    <2>1. /\ sup' \in Supervisors /\ NextPid \in Pids
          /\ agent' = New(NextPid, TRUE, agent[Exit.pid].origin) /\ agent[Exit.pid].origin \in Pids \union {0}
          /\ UNCHANGED <<inbox, waits, ref, replies, top, known, starts, ops, sent, final>>
        BY <1>2, RestartFacts
    <2>2. /\ agent' \in [Pids -> Processes] /\ Contiguous'
          /\ \A p \in Pids : Made(p)' <=> Made(p) \/ p = NextPid
        BY <2>1, NewFacts
    <2>3. ProcessTypes' /\ ClientTypes'
        BY <1>0, <2>1, <2>2 DEF ProcessTypes, ClientTypes
    <2>4. TypeOK'
        BY <2>3, TypeParts
    <2>5. KnownIsMade'
        BY <1>0, <2>1, <2>2 DEF TypeInv, KnownIsMade, ClientTypes
    <2> QED BY <2>2, <2>4, <2>5 DEF TypeInv
<1>3. ASSUME NEW p \in Pids, SupShutsDown(p) PROVE TypeInv'
    <2>1. /\ sup' \in Supervisors /\ agent' \in [Pids -> Processes] /\ inbox' \in [Pids -> Seq(Messages)]
          /\ \A q \in Pids : Made(q)' <=> Made(q)
          /\ UNCHANGED <<waits, ref, replies, top, known, starts, ops, sent, final>>
        BY <1>3, ShutdownFacts
    <2>2. ProcessTypes' /\ ClientTypes'
        BY <1>0, <2>1 DEF ProcessTypes, ClientTypes
    <2> QED BY <2>1, <2>2, SamePids
<1>4. CASE SupEnds \/ TopStep
    <2>1. /\ sup' \in Supervisors /\ top' \in [status : {"up", "down"}, restarts : 0..TopIntensity]
          /\ UNCHANGED <<agent, inbox, waits, ref, replies, known, starts, ops, sent, final>>
        BY <1>4, TopFacts DEF TopStep
    <2>2. ProcessTypes' /\ ClientTypes' /\ \A q \in Pids : Made(q)' <=> Made(q)
        BY <1>0, <2>1 DEF ProcessTypes, ClientTypes, Made
    <2> QED BY <2>1, <2>2, SamePids
<1> QED BY <1>1, <1>2, <1>3, <1>4 DEF SupStep

LEMMA AgentsStepTypes == TypeInv /\ [AgentsNext]_vars => TypeInv'
<1> SUFFICES ASSUME TypeInv, [AgentsNext]_vars PROVE TypeInv'
    OBVIOUS
<1>1. ASSUME NEW c \in Clients, ClientStep(c) PROVE TypeInv'
    BY <1>1, StartKeepsTypes, OperationKeepsTypes, ReturnKeepsTypes DEF ClientStep
<1>2. ASSUME NEW p \in Pids, AgentStep(p) PROVE TypeInv'
    BY <1>2, HandleKeepsTypes, EndKeepsTypes DEF AgentStep
<1>3. CASE UNCHANGED vars
    <2>1. TypeOK'
        BY <1>3 DEF vars, TypeInv, TypeOK
    <2>2. Contiguous' /\ KnownIsMade'
        BY <1>3 DEF vars, TypeInv, Contiguous, KnownIsMade, Made
    <2> QED BY <2>1, <2>2 DEF TypeInv
<1> QED BY <1>1, <1>2, <1>3, SupKeepsTypes DEF AgentsNext

LEMMA AgentsInitTypes == AgentsInit => TypeInv
<1> SUFFICES ASSUME AgentsInit PROVE TypeInv
    OBVIOUS
<1>1. agent \in [Pids -> Processes] /\ \A p \in Pids : ~Made(p)
    BY DEF AgentsInit, Processes, NoAgent, Made
<1>2. sup \in Supervisors /\ top \in [status : {"up", "down"}, restarts : 0..TopIntensity]
    BY AgentsAssumption DEF AgentsInit, Supervisors
<1>3. ProcessTypes
    BY <1>1, <1>2 DEF AgentsInit, ProcessTypes
<1>4. ClientTypes
    BY AgentsAssumption DEF AgentsInit, ClientTypes
<1>5. Contiguous
    <2>1. 0 \in 0..(2 * MaxStarts) /\ \A p \in Pids : ~(p <= 0)
        BY AgentsAssumption DEF Pids
    <2> QED BY <1>1, <2>1 DEF Contiguous
<1>6. KnownIsMade
    BY DEF AgentsInit, KnownIsMade
<1> QED BY <1>3, <1>4, <1>5, <1>6, TypeParts DEF TypeInv

LEMMA AgentsAlwaysTyped == AgentsSpec => []TypeInv
BY AgentsInitTypes, AgentsStepTypes, PTL DEF AgentsSpec

\* Type correctness: mailboxes hold the protocol's messages, no pid is used up
\* beyond the bound, and no supervisor counts more restarts than it tolerates.
THEOREM AgentsTypeCorrect == AgentsSpec => []TypeOK
BY AgentsAlwaysTyped, PTL DEF TypeInv

-----------------------------------------------------------------------------
(***************************************************************************)
(* Supervision.  Of the processes made for one start all but the latest    *)
(* have crashed; only the latest can have an exit signal on the way, one.  *)
(***************************************************************************)
Origins == \A p \in Pids : Made(p) => agent[p].origin \in Pids /\ agent[p].origin <= p

Unmade == \A p \in Pids : ~Made(p) => agent[p].origin = 0 /\ p \notin sup.children

EarlierCrashed ==
    \A p, q \in Pids : Made(p) /\ Made(q) /\ agent[p].origin = agent[q].origin /\ p < q =>
        agent[p].status = "crashed"

ExitOf(i) ==
    LET e == sup.exits[i] IN
    /\ agent[e.pid].status = IF e.why = "normal" THEN "stopped" ELSE "crashed"
    /\ \A q \in Pids : agent[q].origin = agent[e.pid].origin => q <= e.pid

ExitsOnce == \A i, j \in DOMAIN sup.exits : sup.exits[i].pid = sup.exits[j].pid => i = j

Linked == \A p \in sup.children : agent[p].link

DownIsEmpty == sup.status = "down" => sup.children = {}

SupervisionInv ==
    /\ Origins /\ Unmade /\ EarlierCrashed /\ ExitsOnce /\ Linked /\ DownIsEmpty
    /\ TableIsCurrent
    /\ \A i \in DOMAIN sup.exits : ExitOf(i)

LEMMA SupervisionImplies == TypeInv /\ SupervisionInv => SupervisionSound
<1> SUFFICES ASSUME TypeInv, SupervisionInv PROVE SupervisionSound
    OBVIOUS
<1>0. \A p, q \in Pids : p < q \/ q <= p
    BY AgentsAssumption DEF Pids
<1>1. OneIncarnation
    <2>1. \A p, q \in Pids : p < q \/ q < p \/ p = q
        BY AgentsAssumption DEF Pids
    <2>2. \A p, q \in Pids : Live(p) /\ Live(q) /\ agent[p].origin = agent[q].origin => ~(p < q)
        BY DEF SupervisionInv, EarlierCrashed, Live, Made
    <2> QED BY <2>1, <2>2 DEF OneIncarnation
<1>2. StoppedForGood
    <2> SUFFICES ASSUME NEW p \in Pids, NEW q \in Pids, agent[p].status = "stopped",
                        agent[q].origin = agent[p].origin, p < q
                 PROVE  FALSE
        BY <1>0 DEF StoppedForGood
    <2>1. Made(p) /\ agent[p].origin \in Pids
        BY DEF SupervisionInv, Origins, Made
    <2>2. Made(q)
        BY <2>1, AgentsAssumption DEF SupervisionInv, Unmade, Pids
    <2> QED BY <2>1, <2>2 DEF SupervisionInv, EarlierCrashed
<1> QED BY <1>1, <1>2 DEF SupervisionSound, SupervisionInv

LEMMA SupTyped ==
    ASSUME TypeInv
    PROVE  /\ sup.children \subseteq Pids /\ sup.exits \in Seq(Signals) /\ DOMAIN sup.exits = 1..Len(sup.exits)
           /\ Len(sup.exits) \in Nat
           /\ \A i \in DOMAIN sup.exits : sup.exits[i].pid \in Pids /\ sup.exits[i].why \in {"normal", "error"}
<1>1. sup \in Supervisors
    BY TypeParts DEF TypeInv, ProcessTypes
<1>2. sup.children \subseteq Pids /\ sup.exits \in Seq(Signals)
    BY <1>1 DEF Supervisors
<1>3. DOMAIN sup.exits = 1..Len(sup.exits) /\ Len(sup.exits) \in Nat
    BY <1>2
<1>4. \A i \in DOMAIN sup.exits : sup.exits[i] \in Signals
    BY <1>2, ElementType
<1> QED BY <1>2, <1>3, <1>4 DEF Signals

\* Only the status, link and origin of processes, and mochi_agent_sup, matter.
LEMMA SameSupervision ==
    ASSUME TypeInv, SupervisionInv, sup' = sup,
           \A p \in Pids : /\ agent'[p].status = agent[p].status /\ agent'[p].link = agent[p].link
                           /\ agent'[p].origin = agent[p].origin
    PROVE  SupervisionInv'
<1>0. sup.children \subseteq Pids /\ \A i \in DOMAIN sup.exits : sup.exits[i].pid \in Pids
    BY SupTyped
<1>1. \A p \in Pids : (Made(p)' <=> Made(p)) /\ (Live(p)' <=> Live(p))
    BY DEF Made, Live
<1>2. Origins' /\ Unmade' /\ EarlierCrashed'
    BY <1>1 DEF SupervisionInv, Origins, Unmade, EarlierCrashed
<1>3. ExitsOnce' /\ Linked' /\ DownIsEmpty' /\ TableIsCurrent'
    BY <1>0, <1>1 DEF SupervisionInv, ExitsOnce, Linked, DownIsEmpty, TableIsCurrent
<1>4. \A i \in DOMAIN sup.exits : ExitOf(i)'
    BY <1>0 DEF SupervisionInv, ExitOf
<1> QED BY <1>2, <1>3, <1>4 DEF SupervisionInv

\* A process n is made, under an origin whose processes have all crashed and
\* have no exit signal left; a linked one is entered into the table.
LEMMA MadeKeepsSupervision ==
    ASSUME TypeInv, SupervisionInv, NEW n \in Pids, n = NextPid, NEW l \in BOOLEAN, NEW o \in Pids,
           agent' = New(n, l, o), o <= n,
           \A p \in Pids : Made(p) /\ agent[p].origin = o => agent[p].status = "crashed",
           sup'.children \subseteq Pids, sup'.exits \in Seq(Signals),
           \A i \in DOMAIN sup'.exits :
              \E k \in DOMAIN sup.exits : sup'.exits[i] = sup.exits[k] /\ agent[sup.exits[k].pid].origin # o,
           ExitsOnce', DownIsEmpty',
           sup'.children \subseteq sup.children \union {n}, n \in sup'.children <=> l,
           \A p \in sup.children : p \in sup'.children \/ ~Live(p),
           \A p \in sup'.children : p = n \/ Live(p) \/ \E i \in DOMAIN sup'.exits : sup'.exits[i].pid = p
    PROVE  SupervisionInv'
<1>1. /\ agent'[n] = [status |-> "live", state |-> <<>>, link |-> l, origin |-> o]
      /\ \A p \in Pids : p # n => agent'[p] = agent[p]
      /\ \A p \in Pids : Made(p)' <=> Made(p) \/ p = n
      /\ ~Made(n) /\ \A p \in Pids : Made(p) => p < n
    BY NewFacts
<1>2. agent'[n].status = "live" /\ agent'[n].link = l /\ agent'[n].origin = o
    BY <1>1
<1>3. Origins'
    BY <1>1, <1>2 DEF SupervisionInv, Origins
<1>4. Unmade'
    BY <1>1, <1>2 DEF SupervisionInv, Unmade
<1>5. EarlierCrashed'
    <2> SUFFICES ASSUME NEW p \in Pids, NEW q \in Pids, Made(p)', Made(q)', agent'[p].origin = agent'[q].origin,
                        p < q
                 PROVE  agent'[p].status = "crashed"
        BY DEF EarlierCrashed
    <2>1. p # n
        <3>1. \A r \in Pids : r < n \/ r = n => ~(n < r)
            BY AgentsAssumption DEF Pids
        <3> QED BY <1>1, <3>1
    <2>2. Made(p) /\ agent'[p] = agent[p]
        BY <1>1, <2>1
    <2>3. CASE q = n
        BY <1>2, <2>2, <2>3
    <2>4. CASE q # n
        BY <1>1, <2>2, <2>4 DEF SupervisionInv, EarlierCrashed
    <2> QED BY <2>3, <2>4
<1>6. Linked'
    BY <1>1, <1>2, SupTyped DEF SupervisionInv, Linked
<1>7. TableIsCurrent'
    <2>1. \A p \in Pids : Live(p)' <=> Live(p) \/ p = n
        BY <1>1, <1>2 DEF Live, Made
    <2>2. \A p \in Pids : Live(p)' /\ agent'[p].link => p \in sup'.children
        BY <1>1, <1>2, <2>1 DEF SupervisionInv, TableIsCurrent
    <2>3. \A p \in sup'.children : Live(p)' \/ \E i \in DOMAIN sup'.exits : sup'.exits[i].pid = p
        BY <2>1
    <2> QED BY <2>2, <2>3 DEF TableIsCurrent
<1>8. ASSUME NEW i \in DOMAIN sup'.exits PROVE ExitOf(i)'
    <2>1. PICK k \in DOMAIN sup.exits : sup'.exits[i] = sup.exits[k] /\ agent[sup.exits[k].pid].origin # o
        OBVIOUS
    <2>2. PICK e : e = sup.exits[k]
        OBVIOUS
    <2>3. /\ agent[e.pid].status = IF e.why = "normal" THEN "stopped" ELSE "crashed"
          /\ \A q \in Pids : agent[q].origin = agent[e.pid].origin => q <= e.pid
          /\ e.pid \in Pids
        BY <2>1, <2>2, SupTyped DEF SupervisionInv, ExitOf
    <2>4. e.pid # n /\ agent'[e.pid] = agent[e.pid]
        BY <1>1, <2>3 DEF Made
    <2>5. \A q \in Pids : agent'[q].origin = agent'[e.pid].origin => q <= e.pid
        BY <1>1, <1>2, <2>1, <2>2, <2>3, <2>4
    <2> QED BY <2>1, <2>2, <2>3, <2>4, <2>5 DEF ExitOf
<1> QED BY <1>3, <1>4, <1>5, <1>6, <1>7, <1>8 DEF SupervisionInv

LEMMA StartKeepsSupervision ==
    ASSUME TypeInv, SupervisionInv, NEW c \in Clients, Start(c) \/ StartAgent(c)
    PROVE  SupervisionInv'
<1>0. sup \in Supervisors
    BY TypeParts DEF TypeInv, ProcessTypes
<1>1. PICK n \in Pids, l \in BOOLEAN :
          /\ n = NextPid /\ agent' = New(n, l, n)
          /\ \/ l = FALSE /\ sup' = sup
             \/ l = TRUE /\ sup.status = "up" /\ sup' = [sup EXCEPT !.children = sup.children \union {n}]
    BY DEF Start, StartAgent
<1>2. /\ sup'.status = sup.status /\ sup'.exits = sup.exits
      /\ sup'.children = IF l THEN sup.children \union {n} ELSE sup.children
    BY <1>0, <1>1 DEF Supervisors
<1>3. \A p \in Pids : (Made(p) <=> p < n) /\ (Made(p) => agent[p].origin < n)
    <2>1. \A p \in Pids : Made(p) <=> p < n
        BY <1>1, NextPidFacts
    <2> QED BY <2>1, AgentsAssumption DEF SupervisionInv, Origins, Pids
<1>4. ~Made(n) /\ n <= n /\ n \notin sup.children /\ \A p \in Pids : Made(p) => agent[p].origin # n
    BY <1>3, AgentsAssumption DEF Pids, SupervisionInv, Unmade
<1>5. ASSUME NEW i \in DOMAIN sup.exits PROVE agent[sup.exits[i].pid].origin # n
    <2>1. sup.exits[i].pid \in Pids /\ Made(sup.exits[i].pid)
        BY SupTyped DEF SupervisionInv, ExitOf, Made
    <2> QED BY <1>4, <2>1
<1>6. ExitsOnce' /\ DownIsEmpty'
    BY <1>1, <1>2 DEF SupervisionInv, ExitsOnce, DownIsEmpty
<1>7. /\ sup'.children \subseteq Pids /\ sup'.exits \in Seq(Signals)
      /\ \A i \in DOMAIN sup'.exits :
            \E k \in DOMAIN sup.exits : sup'.exits[i] = sup.exits[k] /\ agent[sup.exits[k].pid].origin # n
    BY <1>2, <1>5, SupTyped
<1>8. \A p \in sup'.children : p = n \/ Live(p) \/ \E i \in DOMAIN sup'.exits : sup'.exits[i].pid = p
    BY <1>2 DEF SupervisionInv, TableIsCurrent
<1>9. /\ sup'.children \subseteq sup.children \union {n} /\ (n \in sup'.children <=> l)
      /\ \A p \in sup.children : p \in sup'.children \/ ~Live(p)
    BY <1>2, <1>4
<1>10. \A p \in Pids : Made(p) /\ agent[p].origin = n => agent[p].status = "crashed"
    BY <1>4
<1> QED BY <1>1, <1>4, <1>6, <1>7, <1>8, <1>9, <1>10, MadeKeepsSupervision

\* An agent ends: it was the latest of its origin, and had sent no signal yet.
LEMMA ExitKeepsSupervision ==
    ASSUME TypeInv, SupervisionInv, NEW p \in Pids, NEW st \in {"stopped", "crashed"}, Live(p),
           NEW why, why = (IF st = "stopped" THEN "normal" ELSE "error"), Exits(p, st, why)
    PROVE  SupervisionInv'
<1>0. agent[p] \in Processes /\ why \in {"normal", "error"}
    BY TypeParts DEF TypeInv, ProcessTypes
<1>1. /\ \A q \in Pids : q # p => agent'[q] = agent[q]
      /\ agent'[p] = [agent[p] EXCEPT !.status = st, !.state = <<>>]
      /\ \A q \in Pids : Made(q)' <=> Made(q)
      /\ sup'.children = sup.children /\ sup'.status = sup.status
      /\ sup'.exits = IF agent[p].link THEN Append(sup.exits, [pid |-> p, why |-> why]) ELSE sup.exits
    BY <1>0, ExitFacts
<1>2. agent'[p].status = st /\ agent'[p].link = agent[p].link /\ agent'[p].origin = agent[p].origin
    BY <1>0, <1>1 DEF Processes
<1>3. \A q \in Pids : agent'[q].origin = agent[q].origin /\ agent'[q].link = agent[q].link
    BY <1>1, <1>2
<1>4. Origins' /\ Unmade' /\ Linked' /\ DownIsEmpty'
    BY <1>1, <1>3, SupTyped DEF SupervisionInv, Origins, Unmade, Linked, DownIsEmpty
<1>5. Made(p) /\ \A q \in Pids : agent[q].origin = agent[p].origin => q <= p
    <2> SUFFICES ASSUME NEW q \in Pids, agent[q].origin = agent[p].origin, p < q PROVE FALSE
        BY AgentsAssumption DEF Pids, Made, Live
    <2>1. Made(p) /\ agent[p].origin \in Pids
        BY DEF SupervisionInv, Origins, Made, Live
    <2>2. Made(q)
        BY <2>1, AgentsAssumption DEF SupervisionInv, Unmade, Pids
    <2> QED BY <2>1, <2>2 DEF SupervisionInv, EarlierCrashed, Live
<1>6. EarlierCrashed'
    <2> SUFFICES ASSUME NEW r \in Pids, NEW q \in Pids, Made(r), Made(q), agent[r].origin = agent[q].origin, r < q
                 PROVE  agent'[r].status = "crashed"
        BY <1>1, <1>3 DEF EarlierCrashed
    <2>1. agent[r].status = "crashed"
        BY DEF SupervisionInv, EarlierCrashed
    <2> QED BY <1>1, <2>1 DEF Live
<1>7. \A i \in DOMAIN sup.exits : sup.exits[i].pid # p /\ sup.exits[i].pid \in Pids
    BY SupTyped DEF SupervisionInv, ExitOf, Live
<1>8. ASSUME NEW e, e.pid \in Pids, e.pid # p,
             agent[e.pid].status = (IF e.why = "normal" THEN "stopped" ELSE "crashed"),
             \A q \in Pids : agent[q].origin = agent[e.pid].origin => q <= e.pid
      PROVE  /\ agent'[e.pid].status = IF e.why = "normal" THEN "stopped" ELSE "crashed"
             /\ \A q \in Pids : agent'[q].origin = agent'[e.pid].origin => q <= e.pid
    BY <1>1, <1>3, <1>8
<1>9. CASE ~agent[p].link
    <2>1. sup'.exits = sup.exits
        BY <1>1, <1>9
    <2>2. ExitsOnce' /\ \A i \in DOMAIN sup'.exits : ExitOf(i)'
        BY <1>7, <1>8, <2>1 DEF SupervisionInv, ExitsOnce, ExitOf
    <2>3. p \notin sup.children
        BY <1>9 DEF SupervisionInv, Linked
    <2>4. \A q \in Pids : q # p => (Live(q)' <=> Live(q))
        BY <1>1 DEF Live
    <2>5. TableIsCurrent'
        BY <1>1, <1>2, <1>3, <1>9, <2>1, <2>3, <2>4, SupTyped DEF SupervisionInv, TableIsCurrent, Live
    <2> QED BY <1>4, <1>6, <2>2, <2>5 DEF SupervisionInv
<1>10. CASE agent[p].link
    <2>1. PICK s : s = [pid |-> p, why |-> why]
        OBVIOUS
    <2>2. s \in Signals /\ s.pid = p /\ s.why = why
        BY <1>0, <2>1 DEF Signals
    <2>3. sup'.exits = Append(sup.exits, s)
        BY <1>1, <1>10, <2>1
    <2>4. PICK n : n = Len(sup.exits)
        OBVIOUS
    <2>5. /\ n \in Nat /\ DOMAIN sup.exits = 1..n /\ sup'.exits \in Seq(Signals) /\ Len(sup'.exits) = n + 1
          /\ \A i \in 1..n : sup'.exits[i] = sup.exits[i]
          /\ sup'.exits[n + 1] = s
        BY <2>2, <2>3, <2>4, SupTyped, AppendFacts
    <2>6. \A i : i \in DOMAIN sup'.exits <=> i \in DOMAIN sup.exits \/ i = n + 1
        BY <2>5
    <2>7. ExitsOnce'
        BY <1>7, <2>2, <2>5, <2>6 DEF SupervisionInv, ExitsOnce
    <2>8. ASSUME NEW i \in DOMAIN sup'.exits PROVE ExitOf(i)'
        <3>1. CASE i \in DOMAIN sup.exits
            BY <1>7, <1>8, <2>5, <3>1 DEF SupervisionInv, ExitOf
        <3>2. CASE i = n + 1
            BY <1>2, <1>3, <1>5, <2>2, <2>5, <3>2 DEF ExitOf
        <3> QED BY <2>6, <3>1, <3>2
    <2>9. TableIsCurrent'
        <3>1. \A q \in Pids : Live(q)' => Live(q) /\ q # p
            BY <1>1, <1>2 DEF Live
        <3>2. \A q \in sup'.children : Live(q)' \/ \E i \in DOMAIN sup'.exits : sup'.exits[i].pid = q
            <4> TAKE q \in sup'.children
            <4>1. q \in sup.children /\ q \in Pids
                BY <1>1, SupTyped
            <4>2. CASE q = p
                BY <2>2, <2>5, <2>6, <4>2
            <4>3. CASE q # p /\ Live(q)
                BY <1>1, <4>1, <4>3 DEF Live
            <4>4. CASE \E i \in DOMAIN sup.exits : sup.exits[i].pid = q
                BY <2>5, <2>6, <4>4
            <4> QED BY <4>1, <4>2, <4>3, <4>4 DEF SupervisionInv, TableIsCurrent
        <3> QED BY <1>1, <1>3, <3>1, <3>2 DEF SupervisionInv, TableIsCurrent
    <2> QED BY <1>4, <1>6, <2>7, <2>8, <2>9 DEF SupervisionInv
<1> QED BY <1>9, <1>10

\* The signals left when the first has been handled.
LEMMA TailSignals ==
    ASSUME TypeInv, SupervisionInv, sup.exits # <<>>, sup'.exits = Tail(sup.exits)
    PROVE  /\ sup'.exits \in Seq(Signals) /\ ExitsOnce'
           /\ \A i \in DOMAIN sup'.exits :
                 \E k \in DOMAIN sup.exits : sup'.exits[i] = sup.exits[k] /\ sup.exits[k].pid # Exit.pid
           /\ \A k \in DOMAIN sup.exits :
                 sup.exits[k].pid # Exit.pid => \E i \in DOMAIN sup'.exits : sup'.exits[i] = sup.exits[k]
<1> DEFINE n == Len(sup.exits)
<1>1. /\ n \in Nat /\ n >= 1 /\ DOMAIN sup.exits = 1..n /\ DOMAIN sup'.exits = 1..(n - 1)
      /\ sup'.exits \in Seq(Signals) /\ Exit = sup.exits[1]
      /\ \A i \in 1..(n - 1) : sup'.exits[i] = sup.exits[i + 1]
    BY SignalFacts, SupTyped
<1> HIDE DEF n
<1>2. \A i \in 1..(n - 1) : i + 1 \in 1..n /\ i + 1 # 1
    BY <1>1
<1>3. \A i, j \in 1..n : sup.exits[i].pid = sup.exits[j].pid => i = j
    BY <1>1 DEF SupervisionInv, ExitsOnce
<1>4. ExitsOnce'
    <2>1. \A i, j \in 1..(n - 1) : i + 1 = j + 1 => i = j
        BY <1>1
    <2>2. \A i, j \in 1..(n - 1) : sup'.exits[i].pid = sup'.exits[j].pid => i + 1 = j + 1
        BY <1>1, <1>2, <1>3
    <2> QED BY <1>1, <2>1, <2>2 DEF ExitsOnce
<1>5. \A i \in DOMAIN sup'.exits :
         \E k \in DOMAIN sup.exits : sup'.exits[i] = sup.exits[k] /\ sup.exits[k].pid # Exit.pid
    <2> TAKE i \in DOMAIN sup'.exits
    <2>1. i + 1 \in 1..n /\ i + 1 # 1 /\ sup'.exits[i] = sup.exits[i + 1] /\ 1 \in 1..n
        BY <1>1, <1>2
    <2>2. sup.exits[i + 1].pid # Exit.pid
        BY <1>1, <1>3, <2>1
    <2> QED BY <1>1, <2>1, <2>2
<1>6. \A k \in DOMAIN sup.exits :
         sup.exits[k].pid # Exit.pid => \E i \in DOMAIN sup'.exits : sup'.exits[i] = sup.exits[k]
    <2> TAKE k \in DOMAIN sup.exits
    <2> HAVE sup.exits[k].pid # Exit.pid
    <2>1. k # 1
        BY <1>1
    <2>2. k - 1 \in 1..(n - 1) /\ (k - 1) + 1 = k
        BY <1>1, <2>1
    <2>3. sup'.exits[k - 1] = sup.exits[k]
        BY <1>1, <2>2
    <2> QED BY <1>1, <2>2, <2>3
<1> QED BY <1>1, <1>4, <1>5, <1>6

\* The process a signal is about: the latest of its origin, and not alive.
LEMMA ExitedFacts ==
    ASSUME TypeInv, SupervisionInv, sup.exits # <<>>
    PROVE  /\ Exit.pid \in Pids /\ Made(Exit.pid) /\ ~Live(Exit.pid)
           /\ Exit.why = "error" => agent[Exit.pid].status = "crashed"
           /\ \A q \in Pids : agent[q].origin = agent[Exit.pid].origin => q <= Exit.pid
<1>1. Exit.pid \in Pids /\ Exit = sup.exits[1] /\ 1 \in DOMAIN sup.exits
    BY SignalFacts, SupTyped
<1>2. ExitOf(1)
    BY <1>1 DEF SupervisionInv
<1> QED BY <1>1, <1>2 DEF ExitOf, Made, Live

LEMMA DropKeepsSupervision ==
    ASSUME TypeInv, SupervisionInv, SupForgets \/ SupGivesUp
    PROVE  SupervisionInv'
<1>1. /\ sup.exits # <<>> /\ sup'.status \in {"up", "stopping"} /\ agent' = agent
      /\ sup'.exits = Tail(sup.exits) /\ sup'.children = sup.children \ {Exit.pid}
    BY DropFacts
<1>2. /\ sup'.exits \in Seq(Signals) /\ ExitsOnce'
      /\ \A i \in DOMAIN sup'.exits :
            \E k \in DOMAIN sup.exits : sup'.exits[i] = sup.exits[k] /\ sup.exits[k].pid # Exit.pid
      /\ \A k \in DOMAIN sup.exits :
            sup.exits[k].pid # Exit.pid => \E i \in DOMAIN sup'.exits : sup'.exits[i] = sup.exits[k]
    BY <1>1, TailSignals
<1>3. ~Live(Exit.pid)
    BY <1>1, ExitedFacts
<1>4. Origins' /\ Unmade' /\ EarlierCrashed' /\ Linked' /\ DownIsEmpty'
    BY <1>1 DEF SupervisionInv, Origins, Unmade, EarlierCrashed, Linked, DownIsEmpty, Made
<1>5. TableIsCurrent'
    BY <1>1, <1>2, <1>3 DEF SupervisionInv, TableIsCurrent, Live
<1>6. ASSUME NEW i \in DOMAIN sup'.exits PROVE ExitOf(i)'
    <2>1. PICK k \in DOMAIN sup.exits : sup'.exits[i] = sup.exits[k]
        BY <1>2
    <2>2. PICK e : e = sup.exits[k]
        OBVIOUS
    <2>3. /\ e.pid \in Pids /\ agent[e.pid].status = IF e.why = "normal" THEN "stopped" ELSE "crashed"
          /\ \A q \in Pids : agent[q].origin = agent[e.pid].origin => q <= e.pid
        BY <2>2, SupTyped DEF SupervisionInv, ExitOf
    <2>4. sup'.exits[i] = e
        BY <2>1, <2>2
    <2> QED BY <1>1, <2>3, <2>4 DEF ExitOf
<1> QED BY <1>2, <1>4, <1>5, <1>6 DEF SupervisionInv

LEMMA RestartKeepsSupervision ==
    ASSUME TypeInv, SupervisionInv, SupRestarts
    PROVE  SupervisionInv'
<1>1. PICK n, x, o : n = NextPid /\ x = Exit.pid /\ o = agent[x].origin
    OBVIOUS
<1>2. /\ sup.exits # <<>> /\ Exit.why = "error" /\ n \in Pids /\ sup'.status = "up"
      /\ sup'.exits = Tail(sup.exits) /\ sup'.children = (sup.children \ {x}) \union {n}
      /\ agent' = New(n, TRUE, o)
    BY <1>1, RestartFacts
<1>3. /\ x \in Pids /\ Made(x) /\ ~Live(x) /\ agent[x].status = "crashed"
      /\ \A q \in Pids : agent[q].origin = o => q <= x
    BY <1>1, <1>2, ExitedFacts
<1>4. \A p \in Pids : Made(p) <=> p < n
    BY <1>1, NextPidFacts
<1>5. o \in Pids /\ o <= n
    BY <1>1, <1>2, <1>3, <1>4, AgentsAssumption DEF SupervisionInv, Origins, Pids
<1>6. \A p \in Pids : Made(p) /\ agent[p].origin = o => agent[p].status = "crashed"
    <2> TAKE p \in Pids
    <2>1. agent[p].origin = o => p = x \/ p < x
        BY <1>3, AgentsAssumption DEF Pids
    <2> QED BY <1>1, <1>3, <2>1 DEF SupervisionInv, EarlierCrashed
<1>7. /\ sup'.exits \in Seq(Signals) /\ ExitsOnce'
      /\ \A i \in DOMAIN sup'.exits :
            \E k \in DOMAIN sup.exits : sup'.exits[i] = sup.exits[k] /\ sup.exits[k].pid # x
      /\ \A k \in DOMAIN sup.exits :
            sup.exits[k].pid # x => \E i \in DOMAIN sup'.exits : sup'.exits[i] = sup.exits[k]
    BY <1>1, <1>2, TailSignals
<1>8. ASSUME NEW k \in DOMAIN sup.exits, sup.exits[k].pid # x PROVE agent[sup.exits[k].pid].origin # o
    <2>1. PICK y : y = sup.exits[k].pid
        OBVIOUS
    <2>2. y \in Pids /\ \A q \in Pids : agent[q].origin = agent[y].origin => q <= y
        BY <2>1, SupTyped DEF SupervisionInv, ExitOf
    <2>3. agent[y].origin = o => y <= x /\ x <= y
        <3>1. agent[y].origin = o => agent[x].origin = agent[y].origin
            BY <1>1
        <3> QED BY <1>3, <2>2, <3>1
    <2>4. y # x /\ (y <= x /\ x <= y => y = x)
        BY <1>3, <1>8, <2>1, <2>2, AgentsAssumption DEF Pids
    <2> QED BY <2>1, <2>3, <2>4
<1>9. \A i \in DOMAIN sup'.exits :
         \E k \in DOMAIN sup.exits : sup'.exits[i] = sup.exits[k] /\ agent[sup.exits[k].pid].origin # o
    BY <1>7, <1>8
<1>10. /\ sup'.children \subseteq Pids /\ sup'.children \subseteq sup.children \union {n}
       /\ n \in sup'.children /\ DownIsEmpty'
       /\ \A p \in sup.children : p \in sup'.children \/ ~Live(p)
    BY <1>2, <1>3, SupTyped DEF DownIsEmpty
<1>11. \A p \in sup'.children : p = n \/ Live(p) \/ \E i \in DOMAIN sup'.exits : sup'.exits[i].pid = p
    <2> SUFFICES ASSUME NEW p \in sup'.children, p # n, ~Live(p)
                 PROVE  \E i \in DOMAIN sup'.exits : sup'.exits[i].pid = p
        OBVIOUS
    <2>1. p \in sup.children /\ p # x
        BY <1>2
    <2>2. PICK k \in DOMAIN sup.exits : sup.exits[k].pid = p
        BY <2>1 DEF SupervisionInv, TableIsCurrent
    <2> QED BY <1>7, <2>1, <2>2
<1>12. PICK l \in BOOLEAN : agent' = New(n, l, o) /\ (n \in sup'.children <=> l)
    BY <1>2, <1>10
<1>13. n \in Pids /\ n = NextPid /\ sup'.exits \in Seq(Signals) /\ ExitsOnce'
    BY <1>1, <1>2, <1>7
<1> QED BY <1>5, <1>6, <1>9, <1>10, <1>11, <1>12, <1>13, MadeKeepsSupervision, ZenonT(60)

LEMMA ShutdownKeepsSupervision ==
    ASSUME TypeInv, SupervisionInv, NEW p \in Pids, SupShutsDown(p)
    PROVE  SupervisionInv'
<1>1. /\ sup'.status = "stopping" /\ sup'.exits = sup.exits /\ sup'.children = sup.children \ {p}
      /\ \A q \in Pids : q # p => agent'[q] = agent[q]
      /\ agent'[p].status = IF Live(p) THEN "killed" ELSE agent[p].status
      /\ agent'[p].origin = agent[p].origin
      /\ \A q \in Pids : Made(q)' <=> Made(q)
    BY ShutdownFacts
<1>2. Origins' /\ Unmade' /\ DownIsEmpty' /\ ExitsOnce'
    BY <1>1 DEF SupervisionInv, Origins, Unmade, DownIsEmpty, ExitsOnce
<1>3. Linked'
    BY <1>1, SupTyped DEF SupervisionInv, Linked
<1>4. EarlierCrashed'
    BY <1>1 DEF SupervisionInv, EarlierCrashed, Live
<1>5. TableIsCurrent'
    <2>1. \A q \in Pids : Live(q)' <=> Live(q) /\ q # p
        BY <1>1 DEF Live
    <2> QED BY <1>1, <2>1, SupTyped DEF SupervisionInv, TableIsCurrent
<1>6. ASSUME NEW i \in DOMAIN sup'.exits PROVE ExitOf(i)'
    <2>1. PICK e : e = sup.exits[i]
        OBVIOUS
    <2>2. /\ e.pid \in Pids /\ agent[e.pid].status = IF e.why = "normal" THEN "stopped" ELSE "crashed"
          /\ \A q \in Pids : agent[q].origin = agent[e.pid].origin => q <= e.pid
        BY <1>1, <2>1, SupTyped DEF SupervisionInv, ExitOf
    <2>3. agent'[e.pid].status = agent[e.pid].status
        BY <1>1, <2>2 DEF Live
    <2>4. \A q \in Pids : agent'[q].origin = agent[q].origin
        BY <1>1
    <2> QED BY <1>1, <2>1, <2>2, <2>3, <2>4 DEF ExitOf
<1> QED BY <1>2, <1>3, <1>4, <1>5, <1>6 DEF SupervisionInv

LEMMA TopKeepsSupervision ==
    ASSUME TypeInv, SupervisionInv, SupEnds \/ TopRestarts \/ TopGivesUp
    PROVE  SupervisionInv'
<1>1. agent' = agent /\ ((sup.children = {} /\ sup'.children = {} /\ sup'.exits = <<>>) \/ sup' = sup)
    BY TopFacts DEF SupervisionInv, DownIsEmpty
<1>2. CASE sup' = sup
    BY <1>1, <1>2, SameSupervision
<1>3. CASE sup.children = {} /\ sup'.children = {} /\ sup'.exits = <<>>
    <2>1. Origins' /\ Unmade' /\ EarlierCrashed' /\ Linked' /\ DownIsEmpty'
        BY <1>1, <1>3 DEF SupervisionInv, Origins, Unmade, EarlierCrashed, Linked, DownIsEmpty, Made
    <2>2. ExitsOnce' /\ \A i \in DOMAIN sup'.exits : ExitOf(i)'
        <3>1. \A i \in DOMAIN sup'.exits : FALSE
            BY <1>3
        <3> QED BY <3>1 DEF ExitsOnce
    <2>3. TableIsCurrent'
        BY <1>1, <1>3 DEF SupervisionInv, TableIsCurrent, Live
    <2> QED BY <2>1, <2>2, <2>3 DEF SupervisionInv
<1> QED BY <1>1, <1>2, <1>3

LEMMA AgentsStepSupervision == TypeInv /\ SupervisionInv /\ [AgentsNext]_vars => SupervisionInv'
<1> SUFFICES ASSUME TypeInv, SupervisionInv, [AgentsNext]_vars PROVE SupervisionInv'
    OBVIOUS
<1>1. ASSUME agent' = agent, sup' = sup PROVE SupervisionInv'
    BY <1>1, SameSupervision
<1>2. ASSUME NEW c \in Clients, ClientStep(c) PROVE SupervisionInv'
    <2>1. CASE Start(c) \/ StartAgent(c)
        BY <2>1, StartKeepsSupervision
    <2>2. CASE ~(Start(c) \/ StartAgent(c))
        <3>1. agent' = agent /\ sup' = sup
            BY <1>2, <2>2 DEF ClientStep, Call, Cast, Stop, CallReturns
        <3> QED BY <1>1, <3>1
    <2> QED BY <2>1, <2>2
<1>3. ASSUME NEW p \in Pids, AgentStep(p) PROVE SupervisionInv'
    <2>1. CASE HandleCall(p)
        BY <1>1, <2>1 DEF HandleCall
    <2>2. CASE HandleCast(p)
        <3>1. PICK s : agent' = [agent EXCEPT ![p].state = s] /\ sup' = sup
            BY <2>2 DEF HandleCast
        <3>2. agent \in [Pids -> Processes]
            BY TypeParts DEF TypeInv, ProcessTypes
        <3>3. agent[p] \in Processes /\ agent' = [agent EXCEPT ![p] = [agent[p] EXCEPT !.state = s]]
            BY <3>1, <3>2
        <3>4. \A q \in Pids : /\ agent'[q].status = agent[q].status /\ agent'[q].link = agent[q].link
                              /\ agent'[q].origin = agent[q].origin
            BY <3>2, <3>3 DEF Processes
        <3> QED BY <3>1, <3>4, SameSupervision
    <2>3. CASE Crash(p) \/ HandleStop(p) \/ TerminateCrashes(p)
        <3>1. PICK st \in {"stopped", "crashed"} :
                  Live(p) /\ Exits(p, st, IF st = "stopped" THEN "normal" ELSE "error")
            BY <2>3 DEF Crash, HandleStop, TerminateCrashes
        <3> QED BY <3>1, ExitKeepsSupervision
    <2> QED BY <1>3, <2>1, <2>2, <2>3 DEF AgentStep
<1>4. CASE SupStep \/ TopStep
    BY <1>4, DropKeepsSupervision, RestartKeepsSupervision, ShutdownKeepsSupervision, TopKeepsSupervision
       DEF SupStep, TopStep
<1>5. CASE UNCHANGED vars
    BY <1>1, <1>5 DEF vars
<1> QED BY <1>2, <1>3, <1>4, <1>5 DEF AgentsNext

LEMMA AgentsAlwaysSupervised == AgentsSpec => []SupervisionInv
<1>1. AgentsInit => SupervisionInv
    <2> SUFFICES ASSUME AgentsInit PROVE SupervisionInv
        OBVIOUS
    <2>1. \A p \in Pids : agent[p] = NoAgent
        BY DEF AgentsInit
    <2>2. sup.children = {} /\ sup.exits = <<>>
        BY DEF AgentsInit
    <2>3. \A i \in DOMAIN sup.exits : FALSE
        BY <2>2
    <2>4. \A p \in Pids : ~Made(p) /\ ~Live(p) /\ agent[p].origin = 0
        BY <2>1 DEF NoAgent, Made, Live
    <2> QED BY <2>2, <2>3, <2>4
            DEF SupervisionInv, Origins, Unmade, EarlierCrashed, ExitsOnce, Linked, DownIsEmpty, TableIsCurrent
<1> QED BY <1>1, AgentsAlwaysTyped, AgentsStepSupervision, PTL DEF AgentsSpec

\* Whatever agents crash, stop or are shut down, and while a supervisor gives up
\* and is started again: no agent runs twice, none runs again after a normal
\* end, and no live supervised agent is missing in the table of its supervisor.
THEOREM AgentsSupervisionSound == AgentsSpec => []SupervisionSound
BY AgentsAlwaysTyped, AgentsAlwaysSupervised, SupervisionImplies, PTL

-----------------------------------------------------------------------------
(***************************************************************************)
(* Messages: what a state s shows, and what a mailbox q still holds.       *)
(***************************************************************************)
\* The intents of c that mailbox q holds.
Waiting(c, q) ==
    {[from |-> c, id |-> q[i].id] : i \in {j \in DOMAIN q : q[j].kind = "cast" /\ q[j].from = c}}

\* An agent handles its messages in the order they were sent.
Threaded(s, q) ==
    /\ InOrder(s) /\ InOrder(q)
    /\ \A i \in DOMAIN s, j \in DOMAIN q : s[i].id < q[j].id

LEMMA Shown ==
    /\ \A c, s, e : e \in From(c, s) <=> \E i \in DOMAIN s : s[i].from = c /\ e = s[i]
    /\ \A c, q, e : e \in Waiting(c, q) <=>
           \E j \in DOMAIN q : q[j].kind = "cast" /\ q[j].from = c /\ e = [from |-> c, id |-> q[j].id]
BY DEF From, Waiting

LEMMA NothingShown ==
    /\ \A c : From(c, <<>>) = {} /\ Waiting(c, <<>>) = {}
    /\ InOrder(<<>>) /\ Threaded(<<>>, <<>>)
<1>1. \A i \in DOMAIN <<>> : FALSE
    OBVIOUS
<1>2. \A c : From(c, <<>>) = {}
    BY <1>1 DEF From
<1>3. \A c : Waiting(c, <<>>) = {}
    BY <1>1 DEF Waiting
<1> QED BY <1>1, <1>2, <1>3 DEF InOrder, Threaded

\* The fields of a message and of a cast.
LEMMA MessageFields ==
    ASSUME NEW s \in Seq(Casts), NEW q \in Seq(Messages)
    PROVE  /\ \A i \in DOMAIN s : s[i] \in Casts /\ s[i].from \in Clients /\ s[i].id \in Int
                                  /\ s[i] = [from |-> s[i].from, id |-> s[i].id]
           /\ \A i \in DOMAIN q : q[i].from \in Clients /\ q[i].id \in Int
           /\ Len(s) \in Nat /\ DOMAIN s = 1..Len(s) /\ Len(q) \in Nat /\ DOMAIN q = 1..Len(q)
<1>1. \A i \in DOMAIN s : s[i] \in Casts
    BY ElementType
<1>2. \A i \in DOMAIN q : q[i] \in Messages
    BY ElementType
<1> QED BY <1>1, <1>2, AgentsAssumption DEF Casts, Messages

\* The rest of a mailbox after its first message.
LEMMA RestOfInbox ==
    ASSUME NEW s \in Seq(Casts), NEW q \in Seq(Messages), q # <<>>, Threaded(s, q)
    PROVE  /\ 1 \in DOMAIN q /\ Head(q) = q[1] /\ Threaded(s, Tail(q))
           /\ \A j \in DOMAIN Tail(q) : /\ j + 1 \in DOMAIN q /\ j + 1 # 1 /\ Tail(q)[j] = q[j + 1]
                                        /\ q[1].id < Tail(q)[j].id
           /\ \A j \in DOMAIN q : j = 1 \/ (j - 1 \in DOMAIN Tail(q) /\ Tail(q)[j - 1] = q[j])
<1>1. PICK t : t = Tail(q)
    OBVIOUS
<1>2. /\ t \in Seq(Messages) /\ Len(t) = Len(q) - 1 /\ Len(q) \in Nat /\ Len(q) > 0
      /\ \A j \in 1..Len(t) : t[j] = q[j + 1] /\ j + 1 \in 1..Len(q)
      /\ DOMAIN q = 1..Len(q) /\ DOMAIN t = 1..Len(t)
    BY <1>1, TailType
<1>3. 1 \in DOMAIN q /\ Head(q) = q[1]
    BY <1>2
<1>4. \A j \in DOMAIN t : j + 1 \in DOMAIN q /\ 1 < j + 1 /\ j + 1 # 1 /\ t[j] = q[j + 1]
    BY <1>2
<1>5. \A j \in DOMAIN t : q[1].id < t[j].id
    BY <1>3, <1>4 DEF Threaded, InOrder
<1>6. \A j \in DOMAIN q : j = 1 \/ (j - 1 \in DOMAIN t /\ t[j - 1] = q[j])
    <2> TAKE j \in DOMAIN q
    <2>1. j = 1 \/ (j - 1 \in 1..Len(t) /\ (j - 1) + 1 = j)
        BY <1>2
    <2> QED BY <1>2, <2>1
<1>7. InOrder(t)
    <2>1. \A i, j \in DOMAIN t : i < j => i + 1 < j + 1
        BY <1>2
    <2> QED BY <1>4, <2>1 DEF Threaded, InOrder
<1>8. Threaded(s, t)
    BY <1>4, <1>7 DEF Threaded
<1> QED BY <1>1, <1>3, <1>4, <1>5, <1>6, <1>8

\* A message that is no intent is taken from the mailbox.
LEMMA TakeOther ==
    ASSUME NEW s \in Seq(Casts), NEW q \in Seq(Messages), q # <<>>, Threaded(s, q), Head(q).kind # "cast", NEW c
    PROVE  Waiting(c, Tail(q)) = Waiting(c, q)
<1>1. PICK t : t = Tail(q)
    OBVIOUS
<1>2. /\ Head(q) = q[1]
      /\ \A j \in DOMAIN t : j + 1 \in DOMAIN q /\ t[j] = q[j + 1]
      /\ \A j \in DOMAIN q : j = 1 \/ (j - 1 \in DOMAIN t /\ t[j - 1] = q[j])
    BY <1>1, RestOfInbox
<1>3. ASSUME NEW e PROVE e \in Waiting(c, t) <=> e \in Waiting(c, q)
    <2>1. ASSUME e \in Waiting(c, t) PROVE e \in Waiting(c, q)
        <3>1. PICK j \in DOMAIN t : t[j].kind = "cast" /\ t[j].from = c /\ e = [from |-> c, id |-> t[j].id]
            BY <2>1, Shown
        <3> QED BY <1>2, <3>1, Shown
    <2>2. ASSUME e \in Waiting(c, q) PROVE e \in Waiting(c, t)
        <3>1. PICK j \in DOMAIN q : q[j].kind = "cast" /\ q[j].from = c /\ e = [from |-> c, id |-> q[j].id]
            BY <2>2, Shown
        <3> QED BY <1>2, <3>1, Shown
    <2> QED BY <2>1, <2>2
<1> QED BY <1>1, <1>3

\* An intent goes from the mailbox into the state.
LEMMA TakeCast ==
    ASSUME NEW s \in Seq(Casts), NEW q \in Seq(Messages), q # <<>>, Threaded(s, q), Head(q).kind = "cast",
           NEW e \in Casts, e = [from |-> Head(q).from, id |-> Head(q).id]
    PROVE  /\ Threaded(Append(s, e), Tail(q))
           /\ \A c : From(c, Append(s, e)) \union Waiting(c, Tail(q)) = From(c, s) \union Waiting(c, q)
<1>1. PICK t, u : t = Tail(q) /\ u = Append(s, e)
    OBVIOUS
<1>2. /\ Head(q) = q[1] /\ 1 \in DOMAIN q /\ Threaded(s, t)
      /\ \A j \in DOMAIN t : j + 1 \in DOMAIN q /\ t[j] = q[j + 1] /\ q[1].id < t[j].id
      /\ \A j \in DOMAIN q : j = 1 \/ (j - 1 \in DOMAIN t /\ t[j - 1] = q[j])
    BY <1>1, RestOfInbox
<1>3. PICK n \in Nat : n = Len(s) /\ DOMAIN s = 1..n
    BY MessageFields
<1>4. /\ u \in Seq(Casts) /\ DOMAIN u = 1..(n + 1) /\ u[n + 1] = e
      /\ \A i \in 1..n : u[i] = s[i]
    BY <1>1, <1>3, AppendFacts
<1>5. e.from = q[1].from /\ e.id = q[1].id
    BY <1>2
<1>6. \A i \in DOMAIN u : i = n + 1 \/ i \in 1..n
    BY <1>4
<1>7. Threaded(u, t)
    <2>1. \A i \in 1..n : s[i].id < e.id
        BY <1>2, <1>3, <1>5 DEF Threaded
    <2>2. InOrder(u)
        <3>1. \A i, j \in 1..(n + 1) : i < j => i \in 1..n /\ (j = n + 1 \/ j \in 1..n)
            OBVIOUS
        <3>2. \A i, j \in 1..n : i < j => s[i].id < s[j].id
            BY <1>3 DEF Threaded, InOrder
        <3> QED BY <1>4, <2>1, <3>1, <3>2 DEF InOrder
    <2>3. \A i \in DOMAIN u, j \in DOMAIN t : u[i].id < t[j].id
        BY <1>2, <1>3, <1>4, <1>5, <1>6 DEF Threaded
    <2> QED BY <1>2, <2>2, <2>3 DEF Threaded
<1>8. ASSUME NEW c, NEW x
      PROVE  x \in From(c, u) \/ x \in Waiting(c, t) <=> x \in From(c, s) \/ x \in Waiting(c, q)
    <2>1. x \in From(c, u) <=> x \in From(c, s) \/ (e.from = c /\ x = e)
        <3>1. x \in From(c, u) <=> \E i \in 1..(n + 1) : u[i].from = c /\ x = u[i]
            BY <1>4, Shown
        <3>2. x \in From(c, s) <=> \E i \in 1..n : s[i].from = c /\ x = s[i]
            BY <1>3, Shown
        <3>3. n + 1 \in 1..(n + 1) /\ 1..n \subseteq 1..(n + 1)
            OBVIOUS
        <3> QED BY <1>4, <1>6, <3>1, <3>2, <3>3
    <2>2. x \in Waiting(c, q) <=> x \in Waiting(c, t) \/ (e.from = c /\ x = e)
        <3>1. ASSUME x \in Waiting(c, q) PROVE x \in Waiting(c, t) \/ (e.from = c /\ x = e)
            <4>1. PICK j \in DOMAIN q : q[j].kind = "cast" /\ q[j].from = c /\ x = [from |-> c, id |-> q[j].id]
                BY <3>1, Shown
            <4>2. CASE j = 1
                BY <1>2, <4>1, <4>2
            <4>3. CASE j # 1
                BY <1>2, <4>1, <4>3, Shown
            <4> QED BY <4>2, <4>3
        <3>2. ASSUME x \in Waiting(c, t) PROVE x \in Waiting(c, q)
            <4>1. PICK j \in DOMAIN t : t[j].kind = "cast" /\ t[j].from = c /\ x = [from |-> c, id |-> t[j].id]
                BY <3>2, Shown
            <4> QED BY <1>2, <4>1, Shown
        <3>3. ASSUME e.from = c, x = e PROVE x \in Waiting(c, q)
            BY <1>2, <1>5, <3>3, Shown
        <3> QED BY <3>1, <3>2, <3>3
    <2> QED BY <2>1, <2>2
<1> QED BY <1>1, <1>7, <1>8

\* A message with a new number is put into the mailbox.
LEMMA PutMessage ==
    ASSUME NEW s \in Seq(Casts), NEW q \in Seq(Messages), Threaded(s, q), NEW m \in Messages,
           \A i \in DOMAIN s : s[i].id < m.id, \A j \in DOMAIN q : q[j].id < m.id
    PROVE  /\ Threaded(s, Append(q, m))
           /\ \A c : Waiting(c, Append(q, m)) =
                     Waiting(c, q) \union IF m.kind = "cast" /\ m.from = c THEN {[from |-> c, id |-> m.id]} ELSE {}
<1>1. PICK t : t = Append(q, m)
    OBVIOUS
<1>2. PICK n \in Nat : n = Len(q) /\ DOMAIN q = 1..n
    BY MessageFields
<1>3. /\ DOMAIN t = 1..(n + 1) /\ t[n + 1] = m /\ \A i \in 1..n : t[i] = q[i]
    BY <1>1, <1>2, AppendFacts
<1>4. n + 1 \in 1..(n + 1) /\ 1..n \subseteq 1..(n + 1) /\ \A i \in 1..(n + 1) : i = n + 1 \/ i \in 1..n
    OBVIOUS
<1>5. InOrder(t)
    <2>1. \A i, j \in 1..(n + 1) : i < j => i \in 1..n /\ (j = n + 1 \/ j \in 1..n)
        OBVIOUS
    <2>2. \A i, j \in 1..n : i < j => q[i].id < q[j].id
        BY <1>2 DEF Threaded, InOrder
    <2> QED BY <1>2, <1>3, <2>1, <2>2 DEF InOrder
<1>6. Threaded(s, t)
    BY <1>2, <1>3, <1>4, <1>5 DEF Threaded
<1>7. ASSUME NEW c, NEW x
      PROVE  x \in Waiting(c, t) <=>
             x \in Waiting(c, q) \/ (m.kind = "cast" /\ m.from = c /\ x = [from |-> c, id |-> m.id])
    <2>1. x \in Waiting(c, t) <=>
              \E j \in 1..(n + 1) : t[j].kind = "cast" /\ t[j].from = c /\ x = [from |-> c, id |-> t[j].id]
        BY <1>3, Shown
    <2>2. x \in Waiting(c, q) <=>
              \E j \in 1..n : q[j].kind = "cast" /\ q[j].from = c /\ x = [from |-> c, id |-> q[j].id]
        BY <1>2, Shown
    <2> QED BY <1>3, <1>4, <2>1, <2>2
<1>8. ASSUME NEW c
      PROVE  Waiting(c, t) = Waiting(c, q) \union IF m.kind = "cast" /\ m.from = c THEN {[from |-> c, id |-> m.id]} ELSE {}
    BY <1>7
<1> QED BY <1>1, <1>6, <1>8

\* When the loop comes to a call or a stop, its state has all the intents that
\* the client sent before this message, and no other of this client.
LEMMA ReadAll ==
    ASSUME NEW s \in Seq(Casts), NEW q \in Seq(Messages), q # <<>>, Threaded(s, q), Head(q).kind # "cast", NEW c
    PROVE  From(c, s) = {e \in From(c, s) \union Waiting(c, q) : e.id < Head(q).id}
<1>1. PICK m : m = Head(q)
    OBVIOUS
<1>2. 1 \in DOMAIN q /\ m = q[1] /\ \A j \in DOMAIN q : j = 1 \/ m.id < q[j].id
    BY <1>1, RestOfInbox
<1>3. ASSUME NEW e \in From(c, s) PROVE e.id < m.id
    BY <1>2, Shown DEF Threaded
<1>4. ASSUME NEW e \in Waiting(c, q) PROVE ~(e.id < m.id)
    <2>1. PICK j \in DOMAIN q : q[j].kind = "cast" /\ e = [from |-> c, id |-> q[j].id]
        BY Shown
    <2>2. m.id < q[j].id /\ m.id \in Int /\ q[j].id \in Int
        BY <1>1, <1>2, <2>1, MessageFields
    <2> QED BY <2>1, <2>2
<1> QED BY <1>1, <1>3, <1>4

-----------------------------------------------------------------------------
(* The invariant of the messages.                                          *)

\* A live agent shows, or will show, all that was sent to it.
Handled(p) ==
    /\ Threaded(agent[p].state, inbox[p])
    /\ \A c \in Clients : From(c, agent[p].state) \union Waiting(c, inbox[p]) = sent[c][p]

Silent(p) == inbox[p] = <<>> /\ (~Made(p) => \A c \in Clients : sent[c][p] = {})

Mail(p) == IF Live(p) THEN Handled(p) ELSE Silent(p)

\* Operations are numbered one after the other.
Numbered ==
    /\ \A p \in Pids : \A i \in DOMAIN inbox[p] : inbox[p][i].id <= ops
    /\ \A c \in Clients, p \in Pids : \A e \in sent[c][p] : e.id <= ops
    /\ \A p \in Pids : \A i \in DOMAIN final[p] : final[p][i].stop.id <= ops

\* A call under way is the last thing its client has done.
Pending(p) ==
    \A i \in DOMAIN inbox[p] :
        inbox[p][i].kind = "call" =>
            /\ waits[inbox[p][i].from] = p /\ ref[inbox[p][i].from] = inbox[p][i].id
            /\ replies[inbox[p][i].from] = <<>>
            /\ \A e \in sent[inbox[p][i].from][p] : e.id < inbox[p][i].id

\* What ReadYourCasts says of one client, and GracefulStop of one agent.
Answered(c) ==
    /\ Len(replies[c]) <= 1
    /\ \A i \in DOMAIN replies[c] :
          /\ replies[c][i].ref = ref[c] /\ replies[c][i].pid = waits[c]
          /\ InOrder(replies[c][i].state) /\ From(c, replies[c][i].state) = sent[c][replies[c][i].pid]

Ended(p) ==
    /\ Len(final[p]) = IF agent[p].status = "stopped" /\ OnClose THEN 1
                       ELSE IF agent[p].status = "crashed" /\ final[p] # <<>> THEN 1
                       ELSE 0
    /\ \A i \in DOMAIN final[p] :
          /\ InOrder(final[p][i].state)
          /\ From(final[p][i].stop.from, final[p][i].state) =
                {e \in sent[final[p][i].stop.from][p] : e.id < final[p][i].stop.id}

MessageInv ==
    /\ Numbered
    /\ \A c \in Clients : Answered(c)
    /\ \A p \in Pids : Mail(p) /\ Pending(p) /\ Ended(p)

LEMMA MessageInvImplies == MessageInv => ReadYourCasts /\ GracefulStop
BY DEF MessageInv, Answered, Ended, ReadYourCasts, GracefulStop

\* The types of the parts, for the steps below.
LEMMA PartTypes ==
    ASSUME TypeInv
    PROVE  /\ \A p \in Pids : /\ agent[p] \in Processes /\ agent[p].state \in Seq(Casts)
                              /\ inbox[p] \in Seq(Messages) /\ final[p] \in Seq(Finals)
           /\ \A c \in Clients : replies[c] \in Seq(Replies)
           /\ inbox \in [Pids -> Seq(Messages)] /\ replies \in [Clients -> Seq(Replies)]
           /\ final \in [Pids -> Seq(Finals)] /\ agent \in [Pids -> Processes]
           /\ waits \in [Clients -> Pids \union {0}] /\ ref \in [Clients -> 0..MaxOps] /\ ops \in Int
           /\ sent \in [Clients -> [Pids -> SUBSET Casts]] /\ 0 \notin Pids
<1>1. ProcessTypes /\ ClientTypes
    BY TypeParts DEF TypeInv
<1>2. /\ inbox \in [Pids -> Seq(Messages)] /\ replies \in [Clients -> Seq(Replies)]
      /\ final \in [Pids -> Seq(Finals)] /\ agent \in [Pids -> Processes]
    BY <1>1 DEF ProcessTypes
<1>3. \A p \in Pids : agent[p].state \in Seq(Casts)
    BY <1>2 DEF Processes
<1>4. /\ waits \in [Clients -> Pids \union {0}] /\ ref \in [Clients -> 0..MaxOps] /\ ops \in Int
      /\ sent \in [Clients -> [Pids -> SUBSET Casts]] /\ 0 \notin Pids
    BY <1>1, AgentsAssumption DEF ClientTypes, Pids
<1> QED BY <1>2, <1>3, <1>4

\* A process that a step leaves alone.
LEMMA SameMail ==
    ASSUME MessageInv, NEW p \in Pids, agent'[p] = agent[p], inbox'[p] = inbox[p], sent' = sent
    PROVE  Mail(p)'
<1>1. Mail(p)
    BY DEF MessageInv
<1> QED BY <1>1 DEF Mail, Live, Handled, Silent, Made

LEMMA SameEnd ==
    ASSUME MessageInv, NEW p \in Pids, agent'[p] = agent[p], final'[p] = final[p], sent' = sent
    PROVE  Ended(p)'
<1>1. Ended(p)
    BY DEF MessageInv
<1> QED BY <1>1 DEF Ended

\* Mailboxes lose messages and get none.
LEMMA FewerPending ==
    ASSUME MessageInv, UNCHANGED <<waits, ref, replies, sent, ops>>, NEW p \in Pids,
           \A j \in DOMAIN inbox'[p] : \E i \in DOMAIN inbox[p] : inbox'[p][j] = inbox[p][i]
    PROVE  /\ Pending(p)'
           /\ \A j \in DOMAIN inbox'[p] : inbox'[p][j].id <= ops'
<1>1. Pending(p) /\ \A i \in DOMAIN inbox[p] : inbox[p][i].id <= ops
    BY DEF MessageInv, Numbered
<1> QED BY <1>1 DEF Pending

LEMMA SameAnswers ==
    ASSUME MessageInv, UNCHANGED <<waits, ref, replies, sent>>
    PROVE  \A c \in Clients : Answered(c)'
BY DEF MessageInv, Answered

\* Nothing but the supervisors changes.
LEMMA SameMessages ==
    ASSUME MessageInv, UNCHANGED <<agent, inbox, waits, ref, replies, ops, sent, final>>
    PROVE  MessageInv'
<1>1. \A p \in Pids : Mail(p)' /\ Ended(p)' /\ Pending(p)'
    BY SameMail, SameEnd, FewerPending
<1>2. Numbered'
    BY DEF MessageInv, Numbered
<1> QED BY <1>1, <1>2, SameAnswers DEF MessageInv

\* A new process: nothing was ever sent to its pid.
LEMMA NewKeepsMessages ==
    ASSUME TypeInv, MessageInv, UNCHANGED <<inbox, waits, ref, replies, ops, sent, final>>,
           NEW n \in Pids, n = NextPid, NEW l \in BOOLEAN, NEW o \in Pids \union {0}, agent' = New(n, l, o)
    PROVE  MessageInv'
<1>0. /\ agent'[n] = [status |-> "live", state |-> <<>>, link |-> l, origin |-> o] /\ ~Made(n)
      /\ \A p \in Pids : p # n => agent'[p] = agent[p]
    BY NewFacts
<1>1. /\ agent'[n].status = "live" /\ agent'[n].state = <<>> /\ ~Made(n)
      /\ \A p \in Pids : p # n => agent'[p] = agent[p]
    BY <1>0
<1>2. inbox[n] = <<>> /\ \A c \in Clients : sent[c][n] = {}
    BY <1>1 DEF MessageInv, Mail, Live, Silent, Made
<1>3. \A p \in Pids : p # n => Mail(p)' /\ Ended(p)'
    BY <1>1, SameMail, SameEnd
<1>4. Mail(n)'
    <2>1. Threaded(agent'[n].state, inbox'[n])
        BY <1>1, <1>2, NothingShown
    <2>2. \A c \in Clients : From(c, agent'[n].state) \union Waiting(c, inbox'[n]) = sent'[c][n]
        <3> TAKE c \in Clients
        <3>1. From(c, agent'[n].state) = {} /\ Waiting(c, inbox'[n]) = {} /\ sent'[c][n] = {}
            BY <1>1, <1>2, NothingShown
        <3> QED BY <3>1
    <2> QED BY <1>1, <2>1, <2>2 DEF Mail, Live, Handled
<1>5. Ended(n)'
    <2>1. Ended(n) /\ agent[n].status = "none"
        BY <1>1 DEF MessageInv, Made
    <2> QED BY <1>1, <2>1 DEF Ended
<1>6. Numbered' /\ \A p \in Pids : Pending(p)'
    BY DEF MessageInv, Numbered, Pending
<1> QED BY <1>3, <1>4, <1>5, <1>6, SameAnswers DEF MessageInv

\* A client that does not wait has no reply, and no call in a mailbox.
LEMMA IdleClient ==
    ASSUME TypeInv, MessageInv, NEW c \in Clients, waits[c] = 0
    PROVE  /\ replies[c] = <<>>
           /\ \A p \in Pids : \A i \in DOMAIN inbox[p] : inbox[p][i].kind = "call" => inbox[p][i].from # c
<1>1. replies[c] \in Seq(Replies) /\ 0 \notin Pids
    BY PartTypes
<1>2. \A i \in DOMAIN replies[c] : replies[c][i].pid \in Pids /\ replies[c][i].pid = waits[c]
    <2>1. \A i \in DOMAIN replies[c] : replies[c][i] \in Replies
        BY <1>1, ElementType
    <2> QED BY <2>1 DEF Replies, MessageInv, Answered
<1>3. replies[c] = <<>>
    <2>1. replies[c] # <<>> => 1 \in DOMAIN replies[c]
        BY <1>1
    <2> QED BY <1>1, <1>2, <2>1, Zenon
<1>4. \A p \in Pids : \A i \in DOMAIN inbox[p] : inbox[p][i].kind = "call" => inbox[p][i].from # c
    BY <1>1 DEF MessageInv, Pending
<1> QED BY <1>3, <1>4

\* Numbers of what a live agent shows.
LEMMA StateNumbers ==
    ASSUME TypeInv, MessageInv, NEW p \in Pids, Live(p)
    PROVE  \A i \in DOMAIN agent[p].state : agent[p].state[i].id <= ops
<1> TAKE i \in DOMAIN agent[p].state
<1>1. agent[p].state \in Seq(Casts) /\ inbox[p] \in Seq(Messages)
    BY PartTypes
<1>2. PICK e, c : e = agent[p].state[i] /\ c = e.from
    OBVIOUS
<1>3. c \in Clients /\ e \in From(c, agent[p].state)
    BY <1>1, <1>2, MessageFields, Shown
<1>4. e \in sent[c][p]
    BY <1>3 DEF MessageInv, Mail, Handled
<1> QED BY <1>2, <1>3, <1>4 DEF MessageInv, Numbered

\* The mailboxes after an operation of client c on agent p.
LEMMA OperationMail ==
    ASSUME TypeInv, MessageInv, NEW c \in Clients, NEW p \in Pids, NEW k \in {"call", "cast", "stop"},
           Operate(c, p, k), agent' = agent,
           sent' = IF k = "cast" THEN [sent EXCEPT ![c][p] = sent[c][p] \union {[from |-> c, id |-> ops + 1]}]
                   ELSE sent
    PROVE  \A q \in Pids : Mail(q)'
<1>1. PICK m, x : m = [kind |-> k, from |-> c, id |-> ops + 1] /\ x = [from |-> c, id |-> ops + 1]
    OBVIOUS
<1>2. /\ m \in Messages /\ ops' = ops + 1 /\ Made(p) /\ ops \in Int /\ Deliver(p, m)
      /\ m.kind = k /\ m.from = c /\ m.id = ops + 1
    <2>1. /\ ops' = ops + 1 /\ Made(p)
          /\ [kind |-> k, from |-> c, id |-> ops + 1] \in Messages
          /\ Deliver(p, [kind |-> k, from |-> c, id |-> ops + 1])
        BY OperateFacts
    <2>2. ops \in Int /\ m.kind = k /\ m.from = c /\ m.id = ops + 1
        BY <1>1, PartTypes
    <2> QED BY <1>1, <2>1, <2>2, Zenon
<1>3. inbox \in [Pids -> Seq(Messages)] /\ sent \in [Clients -> [Pids -> SUBSET Casts]]
    BY PartTypes
<1>4. /\ \A q \in Pids : q # p => inbox'[q] = inbox[q]
      /\ inbox'[p] = IF Live(p) THEN Append(inbox[p], m) ELSE inbox[p]
    BY <1>2, <1>3 DEF Deliver
<1>5. \A d \in Clients, q \in Pids :
          sent'[d][q] = sent[d][q] \union IF k = "cast" /\ c = d /\ q = p THEN {x} ELSE {}
    <2>1. CASE k # "cast"
        BY <2>1
    <2>2. CASE k = "cast"
        <3>1. PICK new : new = [sent[c] EXCEPT ![p] = sent[c][p] \union {x}]
            OBVIOUS
        <3>2. sent' = [sent EXCEPT ![c] = new]
            BY <1>1, <2>2, <3>1
        <3>3. new[p] = sent[c][p] \union {x} /\ \A q \in Pids : q # p => new[q] = sent[c][q]
            BY <1>3, <3>1
        <3> QED BY <1>3, <2>2, <3>2, <3>3
    <2> QED BY <2>1, <2>2
<1>6. \A q \in Pids : q # p => Mail(q)'
    <2> TAKE q \in Pids
    <2> HAVE q # p
    <2>1. Mail(q)
        BY DEF MessageInv
    <2>2. inbox'[q] = inbox[q] /\ \A d \in Clients : sent'[d][q] = sent[d][q]
        BY <1>4, <1>5
    <2> QED BY <2>1, <2>2 DEF Mail, Live, Handled, Silent, Made
<1>7. CASE ~Live(p)
    <2>1. inbox'[p] = <<>>
        BY <1>4, <1>7 DEF MessageInv, Mail, Silent
    <2>2. Mail(p)'
        BY <1>2, <1>7, <2>1 DEF Mail, Live, Silent, Made
    <2> QED BY <1>6, <2>2
<1>8. CASE Live(p)
    <2>1. PICK s, b : s = agent[p].state /\ b = inbox[p]
        OBVIOUS
    <2>2. s \in Seq(Casts) /\ b \in Seq(Messages)
        BY <2>1, PartTypes
    <2>3. Threaded(s, b) /\ \A d \in Clients : From(d, s) \union Waiting(d, b) = sent[d][p]
        BY <1>8, <2>1 DEF MessageInv, Mail, Handled
    <2>4. /\ \A i \in DOMAIN s : s[i].id < m.id
          /\ \A i \in DOMAIN b : b[i].id < m.id
        <3>1. \A i \in DOMAIN s : s[i].id <= ops /\ s[i].id \in Int
            BY <1>8, <2>1, <2>2, StateNumbers, MessageFields
        <3>2. \A i \in DOMAIN b : b[i].id <= ops /\ b[i].id \in Int
            BY <2>1, <2>2, MessageFields DEF MessageInv, Numbered
        <3> QED BY <1>2, <3>1, <3>2
    <2>5. /\ Threaded(s, Append(b, m))
          /\ \A d : Waiting(d, Append(b, m)) =
                    Waiting(d, b) \union IF m.kind = "cast" /\ m.from = d THEN {[from |-> d, id |-> m.id]} ELSE {}
        BY <1>2, <2>2, <2>3, <2>4, PutMessage
    <2>6. \A d \in Clients : From(d, s) \union Waiting(d, Append(b, m)) = sent'[d][p]
        <3> TAKE d \in Clients
        <3>1. sent'[d][p] = sent[d][p] \union IF k = "cast" /\ c = d THEN {x} ELSE {}
            BY <1>5
        <3>2. Waiting(d, Append(b, m)) = Waiting(d, b) \union IF k = "cast" /\ c = d THEN {x} ELSE {}
            BY <1>1, <1>2, <2>5
        <3> QED BY <2>3, <3>1, <3>2, Zenon
    <2>7. Mail(p)'
        <3>1. agent'[p].state = s /\ inbox'[p] = Append(b, m) /\ Live(p)'
            BY <1>4, <1>8, <2>1 DEF Live
        <3> QED BY <2>5, <2>6, <3>1 DEF Mail, Handled
    <2> QED BY <1>6, <2>7
<1> QED BY <1>7, <1>8

LEMMA OperationKeepsMessages ==
    ASSUME TypeInv, MessageInv, NEW c \in Clients, NEW p, Call(c, p) \/ Cast(c, p) \/ Stop(c, p)
    PROVE  MessageInv'
<1>1. PICK k \in {"call", "cast", "stop"} :
          /\ Operate(c, p, k)
          /\ waits' = IF k = "call" THEN [waits EXCEPT ![c] = p] ELSE waits
          /\ ref' = IF k = "call" THEN [ref EXCEPT ![c] = ops + 1] ELSE ref
          /\ sent' = IF k = "cast" THEN [sent EXCEPT ![c][p] = sent[c][p] \union {[from |-> c, id |-> ops + 1]}]
                     ELSE sent
    <2>1. CASE Call(c, p)
        BY <2>1 DEF Call
    <2>2. CASE Cast(c, p)
        BY <2>2 DEF Cast
    <2>3. CASE Stop(c, p)
        BY <2>3 DEF Stop
    <2> QED BY <2>1, <2>2, <2>3
<1>2. UNCHANGED <<agent, replies, final>>
    BY DEF Call, Cast, Stop
<1>3. PICK m : m = [kind |-> k, from |-> c, id |-> ops + 1]
    OBVIOUS
<1>4. /\ p \in Pids /\ ops' = ops + 1 /\ ops \in Int /\ waits[c] = 0 /\ Deliver(p, m)
      /\ m.kind = k /\ m.from = c /\ m.id = ops + 1 /\ m \in Messages
    <2>1. /\ p \in Pids /\ ops' = ops + 1 /\ waits[c] = 0
          /\ [kind |-> k, from |-> c, id |-> ops + 1] \in Messages
          /\ Deliver(p, [kind |-> k, from |-> c, id |-> ops + 1])
        BY <1>1, OperateFacts
    <2>2. ops \in Int /\ m.kind = k /\ m.from = c /\ m.id = ops + 1
        BY <1>3, PartTypes
    <2> QED BY <1>3, <2>1, <2>2, Zenon
<1>5. /\ inbox \in [Pids -> Seq(Messages)] /\ sent \in [Clients -> [Pids -> SUBSET Casts]]
      /\ waits \in [Clients -> Pids \union {0}] /\ ref \in [Clients -> 0..MaxOps] /\ 0 \notin Pids
    BY PartTypes
<1>6. /\ replies[c] = <<>>
      /\ \A q \in Pids : \A i \in DOMAIN inbox[q] : inbox[q][i].kind = "call" => inbox[q][i].from # c
    BY <1>4, IdleClient
<1>7. \A d \in Clients, q \in Pids : \A e \in sent'[d][q] :
          e \in sent[d][q] \/ (d = c /\ q = p /\ k = "cast" /\ e.id = ops + 1)
    <2>1. CASE k # "cast"
        BY <1>1, <2>1
    <2>2. CASE k = "cast"
        <3>1. PICK x, new : /\ x = [from |-> c, id |-> ops + 1]
                            /\ new = [sent[c] EXCEPT ![p] = sent[c][p] \union {x}]
            OBVIOUS
        <3>2. sent' = [sent EXCEPT ![c] = new] /\ x.id = ops + 1
            BY <1>1, <2>2, <3>1
        <3>3. new[p] = sent[c][p] \union {x} /\ \A q \in Pids : q # p => new[q] = sent[c][q]
            BY <1>4, <1>5, <3>1
        <3> QED BY <1>5, <2>2, <3>2, <3>3
    <2> QED BY <2>1, <2>2
<1>8. \A d \in Clients, q \in Pids : sent[d][q] \subseteq sent'[d][q]
    <2>1. CASE k # "cast"
        BY <1>1, <2>1
    <2>2. CASE k = "cast"
        <3>1. PICK new : new = [sent[c] EXCEPT ![p] = sent[c][p] \union {[from |-> c, id |-> ops + 1]}]
            OBVIOUS
        <3>2. sent' = [sent EXCEPT ![c] = new]
            BY <1>1, <2>2, <3>1
        <3>3. sent[c][p] \subseteq new[p] /\ \A q \in Pids : q # p => new[q] = sent[c][q]
            BY <1>4, <1>5, <3>1
        <3> QED BY <1>5, <2>2, <3>2, <3>3
    <2> QED BY <2>1, <2>2
<1>9. \A d \in Clients : d # c => waits'[d] = waits[d] /\ ref'[d] = ref[d] /\ sent'[d] = sent[d]
    BY <1>1, <1>5
<1>10. \A q \in Pids : \A j \in DOMAIN inbox'[q] :
           \/ \E i \in DOMAIN inbox[q] : inbox'[q][j] = inbox[q][i]
           \/ q = p /\ inbox'[q][j] = m
    <2> TAKE q \in Pids
    <2>1. inbox'[q] = inbox[q] \/ (q = p /\ inbox'[q] = Append(inbox[q], m))
        BY <1>4, <1>5 DEF Deliver
    <2>2. inbox[q] \in Seq(Messages)
        BY <1>5
    <2>3. \A j \in 1..(Len(inbox[q]) + 1) : j \in 1..Len(inbox[q]) \/ j = Len(inbox[q]) + 1
        BY <2>2
    <2>4. CASE inbox'[q] = inbox[q]
        BY <2>4
    <2>5. CASE q = p /\ inbox'[q] = Append(inbox[q], m)
        <3>1. PICK a : a = Append(inbox[q], m)
            OBVIOUS
        <3>2. /\ DOMAIN a = 1..(Len(inbox[q]) + 1) /\ a[Len(inbox[q]) + 1] = m
              /\ \A i \in 1..Len(inbox[q]) : a[i] = inbox[q][i]
              /\ DOMAIN inbox[q] = 1..Len(inbox[q])
            BY <1>4, <2>2, <3>1, AppendFacts
        <3> QED BY <2>3, <2>5, <3>1, <3>2
    <2> QED BY <2>1, <2>4, <2>5
<1>11. Numbered'
    <2>1. \A q \in Pids : \A j \in DOMAIN inbox'[q] : inbox'[q][j].id <= ops'
        <3> TAKE q \in Pids
        <3> TAKE j \in DOMAIN inbox'[q]
        <3>1. CASE q = p /\ inbox'[q][j] = m
            BY <1>4, <3>1
        <3>2. CASE \E i \in DOMAIN inbox[q] : inbox'[q][j] = inbox[q][i]
            <4>1. PICK i \in DOMAIN inbox[q] : inbox'[q][j] = inbox[q][i]
                BY <3>2
            <4>2. inbox[q] \in Seq(Messages) /\ <<>> \in Seq(Casts)
                BY <1>5
            <4>3. inbox[q][i].id <= ops /\ inbox[q][i].id \in Int
                BY <4>2, MessageFields DEF MessageInv, Numbered
            <4> QED BY <1>4, <4>1, <4>3
        <3> QED BY <1>10, <3>1, <3>2
    <2>2. \A d \in Clients, q \in Pids : \A e \in sent'[d][q] : e.id <= ops'
        <3> TAKE d \in Clients, q \in Pids
        <3> TAKE e \in sent'[d][q]
        <3>1. CASE e \in sent[d][q]
            <4>1. e.id <= ops /\ e \in Casts
                BY <1>5, <3>1 DEF MessageInv, Numbered
            <4> QED BY <1>4, <4>1, AgentsAssumption DEF Casts
        <3>2. CASE e.id = ops + 1
            BY <1>4, <3>2
        <3> QED BY <1>7, <3>1, <3>2
    <2>3. \A q \in Pids : \A i \in DOMAIN final'[q] : final'[q][i].stop.id <= ops'
        <3> TAKE q \in Pids
        <3> TAKE i \in DOMAIN final'[q]
        <3>1. final'[q] = final[q] /\ final[q] \in Seq(Finals)
            BY <1>2, PartTypes
        <3>2. final[q][i] \in Finals /\ final[q][i].stop.id <= ops
            BY <3>1, ElementType DEF MessageInv, Numbered
        <3>3. final[q][i].stop.id \in Int
            BY <3>2, AgentsAssumption DEF Finals, Messages
        <3> QED BY <1>4, <3>1, <3>2, <3>3
    <2> QED BY <2>1, <2>2, <2>3 DEF Numbered
<1>12. \A d \in Clients : Answered(d)'
    <2> TAKE d \in Clients
    <2>1. CASE d = c
        <3>1. \A i \in DOMAIN replies[c] : FALSE
            BY <1>6
        <3>2. Len(replies[c]) <= 1
            BY DEF MessageInv, Answered
        <3> QED BY <1>2, <2>1, <3>1, <3>2 DEF Answered
    <2>2. CASE d # c
        BY <1>2, <1>9, <2>2 DEF MessageInv, Answered
    <2> QED BY <2>1, <2>2
<1>13. ASSUME NEW q \in Pids PROVE Pending(q)'
    <2> SUFFICES ASSUME NEW j \in DOMAIN inbox'[q], inbox'[q][j].kind = "call"
                 PROVE  LET x == inbox'[q][j] IN
                        /\ waits'[x.from] = q /\ ref'[x.from] = x.id /\ replies'[x.from] = <<>>
                        /\ \A e \in sent'[x.from][q] : e.id < x.id
        BY DEF Pending
    <2>1. CASE \E i \in DOMAIN inbox[q] : inbox'[q][j] = inbox[q][i]
        <3>1. PICK i \in DOMAIN inbox[q] : inbox'[q][j] = inbox[q][i]
            BY <2>1
        <3>2. inbox[q] \in Seq(Messages) /\ <<>> \in Seq(Casts)
            BY <1>5
        <3>3. inbox[q][i].from \in Clients /\ inbox[q][i].from # c
            BY <1>6, <3>1, <3>2, MessageFields
        <3> QED BY <1>2, <1>9, <3>1, <3>3 DEF MessageInv, Pending
    <2>2. CASE q = p /\ inbox'[q][j] = m
        <3>1. k = "call"
            BY <1>4, <2>2
        <3>2. waits'[c] = p /\ ref'[c] = m.id /\ replies'[c] = <<>> /\ sent' = sent
            BY <1>1, <1>2, <1>4, <1>5, <1>6, <3>1
        <3>3. \A e \in sent[c][p] : e.id < m.id
            <4> TAKE e \in sent[c][p]
            <4>1. e.id <= ops /\ e \in Casts
                BY <1>4, <1>5 DEF MessageInv, Numbered
            <4> QED BY <1>4, <4>1, AgentsAssumption DEF Casts
        <3> QED BY <1>4, <2>2, <3>2, <3>3
    <2> QED BY <1>10, <2>1, <2>2
<1>14. ASSUME NEW q \in Pids PROVE Ended(q)'
    <2>1. Ended(q) /\ final'[q] = final[q] /\ agent' = agent /\ final[q] \in Seq(Finals)
        BY <1>2, PartTypes DEF MessageInv
    <2>2. ASSUME NEW i \in DOMAIN final[q]
          PROVE  From(final[q][i].stop.from, final[q][i].state) =
                    {e \in sent'[final[q][i].stop.from][q] : e.id < final[q][i].stop.id}
        <3>1. PICK d, n : d = final[q][i].stop.from /\ n = final[q][i].stop.id
            OBVIOUS
        <3>2. final[q][i] \in Finals
            BY <2>1, ElementType
        <3>3. d \in Clients /\ n \in Int /\ n <= ops
            BY <3>1, <3>2, AgentsAssumption DEF Finals, Messages, MessageInv, Numbered
        <3>4. From(d, final[q][i].state) = {e \in sent[d][q] : e.id < n}
            BY <2>1, <3>1 DEF Ended
        <3>5. ~(ops + 1 < n)
            BY <1>4, <3>3
        <3>6. {e \in sent'[d][q] : e.id < n} = {e \in sent[d][q] : e.id < n}
            BY <1>7, <1>8, <3>3, <3>5
        <3> QED BY <3>1, <3>4, <3>6
    <2> QED BY <2>1, <2>2 DEF Ended
<1>15. \A q \in Pids : Mail(q)'
    BY <1>1, <1>2, <1>4, OperationMail
<1> QED BY <1>11, <1>12, <1>13, <1>14, <1>15 DEF MessageInv

LEMMA ReturnKeepsMessages ==
    ASSUME TypeInv, MessageInv, NEW c \in Clients, CallReturns(c)
    PROVE  MessageInv'
<1>1. PICK i \in DOMAIN replies[c] : replies' = [replies EXCEPT ![c] = RemoveAt(replies[c], i)]
    BY DEF CallReturns
<1>2. UNCHANGED <<agent, inbox, ref, ops, sent, final>> /\ waits' = [waits EXCEPT ![c] = 0]
    BY DEF CallReturns
<1>3. /\ replies \in [Clients -> Seq(Replies)] /\ waits \in [Clients -> Pids \union {0}]
      /\ replies[c] \in Seq(Replies) /\ replies[c] # <<>>
    BY <1>1, PartTypes
<1>4. replies'[c] = <<>>
    <2>1. PICK r, n : r = RemoveAt(replies[c], i) /\ n = Len(replies[c])
        OBVIOUS
    <2>2. r \in Seq(Replies) /\ Len(r) = n - 1 /\ n \in Nat
        <3>1. i \in 1..Len(replies[c])
            BY <1>1, <1>3
        <3> QED BY <1>3, <2>1, <3>1, RemoveFacts DEF RemoveAt
    <2>3. n # 0
        BY <1>3, <2>1
    <2>4. n <= 1
        BY <2>1 DEF MessageInv, Answered
    <2>5. Len(r) = 0
        BY <2>2, <2>3, <2>4
    <2> QED BY <1>1, <1>3, <2>1, <2>2, <2>5
<1>5. \A d \in Clients : d # c => replies'[d] = replies[d] /\ waits'[d] = waits[d]
    BY <1>1, <1>2, <1>3
<1>6. \A p \in Pids : Mail(p)' /\ Ended(p)'
    BY <1>2, SameMail, SameEnd
<1>7. Numbered'
    BY <1>2 DEF MessageInv, Numbered
<1>8. \A d \in Clients : Answered(d)'
    <2> TAKE d \in Clients
    <2>1. CASE d = c
        <3>1. Len(replies'[c]) = 0 /\ \A j \in DOMAIN replies'[c] : FALSE
            BY <1>4
        <3> QED BY <2>1, <3>1 DEF Answered
    <2>2. CASE d # c
        BY <1>2, <1>5, <2>2 DEF MessageInv, Answered
    <2> QED BY <2>1, <2>2
<1>9. ASSUME NEW p \in Pids PROVE Pending(p)'
    <2>1. inbox[p] \in Seq(Messages) /\ <<>> \in Seq(Casts)
        BY PartTypes
    <2>2. \A j \in DOMAIN inbox[p] : inbox[p][j].from \in Clients
        BY <2>1, MessageFields
    <2>3. \A j \in DOMAIN inbox[p] : inbox[p][j].kind = "call" => inbox[p][j].from # c
        BY <1>3 DEF MessageInv, Pending
    <2>4. Pending(p)
        BY DEF MessageInv
    <2> QED BY <1>2, <1>5, <2>2, <2>3, <2>4 DEF Pending
<1> QED BY <1>6, <1>7, <1>8, <1>9 DEF MessageInv

\* The mailbox of an agent that takes its first message.
LEMMA TakeFacts ==
    ASSUME TypeInv, MessageInv, NEW p \in Pids, Live(p), inbox[p] # <<>>,
           inbox' = [inbox EXCEPT ![p] = Tail(inbox[p])],
           UNCHANGED <<ops, sent, final>>
    PROVE  /\ agent[p].state \in Seq(Casts) /\ inbox[p] \in Seq(Messages)
           /\ Threaded(agent[p].state, inbox[p]) /\ Threaded(agent[p].state, Tail(inbox[p]))
           /\ \A c \in Clients : From(c, agent[p].state) \union Waiting(c, inbox[p]) = sent[c][p]
           /\ inbox'[p] = Tail(inbox[p]) /\ \A q \in Pids : q # p => inbox'[q] = inbox[q]
           /\ \A q \in Pids : \A j \in DOMAIN inbox'[q] :
                 \E i \in DOMAIN inbox[q] : /\ inbox'[q][j] = inbox[q][i]
                                            /\ q = p => Head(inbox[p]).id < inbox[q][i].id
           /\ Numbered'
<1>1. inbox \in [Pids -> Seq(Messages)] /\ agent[p].state \in Seq(Casts) /\ inbox[p] \in Seq(Messages)
    BY PartTypes
<1>2. /\ Threaded(agent[p].state, inbox[p])
      /\ \A c \in Clients : From(c, agent[p].state) \union Waiting(c, inbox[p]) = sent[c][p]
    BY DEF MessageInv, Mail, Handled
<1>3. inbox'[p] = Tail(inbox[p]) /\ \A q \in Pids : q # p => inbox'[q] = inbox[q]
    BY <1>1
<1>4. /\ Head(inbox[p]) = inbox[p][1] /\ Threaded(agent[p].state, Tail(inbox[p]))
      /\ \A j \in DOMAIN Tail(inbox[p]) : /\ j + 1 \in DOMAIN inbox[p] /\ Tail(inbox[p])[j] = inbox[p][j + 1]
                                          /\ inbox[p][1].id < Tail(inbox[p])[j].id
    BY <1>1, <1>2, RestOfInbox
<1>5. \A q \in Pids : \A j \in DOMAIN inbox'[q] :
         \E i \in DOMAIN inbox[q] : /\ inbox'[q][j] = inbox[q][i]
                                    /\ q = p => Head(inbox[p]).id < inbox[q][i].id
    <2> TAKE q \in Pids
    <2> TAKE j \in DOMAIN inbox'[q]
    <2>1. CASE q # p
        BY <1>3, <2>1
    <2>2. CASE q = p
        <3>1. j \in DOMAIN Tail(inbox[p])
            BY <1>3, <2>2
        <3>2. j + 1 \in DOMAIN inbox[q] /\ inbox'[q][j] = inbox[q][j + 1] /\ Head(inbox[p]).id < inbox[q][j + 1].id
            BY <1>3, <1>4, <2>2, <3>1
        <3> QED BY <3>2
    <2> QED BY <2>1, <2>2
<1>6. Numbered'
    BY <1>5 DEF MessageInv, Numbered
<1> QED BY <1>1, <1>2, <1>3, <1>4, <1>5, <1>6

LEMMA CallKeepsMessages ==
    ASSUME TypeInv, MessageInv, NEW p \in Pids, HandleCall(p)
    PROVE  MessageInv'
<1>1. PICK m, s, c, b : m = Head(inbox[p]) /\ s = agent[p].state /\ c = m.from /\ b = inbox[p]
    OBVIOUS
<1>2. /\ Live(p) /\ b # <<>> /\ m.kind = "call" /\ inbox' = [inbox EXCEPT ![p] = Tail(b)]
      /\ replies' = [replies EXCEPT ![c] = Append(replies[c], [ref |-> m.id, state |-> s, pid |-> p])]
      /\ UNCHANGED <<agent, waits, ref, ops, sent, final>>
    BY <1>1 DEF HandleCall
<1>3. /\ s \in Seq(Casts) /\ b \in Seq(Messages) /\ Threaded(s, b) /\ Threaded(s, Tail(b))
      /\ \A d \in Clients : From(d, s) \union Waiting(d, b) = sent[d][p]
      /\ inbox'[p] = Tail(b) /\ \A q \in Pids : q # p => inbox'[q] = inbox[q]
      /\ \A q \in Pids : \A j \in DOMAIN inbox'[q] :
            \E i \in DOMAIN inbox[q] : inbox'[q][j] = inbox[q][i] /\ (q = p => m.id < inbox[q][i].id)
      /\ Numbered'
    <2>1. inbox[p] # <<>> /\ inbox' = [inbox EXCEPT ![p] = Tail(inbox[p])]
        BY <1>1, <1>2
    <2>2. /\ agent[p].state \in Seq(Casts) /\ inbox[p] \in Seq(Messages)
          /\ Threaded(agent[p].state, inbox[p]) /\ Threaded(agent[p].state, Tail(inbox[p]))
          /\ \A d \in Clients : From(d, agent[p].state) \union Waiting(d, inbox[p]) = sent[d][p]
        BY <1>2, <2>1, TakeFacts
    <2>3. /\ inbox'[p] = Tail(inbox[p]) /\ \A q \in Pids : q # p => inbox'[q] = inbox[q]
          /\ \A q \in Pids : \A j \in DOMAIN inbox'[q] :
                \E i \in DOMAIN inbox[q] : /\ inbox'[q][j] = inbox[q][i]
                                           /\ q = p => Head(inbox[p]).id < inbox[q][i].id
          /\ Numbered'
        BY <1>2, <2>1, TakeFacts
    <2> QED BY <1>1, <2>2, <2>3, Zenon
<1>4. 1 \in DOMAIN b /\ m = b[1] /\ c \in Clients /\ m.id \in Int
    BY <1>1, <1>2, <1>3, MessageFields
<1>5. waits[c] = p /\ ref[c] = m.id /\ replies[c] = <<>> /\ \A e \in sent[c][p] : e.id < m.id
    BY <1>1, <1>2, <1>4 DEF MessageInv, Pending
<1>6. From(c, s) = sent[c][p]
    <2>1. From(c, s) = {e \in From(c, s) \union Waiting(c, b) : e.id < m.id}
        <3>1. m = Head(b) /\ Head(b).kind # "cast"
            BY <1>1, <1>2
        <3> QED BY <1>2, <1>3, <3>1, ReadAll
    <2>2. From(c, s) \union Waiting(c, b) = sent[c][p]
        BY <1>3, <1>4
    <2> QED BY <1>5, <2>1, <2>2, Zenon
<1>7. PICK r : r = [ref |-> m.id, state |-> s, pid |-> p]
    OBVIOUS
<1>8. replies'[c] = <<r>> /\ \A d \in Clients : d # c => replies'[d] = replies[d]
    <2>1. replies \in [Clients -> Seq(Replies)] /\ Append(<<>>, r) = <<r>>
        BY PartTypes
    <2> QED BY <1>2, <1>4, <1>5, <1>7, <2>1
<1>9. \A d \in Clients : Answered(d)'
    <2> TAKE d \in Clients
    <2>1. CASE d = c
        <3>1. Len(replies'[c]) = 1 /\ \A i \in DOMAIN replies'[c] : replies'[c][i] = r
            BY <1>8
        <3>2. r.ref = m.id /\ r.state = s /\ r.pid = p
            BY <1>7
        <3>3. InOrder(s) /\ ref'[c] = m.id /\ waits'[c] = p /\ From(c, s) = sent'[c][p]
            BY <1>2, <1>3, <1>5, <1>6 DEF Threaded
        <3> QED BY <2>1, <3>1, <3>2, <3>3 DEF Answered
    <2>2. CASE d # c
        BY <1>2, <1>8, <2>2 DEF MessageInv, Answered
    <2> QED BY <2>1, <2>2
<1>10. ASSUME NEW q \in Pids PROVE Pending(q)'
    <2> SUFFICES ASSUME NEW j \in DOMAIN inbox'[q], inbox'[q][j].kind = "call"
                 PROVE  LET x == inbox'[q][j] IN
                        /\ waits'[x.from] = q /\ ref'[x.from] = x.id /\ replies'[x.from] = <<>>
                        /\ \A e \in sent'[x.from][q] : e.id < x.id
        BY DEF Pending
    <2>1. PICK i \in DOMAIN inbox[q] : inbox'[q][j] = inbox[q][i] /\ (q = p => m.id < inbox[q][i].id)
        BY <1>3
    <2>2. PICK x : x = inbox[q][i]
        OBVIOUS
    <2>3. inbox[q] \in Seq(Messages) /\ <<>> \in Seq(Casts)
        BY PartTypes
    <2>4. x.from \in Clients /\ x.id \in Int /\ x.kind = "call"
        BY <2>1, <2>2, <2>3, MessageFields
    <2>5. waits[x.from] = q /\ ref[x.from] = x.id /\ replies[x.from] = <<>> /\ \A e \in sent[x.from][q] : e.id < x.id
        BY <2>2, <2>4 DEF MessageInv, Pending
    <2>6. x.from # c
        <3>1. x.from = c => q = p /\ x.id = m.id
            BY <1>5, <2>5
        <3> QED BY <1>4, <2>1, <2>2, <2>4, <3>1
    <2> QED BY <1>2, <1>8, <2>1, <2>2, <2>4, <2>5, <2>6
<1>11. \A q \in Pids : Ended(q)'
    BY <1>2, SameEnd
<1>12. Mail(p)'
    <2>1. \A d \in Clients : Waiting(d, Tail(b)) = Waiting(d, b)
        BY <1>1, <1>2, <1>3, TakeOther
    <2>2. agent'[p].state = s /\ Live(p)' /\ inbox'[p] = Tail(b) /\ sent' = sent
        BY <1>1, <1>2, <1>3 DEF Live
    <2> QED BY <1>3, <2>1, <2>2 DEF Mail, Handled
<1>13. \A q \in Pids : q # p => Mail(q)'
    BY <1>2, <1>3, SameMail
<1> QED BY <1>3, <1>9, <1>10, <1>11, <1>12, <1>13 DEF MessageInv

LEMMA CastKeepsMessages ==
    ASSUME TypeInv, MessageInv, NEW p \in Pids, HandleCast(p)
    PROVE  MessageInv'
<1>1. PICK m, s, e, b : /\ m = Head(inbox[p]) /\ s = agent[p].state /\ b = inbox[p]
                        /\ e = [from |-> m.from, id |-> m.id]
    OBVIOUS
<1>2. /\ Live(p) /\ b # <<>> /\ m.kind = "cast" /\ inbox' = [inbox EXCEPT ![p] = Tail(b)]
      /\ agent' = [agent EXCEPT ![p].state = Append(s, e)]
      /\ UNCHANGED <<waits, ref, replies, ops, sent, final>>
    BY <1>1 DEF HandleCast
<1>3. /\ s \in Seq(Casts) /\ b \in Seq(Messages) /\ Threaded(s, b)
      /\ \A d \in Clients : From(d, s) \union Waiting(d, b) = sent[d][p]
      /\ inbox'[p] = Tail(b) /\ \A q \in Pids : q # p => inbox'[q] = inbox[q]
      /\ \A q \in Pids : \A j \in DOMAIN inbox'[q] : \E i \in DOMAIN inbox[q] : inbox'[q][j] = inbox[q][i]
      /\ Numbered'
    <2>1. inbox[p] # <<>> /\ inbox' = [inbox EXCEPT ![p] = Tail(inbox[p])]
        BY <1>1, <1>2
    <2>2. /\ agent[p].state \in Seq(Casts) /\ inbox[p] \in Seq(Messages)
          /\ Threaded(agent[p].state, inbox[p]) /\ Threaded(agent[p].state, Tail(inbox[p]))
          /\ \A d \in Clients : From(d, agent[p].state) \union Waiting(d, inbox[p]) = sent[d][p]
        BY <1>2, <2>1, TakeFacts
    <2>3. /\ inbox'[p] = Tail(inbox[p]) /\ \A q \in Pids : q # p => inbox'[q] = inbox[q]
          /\ \A q \in Pids : \A j \in DOMAIN inbox'[q] :
                \E i \in DOMAIN inbox[q] : /\ inbox'[q][j] = inbox[q][i]
                                           /\ q = p => Head(inbox[p]).id < inbox[q][i].id
          /\ Numbered'
        BY <1>2, <2>1, TakeFacts
    <2> QED BY <1>1, <2>2, <2>3, Zenon
<1>4. e \in Casts
    <2>1. m \in Messages
        BY <1>1, <1>2, HeadFacts
    <2> QED BY <1>1, <2>1 DEF Casts, Messages
<1>5. /\ Threaded(Append(s, e), Tail(b))
      /\ \A d : From(d, Append(s, e)) \union Waiting(d, Tail(b)) = From(d, s) \union Waiting(d, b)
    <2>1. Head(b).kind = "cast" /\ e = [from |-> Head(b).from, id |-> Head(b).id]
        BY <1>1, <1>2
    <2> QED BY <1>2, <1>3, <1>4, <2>1, TakeCast
<1>6. /\ agent'[p].state = Append(s, e) /\ agent'[p].status = agent[p].status
      /\ \A q \in Pids : q # p => agent'[q] = agent[q]
    <2>1. agent \in [Pids -> Processes] /\ agent[p] \in Processes
        BY PartTypes
    <2>2. agent' = [agent EXCEPT ![p] = [agent[p] EXCEPT !.state = Append(s, e)]]
        BY <1>2
    <2> QED BY <2>1, <2>2 DEF Processes
<1>7. Mail(p)'
    <2>1. \A d \in Clients : From(d, Append(s, e)) \union Waiting(d, Tail(b)) = sent'[d][p]
        BY <1>2, <1>3, <1>5
    <2>2. Live(p)'
        BY <1>2, <1>6 DEF Live
    <2> QED BY <1>3, <1>5, <1>6, <2>1, <2>2 DEF Mail, Handled
<1>8. \A q \in Pids : q # p => Mail(q)' /\ Ended(q)'
    BY <1>2, <1>3, <1>6, SameMail, SameEnd
<1>9. Ended(p)'
    BY <1>2, <1>6 DEF MessageInv, Ended
<1>10. \A q \in Pids : Pending(q)'
    BY <1>2, <1>3, FewerPending
<1> QED BY <1>2, <1>3, <1>7, <1>8, <1>9, <1>10, SameAnswers DEF MessageInv

\* A process that ends loses its mailbox; the others are left alone.
LEMMA GoneKeepsMessages ==
    ASSUME TypeInv, MessageInv, NEW p \in Pids, UNCHANGED <<waits, ref, replies, ops, sent>>,
           inbox' = [inbox EXCEPT ![p] = <<>>], \A q \in Pids : q # p => agent'[q] = agent[q] /\ final'[q] = final[q],
           ~Live(p)', Made(p)', Ended(p)', \A i \in DOMAIN final'[p] : final'[p][i].stop.id <= ops
    PROVE  MessageInv'
<1>1. inbox'[p] = <<>> /\ \A q \in Pids : q # p => inbox'[q] = inbox[q]
    BY PartTypes
<1>2. \A j \in DOMAIN inbox'[p] : FALSE
    BY <1>1
<1>3. \A q \in Pids : Pending(q)' /\ \A j \in DOMAIN inbox'[q] : inbox'[q][j].id <= ops'
    <2> TAKE q \in Pids
    <2>1. \A j \in DOMAIN inbox'[q] : \E i \in DOMAIN inbox[q] : inbox'[q][j] = inbox[q][i]
        BY <1>1, <1>2
    <2> QED BY <2>1, FewerPending
<1>4. Mail(p)'
    BY <1>1 DEF Mail, Silent
<1>5. \A q \in Pids : q # p => Mail(q)' /\ Ended(q)'
    BY <1>1, SameMail, SameEnd
<1>6. Numbered'
    BY <1>3 DEF MessageInv, Numbered
<1> QED BY <1>3, <1>4, <1>5, <1>6, SameAnswers DEF MessageInv

\* The end of an agent, by a crash or by a stop: the callback sees all that
\* the stopping client cast before.
LEMMA ExitKeepsMessages ==
    ASSUME TypeInv, MessageInv, NEW p \in Pids, Crash(p) \/ HandleStop(p) \/ TerminateCrashes(p)
    PROVE  MessageInv'
<1>1. PICK m, s, b : m = Head(inbox[p]) /\ s = agent[p].state /\ b = inbox[p]
    OBVIOUS
<1>2. Live(p) /\ b # <<>> /\ UNCHANGED <<waits, ref, replies, ops, sent>>
    BY <1>1 DEF Crash, HandleStop, TerminateCrashes
<1>3. PICK st \in {"stopped", "crashed"}, why \in {"normal", "error"} :
          /\ Exits(p, st, why)
          /\ \/ final' = final /\ (st = "crashed" \/ ~OnClose)
             \/ OnClose /\ m.kind = "stop" /\ RunTerminate(p, m)
    <2>1. CASE Crash(p)
        BY <2>1 DEF Crash
    <2>2. CASE HandleStop(p)
        BY <1>1, <2>2 DEF HandleStop, RunTerminate
    <2>3. CASE TerminateCrashes(p)
        BY <1>1, <2>3 DEF TerminateCrashes
    <2> QED BY <2>1, <2>2, <2>3
<1>4. /\ \A q \in Pids : q # p => agent'[q] = agent[q]
      /\ agent'[p] = [agent[p] EXCEPT !.status = st, !.state = <<>>]
    BY <1>2, <1>3, ExitFacts
<1>5. agent'[p].status = st /\ ~Live(p)' /\ Made(p)'
    <2>1. agent[p] \in Processes
        BY PartTypes
    <2>2. agent'[p].status = st
        BY <1>4, <2>1 DEF Processes
    <2> QED BY <2>2 DEF Live, Made
<1>6. inbox' = [inbox EXCEPT ![p] = <<>>]
    BY <1>3 DEF Exits
<1>7. final \in [Pids -> Seq(Finals)] /\ final[p] \in Seq(Finals) /\ s \in Seq(Casts) /\ b \in Seq(Messages)
    BY <1>1, PartTypes
<1>8. final[p] = <<>>
    <2>1. Len(final[p]) = 0
        BY <1>2 DEF MessageInv, Ended, Live
    <2> QED BY <1>7, <2>1
<1>9. ASSUME final' = final, st = "crashed" \/ ~OnClose
      PROVE  /\ \A q \in Pids : q # p => final'[q] = final[q]
             /\ Ended(p)' /\ \A i \in DOMAIN final'[p] : final'[p][i].stop.id <= ops
    <2>1. final'[p] = <<>> /\ Len(final'[p]) = 0 /\ \A i \in DOMAIN final'[p] : FALSE
        BY <1>8, <1>9
    <2> QED BY <1>5, <1>9, <2>1 DEF Ended
<1>10. ASSUME OnClose, m.kind = "stop", RunTerminate(p, m)
       PROVE  /\ \A q \in Pids : q # p => final'[q] = final[q]
              /\ Ended(p)' /\ \A i \in DOMAIN final'[p] : final'[p][i].stop.id <= ops
    <2>1. PICK f : f = [state |-> s, stop |-> m]
        OBVIOUS
    <2>2. final' = [final EXCEPT ![p] = Append(final[p], f)]
        BY <1>1, <1>10, <2>1 DEF RunTerminate
    <2>3. final'[p] = <<f>> /\ \A q \in Pids : q # p => final'[q] = final[q]
        <3>1. Append(<<>>, f) = <<f>>
            OBVIOUS
        <3> QED BY <1>7, <1>8, <2>2, <3>1
    <2>4. Len(final'[p]) = 1 /\ final'[p] # <<>> /\ \A i \in DOMAIN final'[p] : final'[p][i] = f
        BY <2>3
    <2>5. f.state = s /\ f.stop = m
        BY <2>1
    <2>6. m \in Messages /\ m = b[1] /\ 1 \in DOMAIN b
        BY <1>1, <1>2, HeadFacts
    <2>7. m.from \in Clients /\ m.id <= ops
        BY <1>1, <2>6 DEF Messages, MessageInv, Numbered
    <2>8. Threaded(s, b) /\ \A d \in Clients : From(d, s) \union Waiting(d, b) = sent[d][p]
        BY <1>1, <1>2 DEF MessageInv, Mail, Handled
    <2>9. From(m.from, s) = {e \in From(m.from, s) \union Waiting(m.from, b) : e.id < m.id}
        <3>1. m = Head(b) /\ Head(b).kind # "cast"
            BY <1>1, <1>10
        <3> QED BY <1>2, <1>7, <2>8, <3>1, ReadAll
    <2>10. InOrder(s) /\ From(m.from, s) = {e \in sent'[m.from][p] : e.id < m.id}
        <3>1. From(m.from, s) \union Waiting(m.from, b) = sent'[m.from][p]
            BY <1>2, <2>7, <2>8
        <3> QED BY <2>8, <2>9, <3>1, Zenon DEF Threaded
    <2>11. Ended(p)'
        <3>1. \A i \in DOMAIN final'[p] :
                 /\ InOrder(final'[p][i].state)
                 /\ From(final'[p][i].stop.from, final'[p][i].state) =
                        {e \in sent'[final'[p][i].stop.from][p] : e.id < final'[p][i].stop.id}
            BY <2>4, <2>5, <2>10
        <3> QED BY <1>5, <1>10, <2>4, <3>1 DEF Ended
    <2> QED BY <2>3, <2>4, <2>5, <2>7, <2>11
<1> QED BY <1>2, <1>3, <1>4, <1>5, <1>6, <1>9, <1>10, GoneKeepsMessages

LEMMA ShutdownKeepsMessages ==
    ASSUME TypeInv, MessageInv, NEW p \in Pids, SupShutsDown(p), Made(p)
    PROVE  MessageInv'
<1>1. /\ inbox' = [inbox EXCEPT ![p] = <<>>] /\ \A q \in Pids : q # p => agent'[q] = agent[q]
      /\ agent'[p].status = IF Live(p) THEN "killed" ELSE agent[p].status
      /\ UNCHANGED <<waits, ref, replies, ops, sent, final>>
    BY ShutdownFacts
<1>2. ~Live(p)' /\ Made(p)'
    BY <1>1 DEF Live, Made
<1>3. Ended(p)'
    <2>1. Ended(p)
        BY DEF MessageInv
    <2> QED BY <1>1, <2>1 DEF Ended, Live
<1>4. \A i \in DOMAIN final'[p] : final'[p][i].stop.id <= ops
    BY <1>1 DEF MessageInv, Numbered
<1> QED BY <1>1, <1>2, <1>3, <1>4, GoneKeepsMessages

LEMMA AgentsStepMessages == TypeInv /\ SupervisionInv /\ MessageInv /\ [AgentsNext]_vars => MessageInv'
<1> SUFFICES ASSUME TypeInv, SupervisionInv, MessageInv, [AgentsNext]_vars PROVE MessageInv'
    OBVIOUS
<1>1. ASSUME NEW c \in Clients, ClientStep(c) PROVE MessageInv'
    <2>1. CASE Start(c) \/ StartAgent(c)
        <3>1. PICK n \in Pids, l \in BOOLEAN : n = NextPid /\ agent' = New(n, l, n)
            BY <2>1 DEF Start, StartAgent
        <3>2. UNCHANGED <<inbox, waits, ref, replies, ops, sent, final>> /\ n \in Pids \union {0}
            BY <2>1 DEF Start, StartAgent
        <3> QED BY <3>1, <3>2, NewKeepsMessages
    <2> QED BY <1>1, <2>1, OperationKeepsMessages, ReturnKeepsMessages DEF ClientStep
<1>2. ASSUME NEW p \in Pids, AgentStep(p) PROVE MessageInv'
    BY <1>2, CallKeepsMessages, CastKeepsMessages, ExitKeepsMessages DEF AgentStep
<1>3. CASE SupStep
    <2>1. CASE SupForgets \/ SupGivesUp
        BY <2>1, DropFacts, SameMessages
    <2>2. CASE SupRestarts
        <3>1. PICK n, o : n = NextPid /\ o = agent[Exit.pid].origin
            OBVIOUS
        <3>2. n \in Pids /\ agent' = New(n, TRUE, o) /\ o \in Pids \union {0}
              /\ UNCHANGED <<inbox, waits, ref, replies, ops, sent, final>>
            BY <2>2, <3>1, RestartFacts
        <3> QED BY <3>1, <3>2, NewKeepsMessages
    <2>3. ASSUME NEW p \in Pids, SupShutsDown(p) PROVE MessageInv'
        <3>1. Made(p)
            BY <2>3 DEF SupShutsDown, SupervisionInv, Unmade
        <3> QED BY <2>3, <3>1, ShutdownKeepsMessages
    <2>4. CASE SupEnds
        BY <2>4, TopFacts, SameMessages
    <2> QED BY <1>3, <2>1, <2>2, <2>3, <2>4 DEF SupStep
<1>4. CASE TopStep
    BY <1>4, TopFacts, SameMessages DEF TopStep
<1>5. CASE UNCHANGED vars
    BY <1>5, SameMessages DEF vars
<1> QED BY <1>1, <1>2, <1>3, <1>4, <1>5 DEF AgentsNext

LEMMA AgentsAlwaysInOrder == AgentsSpec => []MessageInv
<1>1. AgentsInit => MessageInv
    <2> SUFFICES ASSUME AgentsInit PROVE MessageInv
        OBVIOUS
    <2>1. \A i \in DOMAIN <<>> : FALSE
        OBVIOUS
    <2>2. \A p \in Pids : /\ inbox[p] = <<>> /\ final[p] = <<>> /\ agent[p].status = "none" /\ Len(final[p]) = 0
                          /\ \A c \in Clients : sent[c][p] = {}
        BY DEF AgentsInit, NoAgent
    <2>3. \A c \in Clients : replies[c] = <<>> /\ Len(replies[c]) = 0
        BY DEF AgentsInit
    <2>4. Numbered /\ \A p \in Pids : Pending(p)
        BY <2>1, <2>2 DEF Numbered, Pending
    <2>5. \A c \in Clients : Answered(c)
        BY <2>1, <2>3 DEF Answered
    <2>6. \A p \in Pids : Mail(p) /\ Ended(p)
        BY <2>1, <2>2 DEF Mail, Live, Silent, Ended
    <2> QED BY <2>4, <2>5, <2>6 DEF MessageInv
<1> QED BY <1>1, AgentsAlwaysTyped, AgentsAlwaysSupervised, AgentsStepMessages, PTL DEF AgentsSpec

\* A client reads its own casts: the reply to a call shows every intent it cast
\* to this agent before, in order, whatever other clients send meanwhile.
THEOREM AgentsReadYourCasts == AgentsSpec => []ReadYourCasts
BY AgentsAlwaysInOrder, MessageInvImplies, PTL

\* The terminate callback runs at most once, when the agent is stopped, on a
\* state with every intent the stopping client cast before; never on a shutdown.
THEOREM AgentsGracefulStop == AgentsSpec => []GracefulStop
BY AgentsAlwaysInOrder, MessageInvImplies, PTL
===========================================================================
