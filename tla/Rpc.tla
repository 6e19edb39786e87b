-------------------------------- MODULE Rpc --------------------------------
(***************************************************************************)
(* What a request/reply channel to another process promises its callers:   *)
(* a call is made once, its function runs at most once, and the call       *)
(* returns at most once with one outcome.  An outcome that carries an      *)
(* answer is the answer to this very call and only exists once the         *)
(* function ran.  port.Manager implements it (module PortManager).         *)
(***************************************************************************)
CONSTANTS
    Calls,      \* the identifiers of calls
    Answers,    \* kinds of outcome that carry what the function produced
    Failures    \* kinds of outcome that carry no answer

VARIABLES
    state,      \* state[c]: "new", "open" or "returned"
    outcome,    \* outcome[c]: what the call returned, [kind, of]
    runs        \* runs[c]: how often the function of c was run

rpcVars == <<state, outcome, runs>>

\* of = 0 says that no function's result is carried.
NoOutcome == [kind |-> "none", of |-> 0]

AnswerOf(c) == {[kind |-> k, of |-> c] : k \in Answers}
FailureOutcomes == {[kind |-> k, of |-> 0] : k \in Failures}

RpcInit ==
    /\ state = [c \in Calls |-> "new"]
    /\ outcome = [c \in Calls |-> NoOutcome]
    /\ runs = [c \in Calls |-> 0]

Begin(c) ==
    /\ state[c] = "new"
    /\ state' = [state EXCEPT ![c] = "open"]
    /\ UNCHANGED <<outcome, runs>>

\* The function may still run after its call gave up waiting.
Run(c) ==
    /\ state[c] # "new"
    /\ runs[c] = 0
    /\ runs' = [runs EXCEPT ![c] = 1]
    /\ UNCHANGED <<state, outcome>>

Finish(c) ==
    /\ state[c] = "open"
    /\ \E o \in FailureOutcomes \union (IF runs[c] = 1 THEN AnswerOf(c) ELSE {}) :
          outcome' = [outcome EXCEPT ![c] = o]
    /\ state' = [state EXCEPT ![c] = "returned"]
    /\ UNCHANGED runs

RpcNext == \E c \in Calls : Begin(c) \/ Run(c) \/ Finish(c)

RpcSpec == RpcInit /\ [][RpcNext]_rpcVars
=============================================================================
