------------------------------ MODULE Futures ------------------------------
(***************************************************************************)
(* Futures of the BEAM runtime (mochi_async.erl).  async/1 spawns a        *)
(* process that sends {Ref, Result} to its parent; await/1, await_all/1    *)
(* and await_any/1 receive these from the parent's mailbox.  One parent is *)
(* modelled; the result of a future is named by its reference.             *)
(***************************************************************************)
EXTENDS Integers, Sequences, FiniteSets, SequencesExt

CONSTANTS
    Refs,       \* references made by make_ref
    MaxOps      \* bound: await operations of the parent

ASSUME FuturesAssumption == IsFiniteSet(Refs) /\ MaxOps \in Nat

VARIABLES
    task,       \* task[r]: the process evaluating F()
    mailbox,    \* the parent's mailbox: references of results, oldest first
    op,         \* the operation the parent is in: [kind, refs]
    acc,        \* results await_all has collected so far
    last,       \* what the last operation returned
    ops,        \* number of operations begun
    returned,   \* history: results handed to the program
    dropped     \* history: results await_any received and threw away

vars == <<task, mailbox, op, acc, last, ops, returned, dropped>>

Idle == [kind |-> "none", refs |-> <<>>]
Lists == {s \in UNION {[1..n -> Refs] : n \in 1..Cardinality(Refs)} : IsInjective(s)}

FuturesInit ==
    /\ task = [r \in Refs |-> "new"]
    /\ mailbox = <<>>
    /\ op = Idle
    /\ acc = <<>>
    /\ last = <<>>
    /\ ops = 0
    /\ returned = {}
    /\ dropped = {}

-----------------------------------------------------------------------------

Async(r) ==
    /\ op = Idle
    /\ task[r] = "new"
    /\ task' = [task EXCEPT ![r] = "running"]
    /\ UNCHANGED <<mailbox, op, acc, last, ops, returned, dropped>>

TaskEnds(r) ==
    /\ task[r] = "running"
    /\ task' = [task EXCEPT ![r] = "done"]
    /\ mailbox' = Append(mailbox, r)
    /\ UNCHANGED <<op, acc, last, ops, returned, dropped>>

\* F() raises: the process is neither linked nor monitored, and nothing is sent.
TaskCrashes(r) ==
    /\ task[r] = "running"
    /\ task' = [task EXCEPT ![r] = "crashed"]
    /\ UNCHANGED <<mailbox, op, acc, last, ops, returned, dropped>>

\* The program awaits futures it has made, each list without repetitions.
Begin(kind, list) ==
    /\ op = Idle
    /\ ops < MaxOps
    /\ \A i \in 1..Len(list) : task[list[i]] # "new"
    /\ op' = [kind |-> kind, refs |-> list]
    /\ acc' = <<>>
    /\ ops' = ops + 1
    /\ UNCHANGED <<task, mailbox, last, returned, dropped>>

Return(res) ==
    /\ op' = Idle
    /\ last' = res
    /\ acc' = <<>>

\* Mutant: await_all takes results as they come.
AwaitNextAny ==
    /\ op.kind \in {"await", "all"}
    /\ mailbox # <<>>
    /\ LET r == Head(mailbox) IN
          /\ Contains(op.refs, r)
          /\ mailbox' = Tail(mailbox)
          /\ returned' = returned \union {r}
          /\ IF Len(acc) + 1 = Len(op.refs)
             THEN Return(Append(acc, r))
             ELSE acc' = Append(acc, r) /\ UNCHANGED <<op, last>>
    /\ UNCHANGED <<task, ops, dropped>>

\* Mutant: the receive of await removes everything in front of its match.
AwaitNextFlushes ==
    /\ op.kind \in {"await", "all"}
    /\ LET r == op.refs[Len(acc) + 1] IN
          /\ Contains(mailbox, r)
          /\ mailbox' = SelectSeq(mailbox, LAMBDA q : FALSE)
          /\ returned' = returned \union {r}
          /\ IF Len(acc) + 1 = Len(op.refs)
             THEN Return(Append(acc, r))
             ELSE acc' = Append(acc, r) /\ UNCHANGED <<op, last>>
    /\ UNCHANGED <<task, ops, dropped>>

\* The receive of await/1, which await_all/1 runs for one reference after the
\* other: the first message with this reference is taken out of the mailbox.
AwaitNext ==
    /\ op.kind \in {"await", "all"}
    /\ LET r == op.refs[Len(acc) + 1] IN
          /\ \E i \in 1..Len(mailbox) :
                /\ mailbox[i] = r
                /\ \A j \in 1..(i - 1) : mailbox[j] # r
                /\ mailbox' = RemoveAt(mailbox, i)
          /\ returned' = returned \union {r}
          /\ IF Len(acc) + 1 = Len(op.refs)
             THEN Return(Append(acc, r))
             ELSE acc' = Append(acc, r) /\ UNCHANGED <<op, last>>
    /\ UNCHANGED <<task, ops, dropped>>

\* await_any/1 receives any pair; one that is not for it is gone.
AwaitAny ==
    /\ op.kind = "any"
    /\ mailbox # <<>>
    /\ mailbox' = Tail(mailbox)
    /\ LET r == Head(mailbox) IN
          IF Contains(op.refs, r)
          THEN Return(<<r>>) /\ returned' = returned \union {r} /\ UNCHANGED dropped
          ELSE dropped' = dropped \union {r} /\ UNCHANGED <<op, acc, last, returned>>
    /\ UNCHANGED <<task, ops>>

-----------------------------------------------------------------------------

FuturesNext ==
    \/ \E r \in Refs : Async(r) \/ TaskEnds(r) \/ TaskCrashes(r) \/ Begin("await", <<r>>)
    \/ \E list \in Lists : Begin("all", list) \/ Begin("any", list)
    \/ AwaitNext
    \/ AwaitAny

\* The functions given to async return or raise; the parent's receive is
\* scheduled when a message matches.
FuturesSpec ==
    /\ FuturesInit /\ [][FuturesNext]_vars
    /\ \A r \in Refs : WF_vars(TaskEnds(r) \/ TaskCrashes(r))
    /\ WF_vars(AwaitNext \/ AwaitAny)

-----------------------------------------------------------------------------
(* Properties *)

\* Every variable keeps its type.
TypeOK ==
    /\ task \in [Refs -> {"new", "running", "done", "crashed"}]
    /\ mailbox \in Seq(Refs) /\ acc \in Seq(Refs) /\ last \in Seq(Refs)
    /\ op = Idle \/ (op.kind \in {"await", "all", "any"} /\ op.refs \in Lists)
    /\ Len(acc) <= Len(op.refs)
    /\ ops \in 0..MaxOps
    /\ returned \subseteq Refs /\ dropped \subseteq Refs

\* The result of a finished future is in exactly one place: still in the
\* mailbox, handed to the program, or thrown away by await_any.  An await of
\* one future never costs the result of another.
OnePlace ==
    /\ {r \in Refs : task[r] = "done"} = ToSet(mailbox) \union returned \union dropped
    /\ returned \intersect dropped = {}
    /\ ToSet(mailbox) \intersect (returned \union dropped) = {}
    /\ IsInjective(mailbox)

\* The order in which futures finish shows where it should and nowhere else:
\* await_all returns the results in the order of its list, and await_any, of its
\* futures, the one whose result came first.
ResultsInOrder ==
    [][op # Idle /\ op' = Idle =>
          IF op.kind \in {"await", "all"} THEN last' = op.refs
          ELSE \E i \in 1..Len(mailbox) :
                  /\ Contains(op.refs, mailbox[i]) /\ last' = <<mailbox[i]>>
                  /\ \A j \in 1..(i - 1) : ~Contains(op.refs, mailbox[j])]_vars

Fresh(r) == r \notin returned \union dropped /\ task[r] \in {"running", "done"}

\* An await or await_all of futures whose results nobody has taken yet comes to
\* its end, unless one of them crashes: neither the order in which they finish
\* nor other results in the mailbox can block it.
FreshAwaitReturns ==
    \A list \in Lists :
        (op.kind \in {"await", "all"} /\ op.refs = list /\ acc = <<>>
            /\ \A i \in 1..Len(list) : Fresh(list[i]))
        ~> (op = Idle \/ \E i \in 1..Len(list) : task[list[i]] = "crashed")

\* The comment on await/1: it "blocks until the spawned process sends back
\* {Ref, Result}".  Awaiting a future for the first time, after or before its
\* process has sent the result, returns.
AwaitReturnsOnceSent ==
    \A r \in Refs :
        (op = [kind |-> "await", refs |-> <<r>>] /\ r \notin returned /\ task[r] = "done")
        ~> op = Idle
=============================================================================
