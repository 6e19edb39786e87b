--------------------------- MODULE FuturesProofs ---------------------------
(***************************************************************************)
(* Theorems about futures, for any number of them.                         *)
(***************************************************************************)
EXTENDS Futures, SeqFacts, FiniteSetTheorems, TLAPS

Kinds == {"await", "all", "any"}

LEMMA ListFacts ==
    /\ \A list \in Lists : list \in Seq(Refs) /\ Len(list) \in Nat \ {0}
    /\ \A r \in Refs : <<r>> \in Lists
<1>1. ASSUME NEW list \in Lists PROVE list \in Seq(Refs) /\ Len(list) \in Nat \ {0}
    <2>1. PICK n \in 1..Cardinality(Refs) : list \in [1..n -> Refs]
        BY DEF Lists
    <2>2. n \in Nat \ {0}
        OBVIOUS
    <2> QED BY <2>1, <2>2
<1>2. ASSUME NEW r \in Refs PROVE <<r>> \in Lists
    <2>1. Cardinality(Refs) \in Nat /\ Cardinality(Refs) # 0
        BY FuturesAssumption, FS_CardinalityType, FS_EmptySet
    <2>2. 1 \in 1..Cardinality(Refs)
        BY <2>1
    <2>3. <<r>> \in [1..1 -> Refs] /\ IsInjective(<<r>>)
        BY DEF IsInjective
    <2> QED BY <2>2, <2>3 DEF Lists
<1> QED BY <1>1, <1>2

Typed ==
    /\ task \in [Refs -> {"new", "running", "done", "crashed"}]
    /\ mailbox \in Seq(Refs) /\ acc \in Seq(Refs) /\ last \in Seq(Refs)
    /\ op = Idle \/ \E k \in Kinds, list \in Lists : op = [kind |-> k, refs |-> list]
    /\ ops \in 0..MaxOps
    /\ returned \subseteq Refs /\ dropped \subseteq Refs

\* await_all has collected the results of a proper beginning of its list.
Collected ==
    IF op = Idle THEN acc = <<>>
    ELSE Len(acc) < Len(op.refs) /\ \A i \in 1..Len(acc) : acc[i] = op.refs[i]

FuturesInv == Typed /\ Collected /\ OnePlace

\* The mailbox without the result at place i.
LEMMA OneTaken ==
    ASSUME NEW q \in Seq(Refs), IsInjective(q), NEW i \in 1..Len(q),
           NEW r \in Seq(Refs), Len(r) = Len(q) - 1,
           \A j \in 1..Len(r) : r[j] = IF j < i THEN q[j] ELSE q[j + 1]
    PROVE  IsInjective(r) /\ ToSet(r) = ToSet(q) \ {q[i]}
<1>0. /\ Len(q) \in Nat /\ Len(r) \in Nat /\ i \in Nat
      /\ DOMAIN q = 1..Len(q) /\ DOMAIN r = 1..Len(r)
    OBVIOUS
<1> DEFINE At(j) == IF j < i THEN j ELSE j + 1
<1>1. \A j \in 1..Len(r) : At(j) \in 1..Len(q) /\ At(j) # i /\ r[j] = q[At(j)]
    BY <1>0
<1>2. \A j \in 1..Len(q) : j # i => \E k \in 1..Len(r) : At(k) = j
    <2> TAKE j \in 1..Len(q)
    <2> HAVE j # i
    <2>1. CASE j < i
        BY <1>0, <2>1
    <2>2. CASE j > i
        <3>1. j - 1 \in 1..Len(r) /\ At(j - 1) = j
            BY <1>0, <2>2
        <3> QED BY <3>1
    <2> QED BY <1>0, <2>1, <2>2
<1>3. \A j, k \in 1..Len(r) : At(j) = At(k) => j = k
    BY <1>0
<1> HIDE DEF At
<1>4. IsInjective(r)
    BY <1>0, <1>1, <1>3, SMTT(30) DEF IsInjective
<1>5. ToSet(r) = ToSet(q) \ {q[i]}
    <2>1. \A e : e \in ToSet(r) <=> e \in ToSet(q) /\ e # q[i]
        <3> TAKE e
        <3>1. ASSUME e \in ToSet(r) PROVE e \in ToSet(q) /\ e # q[i]
            <4>1. PICK j \in 1..Len(r) : e = r[j]
                BY <1>0, <3>1 DEF ToSet
            <4>2. At(j) \in 1..Len(q) /\ At(j) # i /\ e = q[At(j)]
                BY <1>1, <4>1
            <4> QED BY <1>0, <4>2 DEF ToSet, IsInjective
        <3>2. ASSUME e \in ToSet(q), e # q[i] PROVE e \in ToSet(r)
            <4>1. PICK j \in 1..Len(q) : e = q[j]
                BY <1>0, <3>2 DEF ToSet
            <4>2. PICK k \in 1..Len(r) : At(k) = j
                BY <1>2, <3>2, <4>1
            <4> QED BY <1>0, <1>1, <4>1, <4>2 DEF ToSet
        <3> QED BY <3>1, <3>2
    <2> QED BY <2>1, Zenon
<1> QED BY <1>4, <1>5

LEMMA TakenAt ==
    ASSUME NEW q \in Seq(Refs), IsInjective(q), NEW i \in 1..Len(q)
    PROVE  /\ RemoveAt(q, i) \in Seq(Refs)
           /\ IsInjective(RemoveAt(q, i)) /\ ToSet(RemoveAt(q, i)) = ToSet(q) \ {q[i]}
<1>1. PICK r : r = RemoveAt(q, i)
    OBVIOUS
<1>2. /\ r \in Seq(Refs) /\ Len(r) = Len(q) - 1
      /\ \A j \in 1..Len(r) : r[j] = IF j < i THEN q[j] ELSE q[j + 1]
    BY <1>1, RemoveFacts DEF RemoveAt
<1>3. IsInjective(r) /\ ToSet(r) = ToSet(q) \ {q[i]}
    BY <1>2, OneTaken, Zenon
<1> QED BY <1>1, <1>2, <1>3, Zenon

LEMMA TakenFirst ==
    ASSUME NEW q \in Seq(Refs), IsInjective(q), q # <<>>
    PROVE  /\ Tail(q) \in Seq(Refs) /\ Head(q) = q[1] /\ 1 \in 1..Len(q)
           /\ IsInjective(Tail(q)) /\ ToSet(Tail(q)) = ToSet(q) \ {Head(q)}
<1>1. PICK r : r = Tail(q)
    OBVIOUS
<1>2. Head(q) = q[1] /\ 1 \in 1..Len(q)
    OBVIOUS
<1>3. /\ r \in Seq(Refs) /\ Len(r) = Len(q) - 1
      /\ \A j \in 1..Len(r) : r[j] = q[j + 1]
    BY <1>1, TailType
<1>4. \A j \in 1..Len(r) : r[j] = IF j < 1 THEN q[j] ELSE q[j + 1]
    BY <1>3
<1>5. IsInjective(r) /\ ToSet(r) = ToSet(q) \ {q[1]}
    BY <1>2, <1>3, <1>4, OneTaken, ZenonT(60)
<1> QED BY <1>1, <1>2, <1>3, <1>5, Zenon

LEMMA Sent ==
    ASSUME NEW q \in Seq(Refs), IsInjective(q), NEW e \in Refs, e \notin ToSet(q)
    PROVE  /\ Append(q, e) \in Seq(Refs)
           /\ IsInjective(Append(q, e)) /\ ToSet(Append(q, e)) = ToSet(q) \union {e}
<1>1. PICK r : r = Append(q, e)
    OBVIOUS
<1>2. /\ r \in Seq(Refs) /\ Len(r) = Len(q) + 1 /\ Len(q) \in Nat
      /\ \A i \in 1..Len(q) : r[i] = q[i]
      /\ r[Len(q) + 1] = e
    BY <1>1, AppendFacts
<1>3. DOMAIN q = 1..Len(q) /\ DOMAIN r = 1..(Len(q) + 1)
    BY <1>2
<1>4. \A i : i \in DOMAIN r <=> i \in DOMAIN q \/ i = Len(q) + 1
    BY <1>2, <1>3
<1>5. \A i \in DOMAIN q : q[i] # e /\ r[i] = q[i]
    BY <1>2, <1>3 DEF ToSet
<1>6. IsInjective(r)
    BY <1>2, <1>4, <1>5 DEF IsInjective
<1>7. ToSet(r) = ToSet(q) \union {e}
    <2>1. \A x : x \in ToSet(r) <=> x \in ToSet(q) \/ x = e
        BY <1>2, <1>4, <1>5 DEF ToSet
    <2> QED BY <2>1, Zenon
<1> QED BY <1>1, <1>2, <1>6, <1>7, Zenon

\* A future that is not done has no result anywhere.
LEMMA NotDoneYet ==
    ASSUME OnePlace, NEW r \in Refs, task[r] # "done"
    PROVE  r \notin ToSet(mailbox) /\ r \notin returned /\ r \notin dropped
BY DEF OnePlace

LEMMA TasksKeepInv ==
    ASSUME FuturesInv, NEW r \in Refs, Async(r) \/ TaskEnds(r) \/ TaskCrashes(r)
    PROVE  FuturesInv'
<1>0. Typed /\ Collected /\ OnePlace /\ IsInjective(mailbox)
    BY DEF FuturesInv, OnePlace
<1>1. UNCHANGED <<op, acc, last, ops, returned, dropped>>
    BY DEF Async, TaskEnds, TaskCrashes
<1>2. Collected'
    BY <1>0, <1>1 DEF Collected
<1>3. task[r] \in {"new", "running"}
    BY DEF Async, TaskEnds, TaskCrashes
<1>4. r \notin ToSet(mailbox) /\ r \notin returned /\ r \notin dropped
    BY <1>0, <1>3, NotDoneYet
<1>5. CASE Async(r) \/ TaskCrashes(r)
    <2>1. mailbox' = mailbox /\ \A q \in Refs : task'[q] = "done" <=> task[q] = "done"
        BY <1>0, <1>5 DEF Async, TaskCrashes, Typed
    <2>2. Typed'
        BY <1>0, <1>1, <1>5, <2>1 DEF Typed, Async, TaskCrashes
    <2>3. OnePlace'
        BY <1>0, <1>1, <2>1 DEF OnePlace
    <2> QED BY <1>2, <2>2, <2>3 DEF FuturesInv
<1>6. CASE TaskEnds(r)
    <2>1. mailbox' = Append(mailbox, r) /\ task' = [task EXCEPT ![r] = "done"]
        BY <1>6 DEF TaskEnds
    <2>2. mailbox' \in Seq(Refs) /\ IsInjective(mailbox') /\ ToSet(mailbox') = ToSet(mailbox) \union {r}
        BY <1>0, <1>4, <2>1, Sent DEF Typed
    <2>3. Typed'
        BY <1>0, <1>1, <2>1, <2>2 DEF Typed
    <2>4. {q \in Refs : task'[q] = "done"} = {q \in Refs : task[q] = "done"} \union {r}
        BY <1>0, <2>1 DEF Typed
    <2>5. OnePlace'
        BY <1>0, <1>1, <1>4, <2>2, <2>4 DEF OnePlace
    <2> QED BY <1>2, <2>3, <2>5 DEF FuturesInv
<1> QED BY <1>5, <1>6

LEMMA BeginKeepsInv ==
    ASSUME FuturesInv, NEW k \in Kinds, NEW list \in Lists, Begin(k, list)
    PROVE  FuturesInv'
<1>0. Typed /\ OnePlace
    BY DEF FuturesInv
<1>1. /\ op' = [kind |-> k, refs |-> list] /\ acc' = <<>> /\ ops' = ops + 1 /\ ops < MaxOps
      /\ UNCHANGED <<task, mailbox, last, returned, dropped>>
    BY DEF Begin
<1>2. op' # Idle /\ Len(list) \in Nat \ {0}
    <2>1. Len(list) # 0
        BY ListFacts
    <2>2. op'.refs # Idle.refs
        BY <1>1, <2>1 DEF Idle
    <2> QED BY <2>2, ListFacts
<1>3. Typed'
    <2>1. ops' \in 0..MaxOps
        BY <1>0, <1>1, FuturesAssumption DEF Typed
    <2> QED BY <1>0, <1>1, <2>1 DEF Typed
<1>4. Collected'
    BY <1>1, <1>2 DEF Collected
<1>5. OnePlace'
    BY <1>0, <1>1 DEF OnePlace
<1> QED BY <1>3, <1>4, <1>5 DEF FuturesInv

\* A result that leaves the mailbox goes to one other place.
LEMMA ResultMoves ==
    ASSUME OnePlace, NEW r, r \in ToSet(mailbox), UNCHANGED task,
           ToSet(mailbox') = ToSet(mailbox) \ {r}, IsInjective(mailbox'),
           \/ returned' = returned \union {r} /\ dropped' = dropped
           \/ dropped' = dropped \union {r} /\ returned' = returned
    PROVE  OnePlace'
<1>1. r \notin returned /\ r \notin dropped
    BY DEF OnePlace
<1>2. ToSet(mailbox') \union returned' \union dropped' = ToSet(mailbox) \union returned \union dropped
    OBVIOUS
<1> QED BY <1>1, <1>2 DEF OnePlace

LEMMA AwaitNextFacts ==
    ASSUME FuturesInv, AwaitNext
    PROVE  FuturesInv' /\ (op' = Idle => last' = op.refs)
<1>0. Typed /\ Collected /\ OnePlace /\ IsInjective(mailbox) /\ mailbox \in Seq(Refs)
    BY DEF FuturesInv, OnePlace, Typed
<1>1. op # Idle
    BY DEF AwaitNext, Idle
<1>2. PICK k \in Kinds, list \in Lists : op = [kind |-> k, refs |-> list]
    BY <1>0, <1>1 DEF Typed
<1>3. /\ op.refs = list /\ list \in Seq(Refs) /\ Len(list) \in Nat
      /\ acc \in Seq(Refs) /\ Len(acc) \in Nat /\ Len(acc) < Len(list)
      /\ \A i \in 1..Len(acc) : acc[i] = list[i]
    BY <1>0, <1>1, <1>2, ListFacts DEF Collected, Typed
<1>4. PICK r : r = list[Len(acc) + 1]
    OBVIOUS
<1>5. r \in Refs
    <2>1. Len(acc) + 1 \in 1..Len(list)
        BY <1>3
    <2> QED BY <1>3, <1>4, <2>1, ElementType
<1>6. PICK i \in 1..Len(mailbox) : mailbox[i] = r /\ mailbox' = RemoveAt(mailbox, i)
    BY <1>3, <1>4 DEF AwaitNext
<1>7. /\ returned' = returned \union {r} /\ UNCHANGED <<task, ops, dropped>>
      /\ IF Len(acc) + 1 = Len(list) THEN op' = Idle /\ last' = Append(acc, r) /\ acc' = <<>>
         ELSE acc' = Append(acc, r) /\ UNCHANGED <<op, last>>
    BY <1>3, <1>4 DEF AwaitNext, Return
<1>8. /\ mailbox' \in Seq(Refs) /\ IsInjective(mailbox') /\ ToSet(mailbox') = ToSet(mailbox) \ {r}
    BY <1>0, <1>6, TakenAt
<1>9. r \in ToSet(mailbox)
    BY <1>0, <1>6 DEF ToSet
<1>10. OnePlace'
    BY <1>0, <1>7, <1>8, <1>9, ResultMoves
<1>11. /\ Append(acc, r) \in Seq(Refs) /\ Len(Append(acc, r)) = Len(acc) + 1
       /\ \A j \in 1..(Len(acc) + 1) : Append(acc, r)[j] = list[j]
    <2>1. /\ Append(acc, r) \in Seq(Refs) /\ Len(Append(acc, r)) = Len(acc) + 1
          /\ \A j \in 1..Len(acc) : Append(acc, r)[j] = acc[j]
          /\ Append(acc, r)[Len(acc) + 1] = r
        BY <1>3, <1>5, AppendFacts
    <2>2. \A j \in 1..(Len(acc) + 1) : j \in 1..Len(acc) \/ j = Len(acc) + 1
        BY <1>3
    <2> QED BY <1>3, <1>4, <2>1, <2>2
<1>12. Typed'
    <2>1. acc' \in Seq(Refs) /\ last' \in Seq(Refs)
        <3>1. <<>> \in Seq(Refs) /\ last \in Seq(Refs)
            BY <1>0 DEF Typed
        <3>2. Append(acc, r) \in Seq(Refs)
            BY <1>11
        <3> QED BY <1>7, <3>1, <3>2, Zenon
    <2>2. op' = Idle \/ op' = op
        BY <1>7
    <2>3. returned' \subseteq Refs
        BY <1>0, <1>5, <1>7 DEF Typed
    <2> QED BY <1>0, <1>7, <1>8, <2>1, <2>2, <2>3, Zenon DEF Typed
<1>13. CASE Len(acc) + 1 = Len(list)
    <2>1. op' = Idle /\ last' = Append(acc, r) /\ acc' = <<>>
        BY <1>7, <1>13
    <2>2. Append(acc, r) = list
        BY <1>3, <1>11, <1>13, SameSequence
    <2> QED BY <1>3, <1>10, <1>12, <2>1, <2>2 DEF FuturesInv, Collected
<1>14. CASE Len(acc) + 1 # Len(list)
    <2>1. acc' = Append(acc, r) /\ op' = op
        BY <1>7, <1>14
    <2>2. Len(acc) + 1 < Len(list)
        BY <1>3, <1>14
    <2>3. Collected'
        BY <1>1, <1>3, <1>11, <2>1, <2>2 DEF Collected
    <2> QED BY <1>1, <1>10, <1>12, <2>1, <2>3 DEF FuturesInv
<1> QED BY <1>13, <1>14

LEMMA AwaitAnyFacts ==
    ASSUME FuturesInv, AwaitAny
    PROVE  /\ FuturesInv'
           /\ op' = Idle => \E i \in 1..Len(mailbox) :
                /\ Contains(op.refs, mailbox[i]) /\ last' = <<mailbox[i]>>
                /\ \A j \in 1..(i - 1) : ~Contains(op.refs, mailbox[j])
<1>0. Typed /\ Collected /\ OnePlace /\ IsInjective(mailbox) /\ mailbox \in Seq(Refs) /\ mailbox # <<>>
    BY DEF FuturesInv, OnePlace, Typed, AwaitAny
<1>1. op # Idle
    BY DEF AwaitAny, Idle
<1>2. PICK r : r = Head(mailbox)
    OBVIOUS
<1>3. /\ mailbox' = Tail(mailbox) /\ UNCHANGED <<task, ops>>
      /\ IF Contains(op.refs, r)
         THEN op' = Idle /\ last' = <<r>> /\ acc' = <<>> /\ returned' = returned \union {r} /\ dropped' = dropped
         ELSE dropped' = dropped \union {r} /\ UNCHANGED <<op, acc, last, returned>>
    BY <1>2 DEF AwaitAny, Return
<1>4. /\ mailbox' \in Seq(Refs) /\ IsInjective(mailbox') /\ ToSet(mailbox') = ToSet(mailbox) \ {r}
      /\ r = mailbox[1] /\ 1 \in 1..Len(mailbox)
    BY <1>0, <1>2, <1>3, TakenFirst
<1>5. r \in ToSet(mailbox) /\ r \in Refs
    BY <1>0, <1>4 DEF ToSet
<1>6. OnePlace'
    BY <1>0, <1>3, <1>4, <1>5, ResultMoves
<1>7. Typed'
    <2>1. acc' \in Seq(Refs) /\ last' \in Seq(Refs)
        <3>1. <<>> \in Seq(Refs) /\ last \in Seq(Refs) /\ acc \in Seq(Refs)
            BY <1>0 DEF Typed
        <3>2. <<r>> \in Seq(Refs)
            BY <1>5
        <3> QED BY <1>3, <3>1, <3>2, Zenon
    <2>2. op' = Idle \/ op' = op
        BY <1>3
    <2>3. returned' \subseteq Refs /\ dropped' \subseteq Refs
        BY <1>0, <1>3, <1>5 DEF Typed
    <2> QED BY <1>0, <1>3, <1>4, <2>1, <2>2, <2>3, Zenon DEF Typed
<1>8. Collected'
    BY <1>0, <1>1, <1>3 DEF Collected
<1>9. op' = Idle => \E i \in 1..Len(mailbox) :
                /\ Contains(op.refs, mailbox[i]) /\ last' = <<mailbox[i]>>
                /\ \A j \in 1..(i - 1) : ~Contains(op.refs, mailbox[j])
    <2>1. ASSUME op' = Idle PROVE Contains(op.refs, mailbox[1]) /\ last' = <<mailbox[1]>>
        BY <1>1, <1>3, <1>4, <2>1
    <2>2. \A j \in 1..(1 - 1) : FALSE
        OBVIOUS
    <2> QED BY <1>4, <2>1, <2>2
<1> QED BY <1>6, <1>7, <1>8, <1>9 DEF FuturesInv

LEMMA FuturesStep == FuturesInv /\ [FuturesNext]_vars => FuturesInv'
<1> SUFFICES ASSUME FuturesInv, [FuturesNext]_vars PROVE FuturesInv'
    OBVIOUS
<1>1. ASSUME NEW r \in Refs, Begin("await", <<r>>) PROVE FuturesInv'
    BY <1>1, ListFacts, BeginKeepsInv DEF Kinds
<1>2. ASSUME NEW list \in Lists, Begin("all", list) \/ Begin("any", list) PROVE FuturesInv'
    BY <1>2, BeginKeepsInv DEF Kinds
<1>3. CASE UNCHANGED vars
    BY <1>3 DEF vars, FuturesInv, Typed, Collected, OnePlace
<1> QED BY <1>1, <1>2, <1>3, TasksKeepInv, AwaitNextFacts, AwaitAnyFacts DEF FuturesNext

LEMMA FuturesAlways == FuturesSpec => []FuturesInv
<1>1. FuturesInit => FuturesInv
    BY FuturesAssumption DEF FuturesInit, FuturesInv, Typed, Collected, OnePlace, ToSet, IsInjective
<1> QED BY <1>1, FuturesStep, PTL DEF FuturesSpec

\* Whatever is awaited, in whatever order futures finish: the result of each is
\* in the mailbox, handed out, or thrown away by await_any, and in one of these
\* places only.
THEOREM FuturesOnePlace == FuturesSpec => []OnePlace
<1>1. FuturesInv => OnePlace
    BY DEF FuturesInv
<1> QED BY <1>1, FuturesAlways, PTL

\* await and await_all return the results in the order of the list, await_any
\* the earliest result of those asked for.
THEOREM FuturesResultsInOrder == FuturesSpec => ResultsInOrder
<1> DEFINE Ordered ==
        op # Idle /\ op' = Idle =>
          IF op.kind \in {"await", "all"} THEN last' = op.refs
          ELSE \E i \in 1..Len(mailbox) :
                  /\ Contains(op.refs, mailbox[i]) /\ last' = <<mailbox[i]>>
                  /\ \A j \in 1..(i - 1) : ~Contains(op.refs, mailbox[j])
<1>1. FuturesInv /\ [FuturesNext]_vars => [Ordered]_vars
    <2> SUFFICES ASSUME FuturesInv, FuturesNext PROVE Ordered
        OBVIOUS
    <2>1. CASE AwaitNext
        <3>1. op.kind \in {"await", "all"}
            BY <2>1 DEF AwaitNext
        <3> QED BY <2>1, <3>1, AwaitNextFacts
    <2>2. CASE AwaitAny
        <3>1. op.kind \notin {"await", "all"}
            BY <2>2 DEF AwaitAny
        <3> QED BY <2>2, <3>1, AwaitAnyFacts
    <2>3. CASE ~(op # Idle /\ op' = Idle)
        BY <2>3
    <2>4. ASSUME NEW r \in Refs, Async(r) \/ TaskEnds(r) \/ TaskCrashes(r) PROVE op' = op
        BY <2>4 DEF Async, TaskEnds, TaskCrashes
    <2>5. ASSUME NEW k, NEW list, Begin(k, list) PROVE op = Idle
        BY <2>5 DEF Begin
    <2> QED BY <2>1, <2>2, <2>3, <2>4, <2>5 DEF FuturesNext
<1>2. FuturesSpec => [][Ordered]_vars
    BY <1>1, FuturesAlways, PTL DEF FuturesSpec
<1> QED BY <1>2 DEF ResultsInOrder
============================================================================
