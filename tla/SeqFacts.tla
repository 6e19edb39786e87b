----------------------------- MODULE SeqFacts -----------------------------
(***************************************************************************)
(* Facts about sequences and parity that the proofs of several components  *)
(* cite: what a queue holds after a receive, a send, or both; what the     *)
(* parts of a sequence put together are.                                   *)
(***************************************************************************)
EXTENDS Integers, Sequences, SequencesExt, WellFoundedInduction, TLAPS

\* What a queue holds has the type of the queue.
LEMMA ElementType ==
    ASSUME NEW S, NEW q \in Seq(S)
    PROVE  \A i \in 1..Len(q) : q[i] \in S
OBVIOUS

\* What is left of a queue after its head is taken.
LEMMA TailType ==
    ASSUME NEW S, NEW q \in Seq(S), q # <<>>
    PROVE  /\ Head(q) \in S /\ Tail(q) \in Seq(S) /\ Len(Tail(q)) = Len(q) - 1
           /\ \A i \in 1..Len(Tail(q)) : Tail(q)[i] = q[i + 1] /\ i + 1 \in 1..Len(q)
OBVIOUS

\* The same for the two fragments of a packet.
LEMMA Tail2Type ==
    ASSUME NEW S, NEW q \in Seq(S), Len(q) >= 2
    PROVE  /\ Tail(Tail(q)) \in Seq(S) /\ Len(Tail(Tail(q))) = Len(q) - 2
           /\ \A i \in 1..Len(Tail(Tail(q))) : Tail(Tail(q))[i] = q[i + 2] /\ i + 2 \in 1..Len(q)
<1> DEFINE r == Tail(q)
<1>1. q # <<>>
    OBVIOUS
<1>2. /\ r \in Seq(S) /\ Len(r) = Len(q) - 1 /\ Len(q) \in Nat
      /\ \A i \in 1..Len(r) : r[i] = q[i + 1]
    BY <1>1, TailType
<1> HIDE DEF r
<1>3. r # <<>>
    BY <1>2
<1>4. /\ Tail(r) \in Seq(S) /\ Len(Tail(r)) = Len(r) - 1
      /\ \A i \in 1..Len(Tail(r)) : Tail(r)[i] = r[i + 1] /\ i + 1 \in 1..Len(r)
    BY <1>2, <1>3, TailType
<1>5. \A i \in 1..Len(Tail(r)) : Tail(r)[i] = q[i + 2] /\ i + 2 \in 1..Len(q)
    BY <1>2, <1>4
<1> QED BY <1>2, <1>4, <1>5 DEF r

\* A queue after a send.
LEMMA AppendFacts ==
    ASSUME NEW S, NEW q \in Seq(S), NEW e \in S
    PROVE  /\ Append(q, e) \in Seq(S) /\ Len(Append(q, e)) = Len(q) + 1 /\ Len(q) \in Nat
           /\ \A i \in 1..Len(q) : Append(q, e)[i] = q[i]
           /\ Append(q, e)[Len(q) + 1] = e
OBVIOUS

\* A send shows at the end of what was sent before.
LEMMA ConcatAppend ==
    ASSUME NEW S, NEW q \in Seq(S), NEW r \in Seq(S), NEW e \in S
    PROVE  q \o Append(r, e) = Append(q \o r, e)
OBVIOUS

\* A receive moves the head from the queue to the end of what was received.
LEMMA ConcatMove ==
    ASSUME NEW S, NEW q \in Seq(S), NEW r \in Seq(S), r # <<>>
    PROVE  Append(q, Head(r)) \o Tail(r) = q \o r
OBVIOUS

\* Two sequences put together.
LEMMA ConcatFacts ==
    ASSUME NEW S, NEW q \in Seq(S), NEW r \in Seq(S)
    PROVE  /\ q \o r \in Seq(S) /\ Len(q \o r) = Len(q) + Len(r)
           /\ \A i \in 1..(Len(q) + Len(r)) : (q \o r)[i] = IF i <= Len(q) THEN q[i] ELSE r[i - Len(q)]
OBVIOUS

\* How sequences are put together does not matter.
LEMMA ConcatAssoc ==
    ASSUME NEW S, NEW q \in Seq(S), NEW r \in Seq(S), NEW w \in Seq(S)
    PROVE  q \o (r \o w) = (q \o r) \o w
OBVIOUS

\* A selective receive takes the message at place i out of a mailbox.
LEMMA RemoveFacts ==
    ASSUME NEW S, NEW q \in Seq(S), NEW i \in 1..Len(q)
    PROVE  LET r == SubSeq(q, 1, i - 1) \o SubSeq(q, i + 1, Len(q))
           IN  /\ r \in Seq(S) /\ Len(r) = Len(q) - 1 /\ Len(q) \in Nat
               /\ \A j \in 1..Len(r) : r[j] = IF j < i THEN q[j] ELSE q[j + 1]
<1> DEFINE r == SubSeq(q, 1, i - 1) \o SubSeq(q, i + 1, Len(q))
           a == SubSeq(q, 1, i - 1)
           b == SubSeq(q, i + 1, Len(q))
<1>0. Len(q) \in Nat /\ i \in Nat /\ i >= 1 /\ i <= Len(q)
    OBVIOUS
<1>1. a \in Seq(S) /\ Len(a) = i - 1 /\ \A j \in 1..(i - 1) : a[j] = q[j]
    BY <1>0
<1>2. b \in Seq(S) /\ Len(b) = Len(q) - i /\ \A j \in 1..(Len(q) - i) : b[j] = q[j + i]
    BY <1>0
<1>3. r = a \o b
    OBVIOUS
<1> HIDE DEF a, b, r
<1>4. /\ r \in Seq(S) /\ Len(r) = Len(a) + Len(b)
      /\ \A j \in 1..(Len(a) + Len(b)) : r[j] = IF j <= Len(a) THEN a[j] ELSE b[j - Len(a)]
    <2>1. a \in Seq(S) /\ b \in Seq(S)
        BY <1>1, <1>2
    <2> QED BY <1>3, <2>1, ConcatFacts
<1>5. Len(r) = Len(q) - 1
    <2>1. Len(a) = i - 1 /\ Len(b) = Len(q) - i
        BY <1>1, <1>2
    <2> QED BY <1>0, <1>4, <2>1
<1>6. ASSUME NEW j \in 1..Len(r) PROVE r[j] = IF j < i THEN q[j] ELSE q[j + 1]
    <2>0. j \in Nat /\ j >= 1 /\ j <= Len(q) - 1 /\ j \in 1..(Len(a) + Len(b))
        <3>1. Len(a) = i - 1 /\ Len(b) = Len(q) - i
            BY <1>1, <1>2
        <3> QED BY <1>0, <1>5, <3>1
    <2>1. CASE j < i
        <3>1. j \in 1..(i - 1) /\ j <= Len(a)
            BY <1>0, <1>1, <2>0, <2>1
        <3> QED BY <1>1, <1>4, <2>0, <2>1, <3>1
    <2>2. CASE ~(j < i)
        <3>1. j - (i - 1) \in 1..(Len(q) - i) /\ (j - (i - 1)) + i = j + 1 /\ ~(j <= i - 1)
            BY <1>0, <2>0, <2>2
        <3>2. r[j] = b[j - (i - 1)]
            BY <1>1, <1>4, <2>0, <3>1
        <3>3. b[j - (i - 1)] = q[(j - (i - 1)) + i]
            BY <1>2, <3>1
        <3> QED BY <2>2, <3>1, <3>2, <3>3
    <2> QED BY <2>1, <2>2
<1> QED BY <1>0, <1>4, <1>5, <1>6 DEF r

\* Sequences with the same elements are the same.
LEMMA SameSequence ==
    ASSUME NEW S, NEW q \in Seq(S), NEW r \in Seq(S), Len(q) = Len(r),
           \A i \in 1..Len(q) : q[i] = r[i]
    PROVE  q = r
OBVIOUS

\* A sequence that begins like a and goes on like b.
LEMMA ConcatIs ==
    ASSUME NEW S, NEW a \in Seq(S), NEW b \in Seq(S), NEW c \in Seq(S), Len(c) = Len(a) + Len(b),
           \A i \in 1..(Len(a) + Len(b)) : c[i] = IF i <= Len(a) THEN a[i] ELSE b[i - Len(a)]
    PROVE  c = a \o b
<1> DEFINE d == a \o b
<1>1. d \in Seq(S) /\ Len(c) = Len(d) /\ \A i \in 1..Len(c) : c[i] = d[i]
    BY ConcatFacts
<1> HIDE DEF d
<1>2. c = d
    BY <1>1, SameSequence
<1> QED BY <1>2 DEF d

\* Odd and even places of a queue of pairs.
LEMMA Parity ==
    /\ \A n \in Int :
        /\ n % 2 \in {0, 1} /\ (n + 2) % 2 = n % 2 /\ (n - 2) % 2 = n % 2
        /\ (n + 1) % 2 = 1 <=> n % 2 = 0
    /\ 0 % 2 = 0 /\ 1 % 2 = 1 /\ 2 % 2 = 0
OBVIOUS

-----------------------------------------------------------------------------
(* FlattenSeq *)

\* A set of naturals that is not empty has a least element.
LEMMA LeastOf ==
    ASSUME NEW T, T \subseteq Nat, T # {}
    PROVE  \E x \in T : \A y \in T : x <= y
<1> DEFINE R == {ss \in Nat \X Nat : ss[1] < ss[2]}
<1>0. IsWellFoundedOn(R, Nat)
    BY NatLessThanWellFounded DEF OpToRel
<1>1. PICK x \in T : \A y \in T : ~(<<y, x>> \in R)
    <2> HIDE DEF R
    <2> QED BY <1>0, WFMin
<1>2. \A y \in T : ~(y < x)
    BY <1>1
<1> QED BY <1>1, <1>2

\* g holds, at i, the first i sequences of s put together.
Flattens(g, s, n) ==
    \A i \in 1..n : g[i] = IF i = 1 THEN s[i] ELSE g[i - 1] \o s[i]

\* There is such a g.
LEMMA FlattensExists ==
    ASSUME NEW S, NEW s \in Seq(Seq(S))
    PROVE  \E g \in [1..Len(s) -> Seq(S)] : Flattens(g, s, Len(s))
<1> DEFINE P(n) == \E g \in [1..n -> Seq(S)] : Flattens(g, s, n)
           T == {n \in 0..Len(s) : ~P(n)}
<1>0. Len(s) \in Nat /\ \A i \in 1..Len(s) : s[i] \in Seq(S)
    BY ElementType
<1> SUFFICES ASSUME T # {} PROVE FALSE
    BY <1>0
<1>1. PICK m \in T : \A y \in T : m <= y
    <2>1. T \subseteq Nat
        BY <1>0
    <2> HIDE DEF T
    <2> QED BY <2>1, LeastOf
<1>2. m \in 0..Len(s) /\ ~P(m)
    BY <1>1
<1>3. m # 0
    <2>1. [i \in 1..0 |-> <<>>] \in [1..0 -> Seq(S)] /\ 1..0 = {}
        OBVIOUS
    <2>2. Flattens([i \in 1..0 |-> <<>>], s, 0)
        BY <2>1 DEF Flattens
    <2> QED BY <1>2, <2>1, <2>2
<1>4. m - 1 \in 0..Len(s) /\ m \in Nat /\ m >= 1
    BY <1>0, <1>2, <1>3
<1>5. P(m - 1)
    <2>1. m - 1 \notin T
        <3> HIDE DEF T
        <3> QED BY <1>1, <1>4
    <2> QED BY <1>4, <2>1
<1>6. PICK g \in [1..(m - 1) -> Seq(S)] : Flattens(g, s, m - 1)
    BY <1>5
<1> DEFINE last == IF m = 1 THEN s[m] ELSE g[m - 1] \o s[m]
           h == [i \in 1..m |-> IF i = m THEN last ELSE g[i]]
<1>7. last \in Seq(S)
    <2>1. s[m] \in Seq(S)
        BY <1>0, <1>2, <1>4
    <2>2. CASE m # 1
        <3>1. m - 1 \in 1..(m - 1)
            BY <1>4, <2>2
        <3>2. g[m - 1] \in Seq(S)
            BY <3>1
        <3> QED BY <2>1, <2>2, <3>2, ConcatFacts
    <2> QED BY <2>1, <2>2
<1>8. h \in [1..m -> Seq(S)]
    BY <1>4, <1>7
<1>9. Flattens(h, s, m)
    <2> SUFFICES ASSUME NEW i \in 1..m PROVE h[i] = IF i = 1 THEN s[i] ELSE h[i - 1] \o s[i]
        BY DEF Flattens
    <2>1. CASE i = m
        BY <1>4, <2>1
    <2>2. CASE i # m
        <3>1. i \in 1..(m - 1) /\ (i # 1 => i - 1 \in 1..m /\ i - 1 # m)
            BY <1>4, <2>2
        <3> QED BY <1>6, <3>1, <2>2 DEF Flattens
    <2> QED BY <2>1, <2>2
<1> QED BY <1>2, <1>8, <1>9

\* And only one.
LEMMA FlattensUnique ==
    ASSUME NEW n \in Nat, NEW s, NEW g, NEW h, Flattens(g, s, n), Flattens(h, s, n)
    PROVE  \A i \in 1..n : g[i] = h[i]
<1> DEFINE T == {i \in 1..n : g[i] # h[i]}
<1> SUFFICES ASSUME T # {} PROVE FALSE
    OBVIOUS
<1>1. PICK m \in T : \A y \in T : m <= y
    <2>1. T \subseteq Nat
        OBVIOUS
    <2> HIDE DEF T
    <2> QED BY <2>1, LeastOf
<1>2. m \in 1..n /\ g[m] # h[m]
    BY <1>1
<1>3. CASE m = 1
    BY <1>2, <1>3 DEF Flattens
<1>4. CASE m # 1
    <2>1. m - 1 \in 1..n /\ m - 1 \notin T
        BY <1>1, <1>2, <1>4
    <2>2. g[m - 1] = h[m - 1]
        BY <2>1
    <2> QED BY <1>2, <1>4, <2>2 DEF Flattens
<1> QED BY <1>3, <1>4

\* FlattenSeq is the last of any such g.
LEMMA FlattenIs ==
    ASSUME NEW S, NEW s \in Seq(Seq(S)), NEW g, Flattens(g, s, Len(s))
    PROVE  FlattenSeq(s) = IF Len(s) = 0 THEN <<>> ELSE g[Len(s)]
<1>0. Len(s) \in Nat
    OBVIOUS
<1>1. CASE Len(s) = 0
    BY <1>1 DEF FlattenSeq
<1>2. CASE Len(s) # 0
    <2> DEFINE F(f) == [i \in 1..Len(s) |-> IF i = 1 THEN s[i] ELSE f[i - 1] \o s[i]]
               f == CHOOSE f : f = F(f)
    <2>1. FlattenSeq(s) = f[Len(s)]
        BY <1>2 DEF FlattenSeq
    <2>2. PICK h \in [1..Len(s) -> Seq(S)] : Flattens(h, s, Len(s))
        BY FlattensExists
    <2>3. h = F(h)
        BY <2>2 DEF Flattens
    <2>4. f = F(f)
        <3> HIDE DEF F
        <3> QED BY <2>3
    <2> HIDE DEF f
    <2>5. Flattens(f, s, Len(s))
        BY <2>4 DEF Flattens
    <2>6. f[Len(s)] = g[Len(s)]
        <3>1. Len(s) \in 1..Len(s)
            BY <1>0, <1>2
        <3> QED BY <1>0, <2>5, <3>1, FlattensUnique
    <2> QED BY <1>2, <2>1, <2>6
<1> QED BY <1>1, <1>2

\* The elements of the parts are those of the whole.
LEMMA FlattenType ==
    ASSUME NEW S, NEW s \in Seq(Seq(S))
    PROVE  FlattenSeq(s) \in Seq(S)
<1>1. PICK g \in [1..Len(s) -> Seq(S)] : Flattens(g, s, Len(s))
    BY FlattensExists
<1>2. FlattenSeq(s) = IF Len(s) = 0 THEN <<>> ELSE g[Len(s)]
    BY <1>1, FlattenIs
<1> QED BY <1>2, SMTT(30)

\* Parts without elements.
LEMMA FlattenEmpties ==
    ASSUME NEW S, NEW s \in Seq(Seq(S)), \A i \in 1..Len(s) : s[i] = <<>>
    PROVE  FlattenSeq(s) = <<>>
<1> DEFINE g == [i \in 1..Len(s) |-> <<>>]
<1>1. \A i \in 1..Len(s) : i # 1 => i - 1 \in 1..Len(s)
    OBVIOUS
<1>2. <<>> \o <<>> = <<>>
    OBVIOUS
<1>3. Flattens(g, s, Len(s))
    BY <1>1, <1>2 DEF Flattens
<1>4. FlattenSeq(s) = IF Len(s) = 0 THEN <<>> ELSE g[Len(s)]
    BY <1>3, FlattenIs
<1> QED BY <1>4

\* One part.
LEMMA FlattenOne ==
    ASSUME NEW S, NEW e \in Seq(S)
    PROVE  FlattenSeq(<<e>>) = e
<1> DEFINE s == <<e>>
<1>1. s \in Seq(Seq(S)) /\ Len(s) = 1 /\ s[1] = e
    OBVIOUS
<1>2. Flattens(s, s, 1)
    BY <1>1 DEF Flattens
<1> HIDE DEF s
<1>3. FlattenSeq(s) = IF Len(s) = 0 THEN <<>> ELSE s[Len(s)]
    BY <1>1, <1>2, FlattenIs
<1> QED BY <1>1, <1>3 DEF s

\* Parts may be put together in two steps.
LEMMA FlattenConcat ==
    ASSUME NEW S, NEW s \in Seq(Seq(S)), NEW t \in Seq(Seq(S))
    PROVE  FlattenSeq(s \o t) = FlattenSeq(s) \o FlattenSeq(t)
<1> DEFINE n == Len(s)
           m == Len(t)
           r == s \o t
<1>0. n \in Nat /\ m \in Nat /\ FlattenSeq(s) \in Seq(S) /\ FlattenSeq(t) \in Seq(S)
    BY FlattenType
<1>1. CASE n = 0
    <2>1. s = <<>> /\ r = t
        <3>1. s = <<>>
            BY <1>1
        <3> QED BY <3>1
    <2>2. FlattenSeq(s) = <<>>
        BY <1>1, <2>1 DEF FlattenSeq
    <2> HIDE DEF r
    <2>3. <<>> \o FlattenSeq(t) = FlattenSeq(t)
        BY <1>0
    <2> QED BY <2>1, <2>2, <2>3, Zenon DEF r
<1>2. CASE m = 0
    <2>1. t = <<>> /\ r = s
        <3>1. t = <<>>
            BY <1>2
        <3> QED BY <3>1
    <2>2. FlattenSeq(t) = <<>>
        BY <1>2, <2>1 DEF FlattenSeq
    <2> HIDE DEF r
    <2>3. FlattenSeq(s) \o <<>> = FlattenSeq(s)
        BY <1>0
    <2> QED BY <2>1, <2>2, <2>3, Zenon DEF r
<1>3. CASE n # 0 /\ m # 0
    <2>1. PICK f \in [1..n -> Seq(S)] : Flattens(f, s, n)
        BY FlattensExists
    <2>2. PICK h \in [1..m -> Seq(S)] : Flattens(h, t, m)
        BY FlattensExists
    <2>3. FlattenSeq(s) = f[n] /\ FlattenSeq(t) = h[m]
        BY <1>3, <2>1, <2>2, FlattenIs
    <2>4. /\ r \in Seq(Seq(S)) /\ Len(r) = n + m
          /\ \A i \in 1..(n + m) : r[i] = IF i <= n THEN s[i] ELSE t[i - n]
        BY ConcatFacts
    <2>5. \A i \in 1..m : t[i] \in Seq(S) /\ h[i] \in Seq(S)
        BY ElementType
    <2>6. f[n] \in Seq(S)
        <3>1. n \in 1..n
            BY <1>0, <1>3
        <3> QED BY <3>1
    <2> HIDE DEF n, m, r
    <2> DEFINE g == [i \in 1..(n + m) |-> IF i <= n THEN f[i] ELSE f[n] \o h[i - n]]
    <2>7. Flattens(g, r, n + m)
        <3> SUFFICES ASSUME NEW i \in 1..(n + m)
                     PROVE  g[i] = IF i = 1 THEN r[i] ELSE g[i - 1] \o r[i]
            BY DEF Flattens
        <3>1. CASE i <= n
            <4>1. i \in 1..n /\ r[i] = s[i] /\ g[i] = f[i]
                BY <1>0, <2>4, <3>1, SMTT(30)
            <4>2. i # 1 => i - 1 \in 1..(n + m) /\ i - 1 <= n
                BY <1>0, <3>1
            <4>3. i # 1 => g[i - 1] = f[i - 1]
                BY <4>2
            <4> HIDE DEF g
            <4> QED BY <2>1, <4>1, <4>3 DEF Flattens
        <3>2. CASE i = n + 1
            <4>1. ~(i <= n) /\ i - n = 1 /\ i # 1 /\ i - 1 = n /\ n \in 1..(n + m) /\ 1 \in 1..m
                BY <1>0, <1>3, <3>2
            <4>2. g[i] = f[n] \o h[1] /\ g[i - 1] = f[n] /\ r[i] = t[1]
                <5>1. i \in 1..(n + m) /\ n <= n
                    BY <1>0
                <5>2. g[i] = f[n] \o h[i - n] /\ g[n] = f[n]
                    BY <4>1, <5>1
                <5> QED BY <2>4, <4>1, <5>2
            <4>3. h[1] = t[1]
                BY <2>2, <4>1 DEF Flattens
            <4> HIDE DEF g
            <4> QED BY <4>1, <4>2, <4>3
        <3>3. CASE i > n + 1
            <4> DEFINE k == i - n
            <4>1. /\ ~(i <= n) /\ ~(i - 1 <= n) /\ i # 1 /\ i - 1 \in 1..(n + m) /\ (i - 1) - n = k - 1
                  /\ k \in 1..m /\ k - 1 \in 1..m /\ k # 1
                BY <1>0, <1>3, <3>3
            <4>2. g[i] = f[n] \o h[k] /\ g[i - 1] = f[n] \o h[k - 1] /\ r[i] = t[k]
                BY <2>4, <4>1
            <4> HIDE DEF g, k
            <4>3. h[k] = h[k - 1] \o t[k]
                BY <2>2, <4>1 DEF Flattens
            <4>4. f[n] \o (h[k - 1] \o t[k]) = (f[n] \o h[k - 1]) \o t[k]
                <5>1. h[k - 1] \in Seq(S) /\ t[k] \in Seq(S)
                    BY <2>5, <4>1
                <5>2. \A a, b, c \in Seq(S) : a \o (b \o c) = (a \o b) \o c
                    BY ConcatAssoc
                <5> QED BY <2>6, <5>1, <5>2, Zenon
            <4> QED BY <4>1, <4>2, <4>3, <4>4
        <3> QED BY <1>0, <3>1, <3>2, <3>3
    <2>8. FlattenSeq(r) = g[n + m]
        <3> HIDE DEF g
        <3>1. FlattenSeq(r) = IF Len(r) = 0 THEN <<>> ELSE g[Len(r)]
            BY <2>4, <2>7, FlattenIs
        <3> QED BY <1>0, <1>3, <2>4, <3>1
    <2>9. g[n + m] = f[n] \o h[m]
        <3>1. n + m \in 1..(n + m) /\ ~(n + m <= n) /\ (n + m) - n = m
            BY <1>0, <1>3
        <3> QED BY <3>1
    <2> QED BY <2>3, <2>8, <2>9, Zenon DEF r
<1> QED BY <1>1, <1>2, <1>3
===========================================================================
