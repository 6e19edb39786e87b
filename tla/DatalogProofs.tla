--------------------------- MODULE DatalogProofs ---------------------------
(***************************************************************************)
(* Theorems about the lowering and the evaluation of facts, rules and      *)
(* queries, for every program and any number of constants and variables.   *)
(***************************************************************************)
EXTENDS Datalog, SeqFacts, FiniteSetTheorems, TLAPS

-----------------------------------------------------------------------------
(* Sequences as sets *)

\* What a sequence holds, as a set.
LEMMA SeqElements ==
    ASSUME NEW S, NEW s \in Seq(S)
    PROVE  /\ ToSet(s) = {s[i] : i \in 1..Len(s)} /\ ToSet(s) \subseteq S
           /\ DOMAIN s = 1..Len(s) /\ Len(s) \in Nat
BY DEF ToSet

LEMMA ConcatElements ==
    ASSUME NEW S, NEW a \in Seq(S), NEW b \in Seq(S)
    PROVE  ToSet(a \o b) = ToSet(a) \cup ToSet(b)
<1> DEFINE c == a \o b
<1>1. /\ c \in Seq(S) /\ Len(c) = Len(a) + Len(b) /\ Len(a) \in Nat /\ Len(b) \in Nat
      /\ \A i \in 1..(Len(a) + Len(b)) : c[i] = IF i <= Len(a) THEN a[i] ELSE b[i - Len(a)]
    BY ConcatFacts
<1>2. DOMAIN c = 1..Len(c) /\ DOMAIN a = 1..Len(a) /\ DOMAIN b = 1..Len(b)
    BY <1>1
<1> HIDE DEF c
<1>3. \A i \in 1..Len(a) : i \in 1..Len(c) /\ c[i] = a[i]
    BY <1>1
<1>4. \A i \in 1..Len(b) : i + Len(a) \in 1..Len(c) /\ c[i + Len(a)] = b[i]
    <2> TAKE i \in 1..Len(b)
    <2>1. i + Len(a) \in 1..(Len(a) + Len(b)) /\ ~(i + Len(a) <= Len(a)) /\ (i + Len(a)) - Len(a) = i
        BY <1>1
    <2> QED BY <1>1, <2>1
<1>5. \A i \in 1..Len(c) : i \in 1..Len(a) \/ i - Len(a) \in 1..Len(b)
    BY <1>1
<1>6. \A i \in 1..Len(c) : c[i] \in ToSet(a) \cup ToSet(b)
    <2> TAKE i \in 1..Len(c)
    <2>1. CASE i <= Len(a)
        BY <1>1, <1>2, <2>1 DEF ToSet
    <2>2. CASE ~(i <= Len(a))
        <3>1. i - Len(a) \in 1..Len(b) /\ c[i] = b[i - Len(a)]
            BY <1>1, <2>2
        <3> QED BY <1>2, <3>1 DEF ToSet
    <2> QED BY <2>1, <2>2
<1>7. ToSet(a) \subseteq ToSet(c) /\ ToSet(b) \subseteq ToSet(c)
    BY <1>2, <1>3, <1>4 DEF ToSet
<1>8. ToSet(c) \subseteq ToSet(a) \cup ToSet(b)
    BY <1>2, <1>6 DEF ToSet
<1> QED BY <1>7, <1>8 DEF c

\* The elements of parts put together are those of the parts.
LEMMA FlattenElements ==
    ASSUME NEW S, NEW s \in Seq(Seq(S))
    PROVE  ToSet(FlattenSeq(s)) = UNION {ToSet(s[i]) : i \in 1..Len(s)}
<1>0. Len(s) \in Nat /\ \A i \in 1..Len(s) : s[i] \in Seq(S)
    BY ElementType
<1>1. PICK g \in [1..Len(s) -> Seq(S)] : Flattens(g, s, Len(s))
    BY FlattensExists
<1>2. FlattenSeq(s) = IF Len(s) = 0 THEN <<>> ELSE g[Len(s)]
    BY <1>1, FlattenIs
<1>3. CASE Len(s) = 0
    <2>1. FlattenSeq(s) = <<>> /\ 1..Len(s) = {}
        BY <1>2, <1>3
    <2> QED BY <2>1 DEF ToSet
<1>4. CASE Len(s) # 0
    <2> DEFINE U(n) == UNION {ToSet(s[i]) : i \in 1..n}
    <2>a. U(1) = ToSet(s[1])
        <3>1. 1..1 = {1}
            OBVIOUS
        <3>2. UNION {ToSet(s[i]) : i \in {1}} = ToSet(s[1])
            BY Zenon
        <3> QED BY <3>1, <3>2, Zenon
    <2>b. \A m \in Nat : m # 0 /\ m # 1 => U(m) = U(m - 1) \cup ToSet(s[m])
        <3> TAKE m \in Nat
        <3> HAVE m # 0 /\ m # 1
        <3>1. \A i : i \in 1..m <=> i \in 1..(m - 1) \/ i = m
            OBVIOUS
        <3> QED BY <3>1, Zenon
    <2> HIDE DEF U
    <2> DEFINE T == {n \in 1..Len(s) : ToSet(g[n]) # U(n)}
    <2>1. T = {}
        <3> SUFFICES ASSUME T # {} PROVE FALSE
            OBVIOUS
        <3>1. PICK m \in T : \A y \in T : m <= y
            <4>1. T \subseteq Nat
                OBVIOUS
            <4> HIDE DEF T
            <4> QED BY <4>1, LeastOf
        <3>2. m \in 1..Len(s) /\ ToSet(g[m]) # U(m) /\ m \in Nat
            BY <3>1
        <3>3. CASE m = 1
            <4>1. g[m] = s[m]
                BY <1>1, <3>2, <3>3 DEF Flattens
            <4> QED BY <3>2, <3>3, <4>1, <2>a
        <3>4. CASE m # 1
            <4>1. m - 1 \in 1..Len(s) /\ m - 1 \notin T /\ m - 1 \in Nat
                BY <3>1, <3>2, <3>4
            <4>2. ToSet(g[m - 1]) = U(m - 1)
                BY <4>1
            <4>3. g[m] = g[m - 1] \o s[m] /\ g[m - 1] \in Seq(S) /\ s[m] \in Seq(S)
                BY <1>0, <1>1, <3>2, <3>4, <4>1 DEF Flattens
            <4>4. ToSet(g[m]) = ToSet(g[m - 1]) \cup ToSet(s[m])
                <5>1. \A a, b \in Seq(S) : ToSet(a \o b) = ToSet(a) \cup ToSet(b)
                    BY ConcatElements
                <5> QED BY <4>3, <5>1
            <4>5. U(m) = U(m - 1) \cup ToSet(s[m])
                BY <2>b, <3>2, <3>4
            <4> QED BY <3>2, <4>2, <4>4, <4>5
        <3> QED BY <3>3, <3>4
    <2>2. Len(s) \in 1..Len(s)
        BY <1>0, <1>4
    <2> QED BY <1>2, <1>4, <2>1, <2>2 DEF U
<1> QED BY <1>3, <1>4

\* Positions names the members of K up to n.
LEMMA PositionsFacts ==
    ASSUME NEW K, NEW n \in Nat
    PROVE  Positions(K, n) \in Seq(1..n) /\ ToSet(Positions(K, n)) = K \cap 1..n
<1> DEFINE s == [i \in 1..n |-> IF i \in K THEN <<i>> ELSE <<>>]
<1>1. \A i \in 1..n : s[i] \in Seq(1..n) /\ ToSet(s[i]) = K \cap {i}
    <2> TAKE i \in 1..n
    <2>1. s[i] = IF i \in K THEN <<i>> ELSE <<>>
        OBVIOUS
    <2>2. <<i>> \in Seq(1..n) /\ <<>> \in Seq(1..n) /\ ToSet(<<i>>) = {i} /\ ToSet(<<>>) = {}
        BY DEF ToSet
    <2> QED BY <2>1, <2>2
<1>2. s \in Seq(Seq(1..n)) /\ Len(s) = n
    <2>1. s \in [1..n -> Seq(1..n)]
        BY <1>1
    <2> HIDE DEF s
    <2> QED BY <2>1
<1> HIDE DEF s
<1>3. FlattenSeq(s) \in Seq(1..n) /\ ToSet(FlattenSeq(s)) = UNION {ToSet(s[i]) : i \in 1..n}
    BY <1>2, FlattenType, FlattenElements
<1>4. UNION {ToSet(s[i]) : i \in 1..n} = UNION {K \cap {i} : i \in 1..n}
    BY <1>1
<1>5. UNION {K \cap {i} : i \in 1..n} = K \cap 1..n
    OBVIOUS
<1> QED BY <1>3, <1>4, <1>5 DEF Positions, s

\* Kept(s, K) holds the elements of s that stand at K.
LEMMA KeptFacts ==
    ASSUME NEW S, NEW s \in Seq(S), NEW K
    PROVE  Kept(s, K) \in Seq(S) /\ ToSet(Kept(s, K)) = {s[i] : i \in K \cap 1..Len(s)}
<1> DEFINE at == Positions(K, Len(s))
           r == [j \in DOMAIN at |-> s[at[j]]]
<1>0. Len(s) \in Nat /\ \A i \in 1..Len(s) : s[i] \in S
    BY ElementType
<1>1. at \in Seq(1..Len(s)) /\ ToSet(at) = K \cap 1..Len(s)
    BY <1>0, PositionsFacts
<1>2. Kept(s, K) = r
    BY DEF Kept
<1> HIDE DEF at
<1>3. DOMAIN at = 1..Len(at) /\ Len(at) \in Nat /\ \A j \in 1..Len(at) : at[j] \in 1..Len(s)
    BY <1>1
<1>4. r \in [1..Len(at) -> S] /\ \A j \in 1..Len(at) : r[j] = s[at[j]]
    BY <1>0, <1>3
<1> HIDE DEF r
<1>5. r \in Seq(S) /\ DOMAIN r = DOMAIN at
    BY <1>3, <1>4
<1>6. ToSet(r) = {s[i] : i \in ToSet(at)}
    BY <1>3, <1>4, <1>5 DEF ToSet
<1> QED BY <1>1, <1>2, <1>5, <1>6

\* One more element in front.
LEMMA PrependFacts ==
    ASSUME NEW S, NEW e \in S, NEW s \in Seq(S)
    PROVE  <<e>> \o s \in Seq(S) /\ ToSet(<<e>> \o s) = {e} \cup ToSet(s)
<1> DEFINE a == <<e>>
<1>1. a \in Seq(S) /\ ToSet(a) = {e}
    BY DEF ToSet
<1> HIDE DEF a
<1>2. a \o s \in Seq(S) /\ ToSet(a \o s) = ToSet(a) \cup ToSet(s)
    BY <1>1, ConcatFacts, ConcatElements
<1> QED BY <1>1, <1>2 DEF a

-----------------------------------------------------------------------------
(* Strata *)

\* A set of naturals with a bound has a greatest element.
LEMMA GreatestOf ==
    ASSUME NEW S, S \subseteq Nat, S # {}, NEW b \in Nat, \A x \in S : x <= b
    PROVE  Max(S) \in S /\ \A x \in S : x <= Max(S)
<1> DEFINE U == {u \in Nat : \A x \in S : x <= u}
<1>1. PICK u \in U : \A y \in U : u <= y
    <2>1. U \subseteq Nat /\ b \in U
        OBVIOUS
    <2> HIDE DEF U
    <2> QED BY <2>1, LeastOf
<1>2. u \in Nat /\ \A x \in S : x \in Nat /\ x <= u
    BY <1>1
<1>3. u \in S
    <2> SUFFICES ASSUME u \notin S PROVE FALSE
        OBVIOUS
    <2>1. \A x \in S : x <= u - 1 /\ u >= 1
        BY <1>2
    <2>2. u - 1 \in Nat
        <3>1. PICK z \in S : TRUE
            OBVIOUS
        <3> QED BY <1>2, <2>1, <3>1
    <2>3. u - 1 \in U
        BY <2>1, <2>2
    <2> HIDE DEF U
    <2> QED BY <1>1, <1>2, <2>3
<1>4. \E x \in S : \A y \in S : x >= y
    BY <1>2, <1>3
<1>5. Max(S) \in S /\ \A y \in S : Max(S) >= y
    BY <1>4, Zenon DEF Max
<1>6. \A x \in S : x <= Max(S)
    <2> TAKE x \in S
    <2>1. Max(S) >= x /\ Max(S) \in Nat /\ x \in Nat
        BY <1>2, <1>5
    <2> QED BY <2>1
<1> QED BY <1>5, <1>6

(* What the parser hands over, and the rules after the magic rewriting,    *)
(* whose names include that of the magic relation.                         *)
Atom == [name : STRING, args : Row]
Rule == [name : STRING, args : Row, body : Seq(Literal)]
Names(q) == STRING \cup {MagicName(q)}
MLiteral(q) == [k : {"pos", "not"}, name : Names(q), args : Row]
               \cup [k : {"neq"}, name : {"!="}, args : Variables \X Variables]
MRule(q) == [name : Names(q), args : Row, body : Seq(MLiteral(q))]

LEMMA LiteralFacts ==
    ASSUME NEW q, NEW l \in Literal
    PROVE  /\ l \in MLiteral(q) /\ l.k \in {"pos", "not", "neq"}
           /\ l.k # "neq" => l.name \in STRING /\ l.args \in Row
           /\ l.k = "neq" => l.args \in Variables \X Variables
<1>1. CASE l \in [k : {"pos", "not"}, name : STRING, args : Row]
    BY <1>1 DEF MLiteral, Names
<1>2. CASE l \in [k : {"neq"}, name : {"!="}, args : Variables \X Variables]
    <2>1. l.k = "neq" /\ l.name = "!=" /\ l.args \in Variables \X Variables
        BY <1>2
    <2>2. l \in MLiteral(q)
        BY <1>2 DEF MLiteral
    <2> QED BY <2>1, <2>2
<1> QED BY <1>1, <1>2 DEF Literal

LEMMA RuleFacts ==
    ASSUME NEW q, NEW rule \in Rule
    PROVE  /\ rule.name \in STRING /\ rule.args \in Row /\ rule.body \in Seq(Literal)
           /\ rule.body \in Seq(MLiteral(q)) /\ rule \in MRule(q)
           /\ \A i \in 1..Len(rule.body) : rule.body[i] \in Literal
           /\ DOMAIN rule.body = 1..Len(rule.body) /\ Len(rule.body) \in Nat
           /\ ToSet(rule.body) = {rule.body[i] : i \in 1..Len(rule.body)}
           /\ ToSet(rule.body) \subseteq Literal
<1>1. rule.name \in STRING /\ rule.args \in Row /\ rule.body \in Seq(Literal)
    BY DEF Rule
<1>2. /\ \A i \in 1..Len(rule.body) : rule.body[i] \in Literal
      /\ DOMAIN rule.body = 1..Len(rule.body) /\ Len(rule.body) \in Nat
      /\ ToSet(rule.body) = {rule.body[i] : i \in 1..Len(rule.body)}
      /\ ToSet(rule.body) \subseteq Literal
    BY <1>1, SeqElements, ElementType
<1>3. Literal \subseteq MLiteral(q)
    BY LiteralFacts
<1>4. rule.body \in Seq(MLiteral(q))
    BY <1>1, <1>3
<1>5. rule \in MRule(q)
    BY <1>4 DEF Rule, MRule, Names
<1> QED BY <1>1, <1>2, <1>4, <1>5

LEMMA GuardType ==
    ASSUME NEW q, NEW rule \in Rule
    PROVE  Guard(q, rule) \in MLiteral(q) /\ Guard(q, rule).k = "pos" /\ Guard(q, rule).name = MagicName(q)
<1>1. AtBound(q, rule.args) \in Row
    BY RuleFacts, KeptFacts DEF AtBound, Row
<1> QED BY <1>1 DEF Guard, MLiteral, Names

\* The rule that passes the bound values on has literals of its source only.
LEMMA PropagationFacts ==
    ASSUME NEW q, NEW rule \in Rule, NEW bi \in 1..Len(rule.body), rule.body[bi].k = "pos"
    PROVE  /\ Propagation(q, rule, bi) \in MRule(q) /\ Propagation(q, rule, bi).name = MagicName(q)
           /\ ToSet(Propagation(q, rule, bi).body) \subseteq {Guard(q, rule)} \cup ToSet(rule.body)
<1> DEFINE K == {i \in 1..(bi - 1) : rule.body[i].k = "pos" /\ rule.body[i].name # q.name}
           kept == Kept(rule.body, K)
           g == Guard(q, rule)
<1>1. rule.body \in Seq(MLiteral(q)) /\ rule.body[bi] \in Literal
    BY RuleFacts
<1>2. kept \in Seq(MLiteral(q)) /\ ToSet(kept) = {rule.body[i] : i \in K \cap 1..Len(rule.body)}
    <2> HIDE DEF K
    <2> QED BY <1>1, KeptFacts
<1>3. ToSet(kept) \subseteq ToSet(rule.body)
    <2> HIDE DEF K, kept
    <2> QED BY <1>2, RuleFacts
<1>4. g \in MLiteral(q)
    BY GuardType
<1>5. AtBound(q, rule.body[bi].args) \in Row
    <2>1. rule.body[bi].args \in Row
        BY <1>1, LiteralFacts
    <2> QED BY <2>1, KeptFacts DEF AtBound, Row
<1> HIDE DEF g, kept
<1>7. <<g>> \o kept \in Seq(MLiteral(q)) /\ ToSet(<<g>> \o kept) = {g} \cup ToSet(kept)
    BY <1>2, <1>4, PrependFacts
<1>8. Propagation(q, rule, bi) = [name |-> MagicName(q), args |-> AtBound(q, rule.body[bi].args), body |-> <<g>> \o kept]
    BY DEF Propagation, g, kept
<1>9. Propagation(q, rule, bi) \in MRule(q)
    BY <1>5, <1>7, <1>8 DEF MRule, Names
<1> QED BY <1>3, <1>7, <1>8, <1>9 DEF g

LEMMA PropagationsFacts ==
    ASSUME NEW q, NEW rule \in Rule
    PROVE  /\ Propagations(q, rule) \in Seq(MRule(q))
           /\ \A R \in ToSet(Propagations(q, rule)) :
                R.name = MagicName(q) /\ ToSet(R.body) \subseteq {Guard(q, rule)} \cup ToSet(rule.body)
<1> DEFINE K == {i \in DOMAIN rule.body :
                    /\ rule.body[i].k = "pos" /\ rule.body[i].name = q.name
                    /\ AtBound(q, rule.body[i].args) # AtBound(q, rule.args)}
           calls == Positions(K, Len(rule.body))
           s == [i \in DOMAIN calls |-> Propagation(q, rule, calls[i])]
<1>1. Propagations(q, rule) = s
    BY DEF Propagations
<1>2. calls \in Seq(1..Len(rule.body)) /\ ToSet(calls) = K \cap 1..Len(rule.body)
    <2>1. Len(rule.body) \in Nat
        BY RuleFacts
    <2> HIDE DEF K
    <2> QED BY <2>1, PositionsFacts
<1>3. \A b \in K : rule.body[b].k = "pos"
    OBVIOUS
<1> HIDE DEF K, calls
<1>4. /\ DOMAIN calls = 1..Len(calls) /\ Len(calls) \in Nat
      /\ \A i \in 1..Len(calls) : calls[i] \in 1..Len(rule.body) /\ rule.body[calls[i]].k = "pos"
    BY <1>2, <1>3 DEF ToSet
<1>5. \A i \in 1..Len(calls) :
        /\ s[i] = Propagation(q, rule, calls[i]) /\ s[i] \in MRule(q) /\ s[i].name = MagicName(q)
        /\ ToSet(s[i].body) \subseteq {Guard(q, rule)} \cup ToSet(rule.body)
    BY <1>4, PropagationFacts
<1>6. s \in [1..Len(calls) -> MRule(q)]
    BY <1>4, <1>5
<1> HIDE DEF s
<1>7. s \in Seq(MRule(q)) /\ DOMAIN s = 1..Len(calls)
    BY <1>4, <1>6
<1>8. \A R \in ToSet(s) : R.name = MagicName(q) /\ ToSet(R.body) \subseteq {Guard(q, rule)} \cup ToSet(rule.body)
    <2> TAKE R \in ToSet(s)
    <2>1. PICK i \in 1..Len(calls) : R = s[i]
        BY <1>7 DEF ToSet
    <2> QED BY <1>5, <2>1
<1> QED BY <1>1, <1>7, <1>8

\* The rules a rule turns into.
LEMMA GuardedFacts ==
    ASSUME NEW q, NEW rule \in Rule
    PROVE  /\ Guarded(q, rule) \in Seq(MRule(q))
           /\ \E R \in ToSet(Guarded(q, rule)) : R.name = rule.name
           /\ \A R \in ToSet(Guarded(q, rule)) :
                \/ R = rule
                \/ /\ rule.name = q.name /\ R.name \in {q.name, MagicName(q)}
                   /\ ToSet(R.body) \subseteq {Guard(q, rule)} \cup ToSet(rule.body)
<1>1. rule \in MRule(q) /\ rule.body \in Seq(MLiteral(q))
    BY RuleFacts
<1>2. CASE rule.name # q.name
    <2>1. Guarded(q, rule) = <<rule>>
        BY <1>2 DEF Guarded
    <2>2. <<rule>> \in Seq(MRule(q)) /\ ToSet(<<rule>>) = {rule}
        BY <1>1 DEF ToSet
    <2> QED BY <2>1, <2>2
<1>3. CASE rule.name = q.name
    <2> DEFINE g == Guard(q, rule)
               h == [rule EXCEPT !.body = <<g>> \o @]
               ps == Propagations(q, rule)
    <2>1. g \in MLiteral(q)
        BY GuardType
    <2>2. /\ ps \in Seq(MRule(q))
          /\ \A R \in ToSet(ps) : R.name = MagicName(q) /\ ToSet(R.body) \subseteq {g} \cup ToSet(rule.body)
        BY PropagationsFacts
    <2>3. Guarded(q, rule) = <<h>> \o ps
        BY <1>3 DEF Guarded
    <2> HIDE DEF g, ps
    <2>5. <<g>> \o rule.body \in Seq(MLiteral(q)) /\ ToSet(<<g>> \o rule.body) = {g} \cup ToSet(rule.body)
        BY <1>1, <2>1, PrependFacts
    <2>6. h \in MRule(q) /\ h.name = rule.name /\ h.body = <<g>> \o rule.body
        BY <1>1, <2>5 DEF MRule
    <2> HIDE DEF h
    <2>8. <<h>> \o ps \in Seq(MRule(q)) /\ ToSet(<<h>> \o ps) = {h} \cup ToSet(ps)
        BY <2>2, <2>6, PrependFacts
    <2> QED BY <1>3, <2>2, <2>3, <2>5, <2>6, <2>8 DEF g
<1> QED BY <1>2, <1>3


(* R is rule j of the program, or it is that rule behind the guard, or it   *)
(* passes the bound values of that rule on.                                *)
ComesFrom(q, rs, R, j) ==
    \/ R = rs[j]
    \/ /\ Transforms(q, rs) /\ rs[j].name = q.name /\ R.name \in {q.name, MagicName(q)}
       /\ ToSet(R.body) \subseteq {Guard(q, rs[j])} \cup ToSet(rs[j].body)

\* Every rewritten rule comes from a rule of the program.
LEMMA RewriteFacts ==
    ASSUME NEW q, NEW fs, NEW rs \in Seq(Rule), NEW p, p = applyMagicSet(q, fs, rs).rules
    PROVE  /\ p \in Seq(MRule(q)) /\ Derived(rs) \subseteq Derived(p)
           /\ \A R \in ToSet(p) : \E j \in 1..Len(rs) : ComesFrom(q, rs, R, j)
<1>0. /\ DOMAIN rs = 1..Len(rs) /\ Len(rs) \in Nat /\ \A i \in 1..Len(rs) : rs[i] \in Rule
      /\ ToSet(rs) = {rs[i] : i \in 1..Len(rs)}
    BY SeqElements, ElementType
<1>1. CASE ~Transforms(q, rs)
    <2>1. p = rs
        BY <1>1 DEF applyMagicSet
    <2>2. Rule \subseteq MRule(q)
        BY RuleFacts
    <2>3. rs \in Seq(MRule(q))
        BY <2>2
    <2> QED BY <1>0, <2>1, <2>3 DEF ComesFrom
<1>2. CASE Transforms(q, rs)
    <2> DEFINE s == [i \in DOMAIN rs |-> Guarded(q, rs[i])]
    <2>1. p = FlattenSeq(s)
        BY <1>2 DEF applyMagicSet
    <2>2. \A i \in 1..Len(rs) : s[i] = Guarded(q, rs[i]) /\ s[i] \in Seq(MRule(q))
        BY <1>0, GuardedFacts
    <2>3. s \in [1..Len(rs) -> Seq(MRule(q))]
        BY <1>0, <2>2
    <2> HIDE DEF s
    <2>4. s \in Seq(Seq(MRule(q))) /\ Len(s) = Len(rs)
        BY <1>0, <2>3
    <2>5. p \in Seq(MRule(q)) /\ ToSet(p) = UNION {ToSet(s[i]) : i \in 1..Len(rs)}
        BY <2>1, <2>4, FlattenType, FlattenElements
    <2>6. \A R \in ToSet(p) : \E j \in 1..Len(rs) : R \in ToSet(Guarded(q, rs[j]))
        BY <2>2, <2>5
    <2>7. \A R \in ToSet(p) : \E j \in 1..Len(rs) : ComesFrom(q, rs, R, j)
        <3> TAKE R \in ToSet(p)
        <3>1. PICK j \in 1..Len(rs) : R \in ToSet(Guarded(q, rs[j]))
            BY <2>6
        <3>2. \/ R = rs[j]
              \/ /\ rs[j].name = q.name /\ R.name \in {q.name, MagicName(q)}
                 /\ ToSet(R.body) \subseteq {Guard(q, rs[j])} \cup ToSet(rs[j].body)
            BY <1>0, <3>1, GuardedFacts
        <3>3. ComesFrom(q, rs, R, j)
            BY <1>2, <3>2 DEF ComesFrom
        <3> QED BY <3>3
    <2>8. Derived(rs) \subseteq Derived(p)
        <3> SUFFICES ASSUME NEW i \in 1..Len(rs) PROVE rs[i].name \in Derived(p)
            BY <1>0 DEF Derived
        <3>1. PICK R \in ToSet(Guarded(q, rs[i])) : R.name = rs[i].name
            BY <1>0, GuardedFacts
        <3>2. R \in ToSet(p)
            BY <2>2, <2>5, <3>1
        <3>3. PICK m \in DOMAIN p : p[m] = R
            BY <3>2 DEF ToSet
        <3> QED BY <3>1, <3>3 DEF Derived
    <2> QED BY <1>2, <2>5, <2>7, <2>8
<1> QED BY <1>1, <1>2

(* The relation of the program a rewritten one stands for.                 *)
Origin(q, rs, r) == IF Transforms(q, rs) /\ r = MagicName(q) THEN q.name ELSE r

\* A literal of a rewritten rule is the guard, which stands for the head
\* itself, or it is in a rule of the program for the same relation.
LEMMA Edges ==
    ASSUME NEW q, NEW fs, NEW rs \in Seq(Rule), NEW p, p = applyMagicSet(q, fs, rs).rules,
           ~(Transforms(q, rs) /\ MagicName(q) \in Relations(fs, rs)),
           NEW R \in ToSet(p), NEW l \in ToSet(R.body), l.k # "neq"
    PROVE  \/ l.k = "pos" /\ Origin(q, rs, l.name) = Origin(q, rs, R.name)
           \/ \E j \in 1..Len(rs) : /\ rs[j].name = Origin(q, rs, R.name) /\ l \in ToSet(rs[j].body)
                                    /\ Origin(q, rs, l.name) = l.name
<1>0. DOMAIN rs = 1..Len(rs) /\ Len(rs) \in Nat /\ \A i \in 1..Len(rs) : rs[i] \in Rule
    BY SeqElements, ElementType
<1>1. \A j \in 1..Len(rs) : rs[j].name \in Relations(fs, rs) /\ Origin(q, rs, rs[j].name) = rs[j].name
    BY <1>0 DEF Relations, Derived, Origin
<1>2. \A j \in 1..Len(rs) : l \in ToSet(rs[j].body) => l.name \in Relations(fs, rs)
    <2> TAKE j \in 1..Len(rs)
    <2> HAVE l \in ToSet(rs[j].body)
    <2>1. l.name \in BodyNames(rs[j])
        BY DEF BodyNames
    <2> QED BY <1>0, <2>1 DEF Relations
<1>3. \A j \in 1..Len(rs) : l \in ToSet(rs[j].body) => Origin(q, rs, l.name) = l.name
    BY <1>2 DEF Origin
<1>4. PICK j \in 1..Len(rs) : ComesFrom(q, rs, R, j)
    BY RewriteFacts
<1>5. CASE R = rs[j]
    BY <1>1, <1>3, <1>5
<1>6. CASE /\ Transforms(q, rs) /\ rs[j].name = q.name /\ R.name \in {q.name, MagicName(q)}
           /\ ToSet(R.body) \subseteq {Guard(q, rs[j])} \cup ToSet(rs[j].body)
    <2>1. Origin(q, rs, R.name) = q.name
        BY <1>6 DEF Origin
    <2>2. CASE l \in ToSet(rs[j].body)
        BY <1>3, <1>6, <2>1, <2>2
    <2>3. CASE l = Guard(q, rs[j])
        <3>1. l.k = "pos" /\ l.name = MagicName(q)
            BY <1>0, <2>3, GuardType
        <3> QED BY <1>6, <2>1, <3>1 DEF Origin
    <2> QED BY <1>6, <2>2, <2>3
<1> QED BY <1>4, <1>5, <1>6 DEF ComesFrom

\* What a relation in a body uses, the head uses.
LEMMA UsedThrough ==
    ASSUME NEW rs, NEW j \in DOMAIN rs, NEW b \in BodyNames(rs[j])
    PROVE  UsedBy(rs, {b}) \subseteq UsedBy(rs, {rs[j].name}) /\ rs[j].name \in UsedBy(rs, {rs[j].name})
<1> DEFINE h == rs[j].name
           all == Relations(<<>>, rs)
           Closed(T) == \A i \in DOMAIN rs : rs[i].name \in T => BodyNames(rs[i]) \subseteq T
<1>1. h \in all /\ b \in all
    BY DEF Relations, Derived
<1>2. /\ UsedBy(rs, {h}) = {r \in all : \A T \in SUBSET all : {h} \subseteq T /\ Closed(T) => r \in T}
      /\ UsedBy(rs, {b}) = {r \in all : \A T \in SUBSET all : {b} \subseteq T /\ Closed(T) => r \in T}
    <2>1. {h} \cup all = all /\ {b} \cup all = all
        BY <1>1
    <2> QED BY <2>1, Zenon DEF UsedBy
<1>3. \A T : {h} \subseteq T /\ Closed(T) => {b} \subseteq T
    OBVIOUS
<1> HIDE DEF h, all, Closed
<1>4. UsedBy(rs, {b}) \subseteq UsedBy(rs, {h}) /\ h \in UsedBy(rs, {h})
    BY <1>1, <1>2, <1>3
<1> QED BY <1>4 DEF h


(* A program that has strata, and no relation by the magic one's name.     *)
Acyclic(q, fs, rs) == ~NegativeCycle(rs) /\ ~(Transforms(q, rs) /\ MagicName(q) \in Relations(fs, rs))

(* The relations with a negation in a rule of theirs, among those r uses,  *)
(* and how many they are: a bound for the stratum of r.                    *)
Negating(rs) == {rs[i].name : i \in {j \in DOMAIN rs : \E l \in ToSet(rs[j].body) : l.k = "not"}}
Below(rs, r) == Negating(rs) \cap UsedBy(rs, {r})
Height(q, rs, r) == Cardinality(Below(rs, Origin(q, rs, r)))

\* A program has no more derived relations than rules.
LEMMA DerivedFinite ==
    ASSUME NEW S, NEW rs \in Seq(S)
    PROVE  IsFiniteSet(Derived(rs)) /\ Cardinality(Derived(rs)) <= Len(rs) /\ Len(rs) \in Nat
<1>1. DOMAIN rs = 1..Len(rs) /\ Len(rs) \in Nat
    BY SeqElements
<1> DEFINE f == [i \in 1..Len(rs) |-> rs[i].name]
<1>2. f \in Surjection(1..Len(rs), Derived(rs))
    BY <1>1 DEF Surjection, Derived
<1>3. IsFiniteSet(1..Len(rs)) /\ Cardinality(1..Len(rs)) = Len(rs)
    BY <1>1, FS_Interval
<1>4. IsFiniteSet(Derived(rs)) /\ Cardinality(Derived(rs)) <= Cardinality(1..Len(rs))
    <2> HIDE DEF f
    <2> QED BY <1>2, <1>3, FS_Surjection
<1> QED BY <1>1, <1>3, <1>4

LEMMA HeightFacts ==
    ASSUME NEW q, NEW fs, NEW rs \in Seq(Rule), NEW p, p = applyMagicSet(q, fs, rs).rules, NEW r
    PROVE  Height(q, rs, r) \in Nat /\ Height(q, rs, r) <= Len(p)
<1> DEFINE B == Below(rs, Origin(q, rs, r))
<1>1. B \in SUBSET Derived(rs)
    BY DEF Below, Negating, Derived
<1>2. p \in Seq(MRule(q)) /\ Derived(rs) \subseteq Derived(p)
    BY RewriteFacts
<1>3. IsFiniteSet(Derived(p)) /\ Cardinality(Derived(p)) <= Len(p) /\ Len(p) \in Nat
    BY <1>2, DerivedFinite
<1> HIDE DEF B
<1>4. B \in SUBSET Derived(p)
    BY <1>1, <1>2
<1>5. IsFiniteSet(B) /\ Cardinality(B) <= Cardinality(Derived(p))
    BY <1>3, <1>4, FS_Subset
<1>6. Cardinality(B) \in Nat /\ Cardinality(Derived(p)) \in Nat
    BY <1>3, <1>5, FS_CardinalityType
<1>7. Cardinality(B) <= Len(p)
    BY <1>3, <1>5, <1>6
<1> QED BY <1>6, <1>7 DEF B, Height

\* Along a body the bound does not grow, and under a negation it falls.
LEMMA HeightFalls ==
    ASSUME NEW q, NEW fs, NEW rs \in Seq(Rule), NEW p, p = applyMagicSet(q, fs, rs).rules,
           Acyclic(q, fs, rs),
           NEW R \in ToSet(p), NEW l \in ToSet(R.body)
    PROVE  /\ l.k = "pos" => Height(q, rs, l.name) <= Height(q, rs, R.name)
           /\ l.k = "not" => Height(q, rs, l.name) + 1 <= Height(q, rs, R.name)
<1>0. /\ Height(q, rs, l.name) \in Nat /\ Height(q, rs, R.name) \in Nat
      /\ DOMAIN rs = 1..Len(rs) /\ Len(rs) \in Nat
    BY HeightFacts, SeqElements
<1> SUFFICES ASSUME l.k \in {"pos", "not"}
             PROVE  /\ l.k = "pos" => Height(q, rs, l.name) <= Height(q, rs, R.name)
                    /\ l.k = "not" => Height(q, rs, l.name) + 1 <= Height(q, rs, R.name)
    OBVIOUS
<1>1. l.k # "neq"
    OBVIOUS
<1>2. CASE l.k = "pos" /\ Origin(q, rs, l.name) = Origin(q, rs, R.name)
    BY <1>0, <1>2 DEF Height
<1>3. CASE \E j \in 1..Len(rs) : /\ rs[j].name = Origin(q, rs, R.name) /\ l \in ToSet(rs[j].body)
                                 /\ Origin(q, rs, l.name) = l.name
    <2>1. PICK j \in 1..Len(rs) : /\ rs[j].name = Origin(q, rs, R.name) /\ l \in ToSet(rs[j].body)
                                  /\ Origin(q, rs, l.name) = l.name
        BY <1>3
    <2> DEFINE h == rs[j].name
               Bh == Below(rs, h)
               Bl == Below(rs, l.name)
    <2>2. Height(q, rs, l.name) = Cardinality(Bl) /\ Height(q, rs, R.name) = Cardinality(Bh)
        BY <2>1 DEF Height
    <2>3. l.name \in BodyNames(rs[j])
        BY <1>1, <2>1 DEF BodyNames
    <2>4. UsedBy(rs, {l.name}) \subseteq UsedBy(rs, {h}) /\ h \in UsedBy(rs, {h})
        BY <1>0, <2>3, UsedThrough
    <2>5. Bl \in SUBSET Bh
        BY <2>4 DEF Below
    <2>6. IsFiniteSet(Bh)
        <3>1. Bh \in SUBSET Derived(rs)
            BY DEF Below, Negating, Derived
        <3>2. IsFiniteSet(Derived(rs))
            BY DerivedFinite
        <3> HIDE DEF Bh
        <3> QED BY <3>1, <3>2, FS_Subset
    <2>7. l.k = "not" => h \in Bh /\ h \notin Bl
        <3> HAVE l.k = "not"
        <3>1. h \in Negating(rs)
            BY <1>0, <2>1 DEF Negating
        <3>2. h \notin UsedBy(rs, {l.name})
            BY <1>0, <2>1 DEF NegativeCycle, Acyclic
        <3> QED BY <2>4, <3>1, <3>2 DEF Below
    <2> HIDE DEF Bh, Bl
    <2>8. Cardinality(Bl) <= Cardinality(Bh) /\ (Cardinality(Bh) = Cardinality(Bl) => Bh = Bl)
        BY <2>5, <2>6, FS_Subset
    <2>9. l.k = "not" => Cardinality(Bh) # Cardinality(Bl)
        BY <2>7, <2>8
    <2> QED BY <1>0, <2>2, <2>8, <2>9
<1> QED BY <1>1, <1>2, <1>3, Edges DEF Acyclic


(* computeDatalogStrata half way: no stratum is above its bound, and each  *)
(* of n passes raised some stratum by a level.  While a pass has changed   *)
(* nothing, the rules before rule i ask for nothing more.                  *)
Levels(st, p) == {x \in Derived(p) \X (1..Len(p)) : x[2] <= st[x[1]]}
Settled(st, p, i) == \A m \in 1..Len(p) : m < i => Raised(st, p[m]) = st[p[m].name]
Climbing(q, rs, p, st, n) ==
    /\ \E D : Relations(<<>>, p) \subseteq D /\ st \in [D -> Nat]
    /\ \A r \in DOMAIN st : st[r] <= Height(q, rs, r)
    /\ n \in Nat /\ n <= Cardinality(Levels(st, p))

\* What a rule asks for is within the bound of its head.
LEMMA RaisedFacts ==
    ASSUME NEW q, NEW fs, NEW rs \in Seq(Rule), NEW p, p = applyMagicSet(q, fs, rs).rules,
           Acyclic(q, fs, rs),
           NEW D, Relations(<<>>, p) \subseteq D, NEW st \in [D -> Nat],
           \A r \in D : st[r] <= Height(q, rs, r),
           NEW R \in ToSet(p)
    PROVE  /\ R.name \in D /\ Raised(st, R) \in Nat
           /\ st[R.name] <= Raised(st, R) /\ Raised(st, R) <= Height(q, rs, R.name)
           /\ \A l \in ToSet(R.body) : l.k = "not" => At(st, l.name) + 1 <= Raised(st, R)
<1>1. \A r : /\ At(st, r) \in Nat /\ At(st, r) <= Height(q, rs, r)
             /\ Height(q, rs, r) \in Nat
    <2> TAKE r
    <2>1. Height(q, rs, r) \in Nat
        BY HeightFacts
    <2> QED BY <2>1 DEF At
<1>2. R.name \in D
    <2>1. R.name \in Derived(p)
        BY DEF ToSet, Derived
    <2> QED BY <2>1 DEF Relations
<1>3. At(st, R.name) = st[R.name]
    BY <1>2 DEF At
<1> DEFINE P == {At(st, l.name) : l \in {m \in ToSet(R.body) : m.k = "pos"}}
           N == {At(st, l.name) + 1 : l \in {m \in ToSet(R.body) : m.k = "not"}}
           needs == {At(st, R.name)} \cup P \cup N
           b == Height(q, rs, R.name)
<1>4. Raised(st, R) = Max(needs)
    BY DEF Raised
<1>5. \A l \in ToSet(R.body) : /\ l.k = "pos" => Height(q, rs, l.name) <= b
                               /\ l.k = "not" => Height(q, rs, l.name) + 1 <= b
    BY HeightFalls
<1>6. b \in Nat
    BY <1>1
<1> HIDE DEF b
<1>7. \A x \in P : x \in Nat /\ x <= b
    <2> TAKE x \in P
    <2>1. PICK l \in ToSet(R.body) : l.k = "pos" /\ x = At(st, l.name)
        OBVIOUS
    <2>2. Height(q, rs, l.name) <= b
        BY <1>5, <2>1
    <2>3. At(st, l.name) \in Nat /\ Height(q, rs, l.name) \in Nat /\ At(st, l.name) <= Height(q, rs, l.name)
        BY <1>1
    <2> QED BY <1>6, <2>1, <2>2, <2>3
<1>8. \A x \in N : x \in Nat /\ x <= b
    <2> TAKE x \in N
    <2>1. PICK l \in ToSet(R.body) : l.k = "not" /\ x = At(st, l.name) + 1
        OBVIOUS
    <2>2. Height(q, rs, l.name) + 1 <= b
        BY <1>5, <2>1
    <2>3. At(st, l.name) \in Nat /\ Height(q, rs, l.name) \in Nat /\ At(st, l.name) <= Height(q, rs, l.name)
        BY <1>1
    <2> QED BY <1>6, <2>1, <2>2, <2>3
<1>9. At(st, R.name) \in Nat /\ At(st, R.name) <= b
    BY <1>1 DEF b
<1>10. \A l \in ToSet(R.body) : l.k = "not" => At(st, l.name) + 1 \in needs
    OBVIOUS
<1> HIDE DEF P, N
<1>11. needs \subseteq Nat /\ At(st, R.name) \in needs /\ \A x \in needs : x <= b
    BY <1>7, <1>8, <1>9
<1> HIDE DEF needs
<1>12. Max(needs) \in needs /\ \A x \in needs : x <= Max(needs)
    BY <1>6, <1>11, GreatestOf
<1> QED BY <1>2, <1>3, <1>4, <1>10, <1>11, <1>12 DEF b

\* Levels are bounded by the square of the number of rules.
LEMMA LevelsBound ==
    ASSUME NEW S, NEW p \in Seq(S), NEW st
    PROVE  /\ IsFiniteSet(Levels(st, p)) /\ Cardinality(Levels(st, p)) \in Nat
           /\ Cardinality(Levels(st, p)) <= Len(p) * Len(p)
<1> DEFINE D == Derived(p)
           n == Len(p)
           A == D \X (1..n)
           L == Levels(st, p)
<1>1. IsFiniteSet(D) /\ Cardinality(D) <= n /\ n \in Nat /\ Cardinality(D) \in Nat
    BY DerivedFinite, FS_CardinalityType
<1>2. L \in SUBSET A
    BY DEF Levels
<1> HIDE DEF D, n, L
<1>3. IsFiniteSet(1..n) /\ Cardinality(1..n) = n
    BY <1>1, FS_Interval
<1>4. IsFiniteSet(A) /\ Cardinality(A) = Cardinality(D) * n
    BY <1>1, <1>3, FS_Product
<1>5. IsFiniteSet(L) /\ Cardinality(L) <= Cardinality(A)
    <2> HIDE DEF A
    <2> QED BY <1>2, <1>4, FS_Subset
<1>6. Cardinality(L) \in Nat
    BY <1>5, FS_CardinalityType
<1>7. \A a, b \in Nat : a <= b => a * b <= b * b
    OBVIOUS
<1>8. Cardinality(D) * n <= n * n /\ Cardinality(D) * n \in Nat /\ n * n \in Nat
    BY <1>1, <1>7
<1>9. Cardinality(L) <= n * n
    BY <1>4, <1>5, <1>6, <1>8
<1> QED BY <1>5, <1>6, <1>9 DEF L, n

\* One rule of a pass.
LEMMA ClimbRule ==
    ASSUME NEW q, NEW fs, NEW rs \in Seq(Rule), NEW p, p = applyMagicSet(q, fs, rs).rules,
           Acyclic(q, fs, rs),
           NEW st, NEW n, NEW i \in 1..Len(p), Climbing(q, rs, p, st, n),
           NEW st2, st2 = [st EXCEPT ![p[i].name] = Raised(st, p[i])]
    PROVE  /\ Climbing(q, rs, p, st2, n)
           /\ st2 # st => Climbing(q, rs, p, st2, n + 1)
<1> DEFINE h == p[i].name
           v == Raised(st, p[i])
<1>0. p \in Seq(MRule(q)) /\ Len(p) \in Nat /\ p[i] \in ToSet(p) /\ h \in Derived(p)
    <2>1. p \in Seq(MRule(q))
        BY RewriteFacts
    <2> QED BY <2>1, SeqElements DEF Derived
<1>1. PICK D : Relations(<<>>, p) \subseteq D /\ st \in [D -> Nat]
    BY DEF Climbing
<1>2. \A r \in D : st[r] <= Height(q, rs, r)
    BY <1>1 DEF Climbing
<1>3. h \in D /\ v \in Nat /\ st[h] <= v /\ v <= Height(q, rs, h)
    <2>1. \A R \in ToSet(p) : /\ R.name \in D /\ Raised(st, R) \in Nat
                              /\ st[R.name] <= Raised(st, R) /\ Raised(st, R) <= Height(q, rs, R.name)
        BY <1>1, <1>2, RaisedFacts
    <2> QED BY <1>0, <2>1, Zenon
<1>4. Height(q, rs, h) \in Nat /\ Height(q, rs, h) <= Len(p)
    BY HeightFacts
<1>5. st2 = [st EXCEPT ![h] = v]
    OBVIOUS
<1>6. n \in Nat /\ n <= Cardinality(Levels(st, p))
    BY DEF Climbing
<1>7. i \in Nat /\ i >= 1 /\ i <= Len(p)
    BY <1>0
<1> HIDE DEF h, v
<1>8. st2 \in [D -> Nat] /\ st2[h] = v /\ \A r \in D : r # h => st2[r] = st[r]
    BY <1>1, <1>3, <1>5
<1>9. \A r \in D : st2[r] <= Height(q, rs, r)
    BY <1>2, <1>3, <1>8
<1>10. CASE st2 = st
    <2> QED BY <1>10
<1>11. CASE st2 # st
    <2>2. v # st[h]
        BY <1>1, <1>3, <1>5, <1>11
    <2>3. st[h] \in Nat
        BY <1>1, <1>3
    <2>4. v \in 1..Len(p) /\ ~(v <= st[h])
        BY <1>0, <1>3, <1>4, <2>2, <2>3
    <2> DEFINE x == <<h, v>>
               L == Levels(st, p)
               L2 == Levels(st2, p)
    <2>5. x \notin L /\ x \in L2
        <3>1. x \in Derived(p) \X (1..Len(p)) /\ x[1] = h /\ x[2] = v
            BY <1>0, <2>4
        <3>2. v <= st2[h]
            BY <1>3, <1>8
        <3> QED BY <2>4, <3>1, <3>2 DEF Levels
    <2>6. \A r \in Derived(p) : r \in D
        BY <1>1 DEF Relations
    <2>7. \A r \in Derived(p) : \A k \in 1..Len(p) : k <= st[r] => k <= st2[r]
        <3> TAKE r \in Derived(p)
        <3> TAKE k \in 1..Len(p)
        <3>1. CASE r = h
            BY <1>0, <1>3, <1>8, <2>3, <3>1
        <3>2. CASE r # h
            BY <1>8, <2>6, <3>2
        <3> QED BY <3>1, <3>2
    <2>8. L \subseteq L2
        BY <2>7 DEF Levels
    <2> HIDE DEF x, L, L2
    <2>9. L \cup {x} \in SUBSET L2
        BY <2>5, <2>8
    <2>10. /\ IsFiniteSet(L) /\ Cardinality(L) \in Nat
           /\ IsFiniteSet(L2) /\ Cardinality(L2) \in Nat
        BY <1>0, LevelsBound DEF L, L2
    <2>11. Cardinality(L \cup {x}) = Cardinality(L) + 1
        BY <2>5, <2>10, FS_AddElement
    <2>12. Cardinality(L \cup {x}) <= Cardinality(L2)
        BY <2>9, <2>10, FS_Subset
    <2>13. Cardinality(L) + 1 <= Cardinality(L2)
        BY <2>11, <2>12
    <2>14. n <= Cardinality(L)
        BY <1>6 DEF L
    <2>15. n + 1 <= Cardinality(L2) /\ n <= Cardinality(L2)
        BY <1>6, <2>10, <2>13, <2>14
    <2>16. n + 1 <= Cardinality(Levels(st2, p)) /\ n <= Cardinality(Levels(st2, p)) /\ n + 1 \in Nat
        BY <1>6, <2>15 DEF L2
    <2> QED BY <1>1, <1>6, <1>8, <1>9, <1>11, <2>16 DEF Climbing
<1> QED BY <1>10, <1>11

\* The limit on the passes is never reached.
LEMMA LastPass ==
    ASSUME NEW q, NEW fs, NEW rs \in Seq(Rule), NEW p, p = applyMagicSet(q, fs, rs).rules,
           NEW st, NEW n, Climbing(q, rs, p, st, n)
    PROVE  n + 1 < PassLimit(p)
<1>1. p \in Seq(MRule(q)) /\ Len(p) \in Nat
    BY RewriteFacts, SeqElements
<1>2. Cardinality(Levels(st, p)) \in Nat /\ Cardinality(Levels(st, p)) <= Len(p) * Len(p)
    BY <1>1, LevelsBound
<1>3. n \in Nat /\ n <= Cardinality(Levels(st, p))
    BY DEF Climbing
<1>4. Len(p) * Len(p) \in Nat
    BY <1>1
<1>5. n + 1 < Len(p) * Len(p) + 10
    BY <1>2, <1>3, <1>4
<1> QED BY <1>5 DEF PassLimit

\* Settled strata report no cycle.
LEMMA SettledAccepts ==
    ASSUME NEW q, NEW fs, NEW rs \in Seq(Rule), NEW p, p = applyMagicSet(q, fs, rs).rules,
           Acyclic(q, fs, rs),
           NEW st, NEW n, Climbing(q, rs, p, st, n),
           NEW i \in Nat, i > Len(p), Settled(st, p, i)
    PROVE  ~CycleReported(st, p)
<1>0. p \in Seq(MRule(q)) /\ Len(p) \in Nat /\ DOMAIN p = 1..Len(p)
    BY RewriteFacts, SeqElements
<1>1. PICK D : Relations(<<>>, p) \subseteq D /\ st \in [D -> Nat]
    BY DEF Climbing
<1>2. \A r \in D : st[r] <= Height(q, rs, r)
    BY <1>1 DEF Climbing
<1>3. \A m \in DOMAIN p : Raised(st, p[m]) = st[p[m].name]
    <2> TAKE m \in DOMAIN p
    <2>1. m \in 1..Len(p) /\ m < i
        BY <1>0
    <2> QED BY <2>1 DEF Settled
<1>4. ASSUME NEW m \in DOMAIN p, NEW l \in ToSet(p[m].body), l.k = "not"
      PROVE  ~(At(st, l.name) >= At(st, p[m].name))
    <2>1. p[m] \in ToSet(p)
        BY DEF ToSet
    <2>2. p[m].name \in D /\ At(st, l.name) + 1 <= Raised(st, p[m])
        BY <1>1, <1>2, <1>4, <2>1, RaisedFacts
    <2>3. At(st, p[m].name) = Raised(st, p[m]) /\ At(st, p[m].name) \in Nat /\ At(st, l.name) \in Nat
        BY <1>1, <1>3, <2>2 DEF At
    <2> QED BY <2>2, <2>3
<1> QED BY <1>3, <1>4 DEF CycleReported


-----------------------------------------------------------------------------
(* The strata in the behaviours *)

DatalogTypes ==
    /\ rest \in Seq(Statement) /\ facts \in Seq(Atom) /\ rules \in Seq(Rule)
    /\ query \in Seq(Atom)
    /\ phase \in {"collect", "strata", "rejected", "c", "beam", "done"}
    /\ phase # "collect" => Len(query) = 1 /\ prog = applyMagicSet(query[1], facts, rules)
    /\ ri \in Nat /\ changed \in BOOLEAN
    /\ phase \in {"strata", "c", "beam"} => ri >= 1
Stratified == Acyclic(query[1], facts, rules)
StrataInv ==
    /\ phase = "strata" /\ Stratified =>
        /\ Climbing(query[1], rules, prog.rules, strata, IF changed THEN stratum + 1 ELSE stratum)
        /\ stratum \in Nat /\ (~changed => Settled(strata, prog.rules, ri))
    /\ phase = "rejected" => ~Stratified
    /\ phase = "c" /\ Stratified =>
        \A i \in DOMAIN prog.rules : Raised(strata, prog.rules[i]) = strata[prog.rules[i].name]

LEMMA StatementFacts ==
    ASSUME NEW s \in Statement
    PROVE  /\ s.k \in {"fact", "query", "rule"}
           /\ [name |-> s.name, args |-> s.args] \in Atom
           /\ s.k = "rule" => [name |-> s.name, args |-> s.args, body |-> s.body] \in Rule
<1>1. CASE s \in [k : {"fact", "query"}, name : STRING, args : Row]
    BY <1>1 DEF Atom
<1>2. CASE s \in [k : {"rule"}, name : STRING, args : Row, body : Seq(Literal)]
    BY <1>2 DEF Atom, Rule
<1> QED BY <1>1, <1>2 DEF Statement

LEMMA TypesInit == Init => DatalogTypes
<1> SUFFICES ASSUME Init PROVE DatalogTypes
    OBVIOUS
<1>1. rest \in Seq(Statement)
    BY DatalogAssumption DEF Init
<1>2. facts \in Seq(Atom) /\ rules \in Seq(Rule) /\ query \in Seq(Atom)
    BY DEF Init
<1> QED BY <1>1, <1>2 DEF Init, DatalogTypes

LEMMA TypesStep == DatalogTypes /\ [Next]_vars => DatalogTypes'
<1> SUFFICES ASSUME DatalogTypes, [Next]_vars PROVE DatalogTypes'
    OBVIOUS
<1>0. /\ rest \in Seq(Statement) /\ facts \in Seq(Atom) /\ rules \in Seq(Rule)
      /\ query \in Seq(Atom) /\ ri \in Nat /\ changed \in BOOLEAN
      /\ phase # "collect" => Len(query) = 1 /\ prog = applyMagicSet(query[1], facts, rules)
    BY DEF DatalogTypes
<1>1. rest # <<>> => Head(rest) \in Statement /\ Tail(rest) \in Seq(Statement)
    BY <1>0, TailType
<1>2. CASE collectFact
    <2>1. rest # <<>> /\ Head(rest).k = "fact"
        BY <1>2 DEF collectFact, NextIs
    <2> DEFINE a == [name |-> Head(rest).name, args |-> Head(rest).args]
    <2>2. a \in Atom
        BY <1>1, <2>1, StatementFacts
    <2>3. facts' = Append(facts, a)
        BY <1>2 DEF collectFact
    <2> HIDE DEF a
    <2>4. facts' \in Seq(Atom)
        BY <1>0, <2>2, <2>3, AppendFacts
    <2> QED BY <1>0, <1>1, <1>2, <2>1, <2>4 DEF collectFact, Evaluator, DatalogTypes
<1>3. CASE collectRule
    <2>1. rest # <<>> /\ Head(rest).k = "rule"
        BY <1>3 DEF collectRule, NextIs
    <2> DEFINE a == [name |-> Head(rest).name, args |-> Head(rest).args, body |-> Head(rest).body]
    <2>2. a \in Rule
        BY <1>1, <2>1, StatementFacts
    <2>3. rules' = Append(rules, a)
        BY <1>3 DEF collectRule
    <2> HIDE DEF a
    <2>4. rules' \in Seq(Rule)
        BY <1>0, <2>2, <2>3, AppendFacts
    <2> QED BY <1>0, <1>1, <1>3, <2>1, <2>4 DEF collectRule, Evaluator, DatalogTypes
<1>4. CASE lowerLogicQuery
    <2>1. rest # <<>>
        BY <1>4 DEF lowerLogicQuery, NextIs
    <2> DEFINE a == [name |-> Head(rest).name, args |-> Head(rest).args]
    <2>2. a \in Atom
        BY <1>1, <2>1, StatementFacts
    <2>3. query' = <<a>> /\ prog' = applyMagicSet(a, facts, rules)
        BY <1>4 DEF lowerLogicQuery
    <2> HIDE DEF a
    <2>4. query' \in Seq(Atom) /\ Len(query') = 1 /\ query'[1] = a
        BY <2>2, <2>3
    <2>5. UNCHANGED <<facts, rules>> /\ rest' = Tail(rest) /\ phase' = "strata" /\ ri' = 1 /\ changed' = FALSE
        BY <1>4 DEF lowerLogicQuery
    <2>6. prog' = applyMagicSet(query'[1], facts', rules')
        BY <2>3, <2>4, <2>5, Zenon
    <2>7. rest' \in Seq(Statement) /\ facts' \in Seq(Atom) /\ rules' \in Seq(Rule)
        BY <1>0, <1>1, <2>1, <2>5
    <2>8. ri' \in Nat /\ ri' >= 1
        BY <2>5
    <2>9. changed' \in BOOLEAN
        BY <2>5, Zenon
    <2> QED BY <2>4, <2>5, <2>6, <2>7, <2>8, <2>9, Zenon DEF DatalogTypes
<1>5. CASE StrataRule
    BY <1>0, <1>5 DEF StrataRule, DatalogTypes
<1>6. CASE StrataPass
    <2>1. UNCHANGED <<rest, facts, rules, query, prog>> /\ phase # "collect"
        BY <1>6 DEF StrataPass, Evaluate
    <2>2. /\ ri' \in Nat /\ phase' \in {"strata", "rejected", "c", "beam", "done"}
          /\ phase' \in {"strata", "c", "beam"} => ri' >= 1
        BY <1>0, <1>6 DEF StrataPass, Evaluate, DatalogTypes
    <2>3. changed' = FALSE \/ changed' = changed
        BY <1>6, Zenon DEF StrataPass, Evaluate
    <2>4. changed' \in BOOLEAN
        BY <1>0, <2>3, Zenon
    <2> QED BY <1>0, <2>1, <2>2, <2>4 DEF DatalogTypes
<1>7. CASE CRule
    BY <1>0, <1>7 DEF CRule, DatalogTypes
<1>8. CASE CPass
    <2>1. UNCHANGED <<rest, facts, rules, query, prog>> /\ phase # "collect"
        BY <1>8 DEF CPass, Evaluate
    <2>2. /\ ri' \in Nat /\ phase' \in {"strata", "rejected", "c", "beam", "done"}
          /\ phase' \in {"strata", "c", "beam"} => ri' >= 1
        BY <1>0, <1>8 DEF CPass, Evaluate, DatalogTypes
    <2>3. changed' = FALSE \/ changed' = changed
        BY <1>8, Zenon DEF CPass, Evaluate
    <2>4. changed' \in BOOLEAN
        BY <1>0, <2>3, Zenon
    <2> QED BY <1>0, <2>1, <2>2, <2>4 DEF DatalogTypes
<1>9. CASE BeamRule
    BY <1>0, <1>9 DEF BeamRule, DatalogTypes
<1>10. CASE BeamPass
    <2>1. UNCHANGED <<rest, facts, rules, query, prog>> /\ phase # "collect"
        BY <1>10 DEF BeamPass
    <2>2. /\ ri' \in Nat /\ phase' \in {"strata", "rejected", "c", "beam", "done"}
          /\ phase' \in {"strata", "c", "beam"} => ri' >= 1
        BY <1>0, <1>10 DEF BeamPass, DatalogTypes
    <2>3. changed' = FALSE \/ changed' = changed
        BY <1>10, Zenon DEF BeamPass
    <2>4. changed' \in BOOLEAN
        BY <1>0, <2>3, Zenon
    <2> QED BY <1>0, <2>1, <2>2, <2>4 DEF DatalogTypes
<1>11. CASE UNCHANGED vars
    BY <1>11 DEF vars, DatalogTypes
<1> QED BY <1>2, <1>3, <1>4, <1>5, <1>6, <1>7, <1>8, <1>9, <1>10, <1>11 DEF Next


LEMMA ClimbInit ==
    ASSUME NEW q, NEW fs, NEW rs \in Seq(Rule), NEW p, p = applyMagicSet(q, fs, rs).rules,
           NEW fs2, NEW st, st = [r \in Relations(fs2, p) |-> 0]
    PROVE  Climbing(q, rs, p, st, 0) /\ Settled(st, p, 1)
<1> DEFINE D == Relations(fs2, p)
<1>1. Relations(<<>>, p) \subseteq D
    BY DEF Relations
<1> HIDE DEF D
<1>2. st \in [D -> Nat]
    BY DEF D
<1>3. \A r \in DOMAIN st : st[r] <= Height(q, rs, r)
    <2> TAKE r \in DOMAIN st
    <2>1. st[r] = 0 /\ Height(q, rs, r) \in Nat
        BY HeightFacts
    <2> QED BY <2>1
<1>4. 0 <= Cardinality(Levels(st, p))
    <2>1. p \in Seq(MRule(q))
        BY RewriteFacts
    <2>2. Cardinality(Levels(st, p)) \in Nat
        BY <2>1, LevelsBound
    <2> QED BY <2>2
<1>5. Settled(st, p, 1)
    BY DEF Settled
<1> QED BY <1>1, <1>2, <1>3, <1>4, <1>5 DEF Climbing

LEMMA StrataStep == DatalogTypes /\ StrataInv /\ [Next]_vars => StrataInv'
<1> SUFFICES ASSUME DatalogTypes, StrataInv, [Next]_vars PROVE StrataInv'
    OBVIOUS
<1>0. /\ facts \in Seq(Atom) /\ rules \in Seq(Rule) /\ ri \in Nat /\ changed \in BOOLEAN
      /\ phase # "collect" => Len(query) = 1 /\ prog = applyMagicSet(query[1], facts, rules)
      /\ phase \in {"strata", "c", "beam"} => ri >= 1
    BY DEF DatalogTypes
<1> DEFINE q == query[1]
           p == prog.rules
<1>1. CASE collectFact \/ collectRule
    BY <1>1 DEF collectFact, collectRule, StrataInv
<1>2. CASE lowerLogicQuery
    <2> DEFINE a == [name |-> Head(rest).name, args |-> Head(rest).args]
    <2>1. /\ query' = <<a>> /\ prog' = applyMagicSet(a, facts, rules)
          /\ strata' = [r \in Relations(prog'.facts, prog'.rules) |-> 0]
          /\ phase' = "strata" /\ stratum' = 0 /\ ri' = 1 /\ changed' = FALSE
          /\ UNCHANGED <<facts, rules>>
        BY <1>2 DEF lowerLogicQuery
    <2> HIDE DEF a
    <2>2. query'[1] = a
        BY <2>1
    <2>3. Climbing(a, rules, prog'.rules, strata', 0) /\ Settled(strata', prog'.rules, 1)
        BY <1>0, <2>1, ClimbInit
    <2> QED BY <2>1, <2>2, <2>3 DEF StrataInv
<1>3. CASE StrataRule
    <2>1. /\ phase = "strata" /\ ri <= Len(p) /\ strata' = [strata EXCEPT ![p[ri].name] = Raised(strata, p[ri])]
          /\ ri' = ri + 1
          /\ UNCHANGED <<rest, facts, rules, query, phase, prog, stratum, tab, canswer, banswer>>
        BY <1>3 DEF StrataRule
    <2>2. changed' \in BOOLEAN /\ (changed' <=> (changed \/ strata' # strata))
        BY <1>0, <1>3, Zenon DEF StrataRule
    <2>3. p = applyMagicSet(q, facts, rules).rules
        BY <1>0, <2>1
    <2>4. ri \in 1..Len(p)
        <3>1. Len(p) \in Nat
            <4>1. p \in Seq(MRule(q))
                BY <1>0, <2>3, RewriteFacts
            <4> QED BY <4>1
        <3> QED BY <1>0, <2>1, <3>1
    <2> DEFINE n == IF changed THEN stratum + 1 ELSE stratum
    <2>5. ASSUME Stratified'
          PROVE  /\ Climbing(q, rules, p, strata', IF changed' THEN stratum + 1 ELSE stratum)
                 /\ stratum \in Nat /\ (~changed' => Settled(strata', p, ri + 1))
        <3>1. Stratified
            BY <2>1, <2>5 DEF Stratified
        <3>2. Climbing(q, rules, p, strata, n) /\ stratum \in Nat /\ (~changed => Settled(strata, p, ri))
            BY <2>1, <3>1 DEF StrataInv
        <3>3. Acyclic(q, facts, rules)
            BY <3>1 DEF Stratified
        <3>4. rules \in Seq(Rule)
            BY <1>0
        <3>5. strata' = [strata EXCEPT ![p[ri].name] = Raised(strata, p[ri])]
            BY <2>1
        <3>6. /\ Climbing(q, rules, p, strata', n)
              /\ strata' # strata => Climbing(q, rules, p, strata', n + 1)
              /\ p[ri].name \in DOMAIN strata
            <4> HIDE DEF q, p, n
            <4>1. Climbing(q, rules, p, strata', n)
                BY <2>3, <2>4, <3>2, <3>3, <3>4, <3>5, ClimbRule
            <4>2. strata' # strata => Climbing(q, rules, p, strata', n + 1)
                BY <2>3, <2>4, <3>2, <3>3, <3>4, <3>5, ClimbRule
            <4>3. p[ri].name \in DOMAIN strata
                <5>1. PICK D : Relations(<<>>, p) \subseteq D /\ strata \in [D -> Nat]
                    BY <3>2 DEF Climbing
                <5>2. p \in Seq(MRule(q))
                    BY <2>3, <3>4, RewriteFacts
                <5>3. p[ri].name \in Derived(p)
                    BY <2>4, <5>2 DEF Derived
                <5> QED BY <5>1, <5>3 DEF Relations
            <4> QED BY <4>1, <4>2, <4>3
        <3>7. ~changed' => Settled(strata', p, ri + 1)
            <4> HAVE ~changed'
            <4>1. strata' = strata /\ ~changed
                BY <2>2
            <4>2. Settled(strata, p, ri) /\ Raised(strata, p[ri]) = strata[p[ri].name]
                BY <3>2, <3>5, <3>6, <4>1
            <4>3. \A m \in 1..Len(p) : m < ri + 1 => m < ri \/ m = ri
                BY <1>0
            <4> HIDE DEF q, p
            <4>4. Settled(strata, p, ri + 1)
                BY <4>2, <4>3 DEF Settled
            <4> QED BY <4>1, <4>4
        <3> HIDE DEF q, p
        <3> QED BY <2>2, <3>2, <3>6, <3>7
    <2> QED BY <2>1, <2>5 DEF StrataInv
<1>4. CASE StrataPass
    <2>1. /\ phase = "strata" /\ ri > Len(p)
          /\ UNCHANGED <<rest, facts, rules, query, prog, strata, canswer, banswer>>
        BY <1>4 DEF StrataPass
    <2>2. p = applyMagicSet(q, facts, rules).rules
        BY <1>0, <2>1
    <2>3. Stratified' <=> Stratified
        BY <2>1 DEF Stratified
    <2>4. CASE ~Stratified
        <3>1. phase' # "c" \/ phase' = "c"
            OBVIOUS
        <3> QED BY <2>3, <2>4 DEF StrataInv
    <2>5. CASE Stratified
        <3>1. /\ Climbing(q, rules, p, strata, IF changed THEN stratum + 1 ELSE stratum)
              /\ stratum \in Nat /\ (~changed => Settled(strata, p, ri))
            BY <2>1, <2>5 DEF StrataInv
        <3>2. Acyclic(q, facts, rules)
            BY <2>5 DEF Stratified
        <3>4. CASE changed
            <4>1. Climbing(q, rules, p, strata, stratum + 1)
                BY <3>1, <3>4
            <4>2. (stratum + 1) + 1 < PassLimit(p) /\ PassLimit(p) \in Int
                <5>1. (stratum + 1) + 1 < PassLimit(p)
                    <6> HIDE DEF q, p
                    <6> QED BY <1>0, <2>2, <4>1, LastPass
                <5>2. Len(p) \in Nat
                    <6>1. p \in Seq(MRule(q))
                        BY <1>0, <2>2, RewriteFacts
                    <6> QED BY <6>1
                <5> QED BY <5>1, <5>2 DEF PassLimit
            <4>3. stratum + 1 # PassLimit(p)
                BY <3>1, <4>2
            <4>4. ri' = 1 /\ changed' = FALSE /\ stratum' = stratum + 1 /\ phase' = phase
                BY <1>4, <3>4, <4>3 DEF StrataPass
            <4>5. Settled(strata, p, 1)
                BY DEF Settled
            <4> QED BY <2>1, <3>1, <4>1, <4>4, <4>5 DEF StrataInv
        <3>5. CASE ~changed
            <4>1. Climbing(q, rules, p, strata, stratum) /\ Settled(strata, p, ri)
                BY <3>1, <3>5
            <4>2. ~CycleReported(strata, p) /\ \A m \in DOMAIN p : Raised(strata, p[m]) = strata[p[m].name]
                <5>1. rules \in Seq(Rule) /\ ri \in Nat /\ ri > Len(p)
                    BY <1>0, <2>1
                <5> HIDE DEF q, p
                <5>2. ~CycleReported(strata, p)
                    BY <5>1, <2>2, <3>2, <4>1, SettledAccepts
                <5>3. \A m \in DOMAIN p : Raised(strata, p[m]) = strata[p[m].name]
                    <6>1. DOMAIN p = 1..Len(p) /\ Len(p) \in Nat
                        <7>1. p \in Seq(MRule(q))
                            BY <5>1, <2>2, RewriteFacts
                        <7> QED BY <7>1
                    <6>2. \A m \in 1..Len(p) : m < ri
                        BY <5>1, <6>1
                    <6> QED BY <4>1, <6>1, <6>2 DEF Settled
                <5> QED BY <5>2, <5>3
            <4>3. phase' \in {"c", "beam"}
                BY <1>4, <3>5, <4>2 DEF StrataPass, Evaluate
            <4> QED BY <2>1, <4>2, <4>3 DEF StrataInv
        <3> QED BY <3>4, <3>5
    <2> QED BY <2>4, <2>5
<1>5. CASE CRule
    <2>1. UNCHANGED <<facts, rules, query, phase, prog, strata>> /\ phase = "c"
        BY <1>5 DEF CRule
    <2>2. Stratified' <=> Stratified
        BY <2>1 DEF Stratified
    <2> QED BY <2>1, <2>2 DEF StrataInv
<1>6. CASE CPass
    <2>1. UNCHANGED <<facts, rules, query, prog, strata>> /\ phase = "c" /\ phase' \in {"c", "beam"}
        BY <1>6 DEF CPass, Evaluate
    <2>2. Stratified' <=> Stratified
        BY <2>1 DEF Stratified
    <2> QED BY <2>1, <2>2 DEF StrataInv
<1>7. CASE BeamRule
    BY <1>7 DEF BeamRule, StrataInv
<1>8. CASE BeamPass
    <2>1. phase' \in {"beam", "done"}
        BY <1>8 DEF BeamPass
    <2> QED BY <2>1 DEF StrataInv
<1>9. CASE UNCHANGED vars
    <2>1. UNCHANGED <<facts, rules, query, phase, prog, strata, stratum, ri, changed>>
        BY <1>9 DEF vars
    <2>2. Stratified' <=> Stratified
        BY <2>1 DEF Stratified
    <2> QED BY <2>1, <2>2 DEF StrataInv
<1> QED BY <1>1, <1>2, <1>3, <1>4, <1>5, <1>6, <1>7, <1>8, <1>9 DEF Next

LEMMA StrataInvAlways == Spec => [](DatalogTypes /\ StrataInv)
<1>1. Init => DatalogTypes /\ StrataInv
    BY TypesInit DEF Init, StrataInv
<1>2. (DatalogTypes /\ StrataInv) /\ [Next]_vars => (DatalogTypes /\ StrataInv)'
    BY TypesStep, StrataStep
<1> QED BY <1>1, <1>2, PTL DEF Spec

\* A query is refused only when a relation of the program depends on its own
\* negation: computeDatalogStrata settles in its passes after every magic
\* rewriting.
THEOREM DatalogRejectsOnlyCycles == Spec => []RejectsOnlyCycles
<1>1. DatalogTypes /\ StrataInv => RejectsOnlyCycles
    BY DEF StrataInv, Stratified, Acyclic, MagicTaken, RejectsOnlyCycles
<1> QED BY <1>1, StrataInvAlways, PTL

\* Negated relations are complete when the emitted C checks them: all the
\* rules that derive them are of lower strata.
THEOREM DatalogStrataSound == Spec => []StrataSound
<1>1. DatalogTypes /\ StrataInv => StrataSound
    BY DEF StrataInv, Stratified, Acyclic, MagicTaken, StrataSound
<1> QED BY <1>1, StrataInvAlways, PTL

-----------------------------------------------------------------------------
(* Rows and environments.  C is a set of constants, without Unbound.        *)

Env(C) == [Variables -> C \cup {Unbound}]
Bound(e) == {x \in Variables : e[x] # Unbound}

LEMMA GroundFacts ==
    ASSUME NEW e, NEW args \in Row
    PROVE  DOMAIN args = 1..Len(args) /\ Len(args) \in Nat /\ DOMAIN Ground(e, args) = 1..Len(args)
<1>1. DOMAIN args = 1..Len(args) /\ Len(args) \in Nat
    BY SeqElements DEF Row
<1> QED BY <1>1 DEF Ground

LEMMA GroundAt ==
    ASSUME NEW e, NEW args \in Row, NEW i \in 1..Len(args)
    PROVE  /\ args[i] \in ToSet(args) /\ args[i] \in STRING /\ args[i] # Unbound
           /\ args[i] \in Variables => Ground(e, args)[i] = e[args[i]]
           /\ args[i] \notin Variables => Ground(e, args)[i] = args[i]
<1>1. args \in Seq(STRING \ {Unbound})
    BY DEF Row
<1>2. i \in DOMAIN args /\ args[i] \in STRING \ {Unbound}
    BY <1>1, ElementType, SeqElements
<1>3. Ground(e, args)[i] = Value(e, args[i])
    BY <1>2 DEF Ground
<1> QED BY <1>2, <1>3 DEF Value, isVariable, ToSet

\* A row depends on the variables among its arguments.
LEMMA GroundSame ==
    ASSUME NEW e, NEW e2, NEW args, \A x \in ToSet(args) \cap Variables : e2[x] = e[x]
    PROVE  Ground(e2, args) = Ground(e, args)
<1>1. \A i \in DOMAIN args : Value(e2, args[i]) = Value(e, args[i])
    BY DEF Value, isVariable, ToSet
<1> QED BY <1>1 DEF Ground

\* A row of the same length and values is the grounded one.
LEMMA GroundIs ==
    ASSUME NEW S, NEW row \in Seq(S), NEW e, NEW args \in Row, Len(row) = Len(args),
           \A i \in 1..Len(args) : Ground(e, args)[i] = row[i]
    PROVE  Ground(e, args) = row
<1>1. /\ DOMAIN Ground(e, args) = 1..Len(args) /\ Len(args) \in Nat /\ DOMAIN args = 1..Len(args)
    BY GroundFacts
<1>2. DOMAIN row = 1..Len(args) /\ row = [i \in 1..Len(args) |-> row[i]]
    BY <1>1
<1>3. Ground(e, args) = [i \in 1..Len(args) |-> Ground(e, args)[i]]
    BY <1>1 DEF Ground
<1>4. [i \in 1..Len(args) |-> Ground(e, args)[i]] = [i \in 1..Len(args) |-> row[i]]
    OBVIOUS
<1> QED BY <1>2, <1>3, <1>4

\* A row that fits binds the variables among the arguments to its values.
LEMMA BindFits ==
    ASSUME NEW C, Unbound \notin C, NEW e \in Env(C), NEW args \in Row, NEW row \in Seq(C),
           Fits(e, args, row)
    PROVE  \E e2 \in Env(C) :
            /\ Bind(e, args, row) = <<e2>>
            /\ Ground(e2, args) = row
            /\ \A x \in Variables \ ToSet(args) : e2[x] = e[x]
            /\ \A x \in Bound(e) : e2[x] = e[x]
            /\ Bound(e2) = Bound(e) \cup (ToSet(args) \cap Variables)
<1> DEFINE pos(x) == CHOOSE i \in DOMAIN args : args[i] = x
           e2 == [x \in Variables |-> IF Contains(args, x) THEN row[pos(x)] ELSE e[x]]
<1>0. /\ DOMAIN args = 1..Len(args) /\ Len(args) \in Nat /\ Len(row) = Len(args)
      /\ \A i \in 1..Len(args) : row[i] \in C /\ row[i] # Unbound
    <2>1. DOMAIN args = 1..Len(args) /\ Len(args) \in Nat /\ Len(row) = Len(args)
        BY GroundFacts DEF Fits
    <2>2. \A i \in 1..Len(row) : row[i] \in C
        BY ElementType
    <2> QED BY <2>1, <2>2
<1>1. Bind(e, args, row) = <<e2>>
    BY DEF Bind
<1>2. \A x : Contains(args, x) <=> x \in ToSet(args)
    BY <1>0 DEF Contains, ToSet
<1>3. \A x : x \in ToSet(args) => pos(x) \in 1..Len(args) /\ args[pos(x)] = x
    <2> TAKE x
    <2> HAVE x \in ToSet(args)
    <2>1. \E i \in DOMAIN args : args[i] = x
        BY DEF ToSet
    <2>2. pos(x) \in DOMAIN args /\ args[pos(x)] = x
        BY <2>1, Zenon
    <2> QED BY <1>0, <2>2
<1> HIDE DEF pos
<1>4. /\ \A x \in Variables \cap ToSet(args) : e2[x] = row[pos(x)] /\ e2[x] \in C /\ e2[x] # Unbound
      /\ \A x \in Variables \ ToSet(args) : e2[x] = e[x]
    BY <1>0, <1>2, <1>3
<1>5. e2 \in Env(C)
    BY <1>0, <1>2, <1>3 DEF Env
<1> HIDE DEF e2
<1>6. \A i \in 1..Len(args) : args[i] \in Variables =>
        e[args[i]] \in {Unbound, row[i]} /\ \A j \in 1..Len(args) : args[j] = args[i] => row[j] = row[i]
    <2> TAKE i \in 1..Len(args)
    <2> HAVE args[i] \in Variables
    <2>1. e[args[i]] \in {Unbound, row[i]} /\ \A j \in 1..i : args[j] = args[i] => row[j] = row[i]
        BY <1>0 DEF Fits, isVariable
    <2>2. ASSUME NEW j \in 1..Len(args), args[j] = args[i] PROVE row[j] = row[i]
        <3>0. i \in Nat /\ j \in Nat /\ i >= 1 /\ j >= 1
            <4>1. Len(args) \in Nat
                BY <1>0
            <4> QED BY <4>1
        <3>1. CASE j <= i
            <4>1. j \in 1..i
                BY <3>0, <3>1
            <4> QED BY <2>1, <2>2, <4>1
        <3>2. CASE i <= j
            <4>1. i \in 1..j
                BY <3>0, <3>2
            <4>2. args[j] \in Variables
                BY <2>2
            <4>3. \A k \in 1..j : args[k] = args[j] => row[k] = row[j]
                BY <1>0, <4>2 DEF Fits, isVariable
            <4> QED BY <2>2, <4>1, <4>3
        <3>3. j <= i \/ i <= j
            BY <3>0
        <3> QED BY <3>1, <3>2, <3>3
    <2> QED BY <2>1, <2>2
<1>7. Ground(e2, args) = row
    <2> SUFFICES ASSUME NEW i \in 1..Len(args) PROVE Ground(e2, args)[i] = row[i]
        BY <1>0, GroundIs
    <2>1. CASE args[i] \notin Variables
        <3>1. Ground(e2, args)[i] = args[i]
            BY <2>1, GroundAt
        <3>2. args[i] = row[i]
            BY <1>0, <2>1 DEF Fits, isVariable
        <3> QED BY <3>1, <3>2
    <2>2. CASE args[i] \in Variables
        <3>1. Ground(e2, args)[i] = e2[args[i]] /\ args[i] \in ToSet(args)
            BY <2>2, GroundAt
        <3>2. e2[args[i]] = row[pos(args[i])] /\ pos(args[i]) \in 1..Len(args) /\ args[pos(args[i])] = args[i]
            BY <1>3, <1>4, <2>2, <3>1
        <3> QED BY <1>6, <2>2, <3>1, <3>2
    <2> QED BY <2>1, <2>2
<1>8. \A x \in Bound(e) : e2[x] = e[x]
    <2> TAKE x \in Bound(e)
    <2>1. x \in Variables /\ e[x] # Unbound
        BY DEF Bound
    <2>2. CASE x \in ToSet(args)
        <3>1. e2[x] = row[pos(x)] /\ pos(x) \in 1..Len(args) /\ args[pos(x)] = x
            BY <1>3, <1>4, <2>1, <2>2
        <3>2. e[x] \in {Unbound, row[pos(x)]}
            BY <1>6, <2>1, <3>1
        <3> QED BY <2>1, <3>1, <3>2
    <2>3. CASE x \notin ToSet(args)
        BY <1>4, <2>1, <2>3
    <2> QED BY <2>2, <2>3
<1>9. Bound(e2) = Bound(e) \cup (ToSet(args) \cap Variables)
    BY <1>4, <1>8 DEF Bound
<1> QED BY <1>1, <1>4, <1>5, <1>7, <1>8, <1>9

\* A row a solution asks for fits every environment the solution extends.
LEMMA SolutionFits ==
    ASSUME NEW C, NEW e \in Env(C), NEW e3 \in Env(C), NEW args \in Row, NEW row \in Seq(C),
           Ground(e3, args) = row, \A x \in Variables : e[x] \in {Unbound, e3[x]}
    PROVE  Fits(e, args, row)
<1>1. DOMAIN args = 1..Len(args) /\ Len(args) \in Nat /\ DOMAIN row = 1..Len(args)
    BY GroundFacts
<1>2. Len(row) = Len(args)
    <2>1. DOMAIN row = 1..Len(row) /\ Len(row) \in Nat
        BY SeqElements
    <2> QED BY <1>1, <2>1
<1>3. \A i \in 1..Len(args) :
        /\ args[i] \in Variables => row[i] = e3[args[i]]
        /\ args[i] \notin Variables => row[i] = args[i]
    BY GroundAt
<1>4. \A i \in 1..Len(args) : \A j \in 1..i : j \in 1..Len(args)
    BY <1>1
<1> QED BY <1>1, <1>2, <1>3, <1>4 DEF Fits, isVariable


\* What Bind returns, as a set.
LEMMA BindElements ==
    ASSUME NEW C, Unbound \notin C, NEW e \in Env(C), NEW args \in Row, NEW row \in Seq(C)
    PROVE  /\ Bind(e, args, row) \in Seq(Env(C))
           /\ \A e2 : e2 \in ToSet(Bind(e, args, row)) <=> Bind(e, args, row) = <<e2>>
<1>1. CASE ~Fits(e, args, row)
    <2>1. Bind(e, args, row) = <<>>
        BY <1>1 DEF Bind
    <2>2. ToSet(<<>>) = {} /\ <<>> \in Seq(Env(C)) /\ \A e2 : <<>> # <<e2>>
        BY DEF ToSet
    <2> QED BY <2>1, <2>2
<1>2. CASE Fits(e, args, row)
    <2>1. PICK e3 \in Env(C) : Bind(e, args, row) = <<e3>>
        BY <1>2, BindFits
    <2>2. ToSet(<<e3>>) = {e3} /\ <<e3>> \in Seq(Env(C)) /\ \A e2 : <<e3>> = <<e2>> <=> e3 = e2
        BY DEF ToSet
    <2> QED BY <2>1, <2>2
<1> QED BY <1>1, <1>2

\* A literal joined to the environments so far.
JoinOf(C, t, l, envs) ==
    {e2 \in Env(C) : \E e \in ToSet(envs) : \E row \in ToSet(t[l.name]) : Bind(e, l.args, row) = <<e2>>}
LEMMA JoinedFacts ==
    ASSUME NEW C, Unbound \notin C, NEW t, NEW l, t[l.name] \in Seq(Seq(C)), l.args \in Row,
           NEW envs \in Seq(Env(C))
    PROVE  Joined(t, l, envs) \in Seq(Env(C)) /\ ToSet(Joined(t, l, envs)) = JoinOf(C, t, l, envs)
<1> DEFINE rows == t[l.name]
           B(i, j) == Bind(envs[i], l.args, rows[j])
           inner(i) == [j \in DOMAIN rows |-> B(i, j)]
           outer == [i \in DOMAIN envs |-> FlattenSeq(inner(i))]
<1>1. Joined(t, l, envs) = FlattenSeq(outer)
    BY DEF Joined
<1>2. rows \in Seq(Seq(C))
    OBVIOUS
<1> HIDE DEF rows
<1>3. /\ DOMAIN rows = 1..Len(rows) /\ Len(rows) \in Nat /\ \A j \in 1..Len(rows) : rows[j] \in Seq(C)
      /\ DOMAIN envs = 1..Len(envs) /\ Len(envs) \in Nat /\ \A i \in 1..Len(envs) : envs[i] \in Env(C)
    BY <1>2, SeqElements, ElementType
<1>4. \A i \in 1..Len(envs) : \A j \in 1..Len(rows) :
        B(i, j) \in Seq(Env(C)) /\ \A e2 : e2 \in ToSet(B(i, j)) <=> B(i, j) = <<e2>>
    BY <1>3, BindElements
<1> HIDE DEF B
<1>5. \A i \in 1..Len(envs) :
        /\ FlattenSeq(inner(i)) \in Seq(Env(C))
        /\ ToSet(FlattenSeq(inner(i))) = UNION {ToSet(B(i, j)) : j \in 1..Len(rows)}
    <2> TAKE i \in 1..Len(envs)
    <2> DEFINE s == inner(i)
    <2>1. s \in [1..Len(rows) -> Seq(Env(C))] /\ \A j \in 1..Len(rows) : s[j] = B(i, j)
        BY <1>3, <1>4
    <2> HIDE DEF s
    <2>2. s \in Seq(Seq(Env(C))) /\ Len(s) = Len(rows)
        BY <1>3, <2>1
    <2>3. FlattenSeq(s) \in Seq(Env(C)) /\ ToSet(FlattenSeq(s)) = UNION {ToSet(s[j]) : j \in 1..Len(rows)}
        BY <2>2, FlattenType, FlattenElements
    <2>4. {ToSet(s[j]) : j \in 1..Len(rows)} = {ToSet(B(i, j)) : j \in 1..Len(rows)}
        BY <2>1
    <2> QED BY <2>3, <2>4 DEF s
<1>6. outer \in [1..Len(envs) -> Seq(Env(C))] /\ \A i \in 1..Len(envs) : outer[i] = FlattenSeq(inner(i))
    <2> HIDE DEF inner
    <2> QED BY <1>3, <1>5
<1> HIDE DEF inner, outer
<1>7. outer \in Seq(Seq(Env(C))) /\ Len(outer) = Len(envs)
    BY <1>3, <1>6
<1>8. FlattenSeq(outer) \in Seq(Env(C)) /\ ToSet(FlattenSeq(outer)) = UNION {ToSet(outer[i]) : i \in 1..Len(envs)}
    BY <1>7, FlattenType, FlattenElements
<1>9. \A e2 : e2 \in ToSet(FlattenSeq(outer)) <=>
        \E i \in 1..Len(envs) : \E j \in 1..Len(rows) : B(i, j) = <<e2>>
    <2> TAKE e2
    <2>1. e2 \in ToSet(FlattenSeq(outer)) <=> \E i \in 1..Len(envs) : e2 \in ToSet(outer[i])
        BY <1>8
    <2>2. \A i \in 1..Len(envs) : e2 \in ToSet(outer[i]) <=> \E j \in 1..Len(rows) : e2 \in ToSet(B(i, j))
        BY <1>5, <1>6
    <2>3. \A i \in 1..Len(envs) : \A j \in 1..Len(rows) : e2 \in ToSet(B(i, j)) <=> B(i, j) = <<e2>>
        BY <1>4
    <2> QED BY <2>1, <2>2, <2>3, Zenon
<1>10. \A e2 : (\E i \in 1..Len(envs) : \E j \in 1..Len(rows) : B(i, j) = <<e2>>) <=>
            \E e \in ToSet(envs) : \E row \in ToSet(rows) : Bind(e, l.args, row) = <<e2>>
    <2>1. /\ \A e : e \in ToSet(envs) <=> \E i \in 1..Len(envs) : e = envs[i]
          /\ \A row : row \in ToSet(rows) <=> \E j \in 1..Len(rows) : row = rows[j]
        BY <1>3 DEF ToSet
    <2> TAKE e2
    <2>2. ASSUME NEW i \in 1..Len(envs), NEW j \in 1..Len(rows), B(i, j) = <<e2>>
          PROVE  \E e \in ToSet(envs) : \E row \in ToSet(rows) : Bind(e, l.args, row) = <<e2>>
        <3>1. envs[i] \in ToSet(envs) /\ rows[j] \in ToSet(rows)
            BY <2>1
        <3> QED BY <2>2, <3>1, Zenon DEF B
    <2>3. ASSUME NEW e \in ToSet(envs), NEW row \in ToSet(rows), Bind(e, l.args, row) = <<e2>>
          PROVE  \E i \in 1..Len(envs) : \E j \in 1..Len(rows) : B(i, j) = <<e2>>
        <3>1. PICK i \in 1..Len(envs) : e = envs[i]
            BY <2>1
        <3>2. PICK j \in 1..Len(rows) : row = rows[j]
            BY <2>1
        <3> QED BY <2>3, <3>1, <3>2, Zenon DEF B
    <2> QED BY <2>2, <2>3, Zenon
<1>11. ToSet(FlattenSeq(outer)) \subseteq Env(C)
    BY <1>8, SeqElements
<1>12. ToSet(FlattenSeq(outer)) = JoinOf(C, t, l, envs)
    BY <1>9, <1>10, <1>11, Zenon DEF JoinOf, rows
<1> QED BY <1>1, <1>8, <1>12

(* One step of deriveRule, and the steps one after the other.              *)
Extend(t, l, envs) ==
    IF l.k = "pos" THEN Joined(t, l, envs)
    ELSE Kept(envs, {i \in DOMAIN envs : Keep(t, envs[i], l)})
Chain(t, body, g, n) ==
    g[0] = <<NoEnv>> /\ \A i \in 1..n : g[i] = Extend(t, body[i], g[i - 1])

LEMMA ChainExists ==
    ASSUME NEW t, NEW body, NEW n \in Nat
    PROVE  \E g : Chain(t, body, g, n)
<1> DEFINE P(m) == \E g : Chain(t, body, g, m)
           T == {m \in Nat : ~P(m)}
<1> SUFFICES ASSUME T # {} PROVE FALSE
    OBVIOUS
<1>1. PICK m \in T : \A y \in T : m <= y
    <2>1. T \subseteq Nat
        OBVIOUS
    <2> HIDE DEF T
    <2> QED BY <2>1, LeastOf
<1>2. m \in Nat /\ ~P(m)
    BY <1>1
<1>3. m # 0
    <2> DEFINE g == [i \in {0} |-> <<NoEnv>>]
    <2>1. g[0] = <<NoEnv>> /\ 1..0 = {}
        OBVIOUS
    <2> HIDE DEF g
    <2>2. Chain(t, body, g, 0)
        BY <2>1 DEF Chain
    <2> QED BY <1>2, <2>2
<1>4. m - 1 \in Nat /\ m - 1 \notin T
    <2>1. m - 1 \in Nat /\ ~(m <= m - 1)
        BY <1>2, <1>3
    <2> HIDE DEF T
    <2> QED BY <1>1, <2>1
<1>5. PICK g : Chain(t, body, g, m - 1)
    BY <1>4
<1> DEFINE h == [i \in 0..m |-> IF i = m THEN Extend(t, body[m], g[m - 1]) ELSE g[i]]
<1>6. /\ h[0] = g[0] /\ h[m] = Extend(t, body[m], g[m - 1])
      /\ \A i \in 0..(m - 1) : h[i] = g[i]
    BY <1>2, <1>3, <1>4
<1> HIDE DEF h
<1>7. \A i \in 1..m : h[i] = Extend(t, body[i], h[i - 1])
    <2> TAKE i \in 1..m
    <2>1. i - 1 \in 0..(m - 1)
        BY <1>2
    <2>2. CASE i = m
        BY <1>6, <2>1, <2>2
    <2>3. CASE i # m
        <3>1. i \in 1..(m - 1) /\ i \in 0..(m - 1)
            BY <1>2, <2>3
        <3>2. g[i] = Extend(t, body[i], g[i - 1])
            BY <1>5, <3>1 DEF Chain
        <3> QED BY <1>6, <2>1, <3>1, <3>2
    <2> QED BY <2>2, <2>3
<1>8. Chain(t, body, h, m)
    BY <1>5, <1>6, <1>7 DEF Chain
<1> QED BY <1>2, <1>8

LEMMA SolutionsAre ==
    ASSUME NEW t, NEW rule, Len(rule.body) \in Nat
    PROVE  \E g : Chain(t, rule.body, g, Len(rule.body)) /\ Solutions(t, rule) = g[Len(rule.body)]
<1> DEFINE n == Len(rule.body)
           F(f) == [i \in 0..n |-> IF i = 0 THEN <<NoEnv>> ELSE Extend(t, rule.body[i], f[i - 1])]
           s == CHOOSE f : f = F(f)
<1>1. Solutions(t, rule) = s[n]
    BY Zenon DEF Solutions, Extend
<1>2. PICK g : Chain(t, rule.body, g, n)
    BY ChainExists
<1> DEFINE h == [i \in 0..n |-> g[i]]
<1>3. \A i \in 0..n : i # 0 => i \in 1..n /\ h[i - 1] = g[i - 1]
    OBVIOUS
<1>4. \A i \in 0..n : g[i] = IF i = 0 THEN <<NoEnv>> ELSE Extend(t, rule.body[i], h[i - 1])
    <2> HIDE DEF h, n
    <2> QED BY <1>2, <1>3 DEF Chain
<1>5. h = F(h)
    BY <1>4, Zenon
<1>6. s = F(s)
    <2> HIDE DEF F, h
    <2> QED BY <1>5, Zenon
<1> HIDE DEF s
<1>7. \A i \in 0..n : s[i] = IF i = 0 THEN <<NoEnv>> ELSE Extend(t, rule.body[i], s[i - 1])
    BY <1>6, Zenon
<1>8. 0 \in 0..n /\ \A i \in 1..n : i \in 0..n /\ i # 0
    OBVIOUS
<1>9. Chain(t, rule.body, s, n)
    <2> HIDE DEF n
    <2> QED BY <1>7, <1>8, Zenon DEF Chain
<1> QED BY <1>1, <1>9


(* The facts in a table, and what a rule's solutions are up to place n of  *)
(* its body: the environments that bind what the positive literals bind    *)
(* and make every literal true.                                            *)
TabsOf(C, N) == [N -> Seq(Seq(C))]
TabFacts(t) == UNION {{<<r, row>> : row \in ToSet(t[r])} : r \in DOMAIN t}
SafeBody(rule) ==
    \A j \in DOMAIN rule.body : rule.body[j].k # "pos" =>
        ToSet(rule.body[j].args) \cap Variables \subseteq BoundBefore(rule, j)
BoundAt(rule, n) == BoundBefore(rule, n + 1) \cap Variables
Solving(C, I, rule, n) ==
    {e \in Env(C) : Bound(e) = BoundAt(rule, n) /\ \A j \in 1..n : True(e, rule.body[j], I, I)}

LEMMA InTab ==
    ASSUME NEW t, NEW r, NEW row
    PROVE  <<r, row>> \in TabFacts(t) <=> r \in DOMAIN t /\ row \in ToSet(t[r])
<1>1. ASSUME <<r, row>> \in TabFacts(t) PROVE r \in DOMAIN t /\ row \in ToSet(t[r])
    <2>1. PICK r2 \in DOMAIN t : \E row2 \in ToSet(t[r2]) : <<r, row>> = <<r2, row2>>
        BY <1>1, Zenon DEF TabFacts
    <2>2. r = r2 /\ row \in ToSet(t[r2])
        BY <2>1
    <2> QED BY <2>2
<1>2. ASSUME r \in DOMAIN t, row \in ToSet(t[r]) PROVE <<r, row>> \in TabFacts(t)
    BY <1>2 DEF TabFacts
<1> QED BY <1>1, <1>2

LEMMA TabElement ==
    ASSUME NEW t, NEW f \in TabFacts(t)
    PROVE  \E r \in DOMAIN t : \E row \in ToSet(t[r]) : f = <<r, row>>
BY Zenon DEF TabFacts

LEMMA BoundGrows ==
    ASSUME NEW rule \in Rule, NEW n \in 1..Len(rule.body)
    PROVE  BoundBefore(rule, n + 1) =
            BoundBefore(rule, n) \cup (IF rule.body[n].k = "pos" THEN ToSet(rule.body[n].args) ELSE {})
<1> DEFINE P(m) == {j \in 1..(m - 1) : rule.body[j].k = "pos"}
<1>1. n \in Nat /\ 1..((n + 1) - 1) = 1..n
    BY RuleFacts
<1>2. \A j : j \in 1..n <=> j \in 1..(n - 1) \/ j = n
    BY <1>1, RuleFacts
<1>3. P(n + 1) = P(n) \cup (IF rule.body[n].k = "pos" THEN {n} ELSE {})
    BY <1>1, <1>2
<1>4. BoundBefore(rule, n + 1) = UNION {ToSet(rule.body[i].args) : i \in P(n + 1)} /\
      BoundBefore(rule, n) = UNION {ToSet(rule.body[i].args) : i \in P(n)}
    BY DEF BoundBefore
<1> HIDE DEF P
<1> QED BY <1>3, <1>4

\* What a literal mentions is bound when it has been solved.
LEMMA VarsBound ==
    ASSUME NEW rule \in Rule, SafeBody(rule), NEW n \in 0..Len(rule.body), NEW j \in 1..n
    PROVE  ToSet(rule.body[j].args) \cap Variables \subseteq BoundAt(rule, n)
<1>1. n \in Nat /\ j \in Nat /\ j \in DOMAIN rule.body /\ (n + 1) - 1 = n
    BY RuleFacts
<1>2. CASE rule.body[j].k = "pos"
    <2>1. j \in {i \in 1..((n + 1) - 1) : rule.body[i].k = "pos"}
        BY <1>1, <1>2
    <2> QED BY <2>1 DEF BoundAt, BoundBefore
<1>3. CASE rule.body[j].k # "pos"
    <2>1. ToSet(rule.body[j].args) \cap Variables \subseteq BoundBefore(rule, j)
        BY <1>1, <1>3 DEF SafeBody
    <2>2. 1..(j - 1) \subseteq 1..((n + 1) - 1)
        BY <1>1
    <2>3. BoundBefore(rule, j) \subseteq BoundBefore(rule, n + 1)
        BY <2>2 DEF BoundBefore
    <2> QED BY <2>1, <2>3 DEF BoundAt
<1> QED BY <1>2, <1>3

\* Whether a literal is true depends on the variables it mentions.
LEMMA TrueSame ==
    ASSUME NEW l \in Literal, NEW e, NEW e2, \A x \in ToSet(l.args) \cap Variables : e2[x] = e[x],
           NEW I, NEW J, True(e, l, I, J)
    PROVE  True(e2, l, I, J)
<1>1. Ground(e2, l.args) = Ground(e, l.args)
    BY GroundSame
<1>2. l.k = "neq" => e2[l.args[1]] = e[l.args[1]] /\ e2[l.args[2]] = e[l.args[2]]
    <2> HAVE l.k = "neq"
    <2>1. l.args \in Variables \X Variables
        BY LiteralFacts
    <2>2. l.args[1] \in ToSet(l.args) \cap Variables /\ l.args[2] \in ToSet(l.args) \cap Variables
        BY <2>1 DEF ToSet
    <2> QED BY <2>2
<1>3. l.k \in {"pos", "not", "neq"}
    BY LiteralFacts
<1>4. CASE l.k = "pos"
    BY <1>1, <1>4 DEF True
<1>5. CASE l.k = "not"
    BY <1>1, <1>5 DEF True
<1>6. CASE l.k = "neq"
    BY <1>2, <1>6 DEF True
<1> QED BY <1>3, <1>4, <1>5, <1>6

\* An inequality or a negation of bound variables is checked as it should be.
LEMMA KeepIsTrue ==
    ASSUME NEW l \in Literal, l.k # "pos", NEW t, l.k = "not" => l.name \in DOMAIN t,
           NEW e, ToSet(l.args) \cap Variables \subseteq Bound(e)
    PROVE  Keep(t, e, l) <=> True(e, l, TabFacts(t), TabFacts(t))
<1>1. l.k \in {"not", "neq"}
    BY LiteralFacts
<1>2. CASE l.k = "neq"
    <2>1. l.args \in Variables \X Variables
        BY <1>2, LiteralFacts
    <2>2. l.args[1] \in ToSet(l.args) \cap Variables /\ l.args[2] \in ToSet(l.args) \cap Variables
        BY <2>1 DEF ToSet
    <2>3. e[l.args[1]] # Unbound /\ e[l.args[2]] # Unbound
        BY <2>2 DEF Bound
    <2>4. Keep(t, e, l) <=> e[l.args[1]] # e[l.args[2]]
        BY <1>2, <2>3 DEF Keep
    <2>5. True(e, l, TabFacts(t), TabFacts(t)) <=> e[l.args[1]] # e[l.args[2]]
        BY <1>2 DEF True
    <2> QED BY <2>4, <2>5
<1>3. CASE l.k = "not"
    <2> DEFINE row == Ground(e, l.args)
    <2>1. Keep(t, e, l) <=> ~\E i \in DOMAIN t[l.name] : t[l.name][i] = row
        BY <1>3 DEF Keep, Holds
    <2>2. True(e, l, TabFacts(t), TabFacts(t)) <=> <<l.name, row>> \notin TabFacts(t)
        BY <1>3 DEF True
    <2> HIDE DEF row
    <2>3. <<l.name, row>> \in TabFacts(t) <=> row \in ToSet(t[l.name])
        BY <1>3, InTab
    <2>4. row \in ToSet(t[l.name]) <=> \E i \in DOMAIN t[l.name] : t[l.name][i] = row
        BY DEF ToSet
    <2> QED BY <2>1, <2>2, <2>3, <2>4
<1> QED BY <1>1, <1>2, <1>3

\* A positive literal solved after the others.
LEMMA SolvePositive ==
    ASSUME NEW C, Unbound \notin C, NEW t, NEW rule \in Rule, SafeBody(rule),
           NEW n \in 1..Len(rule.body), NEW l, l = rule.body[n],
           l.k = "pos", l.name \in DOMAIN t, t[l.name] \in Seq(Seq(C)),
           NEW envs \in Seq(Env(C)), ToSet(envs) = Solving(C, TabFacts(t), rule, n - 1)
    PROVE  /\ Joined(t, l, envs) \in Seq(Env(C))
           /\ ToSet(Joined(t, l, envs)) = Solving(C, TabFacts(t), rule, n)
<1> DEFINE V == BoundAt(rule, n - 1)
           W == BoundAt(rule, n)
           I == TabFacts(t)
<1>0. /\ n \in Nat /\ n - 1 \in 0..Len(rule.body) /\ (n - 1) + 1 = n /\ n \in 0..Len(rule.body)
      /\ \A j \in 1..n : j \in 1..(n - 1) \/ j = n
      /\ \A j \in 1..(n - 1) : j \in 1..n
      /\ n \in 1..n
    BY RuleFacts
<1>1. l \in Literal /\ l.args \in Row /\ \A j \in 1..n : rule.body[j] \in Literal
    <2>1. l \in Literal
        BY RuleFacts
    <2>2. \A j \in 1..n : j \in 1..Len(rule.body)
        BY RuleFacts
    <2>3. \A j \in 1..n : rule.body[j] \in Literal
        BY <2>2, RuleFacts
    <2> QED BY <2>1, <2>3, LiteralFacts
<1>2. W = V \cup (ToSet(l.args) \cap Variables)
    BY <1>0, BoundGrows DEF BoundAt
<1>3. \A j \in 1..(n - 1) : ToSet(rule.body[j].args) \cap Variables \subseteq V
    BY <1>0, VarsBound
<1>4. Joined(t, l, envs) \in Seq(Env(C)) /\ ToSet(Joined(t, l, envs)) = JoinOf(C, t, l, envs)
    BY <1>1, JoinedFacts
<1>5. \A row \in ToSet(t[l.name]) : row \in Seq(C)
    BY SeqElements
<1>6. ASSUME NEW e \in ToSet(envs), NEW row \in ToSet(t[l.name]), NEW e2, Bind(e, l.args, row) = <<e2>>
      PROVE  e2 \in Solving(C, I, rule, n)
    <2>1. e \in Env(C) /\ Bound(e) = V /\ \A j \in 1..(n - 1) : True(e, rule.body[j], I, I)
        BY DEF Solving
    <2>2. row \in Seq(C)
        BY <1>5
    <2>3. Fits(e, l.args, row)
        <3>1. <<e2>> # <<>>
            OBVIOUS
        <3> QED BY <1>6, <3>1, Zenon DEF Bind
    <2>4. PICK e3 \in Env(C) : /\ Bind(e, l.args, row) = <<e3>>
                               /\ Ground(e3, l.args) = row
                               /\ \A x \in Bound(e) : e3[x] = e[x]
                               /\ Bound(e3) = Bound(e) \cup (ToSet(l.args) \cap Variables)
        BY <1>1, <2>1, <2>2, <2>3, BindFits
    <2>5. e3 = e2
        BY <1>6, <2>4
    <2>6. True(e2, l, I, I)
        <3>1. <<l.name, row>> \in I
            BY InTab
        <3> QED BY <2>4, <2>5, <3>1 DEF True
    <2>7. \A j \in 1..(n - 1) : True(e2, rule.body[j], I, I)
        <3> TAKE j \in 1..(n - 1)
        <3>1. \A x \in ToSet(rule.body[j].args) \cap Variables : e2[x] = e[x]
            BY <1>3, <2>1, <2>4, <2>5
        <3>2. rule.body[j] \in Literal /\ True(e, rule.body[j], I, I)
            BY <1>0, <1>1, <2>1
        <3> HIDE DEF I
        <3> QED BY <3>1, <3>2, TrueSame
    <2>8. \A j \in 1..n : True(e2, rule.body[j], I, I)
        BY <1>0, <2>6, <2>7
    <2>9. Bound(e2) = W
        BY <1>2, <2>1, <2>4, <2>5
    <2> QED BY <2>4, <2>5, <2>8, <2>9 DEF Solving
<1>7. ASSUME NEW e2 \in Solving(C, I, rule, n)
      PROVE  \E e \in ToSet(envs) : \E row \in ToSet(t[l.name]) : Bind(e, l.args, row) = <<e2>>
    <2> DEFINE e == [x \in Variables |-> IF x \in V THEN e2[x] ELSE Unbound]
               row == Ground(e2, l.args)
    <2>1. e2 \in Env(C) /\ Bound(e2) = W /\ \A j \in 1..n : True(e2, rule.body[j], I, I)
        BY DEF Solving
    <2>2. V \subseteq Variables
        BY DEF BoundAt
    <2>3. /\ e \in Env(C) /\ \A x \in Variables : e[x] \in {Unbound, e2[x]}
          /\ \A x \in V : e[x] = e2[x]
          /\ \A x \in Variables \ V : e[x] = Unbound
        BY <2>1, <2>2 DEF Env
    <2>4. Bound(e) = V
        BY <1>2, <2>1, <2>2, <2>3 DEF Bound
    <2> HIDE DEF e
    <2>5. \A j \in 1..(n - 1) : True(e, rule.body[j], I, I)
        <3> TAKE j \in 1..(n - 1)
        <3>1. \A x \in ToSet(rule.body[j].args) \cap Variables : e[x] = e2[x]
            BY <1>3, <2>3
        <3>2. rule.body[j] \in Literal /\ True(e2, rule.body[j], I, I)
            BY <1>0, <1>1, <2>1
        <3> HIDE DEF I
        <3> QED BY <3>1, <3>2, TrueSame
    <2>6. e \in ToSet(envs)
        BY <2>3, <2>4, <2>5 DEF Solving
    <2>7. row \in ToSet(t[l.name])
        <3>1. True(e2, l, I, I)
            BY <1>0, <2>1
        <3>2. <<l.name, row>> \in I
            BY <3>1 DEF True
        <3> QED BY <3>2, InTab
    <2>8. row \in Seq(C)
        BY <1>5, <2>7
    <2>9. Ground(e2, l.args) = row
        OBVIOUS
    <2> HIDE DEF row
    <2>10. Fits(e, l.args, row)
        BY <1>1, <2>1, <2>3, <2>8, <2>9, SolutionFits
    <2>11. PICK e3 \in Env(C) : /\ Bind(e, l.args, row) = <<e3>>
                                /\ Ground(e3, l.args) = row
                                /\ \A x \in Bound(e) : e3[x] = e[x]
                                /\ Bound(e3) = Bound(e) \cup (ToSet(l.args) \cap Variables)
        BY <1>1, <2>3, <2>8, <2>10, BindFits
    <2>12. \A x \in ToSet(l.args) \cap Variables : e3[x] = e2[x]
        <3> TAKE x \in ToSet(l.args) \cap Variables
        <3>1. PICK i \in 1..Len(l.args) : l.args[i] = x
            BY <1>1, GroundFacts DEF ToSet
        <3>2. Ground(e3, l.args)[i] = e3[x] /\ Ground(e2, l.args)[i] = e2[x]
            BY <1>1, <3>1, GroundAt
        <3> QED BY <2>9, <2>11, <3>2
    <2>13. \A x \in Variables : e3[x] = e2[x]
        <3> TAKE x \in Variables
        <3>1. CASE x \in V
            BY <2>3, <2>4, <2>11, <3>1
        <3>2. CASE x \in ToSet(l.args)
            BY <2>12, <3>2
        <3>3. CASE x \notin V /\ x \notin ToSet(l.args)
            <4>1. x \notin Bound(e3) /\ x \notin Bound(e2)
                BY <1>2, <2>1, <2>4, <2>11, <3>3
            <4> QED BY <4>1 DEF Bound
        <3> QED BY <3>1, <3>2, <3>3
    <2>14. e3 = e2
        BY <2>1, <2>11, <2>13 DEF Env
    <2> QED BY <2>6, <2>7, <2>11, <2>14
<1>8. ToSet(Joined(t, l, envs)) = Solving(C, I, rule, n)
    <2>1. Solving(C, I, rule, n) \subseteq Env(C)
        BY DEF Solving
    <2> HIDE DEF I
    <2> QED BY <1>4, <1>6, <1>7, <2>1 DEF JoinOf
<1> QED BY <1>4, <1>8

\* An inequality or a negation solved after the literals before it.
LEMMA SolveOther ==
    ASSUME NEW C, NEW t, NEW rule \in Rule, SafeBody(rule), NEW n \in 1..Len(rule.body),
           rule.body[n].k # "pos", rule.body[n].k = "not" => rule.body[n].name \in DOMAIN t,
           NEW envs \in Seq(Env(C)), ToSet(envs) = Solving(C, TabFacts(t), rule, n - 1),
           NEW K, K = {i \in DOMAIN envs : Keep(t, envs[i], rule.body[n])}
    PROVE  Kept(envs, K) \in Seq(Env(C)) /\ ToSet(Kept(envs, K)) = Solving(C, TabFacts(t), rule, n)
<1> DEFINE l == rule.body[n]
           I == TabFacts(t)
<1>0. /\ n \in Nat /\ n - 1 \in 0..Len(rule.body) /\ (n - 1) + 1 = n /\ n \in 0..Len(rule.body)
      /\ \A j \in 1..n : j \in 1..(n - 1) \/ j = n
      /\ \A j \in 1..(n - 1) : j \in 1..n
      /\ n \in 1..n
    BY RuleFacts
<1>1. l \in Literal /\ n \in DOMAIN rule.body
    BY RuleFacts
<1>2. BoundAt(rule, n) = BoundAt(rule, n - 1)
    BY <1>0, BoundGrows DEF BoundAt
<1>3. ToSet(l.args) \cap Variables \subseteq BoundAt(rule, n - 1)
    BY <1>0, <1>1 DEF SafeBody, BoundAt
<1>4. Kept(envs, K) \in Seq(Env(C)) /\ ToSet(Kept(envs, K)) = {envs[i] : i \in K \cap 1..Len(envs)}
    BY KeptFacts
<1>5. DOMAIN envs = 1..Len(envs) /\ ToSet(envs) = {envs[i] : i \in 1..Len(envs)}
    BY SeqElements
<1>6. ToSet(Kept(envs, K)) = {e \in ToSet(envs) : Keep(t, e, l)}
    BY <1>4, <1>5
<1>7. \A e \in ToSet(envs) : Keep(t, e, l) <=> True(e, l, I, I)
    <2> TAKE e \in ToSet(envs)
    <2>1. ToSet(l.args) \cap Variables \subseteq Bound(e)
        BY <1>3 DEF Solving
    <2>2. l.k # "pos" /\ (l.k = "not" => l.name \in DOMAIN t)
        OBVIOUS
    <2> HIDE DEF l
    <2> QED BY <1>1, <2>1, <2>2, KeepIsTrue
<1>8. {e \in ToSet(envs) : True(e, l, I, I)} = Solving(C, I, rule, n)
    <2>1. ASSUME NEW e \in ToSet(envs), True(e, l, I, I) PROVE e \in Solving(C, I, rule, n)
        <3>1. \A j \in 1..n : True(e, rule.body[j], I, I)
            BY <1>0, <2>1 DEF Solving
        <3> QED BY <1>2, <3>1 DEF Solving
    <2>2. ASSUME NEW e \in Solving(C, I, rule, n) PROVE e \in ToSet(envs) /\ True(e, l, I, I)
        BY <1>0, <1>2 DEF Solving
    <2> HIDE DEF l, I
    <2> QED BY <2>1, <2>2
<1> QED BY <1>4, <1>6, <1>7, <1>8

\* The environments deriveRule ends with are the solutions of the whole body.
LEMMA SolutionsFacts ==
    ASSUME NEW C, Unbound \notin C, NEW N, NEW t \in [N -> Seq(Seq(C))],
           NEW rule \in Rule, SafeBody(rule), BodyNames(rule) \subseteq N
    PROVE  /\ Solutions(t, rule) \in Seq(Env(C))
           /\ ToSet(Solutions(t, rule)) = Solving(C, TabFacts(t), rule, Len(rule.body))
<1> DEFINE last == Len(rule.body)
           I == TabFacts(t)
<1>0. last \in Nat
    BY RuleFacts
<1>1. PICK g : Chain(t, rule.body, g, last) /\ Solutions(t, rule) = g[last]
    BY <1>0, SolutionsAre
<1> DEFINE P(m) == g[m] \in Seq(Env(C)) /\ ToSet(g[m]) = Solving(C, I, rule, m)
           T == {m \in 0..last : ~P(m)}
<1> HIDE DEF last
<1>2. T = {}
    <2> SUFFICES ASSUME T # {} PROVE FALSE
        OBVIOUS
    <2>1. PICK m \in T : \A y \in T : m <= y
        <3>1. T \subseteq Nat
            BY <1>0
        <3> HIDE DEF T
        <3> QED BY <3>1, LeastOf
    <2>2. m \in 0..last /\ ~P(m) /\ m \in Nat
        BY <1>0, <2>1
    <2>3. CASE m = 0
        <3>1. g[m] = <<NoEnv>>
            BY <1>1, <2>3 DEF Chain
        <3>2. NoEnv \in Env(C) /\ Bound(NoEnv) = {}
            BY DEF NoEnv, Env, Bound
        <3>3. BoundAt(rule, 0) = {}
            BY DEF BoundAt, BoundBefore
        <3>4. \A e \in Env(C) : Bound(e) = {} => e = NoEnv
            BY DEF NoEnv, Env, Bound
        <3>5. Solving(C, I, rule, 0) = {NoEnv}
            <4>1. 1..0 = {}
                OBVIOUS
            <4>2. \A e : e \in Solving(C, I, rule, 0) <=> e \in Env(C) /\ Bound(e) = {}
                BY <3>3, <4>1, Zenon DEF Solving
            <4> HIDE DEF I, T, P
            <4> QED BY <3>2, <3>4, <4>2
        <3>6. <<NoEnv>> \in Seq(Env(C)) /\ ToSet(<<NoEnv>>) = {NoEnv}
            BY <3>2 DEF ToSet
        <3> QED BY <2>2, <2>3, <3>1, <3>5, <3>6
    <2>4. CASE m # 0
        <3>1. m - 1 \in 0..last /\ m - 1 \in Nat /\ m \in 1..last /\ ~(m <= m - 1)
            BY <1>0, <2>2, <2>4
        <3>2. P(m - 1)
            <4>1. m - 1 \notin T
                <5> HIDE DEF T
                <5> QED BY <2>1, <3>1
            <4> QED BY <3>1, <4>1
        <3> DEFINE envs == g[m - 1]
                   l == rule.body[m]
                   K == {i \in DOMAIN envs : Keep(t, envs[i], l)}
        <3>3. g[m] = Extend(t, l, envs)
            BY <1>1, <3>1 DEF Chain
        <3>4. m \in 1..Len(rule.body) /\ l \in ToSet(rule.body) /\ l \in Literal
            BY <3>1, RuleFacts DEF last
        <3>5. l.k # "neq" => l.name \in N
            BY <3>4 DEF BodyNames
        <3>6. CASE l.k = "pos"
            <4>1. l.name \in DOMAIN t /\ t[l.name] \in Seq(Seq(C))
                BY <3>5, <3>6
            <4>2. envs \in Seq(Env(C)) /\ ToSet(envs) = Solving(C, I, rule, m - 1)
                BY <3>2
            <4>3. g[m] = Joined(t, l, envs)
                BY <3>3, <3>6 DEF Extend
            <4> HIDE DEF envs, T, P
            <4>4. Joined(t, l, envs) \in Seq(Env(C)) /\ ToSet(Joined(t, l, envs)) = Solving(C, I, rule, m)
                BY <3>4, <3>6, <4>1, <4>2, SolvePositive
            <4> QED BY <2>2, <4>3, <4>4 DEF P
        <3>7. CASE l.k # "pos"
            <4>1. l.k = "not" => l.name \in DOMAIN t
                BY <3>5
            <4>2. envs \in Seq(Env(C)) /\ ToSet(envs) = Solving(C, I, rule, m - 1)
                BY <3>2
            <4>3. g[m] = Kept(envs, K) /\ K = {i \in DOMAIN envs : Keep(t, envs[i], l)}
                BY <3>3, <3>7 DEF Extend
            <4> HIDE DEF envs, K
            <4>4. Kept(envs, K) \in Seq(Env(C)) /\ ToSet(Kept(envs, K)) = Solving(C, I, rule, m)
                BY <3>4, <3>7, <4>1, <4>2, <4>3, SolveOther
            <4> QED BY <2>2, <4>3, <4>4
        <3> QED BY <3>6, <3>7
    <2> QED BY <2>3, <2>4
<1>3. last \in 0..last
    BY <1>0
<1>4. P(last)
    BY <1>2, <1>3
<1> QED BY <1>1, <1>4 DEF last

(* The rows a rule gives of the facts I, with not judged by J.             *)
Gives(C, I, J, rule) ==
    {Ground(e, rule.args) : e \in {x \in Env(C) : \A l \in ToSet(rule.body) : True(x, l, I, J)}}
Grounded(C, I) == \A r, row : <<r, row>> \in I => row \in Seq(C)

\* What makes the body true binds the variables of its positive literals.
LEMMA SolvedBound ==
    ASSUME NEW C, Unbound \notin C, NEW rule \in Rule, NEW I, Grounded(C, I), NEW J,
           NEW e \in Env(C), \A l \in ToSet(rule.body) : True(e, l, I, J)
    PROVE  BoundAt(rule, Len(rule.body)) \subseteq Bound(e)
<1> SUFFICES ASSUME NEW x \in BoundAt(rule, Len(rule.body)) PROVE x \in Bound(e)
    OBVIOUS
<1>0. Len(rule.body) \in Nat /\ 1..((Len(rule.body) + 1) - 1) = 1..Len(rule.body)
    BY RuleFacts
<1>1. PICK i \in 1..Len(rule.body) : rule.body[i].k = "pos" /\ x \in ToSet(rule.body[i].args)
    BY <1>0 DEF BoundAt, BoundBefore
<1> DEFINE l == rule.body[i]
<1>2. l \in ToSet(rule.body) /\ l \in Literal /\ x \in Variables
    BY RuleFacts DEF BoundAt
<1>3. l.args \in Row
    BY <1>1, <1>2, LiteralFacts
<1>4. <<l.name, Ground(e, l.args)>> \in I
    <2>1. True(e, l, I, J)
        BY <1>2
    <2> QED BY <1>1, <2>1 DEF True
<1>5. Ground(e, l.args) \in Seq(C)
    BY <1>4 DEF Grounded
<1>6. PICK k \in 1..Len(l.args) : l.args[k] = x
    BY <1>1, <1>3, GroundFacts DEF ToSet
<1>7. Ground(e, l.args)[k] = e[x]
    BY <1>2, <1>3, <1>6, GroundAt
<1>8. Ground(e, l.args)[k] \in C
    <2>1. DOMAIN Ground(e, l.args) = 1..Len(l.args)
        BY <1>3, GroundFacts
    <2> HIDE DEF l
    <2> QED BY <1>5, <2>1, ElementType, SeqElements
<1> QED BY <1>2, <1>7, <1>8 DEF Bound

\* A row of bound variables and known constants.
LEMMA GroundType ==
    ASSUME NEW C, NEW e \in Env(C), NEW args \in Row, ToSet(args) \cap Variables \subseteq Bound(e),
           ToSet(args) \ Variables \subseteq C
    PROVE  Ground(e, args) \in Seq(C)
<1>1. /\ DOMAIN args = 1..Len(args) /\ Len(args) \in Nat /\ DOMAIN Ground(e, args) = 1..Len(args)
    BY GroundFacts
<1>2. \A i \in 1..Len(args) : Ground(e, args)[i] \in C
    <2> TAKE i \in 1..Len(args)
    <2>1. /\ args[i] \in ToSet(args)
          /\ args[i] \in Variables => Ground(e, args)[i] = e[args[i]]
          /\ args[i] \notin Variables => Ground(e, args)[i] = args[i]
        BY GroundAt
    <2>2. CASE args[i] \in Variables
        <3>1. e[args[i]] \in C \cup {Unbound} /\ e[args[i]] # Unbound
            BY <2>1, <2>2 DEF Env, Bound
        <3> QED BY <2>1, <2>2, <3>1
    <2>3. CASE args[i] \notin Variables
        BY <2>1, <2>3
    <2> QED BY <2>2, <2>3
<1>3. Ground(e, args) \in [1..Len(args) -> C]
    <2>1. Ground(e, args) = [i \in 1..Len(args) |-> Ground(e, args)[i]]
        BY <1>1 DEF Ground
    <2> QED BY <1>2, <2>1
<1> HIDE DEF Ground
<1> QED BY <1>1, <1>3

\* deriveRule computes the rows the rule gives of the tables.
LEMMA DeriveFacts ==
    ASSUME NEW C, Unbound \notin C, NEW N, NEW t \in TabsOf(C, N),
           NEW rule \in Rule, SafeBody(rule), RangeRestricted(rule), BodyNames(rule) \subseteq N,
           ToSet(rule.args) \ Variables \subseteq C
    PROVE  /\ deriveRule(t, rule) \in Seq(Seq(C))
           /\ ToSet(deriveRule(t, rule)) = Gives(C, TabFacts(t), TabFacts(t), rule)
<1> DEFINE envs == Solutions(t, rule)
           I == TabFacts(t)
           last == Len(rule.body)
           d == deriveRule(t, rule)
<1> USE DEF TabsOf
<1>1. envs \in Seq(Env(C)) /\ ToSet(envs) = Solving(C, I, rule, last)
    BY SolutionsFacts
<1>2. d = [i \in DOMAIN envs |-> Ground(envs[i], rule.args)]
    BY DEF deriveRule
<1>3. /\ rule.args \in Row /\ last \in Nat /\ ToSet(rule.body) = {rule.body[i] : i \in 1..last}
      /\ ToSet(rule.body) \subseteq Literal
    BY RuleFacts
<1>4. ToSet(rule.args) \cap Variables \subseteq BoundAt(rule, last)
    BY DEF RangeRestricted, BoundAt
<1>5. Grounded(C, I)
    <2> SUFFICES ASSUME NEW r, NEW row, <<r, row>> \in I PROVE row \in Seq(C)
        BY DEF Grounded
    <2>1. r \in N /\ row \in ToSet(t[r])
        BY InTab
    <2>2. t[r] \in Seq(Seq(C))
        BY <2>1
    <2> QED BY <2>1, <2>2, SeqElements
<1> HIDE DEF envs, d, last
<1>6. \A e \in ToSet(envs) : Ground(e, rule.args) \in Seq(C)
    <2> TAKE e \in ToSet(envs)
    <2>1. e \in Env(C) /\ Bound(e) = BoundAt(rule, last)
        BY <1>1 DEF Solving
    <2> QED BY <1>3, <1>4, <2>1, GroundType
<1>7. DOMAIN envs = 1..Len(envs) /\ Len(envs) \in Nat /\ ToSet(envs) = {envs[i] : i \in 1..Len(envs)}
    BY <1>1, SeqElements
<1>8. d \in [1..Len(envs) -> Seq(C)] /\ \A i \in 1..Len(envs) : d[i] = Ground(envs[i], rule.args)
    BY <1>2, <1>6, <1>7
<1>9. d \in Seq(Seq(C)) /\ ToSet(d) = {Ground(e, rule.args) : e \in ToSet(envs)}
    <2>1. d \in Seq(Seq(C)) /\ DOMAIN d = 1..Len(envs)
        BY <1>7, <1>8
    <2>2. ToSet(d) = {d[i] : i \in 1..Len(envs)}
        BY <2>1 DEF ToSet
    <2> QED BY <1>7, <1>8, <2>1, <2>2
<1>10. ASSUME NEW e \in ToSet(envs) PROVE Ground(e, rule.args) \in Gives(C, I, I, rule)
    <2>1. e \in Env(C) /\ \A l \in ToSet(rule.body) : True(e, l, I, I)
        BY <1>1, <1>3 DEF Solving
    <2> QED BY <2>1 DEF Gives
<1>11. ASSUME NEW row \in Gives(C, I, I, rule) PROVE \E e \in ToSet(envs) : row = Ground(e, rule.args)
    <2>1. PICK e \in Env(C) : row = Ground(e, rule.args) /\ \A l \in ToSet(rule.body) : True(e, l, I, I)
        BY DEF Gives
    <2>2. BoundAt(rule, last) \subseteq Bound(e)
        <3> HIDE DEF I
        <3> QED BY <1>5, <2>1, SolvedBound DEF last
    <2> DEFINE e2 == [x \in Variables |-> IF x \in BoundAt(rule, last) THEN e[x] ELSE Unbound]
    <2>3. /\ e2 \in Env(C) /\ \A x \in BoundAt(rule, last) : e2[x] = e[x]
          /\ \A x \in Variables \ BoundAt(rule, last) : e2[x] = Unbound
        BY <2>1 DEF Env, BoundAt
    <2> HIDE DEF e2
    <2>4. Bound(e2) = BoundAt(rule, last)
        <3>1. BoundAt(rule, last) \subseteq Variables
            BY DEF BoundAt
        <3> QED BY <2>2, <2>3, <3>1 DEF Bound
    <2>5. \A j \in 1..last : True(e2, rule.body[j], I, I)
        <3> TAKE j \in 1..last
        <3>1. last \in 0..Len(rule.body) /\ rule.body[j] \in ToSet(rule.body) /\ rule.body[j] \in Literal
            BY <1>3 DEF last
        <3>2. ToSet(rule.body[j].args) \cap Variables \subseteq BoundAt(rule, last)
            BY <3>1, VarsBound
        <3>3. \A x \in ToSet(rule.body[j].args) \cap Variables : e2[x] = e[x]
            BY <2>3, <3>2
        <3>4. True(e, rule.body[j], I, I)
            BY <2>1, <3>1
        <3> HIDE DEF I
        <3> QED BY <3>1, <3>3, <3>4, TrueSame
    <2>6. e2 \in ToSet(envs)
        BY <1>1, <2>3, <2>4, <2>5 DEF Solving
    <2>7. Ground(e2, rule.args) = Ground(e, rule.args)
        BY <1>4, <2>3, GroundSame
    <2> QED BY <2>1, <2>6, <2>7
<1> HIDE DEF I
<1>12. ToSet(d) = Gives(C, I, I, rule)
    BY <1>9, <1>10, <1>11
<1> QED BY <1>9, <1>12 DEF d, I

\* The rows a relation had, and those it did not have yet.
LEMMA NewRowsFacts ==
    ASSUME NEW S, NEW have \in Seq(S), NEW got \in Seq(S)
    PROVE  /\ have \o NewRows(have, got) \in Seq(S)
           /\ ToSet(have \o NewRows(have, got)) = ToSet(have) \cup ToSet(got)
<1> DEFINE K == {i \in DOMAIN got : ~Contains(have, got[i]) /\ \A j \in 1..(i - 1) : got[j] # got[i]}
           new == Kept(got, K)
<1>1. NewRows(have, got) = new
    BY DEF NewRows
<1>2. DOMAIN got = 1..Len(got) /\ Len(got) \in Nat /\ ToSet(got) = {got[i] : i \in 1..Len(got)}
    BY SeqElements
<1>3. \A x : Contains(have, x) <=> x \in ToSet(have)
    BY DEF Contains, ToSet
<1>4. new \in Seq(S) /\ ToSet(new) = {got[i] : i \in K \cap 1..Len(got)}
    <2> HIDE DEF K
    <2> QED BY KeptFacts
<1>5. ToSet(new) \subseteq ToSet(got)
    BY <1>2, <1>4
<1>6. ASSUME NEW x \in ToSet(got), x \notin ToSet(have) PROVE x \in ToSet(new)
    <2> DEFINE T == {i \in 1..Len(got) : got[i] = x}
    <2>1. PICK i \in T : \A y \in T : i <= y
        <3>1. T \subseteq Nat /\ T # {}
            BY <1>2
        <3> HIDE DEF T
        <3> QED BY <3>1, LeastOf
    <2>2. i \in 1..Len(got) /\ got[i] = x /\ i \in Nat
        BY <1>2, <2>1
    <2>3. \A j \in 1..(i - 1) : got[j] # got[i]
        <3> TAKE j \in 1..(i - 1)
        <3>1. j \in 1..Len(got) /\ ~(i <= j)
            BY <1>2, <2>2
        <3> QED BY <2>1, <2>2, <3>1
    <2>4. i \in K
        BY <1>2, <1>3, <1>6, <2>2, <2>3
    <2> HIDE DEF K, new
    <2> QED BY <1>4, <2>2, <2>4
<1> HIDE DEF new
<1>7. have \o new \in Seq(S) /\ ToSet(have \o new) = ToSet(have) \cup ToSet(new)
    BY <1>4, ConcatFacts, ConcatElements
<1>8. ToSet(have) \cup ToSet(new) = ToSet(have) \cup ToSet(got)
    BY <1>5, <1>6
<1> QED BY <1>1, <1>7, <1>8

\* One rule of datalogEval adds what it derives, and nothing else.
LEMMA AddNewFacts ==
    ASSUME NEW C, NEW N, NEW t \in TabsOf(C, N), NEW rule, rule.name \in N,
           deriveRule(t, rule) \in Seq(Seq(C))
    PROVE  /\ AddNew(t, rule) \in TabsOf(C, N)
           /\ TabFacts(AddNew(t, rule)) =
                TabFacts(t) \cup {<<rule.name, row>> : row \in ToSet(deriveRule(t, rule))}
<1> DEFINE have == t[rule.name]
           got == deriveRule(t, rule)
           sum == have \o NewRows(have, got)
           u == AddNew(t, rule)
<1> USE DEF TabsOf
<1>1. have \in Seq(Seq(C)) /\ got \in Seq(Seq(C))
    OBVIOUS
<1>2. u = [t EXCEPT ![rule.name] = sum]
    BY DEF AddNew
<1> HIDE DEF have, got
<1>3. sum \in Seq(Seq(C)) /\ ToSet(sum) = ToSet(have) \cup ToSet(got)
    BY <1>1, NewRowsFacts
<1> HIDE DEF sum, u
<1>4. u \in [N -> Seq(Seq(C))] /\ u[rule.name] = sum /\ \A r \in N : r # rule.name => u[r] = t[r]
    BY <1>2, <1>3
<1>5. ASSUME NEW f \in TabFacts(u) PROVE f \in TabFacts(t) \cup {<<rule.name, row>> : row \in ToSet(got)}
    <2>1. PICK r \in N : \E row \in ToSet(u[r]) : f = <<r, row>>
        BY <1>4, TabElement
    <2>2. PICK row \in ToSet(u[r]) : f = <<r, row>>
        BY <2>1
    <2>3. CASE r # rule.name
        <3>1. row \in ToSet(t[r])
            BY <1>4, <2>2, <2>3
        <3> QED BY <2>2, <3>1, InTab
    <2>4. CASE r = rule.name
        <3>1. row \in ToSet(have) \cup ToSet(got)
            BY <1>3, <1>4, <2>2, <2>4
        <3>2. row \in ToSet(have) => <<r, row>> \in TabFacts(t)
            BY <2>4, InTab DEF have
        <3> QED BY <2>2, <2>4, <3>1, <3>2
    <2> QED BY <2>3, <2>4
<1>6. ASSUME NEW f \in TabFacts(t) PROVE f \in TabFacts(u)
    <2>1. PICK r \in N : \E row \in ToSet(t[r]) : f = <<r, row>>
        BY TabElement
    <2>2. PICK row \in ToSet(t[r]) : f = <<r, row>>
        BY <2>1
    <2>3. row \in ToSet(u[r])
        BY <1>3, <1>4, <2>2 DEF have
    <2> QED BY <1>4, <2>2, <2>3, InTab
<1>7. ASSUME NEW row \in ToSet(got) PROVE <<rule.name, row>> \in TabFacts(u)
    <2>1. row \in ToSet(u[rule.name])
        BY <1>3, <1>4
    <2> QED BY <1>4, <2>1, InTab
<1>8. TabFacts(u) = TabFacts(t) \cup {<<rule.name, row>> : row \in ToSet(got)}
    BY <1>5, <1>6, <1>7
<1> QED BY <1>4, <1>8 DEF u, got

(* Base facts as a set.                                                    *)
Base(fs) == {<<fs[i].name, fs[i].args>> : i \in DOMAIN fs}

\* The seeded tables hold the base facts.
LEMMA SeedFacts ==
    ASSUME NEW fs \in Seq(Atom), NEW C, \A i \in DOMAIN fs : fs[i].args \in Seq(C),
           NEW R, \A i \in DOMAIN fs : fs[i].name \in R
    PROVE  Seed(fs, R) \in [R -> Seq(Seq(C))] /\ TabFacts(Seed(fs, R)) = Base(fs)
<1> DEFINE K(r) == {i \in DOMAIN fs : fs[i].name = r}
           own(r) == Kept(fs, K(r))
           rows(r) == [i \in DOMAIN own(r) |-> own(r)[i].args]
           t == Seed(fs, R)
<1>1. t = [r \in R |-> rows(r)]
    BY DEF Seed
<1>2. DOMAIN fs = 1..Len(fs) /\ Len(fs) \in Nat
    BY SeqElements
<1>3. \A r \in R : /\ rows(r) \in Seq(Seq(C))
                   /\ \A row : row \in ToSet(rows(r)) <=> \E i \in DOMAIN fs : fs[i].name = r /\ fs[i].args = row
    <2> TAKE r \in R
    <2> DEFINE o == own(r)
               w == rows(r)
    <2>1. o \in Seq(Atom) /\ ToSet(o) = {fs[i] : i \in K(r) \cap 1..Len(fs)}
        <3> HIDE DEF K
        <3> QED BY KeptFacts
    <2>2. w = [i \in DOMAIN o |-> o[i].args]
        OBVIOUS
    <2> HIDE DEF o, w
    <2>3. DOMAIN o = 1..Len(o) /\ Len(o) \in Nat /\ ToSet(o) = {o[i] : i \in 1..Len(o)}
        BY <2>1, SeqElements
    <2>4. \A i \in 1..Len(o) : o[i].args \in Seq(C)
        BY <1>2, <2>1, <2>3
    <2>5. w \in [1..Len(o) -> Seq(C)] /\ \A i \in 1..Len(o) : w[i] = o[i].args
        BY <2>2, <2>3, <2>4
    <2>6. w \in Seq(Seq(C)) /\ ToSet(w) = {w[i] : i \in 1..Len(o)}
        <3>1. w \in Seq(Seq(C)) /\ DOMAIN w = 1..Len(o)
            BY <2>3, <2>5
        <3> QED BY <3>1 DEF ToSet
    <2>7. \A row : row \in ToSet(w) <=> \E a \in ToSet(o) : a.args = row
        BY <2>3, <2>5, <2>6
    <2>8. \A a : a \in ToSet(o) <=> \E i \in DOMAIN fs : fs[i].name = r /\ fs[i] = a
        BY <1>2, <2>1
    <2>9. \A row : row \in ToSet(w) <=> \E i \in DOMAIN fs : fs[i].name = r /\ fs[i].args = row
        BY <2>7, <2>8
    <2> QED BY <2>6, <2>9 DEF w
<1> HIDE DEF rows, t
<1>4. t \in [R -> Seq(Seq(C))] /\ \A r \in R : t[r] = rows(r)
    BY <1>1, <1>3
<1>5. ASSUME NEW f \in TabFacts(t) PROVE f \in Base(fs)
    <2>1. PICK r \in R : \E row \in ToSet(t[r]) : f = <<r, row>>
        BY <1>4, TabElement
    <2>2. PICK row \in ToSet(t[r]) : f = <<r, row>>
        BY <2>1
    <2>3. PICK i \in DOMAIN fs : fs[i].name = r /\ fs[i].args = row
        BY <1>3, <1>4, <2>2
    <2> QED BY <2>2, <2>3 DEF Base
<1>6. ASSUME NEW f \in Base(fs) PROVE f \in TabFacts(t)
    <2>1. PICK i \in DOMAIN fs : f = <<fs[i].name, fs[i].args>>
        BY DEF Base
    <2>2. fs[i].name \in R /\ fs[i].args \in ToSet(t[fs[i].name])
        BY <1>3, <1>4
    <2> QED BY <1>4, <2>1, <2>2, InTab
<1> QED BY <1>4, <1>5, <1>6 DEF t

-----------------------------------------------------------------------------
(* The tables datalogEval builds.  It never has a fact that is not in      *)
(* every set which holds the base facts B and is closed under the rules,   *)
(* with not judged by B.                                                   *)

Consts(fs, rs) == (UNION {ToSet(fs[i].args) : i \in DOMAIN fs})
                  \cup ((UNION {ToSet(rs[i].args) : i \in DOMAIN rs}) \ Variables)
SafeRules(rs) ==
    \A i \in DOMAIN rs : /\ SafeBody(rs[i]) /\ RangeRestricted(rs[i])
                         /\ \A l \in ToSet(rs[i].body) : l.k = "not" => l.name \notin Derived(rs)
Agrees(rs, B, J) == \A r, row : r \notin Derived(rs) => (<<r, row>> \in J <=> <<r, row>> \in B)
Applied(C, I, J, rule) == \A row \in Gives(C, I, J, rule) : <<rule.name, row>> \in I
ClosedUnder(C, rs, I, J) == \A i \in DOMAIN rs : Applied(C, I, J, rs[i])
Evaluated(C, N, fs, rs, t) ==
    /\ t \in TabsOf(C, N) /\ Base(fs) \subseteq TabFacts(t) /\ Agrees(rs, Base(fs), TabFacts(t))
    /\ \A M : Base(fs) \subseteq M /\ ClosedUnder(C, rs, M, Base(fs)) => TabFacts(t) \subseteq M

LEMMA ConstsFacts ==
    ASSUME NEW fs \in Seq(Atom), NEW rs \in Seq(Rule)
    PROVE  /\ Unbound \notin Consts(fs, rs) /\ Consts(fs, rs) \subseteq STRING
           /\ \A i \in DOMAIN fs : fs[i].args \in Seq(Consts(fs, rs))
           /\ \A i \in DOMAIN rs : ToSet(rs[i].args) \ Variables \subseteq Consts(fs, rs)
<1> DEFINE C == Consts(fs, rs)
<1>1. \A i \in DOMAIN fs : fs[i].args \in Seq(STRING \ {Unbound})
    <2>1. \A i \in DOMAIN fs : fs[i] \in Atom
        BY SeqElements, ElementType
    <2> QED BY <2>1 DEF Atom, Row
<1>2. \A i \in DOMAIN rs : rs[i].args \in Seq(STRING \ {Unbound})
    <2>1. \A i \in DOMAIN rs : rs[i] \in Rule
        BY SeqElements, ElementType
    <2> QED BY <2>1 DEF Rule, Row
<1>3. \A i \in DOMAIN fs : ToSet(fs[i].args) \subseteq STRING \ {Unbound}
    BY <1>1, SeqElements
<1>4. \A i \in DOMAIN rs : ToSet(rs[i].args) \subseteq STRING \ {Unbound}
    BY <1>2, SeqElements
<1>5. C \subseteq STRING \ {Unbound}
    BY <1>3, <1>4 DEF Consts
<1>6. \A i \in DOMAIN rs : ToSet(rs[i].args) \ Variables \subseteq C
    BY DEF Consts
<1>7. \A i \in DOMAIN fs : ToSet(fs[i].args) \subseteq C
    BY DEF Consts
<1> HIDE DEF C
<1>8. \A i \in DOMAIN fs : fs[i].args \in Seq(C)
    <2> TAKE i \in DOMAIN fs
    <2> DEFINE a == fs[i].args
    <2>1. a \in Seq(STRING \ {Unbound}) /\ ToSet(a) \subseteq C
        BY <1>1, <1>7
    <2> HIDE DEF a
    <2>2. DOMAIN a = 1..Len(a) /\ Len(a) \in Nat /\ ToSet(a) = {a[j] : j \in 1..Len(a)}
        BY <2>1, SeqElements
    <2>3. a \in [1..Len(a) -> C]
        BY <2>1, <2>2
    <2>4. a \in Seq(C)
        BY <2>2, <2>3
    <2> QED BY <2>4 DEF a
<1> QED BY <1>5, <1>6, <1>8 DEF C

\* A rule gives more of more facts, and no row depends on how not is judged
\* for the relations that have rules.
LEMMA GivesGrow ==
    ASSUME NEW C, NEW rs \in Seq(Rule), SafeRules(rs), NEW i \in DOMAIN rs, NEW B,
           NEW I, NEW J, Agrees(rs, B, J), NEW I2, I \subseteq I2, NEW J2, Agrees(rs, B, J2)
    PROVE  Gives(C, I, J, rs[i]) \subseteq Gives(C, I2, J2, rs[i])
<1> DEFINE rule == rs[i]
<1>1. rule \in Rule /\ \A l \in ToSet(rule.body) : l.k = "not" => l.name \notin Derived(rs)
    BY SeqElements, ElementType DEF SafeRules
<1>2. ToSet(rule.body) \subseteq Literal
    BY <1>1, RuleFacts
<1> HIDE DEF rule
<1>3. ASSUME NEW e, NEW l \in ToSet(rule.body), True(e, l, I, J) PROVE True(e, l, I2, J2)
    <2>1. l.k \in {"pos", "not", "neq"}
        BY <1>2, LiteralFacts
    <2>2. CASE l.k = "pos"
        BY <1>3, <2>2 DEF True
    <2>3. CASE l.k = "not"
        <3>1. <<l.name, Ground(e, l.args)>> \notin J
            BY <1>3, <2>3 DEF True
        <3>2. <<l.name, Ground(e, l.args)>> \notin J2
            BY <1>1, <2>3, <3>1 DEF Agrees
        <3> QED BY <2>3, <3>2 DEF True
    <2>4. CASE l.k = "neq"
        BY <1>3, <2>4 DEF True
    <2> QED BY <2>1, <2>2, <2>3, <2>4
<1>4. Gives(C, I, J, rule) \subseteq Gives(C, I2, J2, rule)
    BY <1>3 DEF Gives
<1> QED BY <1>4 DEF rule

\* The tables when datalogEval starts.
LEMMA SeedEvaluated ==
    ASSUME NEW fs \in Seq(Atom), NEW rs \in Seq(Rule), NEW N, Relations(fs, rs) \subseteq N,
           NEW C, C = Consts(fs, rs)
    PROVE  Evaluated(C, N, fs, rs, Seed(fs, N))
<1>1. /\ \A i \in DOMAIN fs : fs[i].args \in Seq(C)
      /\ \A i \in DOMAIN fs : fs[i].name \in N
    BY ConstsFacts DEF Relations
<1>2. Seed(fs, N) \in [N -> Seq(Seq(C))] /\ TabFacts(Seed(fs, N)) = Base(fs)
    BY <1>1, SeedFacts
<1> QED BY <1>2 DEF Evaluated, Agrees, TabsOf

\* The tables after one more rule.
LEMMA RuleEvaluated ==
    ASSUME NEW fs \in Seq(Atom), NEW rs \in Seq(Rule), SafeRules(rs), NEW N, Relations(fs, rs) \subseteq N,
           NEW C, C = Consts(fs, rs), NEW t, Evaluated(C, N, fs, rs, t), NEW i \in DOMAIN rs
    PROVE  /\ Evaluated(C, N, fs, rs, AddNew(t, rs[i]))
           /\ AddNew(t, rs[i]) = t => Applied(C, TabFacts(t), TabFacts(t), rs[i])
<1> DEFINE rule == rs[i]
           B == Base(fs)
           T == TabFacts(t)
           u == AddNew(t, rule)
           new == Gives(C, T, T, rule)
<1>1. rule \in Rule /\ SafeBody(rule) /\ RangeRestricted(rule) /\ rule.name \in Derived(rs)
    BY SeqElements, ElementType DEF SafeRules, Derived
<1>2. rule.name \in N /\ BodyNames(rule) \subseteq N
    BY <1>1 DEF Relations
<1>3. Unbound \notin C /\ ToSet(rule.args) \ Variables \subseteq C
    BY ConstsFacts
<1>4. /\ t \in TabsOf(C, N) /\ B \subseteq T /\ Agrees(rs, B, T)
      /\ \A M : B \subseteq M /\ ClosedUnder(C, rs, M, B) => T \subseteq M
    BY DEF Evaluated
<1>5. deriveRule(t, rule) \in Seq(Seq(C)) /\ ToSet(deriveRule(t, rule)) = new
    <2> HIDE DEF rule
    <2>1. deriveRule(t, rule) \in Seq(Seq(C))
        BY <1>1, <1>2, <1>3, <1>4, DeriveFacts
    <2>2. ToSet(deriveRule(t, rule)) = new
        BY <1>1, <1>2, <1>3, <1>4, DeriveFacts
    <2> QED BY <2>1, <2>2
<1>6. u \in TabsOf(C, N) /\ TabFacts(u) = T \cup {<<rule.name, row>> : row \in new}
    <2> HIDE DEF rule, new
    <2>1. u \in TabsOf(C, N)
        BY <1>2, <1>4, <1>5, AddNewFacts
    <2>2. TabFacts(u) = T \cup {<<rule.name, row>> : row \in ToSet(deriveRule(t, rule))}
        BY <1>2, <1>4, <1>5, AddNewFacts
    <2> QED BY <1>5, <2>1, <2>2
<1>7. Agrees(rs, B, TabFacts(u))
    <2> HIDE DEF rule, new, T, u, B
    <2> QED BY <1>1, <1>4, <1>6 DEF Agrees
<1>8. ASSUME NEW M, B \subseteq M, ClosedUnder(C, rs, M, B) PROVE TabFacts(u) \subseteq M
    <2>1. T \subseteq M
        BY <1>4, <1>8
    <2>2. Agrees(rs, B, B)
        BY DEF Agrees
    <2>3. new \subseteq Gives(C, M, B, rule)
        <3> HIDE DEF T, B
        <3> QED BY <1>4, <2>1, <2>2, GivesGrow
    <2>4. \A row \in Gives(C, M, B, rule) : <<rule.name, row>> \in M
        BY <1>8 DEF ClosedUnder, Applied
    <2> HIDE DEF rule, new, T, u, B
    <2> QED BY <1>6, <2>1, <2>3, <2>4
<1>9. ASSUME u = t PROVE Applied(C, T, T, rule)
    <2>1. \A row \in new : <<rule.name, row>> \in T
        <3> HIDE DEF rule, new, u
        <3> QED BY <1>6, <1>9
    <2> QED BY <2>1 DEF Applied
<1>10. Evaluated(C, N, fs, rs, u)
    <2>1. B \subseteq TabFacts(u)
        BY <1>4, <1>6
    <2> HIDE DEF u
    <2> QED BY <1>6, <1>7, <1>8, <2>1 DEF Evaluated
<1> QED BY <1>9, <1>10

(* While datalogEval runs, and when it is done: nothing but what follows   *)
(* is in the tables, and the rules that added nothing since the pass began *)
(* have nothing to add.                                                    *)
Tabled == Relations(facts, rules) \cup {query[1].name}
AppliedHere(i) == Applied(Consts(facts, rules), TabFacts(tab), TabFacts(tab), rules[i])
BeamInv ==
    phase \in {"beam", "done"} /\ SafeRules(rules) =>
        /\ Evaluated(Consts(facts, rules), Tabled, facts, rules, tab)
        /\ phase = "beam" /\ ~changed => \A i \in DOMAIN rules : i < ri => AppliedHere(i)
        /\ phase = "done" => /\ \A i \in DOMAIN rules : AppliedHere(i)
                             /\ banswer = Answer(query[1], tab[query[1].name])

LEMMA BeamStarts ==
    ASSUME DatalogTypes, UNCHANGED <<facts, rules, query>>, phase' = "beam", ri' = 1,
           tab' = Seed(facts, Relations(facts, rules) \cup {query[1].name})
    PROVE  BeamInv'
<1>1. facts \in Seq(Atom) /\ rules \in Seq(Rule) /\ Relations(facts, rules) \subseteq Tabled
    BY DEF DatalogTypes, Tabled
<1>2. Evaluated(Consts(facts, rules), Tabled, facts, rules, tab')
    BY <1>1, SeedEvaluated DEF Tabled
<1>3. Evaluated(Consts(facts, rules), Tabled, facts, rules, tab)'
    BY <1>2 DEF Tabled
<1>4. \A i \in DOMAIN rules' : ~(i < ri')
    BY <1>1, SeqElements
<1> QED BY <1>3, <1>4 DEF BeamInv

LEMMA BeamRuleStep ==
    ASSUME DatalogTypes, BeamInv, BeamRule
    PROVE  BeamInv'
<1>1. /\ facts \in Seq(Atom) /\ rules \in Seq(Rule) /\ Relations(facts, rules) \subseteq Tabled
      /\ phase = "beam" /\ phase' = "beam" /\ ri \in DOMAIN rules /\ ri \in Nat /\ ri' = ri + 1
      /\ UNCHANGED <<facts, rules, query>> /\ tab' = AddNew(tab, rules[ri])
    BY SeqElements DEF DatalogTypes, Tabled, BeamRule
<1>2. ~changed' => ~changed /\ tab' = tab
    BY DEF BeamRule
<1>3. SUFFICES ASSUME SafeRules(rules) PROVE BeamInv'
    BY <1>1 DEF BeamInv
<1> DEFINE C == Consts(facts, rules)
           N == Tabled
<1>4. C = Consts(facts, rules) /\ Evaluated(C, N, facts, rules, tab)
    BY <1>1, <1>3 DEF BeamInv
<1> HIDE DEF C, N
<1>5. /\ Evaluated(C, N, facts, rules, tab')
      /\ tab' = tab => Applied(C, TabFacts(tab), TabFacts(tab), rules[ri])
    <2>1. Relations(facts, rules) \subseteq N
        BY <1>1 DEF N
    <2> QED BY <1>1, <1>3, <1>4, <2>1, RuleEvaluated
<1>6. Evaluated(Consts(facts, rules), Tabled, facts, rules, tab)'
    BY <1>1, <1>4, <1>5 DEF Tabled, N
<1>7. ASSUME ~changed', NEW i \in DOMAIN rules', i < ri' PROVE AppliedHere(i)'
    <2>1. i \in Nat /\ (i < ri \/ i = ri)
        <3>1. i \in 1..Len(rules)
            BY <1>1, SeqElements
        <3> QED BY <1>1, <1>7, <3>1
    <2>2. Applied(C, TabFacts(tab), TabFacts(tab), rules[i])
        <3>1. CASE i < ri
            <4>1. AppliedHere(i)
                BY <1>1, <1>2, <1>3, <1>7, <3>1 DEF BeamInv
            <4> QED BY <1>4, <4>1 DEF AppliedHere
        <3>2. CASE i = ri
            BY <1>2, <1>5, <1>7, <3>2
        <3> QED BY <2>1, <3>1, <3>2
    <2> QED BY <1>1, <1>2, <1>4, <1>7, <2>2 DEF AppliedHere
<1> QED BY <1>1, <1>6, <1>7 DEF BeamInv

LEMMA BeamStep == DatalogTypes /\ BeamInv /\ [Next]_vars => BeamInv'
<1> SUFFICES ASSUME DatalogTypes, BeamInv, [Next]_vars PROVE BeamInv'
    OBVIOUS
<1>0. facts \in Seq(Atom) /\ rules \in Seq(Rule) /\ ri \in Nat
    BY DEF DatalogTypes
<1>1. CASE collectFact
    BY <1>1 DEF collectFact, BeamInv
<1>2. CASE collectRule
    BY <1>2 DEF collectRule, BeamInv
<1>3. CASE lowerLogicQuery
    BY <1>3 DEF lowerLogicQuery, BeamInv
<1>4. CASE StrataRule
    BY <1>4 DEF StrataRule, BeamInv
<1>5. CASE StrataPass
    <2>1. CASE phase' = "beam"
        <3>1. /\ UNCHANGED <<facts, rules, query>> /\ ri' = 1
              /\ tab' = Seed(facts, Relations(facts, rules) \cup {query[1].name})
            BY <1>5, <2>1 DEF StrataPass, Evaluate
        <3> QED BY <2>1, <3>1, BeamStarts
    <2>2. CASE phase' # "beam"
        <3>1. phase' # "done"
            BY <1>5 DEF StrataPass, Evaluate
        <3> QED BY <2>2, <3>1 DEF BeamInv
    <2> QED BY <2>1, <2>2
<1>6. CASE CRule
    BY <1>6 DEF CRule, BeamInv
<1>7. CASE CPass
    <2>1. CASE phase' = "beam"
        <3>1. /\ UNCHANGED <<facts, rules, query>> /\ ri' = 1
              /\ tab' = Seed(facts, Relations(facts, rules) \cup {query[1].name})
            BY <1>7, <2>1 DEF CPass, Evaluate
        <3> QED BY <2>1, <3>1, BeamStarts
    <2>2. CASE phase' # "beam"
        <3>1. phase' # "done"
            BY <1>7 DEF CPass, Evaluate
        <3> QED BY <2>2, <3>1 DEF BeamInv
    <2> QED BY <2>1, <2>2
<1>8. CASE BeamRule
    BY <1>8, BeamRuleStep
<1>9. CASE BeamPass
    <2>1. phase = "beam" /\ ri > Len(rules) /\ UNCHANGED <<facts, rules, query, tab>>
        BY <1>9 DEF BeamPass
    <2>2. SUFFICES ASSUME SafeRules(rules) PROVE BeamInv'
        BY <2>1 DEF BeamInv
    <2>3. Evaluated(Consts(facts, rules), Tabled, facts, rules, tab)'
        <3>1. Evaluated(Consts(facts, rules), Tabled, facts, rules, tab)
            BY <2>1, <2>2 DEF BeamInv
        <3> QED BY <2>1, <3>1 DEF Tabled
    <2>4. \A i : AppliedHere(i)' <=> AppliedHere(i)
        BY <2>1 DEF AppliedHere
    <2>5. \A i \in DOMAIN rules : ~(i < 1) /\ i < ri
        <3>1. DOMAIN rules = 1..Len(rules) /\ Len(rules) \in Nat
            BY <1>0, SeqElements
        <3> QED BY <1>0, <2>1, <3>1
    <2>6. CASE changed
        <3>1. phase' = "beam" /\ ri' = 1
            BY <1>9, <2>6 DEF BeamPass
        <3> QED BY <2>1, <2>3, <2>5, <3>1 DEF BeamInv
    <2>7. CASE ~changed
        <3>1. phase' = "done" /\ banswer' = Answer(query[1], tab[query[1].name])
            BY <1>9, <2>7 DEF BeamPass
        <3>2. \A i \in DOMAIN rules : AppliedHere(i)
            BY <2>1, <2>2, <2>5, <2>7 DEF BeamInv
        <3> QED BY <2>1, <2>3, <2>4, <3>1, <3>2 DEF BeamInv
    <2> QED BY <2>6, <2>7
<1>10. CASE UNCHANGED vars
    <2>1. UNCHANGED <<phase, facts, rules, query, tab, changed, ri, banswer>>
        BY <1>10 DEF vars
    <2> QED BY <2>1 DEF BeamInv, Tabled, AppliedHere
<1> QED BY <1>1, <1>2, <1>3, <1>4, <1>5, <1>6, <1>7, <1>8, <1>9, <1>10 DEF Next

-----------------------------------------------------------------------------
(* What the rules mean *)

\* Following a function whose steps go down a measure ends at a fixpoint.
LEMMA FixpointFacts ==
    ASSUME NEW D, NEW step \in [D -> D], NEW G \in SUBSET D, NEW x \in G,
           \A y \in G : step[y] \in G,
           NEW m \in [G -> Nat], \A y \in G : step[y] # y => m[step[y]] < m[y]
    PROVE  Fixpoint(step, x) \in G /\ step[Fixpoint(step, x)] = Fixpoint(step, x)
<1> DEFINE F(f) == [y \in D |-> IF step[y] = y THEN y ELSE f[step[y]]]
           s == CHOOSE f : f = F(f)
           Closed(T) == \A w \in T : step[w] \in T
           R(y) == {z \in D : \A T \in SUBSET D : y \in T /\ Closed(T) => z \in T}
           E(y) == {z \in R(y) : step[z] = z}
           h == [y \in D |-> CHOOSE z : z \in E(y)]
<1>1. Fixpoint(step, x) = s[x]
    BY Zenon DEF Fixpoint
<1>2. ASSUME NEW y \in D, step[y] = y PROVE E(y) = {y}
    <2>1. {y} \in SUBSET D /\ y \in {y} /\ Closed({y})
        BY <1>2
    <2>2. \A z \in R(y) : z \in {y}
        BY <2>1
    <2>3. y \in R(y)
        OBVIOUS
    <2> QED BY <1>2, <2>2, <2>3
<1>3. ASSUME NEW y \in D, step[y] # y PROVE E(y) = E(step[y])
    <2>1. step[y] \in D
        OBVIOUS
    <2>2. ASSUME NEW z \in R(step[y]) PROVE z \in R(y)
        BY <2>1
    <2>3. ASSUME NEW z \in R(y), z # y PROVE z \in R(step[y])
        <3> SUFFICES ASSUME NEW T \in SUBSET D, step[y] \in T, Closed(T) PROVE z \in T
            OBVIOUS
        <3>1. T \cup {y} \in SUBSET D /\ y \in T \cup {y} /\ Closed(T \cup {y})
            OBVIOUS
        <3>2. z \in T \cup {y}
            <4> DEFINE U == T \cup {y}
            <4>1. U \in SUBSET D /\ y \in U /\ Closed(U)
                BY <3>1
            <4> HIDE DEF U
            <4>2. z \in U
                BY <4>1
            <4> QED BY <4>2 DEF U
        <3> QED BY <2>3, <3>2
    <2> HIDE DEF R
    <2> QED BY <1>3, <2>2, <2>3
<1> HIDE DEF R
<1>4. \A y \in D : h[y] = IF step[y] = y THEN y ELSE h[step[y]]
    <2> TAKE y \in D
    <2>1. h[y] = CHOOSE z : z \in E(y)
        OBVIOUS
    <2>2. CASE step[y] = y
        <3>1. E(y) = {y}
            BY <1>2, <2>2
        <3>2. h[y] = CHOOSE z : z \in {y}
            BY <2>1, <3>1, Zenon
        <3>3. (CHOOSE z : z \in {y}) = y
            OBVIOUS
        <3> QED BY <2>2, <3>2, <3>3
    <2>3. CASE step[y] # y
        <3>1. h[step[y]] = CHOOSE z : z \in E(step[y])
            OBVIOUS
        <3>2. E(y) = E(step[y])
            BY <1>3, <2>3
        <3> HIDE DEF E, h
        <3>3. h[y] = h[step[y]]
            BY <2>1, <3>1, <3>2, Zenon
        <3> QED BY <2>3, <3>3
    <2> QED BY <2>2, <2>3
<1>5. h = F(h)
    <2>1. h = [y \in D |-> h[y]]
        OBVIOUS
    <2> HIDE DEF h, E
    <2> QED BY <1>4, <2>1
<1>6. s = F(s)
    <2> HIDE DEF F, h
    <2> QED BY <1>5, Zenon
<1> HIDE DEF s, h, E
<1>7. \A y \in D : s[y] = IF step[y] = y THEN y ELSE s[step[y]]
    BY <1>6, Zenon
<1> DEFINE P == {n \in Nat : \E y \in G : m[y] = n /\ s[y] = s[x]}
<1>8. PICK n \in P : \A k \in P : n <= k
    <2>1. P \subseteq Nat /\ m[x] \in P
        OBVIOUS
    <2> HIDE DEF P
    <2> QED BY <2>1, LeastOf
<1>9. PICK y \in G : m[y] = n /\ s[y] = s[x]
    BY <1>8
<1>10. step[y] = y
    <2> SUFFICES ASSUME step[y] # y PROVE FALSE
        OBVIOUS
    <2>1. step[y] \in G /\ m[step[y]] < m[y] /\ m[step[y]] \in Nat /\ m[y] \in Nat
        OBVIOUS
    <2>2. s[step[y]] = s[x]
        BY <1>7, <1>9
    <2>3. m[step[y]] \in P
        BY <2>1, <2>2
    <2>4. n <= m[step[y]]
        BY <1>8, <2>3
    <2> QED BY <1>9, <2>1, <2>4
<1>11. s[x] = y
    BY <1>7, <1>9, <1>10
<1> QED BY <1>1, <1>10, <1>11

LEMMA ImageFinite ==
    ASSUME NEW S, IsFiniteSet(S), NEW R, NEW f \in [S -> R], \A z \in R : \E x \in S : f[x] = z
    PROVE  IsFiniteSet(R)
<1>1. f \in Surjection(S, R)
    BY DEF Surjection
<1> QED BY <1>1, FS_Surjection

LEMMA SeqFinite ==
    ASSUME NEW S, NEW s \in Seq(S)
    PROVE  IsFiniteSet(DOMAIN s) /\ IsFiniteSet(ToSet(s))
<1>1. DOMAIN s = 1..Len(s) /\ Len(s) \in Nat /\ s \in [DOMAIN s -> S]
    BY SeqElements
<1>2. IsFiniteSet(1..Len(s))
    <2>1. \A n \in Nat : IsFiniteSet(1..n) /\ Cardinality(1..n) = n
        BY FS_Interval
    <2> QED BY <1>1, <2>1
<1>3. s \in [DOMAIN s -> ToSet(s)] /\ \A z \in ToSet(s) : \E i \in DOMAIN s : s[i] = z
    BY <1>1 DEF ToSet
<1>4. IsFiniteSet(ToSet(s))
    BY <1>1, <1>2, <1>3, ImageFinite
<1> QED BY <1>1, <1>2, <1>4

\* There are finitely many constants ...
LEMMA ConstsFinite ==
    ASSUME NEW fs \in Seq(Atom), NEW rs \in Seq(Rule)
    PROVE  IsFiniteSet(Consts(fs, rs))
<1>1. ASSUME NEW S, NEW s \in Seq(S), \A i \in DOMAIN s : s[i].args \in Row
      PROVE  IsFiniteSet(UNION {ToSet(s[i].args) : i \in DOMAIN s})
    <2> DEFINE f == [i \in DOMAIN s |-> ToSet(s[i].args)]
               R == {ToSet(s[i].args) : i \in DOMAIN s}
    <2>1. \A T \in R : IsFiniteSet(T)
        BY <1>1, SeqFinite DEF Row
    <2>2. f \in [DOMAIN s -> R] /\ \A z \in R : \E i \in DOMAIN s : f[i] = z
        OBVIOUS
    <2>3. IsFiniteSet(DOMAIN s)
        BY SeqFinite
    <2> HIDE DEF f, R
    <2>4. IsFiniteSet(R)
        BY <2>2, <2>3, ImageFinite
    <2>5. IsFiniteSet(UNION R)
        BY <2>1, <2>4, FS_UNION
    <2> QED BY <2>5 DEF R
<1>2. \A i \in DOMAIN fs : fs[i].args \in Row
    <2>1. \A i \in DOMAIN fs : fs[i] \in Atom
        BY SeqElements, ElementType
    <2> QED BY <2>1 DEF Atom
<1>3. \A i \in DOMAIN rs : rs[i].args \in Row
    <2>1. \A i \in DOMAIN rs : rs[i] \in Rule
        BY SeqElements, ElementType
    <2> QED BY <2>1 DEF Rule
<1> DEFINE A == UNION {ToSet(fs[i].args) : i \in DOMAIN fs}
           B == UNION {ToSet(rs[i].args) : i \in DOMAIN rs}
<1>4. IsFiniteSet(A)
    BY <1>1, <1>2
<1>5. IsFiniteSet(B)
    BY <1>1, <1>3
<1>6. Consts(fs, rs) = A \cup (B \ Variables)
    BY DEF Consts
<1> HIDE DEF A, B
<1>7. IsFiniteSet(B \ Variables)
    <2>1. B \ Variables \in SUBSET B
        OBVIOUS
    <2> QED BY <1>5, <2>1, FS_Subset
<1>8. IsFiniteSet(A \cup (B \ Variables))
    BY <1>4, <1>7, FS_Union
<1> QED BY <1>6, <1>8

\* ... and so finitely many environments: one is a set of pairs.
LEMMA EnvFinite ==
    ASSUME NEW C, IsFiniteSet(C)
    PROVE  IsFiniteSet(Env(C))
<1> DEFINE V == C \cup {Unbound}
           P == Variables \X V
           f == [e \in Env(C) |-> {p \in P : p[2] = e[p[1]]}]
<1>1. IsFiniteSet(V)
    BY FS_Singleton, FS_Union
<1>2. IsFiniteSet(Variables)
    BY DatalogAssumption
<1> HIDE DEF V
<1>3. IsFiniteSet(P)
    BY <1>1, <1>2, FS_Product
<1>4. IsFiniteSet(SUBSET P)
    <2> HIDE DEF P
    <2> QED BY <1>3, FS_SUBSET
<1>5. f \in [Env(C) -> SUBSET P]
    OBVIOUS
<1>6. ASSUME NEW d \in Env(C), NEW e \in Env(C), f[d] = f[e] PROVE d = e
    <2>1. d \in [Variables -> V] /\ e \in [Variables -> V]
        BY DEF Env, V
    <2>2. \A v \in Variables : d[v] = e[v]
        <3> TAKE v \in Variables
        <3>1. <<v, d[v]>> \in P
            BY <2>1
        <3>2. <<v, d[v]>> \in f[d]
            BY <3>1
        <3>3. <<v, d[v]>> \in f[e]
            BY <1>6, <3>2
        <3> QED BY <3>3
    <2> QED BY <2>1, <2>2
<1> HIDE DEF f, P
<1>7. f \in Injection(Env(C), SUBSET P)
    BY <1>5, <1>6 DEF Injection, IsInjective
<1> QED BY <1>4, <1>7, FS_Injection

LEMMA GroundAny ==
    ASSUME NEW S, NEW e, \A x \in Variables : e[x] \in S, NEW args \in Row, STRING \subseteq S
    PROVE  Ground(e, args) \in Seq(S)
<1>1. /\ DOMAIN args = 1..Len(args) /\ Len(args) \in Nat /\ DOMAIN Ground(e, args) = 1..Len(args)
    BY GroundFacts
<1>2. \A i \in 1..Len(args) : Ground(e, args)[i] \in S
    <2> TAKE i \in 1..Len(args)
    <2>1. CASE args[i] \in Variables
        BY <2>1, <1>1 DEF Ground, Value, isVariable
    <2>2. CASE args[i] \notin Variables
        <3>1. args[i] \in STRING
            BY <1>1 DEF Row
        <3> QED BY <2>2, <3>1, <1>1 DEF Ground, Value, isVariable
    <2> QED BY <2>1, <2>2
<1>3. Ground(e, args) = [i \in 1..Len(args) |-> Ground(e, args)[i]]
    BY <1>1 DEF Ground
<1> QED BY <1>1, <1>2, <1>3

LEMMA ConsequencesAre ==
    ASSUME NEW I, NEW J, NEW f
    PROVE  f \in Consequences(I, J) <=>
            \E i \in DOMAIN rules : \E row \in Gives(Constants, I, J, rules[i]) : f = <<rules[i].name, row>>
<1> DEFINE S(i) == {e \in Env(Constants) : \A l \in ToSet(rules[i].body) : True(e, l, I, J)}
<1>1. Consequences(I, J) = UNION {{<<rules[i].name, Ground(env, rules[i].args)>> : env \in S(i)} : i \in DOMAIN rules}
    BY Zenon DEF Consequences, Env
<1>2. \A i : Gives(Constants, I, J, rules[i]) = {Ground(env, rules[i].args) : env \in S(i)}
    BY Zenon DEF Gives
<1> HIDE DEF S
<1>3. ASSUME f \in Consequences(I, J)
      PROVE  \E i \in DOMAIN rules : \E row \in Gives(Constants, I, J, rules[i]) : f = <<rules[i].name, row>>
    <2>1. PICK i \in DOMAIN rules : f \in {<<rules[i].name, Ground(env, rules[i].args)>> : env \in S(i)}
        BY <1>1, <1>3, Zenon
    <2>2. PICK env \in S(i) : f = <<rules[i].name, Ground(env, rules[i].args)>>
        BY <2>1
    <2>3. Ground(env, rules[i].args) \in Gives(Constants, I, J, rules[i])
        BY <1>2, Zenon
    <2> QED BY <2>2, <2>3, Zenon
<1>4. ASSUME NEW i \in DOMAIN rules, NEW row \in Gives(Constants, I, J, rules[i]), f = <<rules[i].name, row>>
      PROVE  f \in Consequences(I, J)
    <2>1. PICK env \in S(i) : row = Ground(env, rules[i].args)
        BY <1>2
    <2>2. f \in {<<rules[i].name, Ground(env2, rules[i].args)>> : env2 \in S(i)}
        BY <1>4, <2>1, Zenon
    <2> DEFINE A(k) == {<<rules[k].name, Ground(env2, rules[k].args)>> : env2 \in S(k)}
    <2>3. f \in A(i) /\ Consequences(I, J) = UNION {A(k) : k \in DOMAIN rules}
        BY <1>1, <2>2
    <2> HIDE DEF A
    <2> QED BY <2>3
<1> QED BY <1>3, <1>4, Zenon

(* The facts there can be at all: the base facts, and the heads of rules.  *)
Heads == {<<rules[x[1]].name, Ground(x[2], rules[x[1]].args)>> : x \in (DOMAIN rules) \X Env(Constants)}

LEMMA HeadsFacts ==
    ASSUME DatalogTypes
    PROVE  /\ IsFiniteSet(Base(facts) \cup Heads) /\ Base(facts) \cup Heads \subseteq Facts
           /\ \A I, J : Consequences(I, J) \subseteq Heads
           /\ \A r, row : <<r, row>> \in Heads => r \in Derived(rules)
<1> DEFINE C == Constants
           B == Base(facts)
           X == (DOMAIN rules) \X Env(C)
           f == [x \in X |-> <<rules[x[1]].name, Ground(x[2], rules[x[1]].args)>>]
           b == [i \in DOMAIN facts |-> <<facts[i].name, facts[i].args>>]
<1>0. facts \in Seq(Atom) /\ rules \in Seq(Rule) /\ C = Consts(facts, rules)
    BY DEF DatalogTypes, Constants, Consts
<1>1. /\ \A i \in DOMAIN facts : facts[i] \in Atom
      /\ \A i \in DOMAIN rules : rules[i] \in Rule
    BY <1>0, SeqElements, ElementType
<1>2. C \subseteq STRING /\ IsFiniteSet(C)
    BY <1>0, ConstsFacts, ConstsFinite
<1> HIDE DEF C
<1>3. IsFiniteSet(Env(C)) /\ IsFiniteSet(DOMAIN rules) /\ IsFiniteSet(DOMAIN facts)
    BY <1>0, <1>2, EnvFinite, SeqFinite
<1>4. IsFiniteSet(X)
    <2> DEFINE E == Env(C)
               R == DOMAIN rules
    <2>1. IsFiniteSet(E) /\ IsFiniteSet(R)
        BY <1>3
    <2> HIDE DEF E, R
    <2>2. IsFiniteSet(R \X E)
        BY <2>1, FS_Product
    <2> QED BY <2>2 DEF R, E
<1>5. IsFiniteSet(Heads)
    <2>1. f \in [X -> Heads] /\ \A z \in Heads : \E x \in X : f[x] = z
        BY DEF Heads, C
    <2> HIDE DEF f, X
    <2> QED BY <1>4, <2>1, ImageFinite
<1>6. IsFiniteSet(B)
    <2>1. b \in [DOMAIN facts -> B] /\ \A z \in B : \E i \in DOMAIN facts : b[i] = z
        BY DEF Base
    <2> HIDE DEF b, B
    <2> QED BY <1>3, <2>1, ImageFinite
<1>7. IsFiniteSet(B \cup Heads)
    <2> HIDE DEF B
    <2> QED BY <1>5, <1>6, FS_Union
<1> DEFINE S == STRING \cup {Unbound}
<1>8. B \subseteq Facts
    <2> SUFFICES ASSUME NEW i \in DOMAIN facts PROVE <<facts[i].name, facts[i].args>> \in Facts
        BY DEF Base
    <2>1. facts[i].name \in STRING /\ facts[i].args \in Seq(STRING \ {Unbound})
        BY <1>1 DEF Atom, Row
    <2>2. STRING \ {Unbound} \subseteq S
        OBVIOUS
    <2>3. facts[i].args \in Seq(S)
        <3> HIDE DEF S
        <3> QED BY <2>1, <2>2
    <2> QED BY <2>1, <2>3 DEF Facts
<1>9. ASSUME NEW i \in DOMAIN rules, NEW e \in Env(C) PROVE <<rules[i].name, Ground(e, rules[i].args)>> \in Facts
    <2>1. rules[i].name \in STRING /\ rules[i].args \in Row
        BY <1>1 DEF Rule
    <2>2. \A x \in Variables : e[x] \in S
        BY <1>2 DEF Env
    <2>3. Ground(e, rules[i].args) \in Seq(S)
        <3>1. STRING \subseteq S
            OBVIOUS
        <3> HIDE DEF S
        <3> QED BY <2>1, <2>2, <3>1, GroundAny
    <2> QED BY <2>1, <2>3 DEF Facts
<1>10. Heads \subseteq Facts
    BY <1>9 DEF Heads, C
<1>11. ASSUME NEW I, NEW J, NEW z \in Consequences(I, J) PROVE z \in Heads
    <2>1. PICK i \in DOMAIN rules : \E row \in Gives(C, I, J, rules[i]) : z = <<rules[i].name, row>>
        BY ConsequencesAre DEF C
    <2>2. PICK e \in Env(C) : z = <<rules[i].name, Ground(e, rules[i].args)>>
        BY <2>1 DEF Gives
    <2>3. <<i, e>> \in (DOMAIN rules) \X Env(Constants) /\ <<i, e>>[1] = i /\ <<i, e>>[2] = e
        BY DEF C
    <2> QED BY <2>2, <2>3 DEF Heads
<1>12. ASSUME NEW r, NEW row, <<r, row>> \in Heads PROVE r \in Derived(rules)
    <2>1. PICK x \in (DOMAIN rules) \X Env(Constants) :
            <<r, row>> = <<rules[x[1]].name, Ground(x[2], rules[x[1]].args)>>
        BY <1>12 DEF Heads
    <2> QED BY <2>1 DEF Derived
<1> QED BY <1>7, <1>8, <1>10, <1>11, <1>12

\* Least(J) is what its name says, for every J: the base facts, closed under
\* the rules with not judged by J, and nothing that could be left out.
LEMMA LeastFacts ==
    ASSUME DatalogTypes, SafeRules(rules), NEW J
    PROVE  /\ Least(J) \in SUBSET Facts /\ Base(facts) \subseteq Least(J)
           /\ ClosedUnder(Constants, rules, Least(J), J)
           /\ \A M : Base(facts) \subseteq M /\ ClosedUnder(Constants, rules, M, J) => Least(J) \subseteq M
           /\ Agrees(rules, Base(facts), Least(J))
<1> DEFINE B == Base(facts)
           D == SUBSET Facts
           step == [I \in D |-> I \cup Consequences(I, J)]
           Q == B \cup Heads
           Over(M) == B \subseteq M /\ ClosedUnder(Constants, rules, M, J)
           G == {I \in D : B \subseteq I /\ I \subseteq Q /\ \A M : Over(M) => I \subseteq M}
           m == [I \in G |-> Cardinality(Q \ I)]
           L == Fixpoint(step, B)
<1>1. /\ IsFiniteSet(Q) /\ Q \subseteq Facts
      /\ \A I, J2 : Consequences(I, J2) \subseteq Heads
      /\ \A r, row : <<r, row>> \in Heads => r \in Derived(rules)
    BY HeadsFacts, Zenon
<1>2. BaseFacts = B /\ Least(J) = L
    <2>1. BaseFacts = B
        BY Zenon DEF BaseFacts, Base
    <2> QED BY <2>1, Zenon DEF Least
<1>3. rules \in Seq(Rule)
    BY DEF DatalogTypes
<1>4. ASSUME NEW I, NEW M, I \subseteq M, Over(M) PROVE Consequences(I, J) \subseteq M
    <2> SUFFICES ASSUME NEW f \in Consequences(I, J) PROVE f \in M
        OBVIOUS
    <2>1. PICK i \in DOMAIN rules : \E row \in Gives(Constants, I, J, rules[i]) : f = <<rules[i].name, row>>
        BY ConsequencesAre
    <2>2. PICK row \in Gives(Constants, I, J, rules[i]) : f = <<rules[i].name, row>>
        BY <2>1, Zenon
    <2>3. Agrees(rules, J, J)
        BY Zenon DEF Agrees
    <2>4. Gives(Constants, I, J, rules[i]) \subseteq Gives(Constants, M, J, rules[i])
        <3> DEFINE C == Constants
        <3> HIDE DEF C
        <3>1. Gives(C, I, J, rules[i]) \subseteq Gives(C, M, J, rules[i])
            BY <1>3, <1>4, <2>3, GivesGrow
        <3> QED BY <3>1 DEF C
    <2>5. row \in Gives(Constants, M, J, rules[i])
        BY <2>2, <2>4, Zenon
    <2> QED BY <1>4, <2>2, <2>5, Zenon DEF ClosedUnder, Applied
<1> HIDE DEF Over
<1>5. step \in [D -> D] /\ \A I \in D : step[I] = I \cup Consequences(I, J)
    <2>1. \A I \in D : Consequences(I, J) \subseteq Facts
        BY <1>1
    <2> QED BY <2>1
<1>6. B \in G
    <2>1. \A M : Over(M) => B \subseteq M
        BY Zenon DEF Over
    <2> HIDE DEF B
    <2> QED BY <1>1, <2>1
<1> HIDE DEF B, Q
<1>7. ASSUME NEW I \in G PROVE step[I] \in G /\ (step[I] # I => m[step[I]] < m[I])
    <2> DEFINE N == step[I]
    <2>1. I \in D /\ B \subseteq I /\ I \subseteq Q /\ \A M : Over(M) => I \subseteq M
        OBVIOUS
    <2>2. N = I \cup Consequences(I, J) /\ N \in D
        BY <1>5, <2>1
    <2> HIDE DEF step
    <2>3. N \subseteq Q /\ B \subseteq N
        BY <1>1, <2>1, <2>2 DEF Q
    <2>4. \A M : Over(M) => N \subseteq M
        BY <1>4, <2>1, <2>2
    <2>5. N \in G
        BY <2>2, <2>3, <2>4
    <2>6. ASSUME N # I PROVE Cardinality(Q \ N) < Cardinality(Q \ I)
        <3>1. Q \ N \subseteq Q \ I /\ Q \ N # Q \ I /\ Q \ I \subseteq Q
            BY <2>1, <2>2, <2>3, <2>6
        <3>2. IsFiniteSet(Q \ I)
            BY <1>1, <3>1, FS_Subset
        <3> QED BY <3>1, <3>2, FS_Subset, FS_CardinalityType
    <2>7. m[I] = Cardinality(Q \ I) /\ m[N] = Cardinality(Q \ N)
        BY <2>5
    <2> QED BY <2>5, <2>6, <2>7
<1>8. m \in [G -> Nat]
    <2>1. ASSUME NEW I \in G PROVE Cardinality(Q \ I) \in Nat
        <3>1. IsFiniteSet(Q \ I)
            BY <1>1, FS_Subset
        <3> QED BY <3>1, FS_CardinalityType
    <2> QED BY <2>1
<1>9. L \in G /\ step[L] = L
    <2>1. G \in SUBSET D
        OBVIOUS
    <2>2. \A y \in G : step[y] \in G
        BY <1>7
    <2>3. \A y \in G : step[y] # y => m[step[y]] < m[y]
        BY <1>7
    <2> HIDE DEF G, m, step, D
    <2> QED BY <1>5, <1>6, <1>8, <2>1, <2>2, <2>3, FixpointFacts
<1> HIDE DEF L
<1>10. L \in D /\ B \subseteq L /\ L \subseteq Q /\ \A M : Over(M) => L \subseteq M
    BY <1>9
<1>11. Consequences(L, J) \subseteq L
    BY <1>5, <1>9, <1>10
<1>12. ClosedUnder(Constants, rules, L, J)
    <2> SUFFICES ASSUME NEW i \in DOMAIN rules, NEW row \in Gives(Constants, L, J, rules[i])
                 PROVE  <<rules[i].name, row>> \in L
        BY DEF ClosedUnder, Applied
    <2>1. <<rules[i].name, row>> \in Consequences(L, J)
        BY ConsequencesAre, Zenon
    <2> QED BY <1>11, <2>1
<1>13. Agrees(rules, B, L)
    <2> SUFFICES ASSUME NEW r, NEW row, r \notin Derived(rules)
                 PROVE  <<r, row>> \in L <=> <<r, row>> \in B
        BY DEF Agrees
    <2>1. <<r, row>> \notin Heads
        BY <1>1
    <2> QED BY <1>10, <2>1 DEF Q
<1> QED BY <1>2, <1>10, <1>12, <1>13 DEF B, Over


\* When datalogEval is done, its tables are the well-founded model.
LEMMA ModelIs ==
    ASSUME DatalogTypes, BeamInv, phase = "done", SafeRules(rules)
    PROVE  WellFounded = TabFacts(tab)
<1> DEFINE B == Base(facts)
           T == TabFacts(tab)
           C == Constants
           D == SUBSET Facts
<1>1. rules \in Seq(Rule) /\ C = Consts(facts, rules)
    BY DEF DatalogTypes, Constants, Consts
<1>2. /\ B \subseteq T /\ Agrees(rules, B, T) /\ \A i \in DOMAIN rules : Applied(C, T, T, rules[i])
      /\ \A M : B \subseteq M /\ ClosedUnder(C, rules, M, B) => T \subseteq M
    <2>1. /\ Evaluated(Consts(facts, rules), Tabled, facts, rules, tab)
          /\ \A i \in DOMAIN rules : AppliedHere(i)
        BY DEF BeamInv
    <2> QED BY <1>1, <2>1, Zenon DEF Evaluated, AppliedHere
<1>3. Agrees(rules, B, B)
    BY Zenon DEF Agrees
<1>4. ASSUME NEW J
      PROVE  /\ Least(J) \in D /\ B \subseteq Least(J) /\ ClosedUnder(C, rules, Least(J), J)
             /\ \A M : B \subseteq M /\ ClosedUnder(C, rules, M, J) => Least(J) \subseteq M
             /\ Agrees(rules, B, Least(J))
    BY LeastFacts, Zenon
<1> HIDE DEF B, T, C, D
<1>5. ASSUME NEW J, Agrees(rules, B, J) PROVE Least(J) = T
    <2> DEFINE L == Least(J)
    <2>1. ClosedUnder(C, rules, T, J)
        <3> SUFFICES ASSUME NEW i \in DOMAIN rules PROVE Applied(C, T, J, rules[i])
            BY Zenon DEF ClosedUnder
        <3>1. Gives(C, T, J, rules[i]) \subseteq Gives(C, T, T, rules[i])
            BY <1>1, <1>2, <1>5, GivesGrow
        <3> QED BY <1>2, <3>1 DEF Applied
    <2>2. L \subseteq T
        BY <1>2, <1>4, <2>1, Zenon
    <2>3. ClosedUnder(C, rules, L, B)
        <3> SUFFICES ASSUME NEW i \in DOMAIN rules PROVE Applied(C, L, B, rules[i])
            BY Zenon DEF ClosedUnder
        <3>1. Gives(C, L, B, rules[i]) \subseteq Gives(C, L, J, rules[i])
            <4> HIDE DEF L
            <4> QED BY <1>1, <1>3, <1>5, GivesGrow
        <3>2. Applied(C, L, J, rules[i])
            BY <1>4, Zenon DEF ClosedUnder
        <3> QED BY <3>1, <3>2 DEF Applied
    <2>4. T \subseteq L
        BY <1>2, <1>4, <2>3, Zenon
    <2> QED BY <2>2, <2>4
<1>6. \A low : Least(Least(low)) = T
    BY <1>4, <1>5, Zenon
<1>7. T \in D
    BY <1>4, <1>6, Zenon
<1> DEFINE step == [low \in D |-> Least(Least(low))]
           G == {{}, T}
           m == [y \in G |-> IF y = T THEN 0 ELSE 1]
           F == Fixpoint(step, {})
<1>8. step \in [D -> D] /\ \A y \in D : step[y] = T
    BY <1>6, <1>7
<1>9. G \in SUBSET D /\ {} \in G
    BY <1>7 DEF D
<1>10. \A y \in G : step[y] \in G
    BY <1>8, <1>9
<1>11. m \in [G -> Nat]
    OBVIOUS
<1>12. ASSUME NEW y \in G, step[y] # y PROVE m[step[y]] < m[y]
    <2>1. step[y] = T
        BY <1>8, <1>9
    <2> HIDE DEF step
    <2>2. y # T /\ T \in G
        BY <1>12, <2>1
    <2> QED BY <2>1, <2>2
<1>13. WellFounded = F
    BY Zenon DEF WellFounded, D
<1> HIDE DEF step, G, m, F
<1>14. F \in G /\ step[F] = F
    BY <1>8, <1>9, <1>10, <1>11, <1>12, FixpointFacts DEF F
<1>15. step[F] = T
    BY <1>8, <1>9, <1>14
<1> QED BY <1>13, <1>14, <1>15 DEF T

\* The conditions OnePassSafe states are the ones the lemmas use.
LEMMA OnePassIsSafe ==
    ASSUME DatalogTypes, OnePassSafe
    PROVE  SafeRules(rules)
<1> SUFFICES ASSUME NEW i \in DOMAIN rules
             PROVE  /\ SafeBody(rules[i]) /\ RangeRestricted(rules[i])
                    /\ \A l \in ToSet(rules[i].body) : l.k = "not" => l.name \notin Derived(rules)
    BY Zenon DEF SafeRules
<1> DEFINE rule == rules[i]
<1>1. /\ RangeRestricted(rule)
      /\ \A j \in DOMAIN rule.body : rule.body[j].k # "pos" =>
            /\ ToSet(rule.body[j].args) \cap Variables \subseteq BoundBefore(rule, j)
            /\ rule.body[j].k = "not" => rule.body[j].name \notin Derived(rules)
    BY Zenon DEF OnePassSafe
<1>2. rule \in Rule
    BY SeqElements, ElementType DEF DatalogTypes
<1>3. rule.body \in Seq(Literal)
    BY <1>2 DEF Rule
<1> HIDE DEF rule
<1>4. ASSUME NEW l \in ToSet(rule.body), l.k = "not" PROVE l.name \notin Derived(rules)
    <2>1. PICK j \in DOMAIN rule.body : l = rule.body[j]
        BY <1>3, SeqElements
    <2>2. rule.body[j].k # "pos"
        BY <1>4, <2>1
    <2> QED BY <1>1, <1>4, <2>1, <2>2, Zenon
<1>5. SafeBody(rule)
    BY <1>1, Zenon DEF SafeBody
<1> QED BY <1>1, <1>4, <1>5 DEF rule


-----------------------------------------------------------------------------
(* The answer, which is a sequence of values, cut back into rows.          *)

\* Multiples of W.
LEMMA Multiples ==
    ASSUME NEW W \in Nat
    PROVE  /\ 0 * W = 0
           /\ \A n \in Nat : n * W \in Nat /\ (n + 1) * W = n * W + W
           /\ \A n, k \in Nat : n <= k => n * W <= k * W
           /\ W > 0 => \A n, k \in Nat : /\ n * W <= k * W => n <= k
                                         /\ n <= n * W
<1>1. \A n \in Nat : n * W \in Nat /\ (n + 1) * W = n * W + W
    BY SMT
<1>2. ASSUME NEW n \in Nat, NEW d \in Nat PROVE (n + d) * W = n * W + d * W
    BY SMT
<1>3. ASSUME NEW n \in Nat, NEW k \in Nat, n <= k PROVE n * W <= k * W
    <2>1. PICK d \in Nat : k = n + d
        <3>1. k - n \in Nat /\ k = n + (k - n)
            BY <1>3
        <3> QED BY <3>1
    <2>2. k * W = n * W + d * W /\ d * W \in Nat /\ n * W \in Nat
        BY <1>1, <1>2, <2>1
    <2> QED BY <2>2
<1>4. ASSUME W > 0, NEW n \in Nat, NEW k \in Nat, n * W <= k * W PROVE n <= k
    <2> SUFFICES ASSUME k + 1 <= n PROVE FALSE
        OBVIOUS
    <2>1. (k + 1) * W <= n * W
        BY <1>3
    <2>2. (k + 1) * W = k * W + W /\ k * W \in Nat /\ n * W \in Nat
        BY <1>1
    <2> QED BY <1>4, <2>1, <2>2
<1>5. ASSUME W > 0, NEW n \in Nat PROVE n <= n * W
    <2>1. PICK d \in Nat : W = d + 1
        <3>1. W - 1 \in Nat /\ W = (W - 1) + 1
            BY <1>5
        <3> QED BY <3>1
    <2>2. n * (d + 1) = n * d + n /\ n * d \in Nat
        BY SMT
    <2> QED BY <2>1, <2>2
<1> QED BY <1>1, <1>3, <1>4, <1>5

\* Sequences of one length, put together.
LEMMA FlattenEven ==
    ASSUME NEW S, NEW s \in Seq(Seq(S)), NEW W \in Nat, \A i \in 1..Len(s) : Len(s[i]) = W
    PROVE  /\ Len(FlattenSeq(s)) = Len(s) * W
           /\ \A i \in 1..Len(s) : \A j \in 1..W : FlattenSeq(s)[(i - 1) * W + j] = s[i][j]
<1> DEFINE P == [n \in Nat |-> n * W]
<1>1. /\ P[0] = 0 /\ \A n \in Nat : P[n] = n * W /\ P[n] \in Nat /\ P[n + 1] = P[n] + W
      /\ \A n, k \in Nat : n <= k => P[n] <= P[k]
    BY Multiples
<1>2. Len(s) \in Nat /\ \A i \in 1..Len(s) : s[i] \in Seq(S)
    BY ElementType
<1>3. PICK g \in [1..Len(s) -> Seq(S)] : Flattens(g, s, Len(s))
    BY FlattensExists
<1>4. FlattenSeq(s) = IF Len(s) = 0 THEN <<>> ELSE g[Len(s)]
    BY <1>3, FlattenIs
<1> HIDE DEF P
<1> DEFINE Good(n) == /\ Len(g[n]) = P[n]
                      /\ \A i \in 1..n : \A j \in 1..W : g[n][P[i - 1] + j] = s[i][j]
           T == {n \in 1..Len(s) : ~Good(n)}
<1>5. T = {}
    <2> SUFFICES ASSUME T # {} PROVE FALSE
        OBVIOUS
    <2>1. PICK n \in T : \A y \in T : n <= y
        <3>1. T \subseteq Nat
            OBVIOUS
        <3> HIDE DEF T
        <3> QED BY <3>1, LeastOf
    <2>2. n \in 1..Len(s) /\ n \in Nat /\ ~Good(n) /\ W \in Nat
        BY <2>1
    <2>5. ASSUME NEW k \in 1..Len(s), k < n PROVE Good(k)
        <3>1. k \notin T
            <4> HIDE DEF T
            <4> QED BY <1>2, <2>1, <2>2, <2>5
        <3> HIDE DEF Good
        <3> QED BY <3>1
    <2>3. CASE n = 1
        <3>1. g[1] = s[1]
            BY <1>3, <2>2, <2>3 DEF Flattens
        <3>2. P[1] = W /\ P[0] = 0
            <4>1. 0 \in Nat /\ 0 + 1 = 1
                OBVIOUS
            <4>2. P[0 + 1] = P[0] + W
                BY <1>1, <4>1
            <4> QED BY <1>1, <4>1, <4>2
        <3>3. Len(g[1]) = P[1]
            BY <2>2, <2>3, <3>1, <3>2
        <3>4. ASSUME NEW i \in 1..1, NEW j \in 1..W PROVE g[1][P[i - 1] + j] = s[i][j]
            <4>1. i = 1 /\ P[i - 1] + j = j
                BY <3>2
            <4> QED BY <3>1, <4>1
        <3> QED BY <2>2, <2>3, <3>3, <3>4
    <2>4. CASE n # 1
        <3> HIDE DEF Good, T
        <3> DEFINE k == n - 1
        <3>1. k \in 1..Len(s) /\ k \in Nat /\ n = k + 1 /\ k < n
            BY <1>2, <2>2, <2>4
        <3>2. Good(k)
            BY <2>5, <3>1
        <3>3. g[n] = g[k] \o s[n]
            BY <1>3, <2>2, <2>4 DEF Flattens
        <3> HIDE DEF k
        <3>4. g[k] \in Seq(S) /\ s[n] \in Seq(S) /\ Len(s[n]) = W /\ Len(g[k]) = P[k] /\ P[k] \in Nat
            BY <1>1, <1>2, <1>3, <2>2, <3>1, <3>2 DEF Good
        <3> DEFINE p == P[k]
        <3> HIDE DEF p
        <3>5. /\ Len(g[n]) = p + W
              /\ \A x \in 1..(p + W) : g[n][x] = IF x <= p THEN g[k][x] ELSE s[n][x - p]
            <4> DEFINE a == g[k]
                       b == s[n]
            <4>1. a \in Seq(S) /\ b \in Seq(S) /\ Len(a) = p /\ Len(b) = W /\ g[n] = a \o b
                BY <3>3, <3>4 DEF p
            <4> HIDE DEF a, b
            <4>2. /\ Len(a \o b) = p + W
                  /\ \A x \in 1..(p + W) : (a \o b)[x] = IF x <= p THEN a[x] ELSE b[x - p]
                BY <4>1, ConcatFacts
            <4> QED BY <4>1, <4>2 DEF a, b
        <3>6. P[n] = p + W
            BY <1>1, <3>1 DEF p
        <3>8. p \in Nat
            BY <3>4 DEF p
        <3>7. ASSUME NEW i \in 1..n, NEW j \in 1..W PROVE g[n][P[i - 1] + j] = s[i][j]
            <4>1. CASE i = n
                <5>1. i - 1 = k
                    BY <3>1, <4>1
                <5>2. p + j \in 1..(p + W) /\ ~(p + j <= p) /\ (p + j) - p = j
                    BY <2>2, <3>8
                <5> QED BY <3>5, <4>1, <5>1, <5>2 DEF p
            <4>2. CASE i # n
                <5>1. i \in 1..k /\ i - 1 \in Nat /\ i \in Nat /\ (i - 1) + 1 = i /\ i <= k
                    BY <3>1, <4>2
                <5>2. P[i - 1] \in Nat /\ P[i] = P[i - 1] + W /\ P[i] <= p
                    BY <1>1, <3>1, <5>1 DEF p
                <5>3. P[i - 1] + j \in 1..(p + W) /\ P[i - 1] + j <= p
                    <6> DEFINE q == P[i - 1]
                    <6>1. q \in Nat /\ q + W <= p /\ p \in Nat /\ W \in Nat /\ j \in 1..W
                        BY <2>2, <3>8, <5>2
                    <6> HIDE DEF q
                    <6>2. q + j \in 1..(p + W) /\ q + j <= p
                        BY <6>1
                    <6> QED BY <6>2 DEF q
                <5>4. g[n][P[i - 1] + j] = g[k][P[i - 1] + j]
                    BY <3>5, <5>3
                <5> QED BY <3>2, <5>1, <5>4 DEF Good
            <4> QED BY <4>1, <4>2
        <3> QED BY <2>2, <3>5, <3>6, <3>7 DEF Good
    <2> QED BY <2>3, <2>4
<1>6. CASE Len(s) = 0
    BY <1>1, <1>4, <1>6
<1>7. CASE Len(s) # 0
    <2>1. Good(Len(s)) /\ FlattenSeq(s) = g[Len(s)]
        <3> HIDE DEF Good
        <3>1. Len(s) \in 1..Len(s)
            BY <1>2, <1>7
        <3> QED BY <1>4, <1>5, <1>7, <3>1
    <2>2. \A i \in 1..Len(s) : i - 1 \in Nat
        BY <1>2
    <2> QED BY <1>1, <1>2, <2>1, <2>2
<1> QED BY <1>6, <1>7


Cut(W, ans) == {[j \in 1..W |-> ans[(i - 1) * W + j]] : i \in {n \in 1..Len(ans) : n * W <= Len(ans)}}

\* Cutting up takes apart what was put together.
LEMMA CutFlat ==
    ASSUME NEW S, NEW s \in Seq(Seq(S)), NEW W \in Nat, W > 0, \A i \in 1..Len(s) : Len(s[i]) = W
    PROVE  Cut(W, FlattenSeq(s)) = ToSet(s)
<1> DEFINE f == FlattenSeq(s)
           row(i) == [j \in 1..W |-> f[(i - 1) * W + j]]
           At1 == {n \in 1..Len(f) : n * W <= Len(f)}
<1>1. /\ Len(f) = Len(s) * W
      /\ \A i \in 1..Len(s) : \A j \in 1..W : f[(i - 1) * W + j] = s[i][j]
    BY FlattenEven
<1>2. Len(s) \in Nat /\ \A i \in 1..Len(s) : s[i] \in Seq(S)
    BY ElementType
<1> HIDE DEF f
<1>3. At1 = 1..Len(s)
    <2>1. ASSUME NEW n \in At1 PROVE n \in 1..Len(s)
        <3>1. n \in Nat /\ n >= 1 /\ n * W <= Len(s) * W
            <4>1. n \in 1..Len(f) /\ n * W <= Len(f)
                OBVIOUS
            <4> HIDE DEF At1
            <4> QED BY <1>1, <4>1
        <3>2. n <= Len(s)
            BY <1>2, <3>1, Multiples
        <3> QED BY <1>2, <3>1, <3>2
    <2>2. ASSUME NEW n \in 1..Len(s) PROVE n \in At1
        <3>1. n \in Nat /\ n >= 1 /\ n <= Len(s)
            BY <1>2
        <3>2. n * W <= Len(s) * W /\ n <= n * W /\ n * W \in Nat /\ Len(s) * W \in Nat
            BY <1>2, <3>1, Multiples
        <3>3. n * W <= Len(f) /\ n \in 1..Len(f)
            <4>1. n <= Len(s) * W
                <5> DEFINE x == n * W
                           y == Len(s) * W
                <5>1. x <= y /\ n <= x /\ x \in Nat /\ y \in Nat
                    BY <3>2
                <5> HIDE DEF x, y
                <5>2. n <= y
                    BY <3>1, <5>1
                <5> QED BY <5>2 DEF y
            <4> QED BY <1>1, <3>1, <3>2, <4>1
        <3> QED BY <3>3
    <2> QED BY <2>1, <2>2
<1>4. Cut(W, f) = {row(i) : i \in At1}
    BY Zenon DEF Cut
<1>5. \A i \in 1..Len(s) : row(i) = s[i]
    <2> TAKE i \in 1..Len(s)
    <2>1. s[i] \in Seq(S) /\ Len(s[i]) = W
        BY <1>2
    <2>2. s[i] = [j \in 1..W |-> s[i][j]]
        BY <2>1
    <2>3. \A j \in 1..W : row(i)[j] = s[i][j]
        BY <1>1
    <2> QED BY <2>2, <2>3
<1> HIDE DEF At1, row
<1>6. Cut(W, f) = {s[i] : i \in 1..Len(s)}
    BY <1>3, <1>4, <1>5
<1> QED BY <1>6, SeqElements DEF f

\* The answer, cut up, is the rows that match the query.
LEMMA AnswerRows ==
    ASSUME NEW C, NEW q \in Atom, NEW rows \in Seq(Seq(C)), Len(FreePos(q)) > 0
    PROVE  Cut(Len(FreePos(q)), Answer(q, rows)) = {Free(q, row) : row \in {x \in ToSet(rows) : Matches(q, x)}}
<1> DEFINE at == FreePos(q)
           n == Len(q.args)
           W == Len(at)
           K == {i \in DOMAIN rows : Matches(q, rows[i])}
           hit == Kept(rows, K)
           s == [i \in DOMAIN hit |-> Free(q, hit[i])]
           H == {x \in ToSet(rows) : Matches(q, x)}
<1>1. n \in Nat
    BY DEF Atom, Row
<1>2. at \in Seq(1..n)
    <2> DEFINE F == DOMAIN q.args \ BoundPos(q)
    <2>1. at = Positions(F, n)
        BY DEF FreePos
    <2> HIDE DEF F, n
    <2> QED BY <1>1, <2>1, PositionsFacts
<1>3. hit \in Seq(Seq(C)) /\ ToSet(hit) = {rows[i] : i \in K \cap 1..Len(rows)}
    <2> HIDE DEF K
    <2> QED BY KeptFacts
<1>4. DOMAIN rows = 1..Len(rows) /\ ToSet(rows) = {rows[i] : i \in 1..Len(rows)}
    BY SeqElements
<1>5. ToSet(hit) = H
    <2> HIDE DEF hit
    <2> QED BY <1>3, <1>4
<1>6. Answer(q, rows) = FlattenSeq(s)
    BY Zenon DEF Answer
<1>7. DOMAIN hit = 1..Len(hit) /\ Len(hit) \in Nat /\ ToSet(hit) = {hit[i] : i \in 1..Len(hit)}
    BY <1>3, SeqElements
<1>8. \A i \in 1..Len(hit) : hit[i] \in Seq(C) /\ Matches(q, hit[i])
    <2>1. \A i \in 1..Len(hit) : hit[i] \in H
        BY <1>5, <1>7
    <2>2. \A i \in 1..Len(hit) : hit[i] \in Seq(C)
        BY <1>3, ElementType
    <2> HIDE DEF hit
    <2> QED BY <2>1, <2>2
<1> HIDE DEF hit, at, n, H
<1>9. W \in Nat /\ DOMAIN at = 1..W /\ \A j \in 1..W : at[j] \in 1..n
    <2> DEFINE X == 1..n
    <2>1. at \in Seq(X)
        BY <1>2
    <2> HIDE DEF X
    <2>2. \A j \in 1..Len(at) : at[j] \in X
        BY <2>1, ElementType
    <2> QED BY <2>1, <2>2, SeqElements DEF X
<1>10. ASSUME NEW i \in 1..Len(hit) PROVE Free(q, hit[i]) \in Seq(C) /\ Len(Free(q, hit[i])) = W
    <2> DEFINE r == hit[i]
    <2>1. r \in Seq(C) /\ Len(r) = n
        BY <1>8 DEF Matches, n
    <2> HIDE DEF r
    <2>2. Free(q, r) = [j \in 1..W |-> r[at[j]]]
        <3>1. Free(q, r) = [j \in DOMAIN at |-> r[at[j]]]
            BY Zenon DEF Free, at
        <3> QED BY <1>9, <3>1
    <2>3. \A j \in 1..W : r[at[j]] \in C
        BY <1>9, <2>1
    <2>4. Free(q, r) \in Seq(C) /\ Len(Free(q, r)) = W
        <3> HIDE DEF W
        <3>1. [j \in 1..W |-> r[at[j]]] \in [1..W -> C]
            BY <2>3
        <3> QED BY <1>9, <2>2, <3>1
    <2> QED BY <2>4 DEF r
<1>11. s \in Seq(Seq(C)) /\ Len(s) = Len(hit) /\ \A i \in 1..Len(hit) : s[i] = Free(q, hit[i])
    <2>1. s = [i \in 1..Len(hit) |-> Free(q, hit[i])]
        BY <1>7
    <2>2. s \in [1..Len(hit) -> Seq(C)]
        BY <1>10, <2>1
    <2> HIDE DEF s
    <2> QED BY <1>7, <2>1, <2>2
<1> HIDE DEF s
<1>12. Cut(W, FlattenSeq(s)) = ToSet(s)
    <2>1. \A i \in 1..Len(s) : Len(s[i]) = W
        BY <1>10, <1>11
    <2>2. W > 0
        BY DEF at
    <2> HIDE DEF W
    <2> QED BY <1>9, <1>11, <2>1, <2>2, CutFlat
<1>13. ToSet(s) = {Free(q, hit[i]) : i \in 1..Len(hit)}
    <2>1. ToSet(s) = {s[i] : i \in 1..Len(s)}
        BY <1>11, SeqElements
    <2> QED BY <1>11, <2>1
<1>14. ToSet(s) = {Free(q, row) : row \in H}
    BY <1>5, <1>7, <1>13
<1> QED BY <1>6, <1>12, <1>14 DEF H, at


-----------------------------------------------------------------------------
LEMMA BeamInvAlways == Spec => [](DatalogTypes /\ BeamInv)
<1>1. Init => DatalogTypes /\ BeamInv
    <2>1. Init => phase = "collect"
        BY DEF Init
    <2> QED BY <2>1, TypesInit DEF BeamInv
<1>2. DatalogTypes /\ BeamInv /\ [Next]_vars => DatalogTypes' /\ BeamInv'
    BY TypesStep, BeamStep
<1> QED BY <1>1, <1>2, PTL DEF Spec

\* What datalogEval answers is the queried part of the well-founded model of
\* the rules, whatever the program, wherever the head, != and not have
\* variables that are bound by then and not is about relations that have
\* facts only.
THEOREM DatalogBeamAnswers == Spec => []BeamAnswersTheQuery
<1>1. ASSUME DatalogTypes, BeamInv PROVE BeamAnswersTheQuery
    <2> SUFFICES ASSUME phase = "done", OnePassSafe, Width > 0 PROVE Rows(banswer) = Expected
        BY DEF BeamAnswersTheQuery
    <2> DEFINE q == query[1]
               C == Consts(facts, rules)
               rows == tab[q.name]
               H == {x \in ToSet(rows) : Matches(q, x)}
               T == {g \in TabFacts(tab) : g[1] = q.name /\ Matches(q, g[2])}
    <2>1. SafeRules(rules)
        BY <1>1, OnePassIsSafe
    <2>2. WellFounded = TabFacts(tab)
        BY <1>1, <2>1, ModelIs
    <2>3. q \in Atom /\ q.name \in Tabled
        <3>1. query \in Seq(Atom) /\ Len(query) = 1
            BY <1>1 DEF DatalogTypes
        <3> QED BY <3>1 DEF Tabled
    <2>4. tab \in TabsOf(C, Tabled) /\ banswer = Answer(q, rows)
        BY <1>1, <2>1 DEF BeamInv, Evaluated
    <2>5. q.name \in DOMAIN tab /\ rows \in Seq(Seq(C))
        <3> HIDE DEF C
        <3> QED BY <2>3, <2>4 DEF TabsOf
    <2>6. Expected = {Free(q, f[2]) : f \in T}
        BY <2>2, Zenon DEF Expected
    <2>7. Rows(banswer) = Cut(Len(FreePos(q)), Answer(q, rows)) /\ Len(FreePos(q)) > 0
        BY <2>4, Zenon DEF Rows, Cut, Width
    <2> HIDE DEF q, C, rows
    <2>8. Rows(banswer) = {Free(q, row) : row \in H}
        BY <2>3, <2>5, <2>7, AnswerRows
    <2>9. ASSUME NEW f \in T PROVE f[2] \in H
        <3>1. f \in TabFacts(tab) /\ f[1] = q.name /\ Matches(q, f[2])
            OBVIOUS
        <3>2. PICK r \in DOMAIN tab : \E row \in ToSet(tab[r]) : f = <<r, row>>
            BY <3>1, TabElement
        <3> QED BY <3>1, <3>2 DEF rows
    <2>10. ASSUME NEW row \in H PROVE <<q.name, row>> \in T
        <3>1. row \in ToSet(tab[q.name]) /\ Matches(q, row)
            BY DEF rows
        <3>2. <<q.name, row>> \in TabFacts(tab)
            BY <2>5, <3>1, InTab
        <3> QED BY <3>1, <3>2
    <2> HIDE DEF T, H
    <2>11. {Free(q, f[2]) : f \in T} = {Free(q, row) : row \in H}
        <3>1. \A row \in H : \E f \in T : f[2] = row
            BY <2>10
        <3> QED BY <2>9, <3>1
    <2> QED BY <2>6, <2>8, <2>11
<1> QED BY <1>1, BeamInvAlways, PTL


=============================================================================
