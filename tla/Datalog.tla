------------------------------ MODULE Datalog ------------------------------
(***************************************************************************)
(* fact, rule and query.  The lowerer (src/internal/clower/lower.go)       *)
(* collects facts and rules, and for a query rewrites them with magic      *)
(* sets, assigns strata and emits C that evaluates the query when the      *)
(* program runs; for the BEAM the collected rules go along unchanged and   *)
(* src/transpiler/lower/lower.go evaluates them while it compiles.  Here   *)
(* both evaluators run, one rule to a step, and their answers are compared *)
(* with the model the rules have.                                          *)
(*                                                                         *)
(* A relation and a constant are strings, and so is a variable, which is   *)
(* in Variables.  A literal is [k, name, args]: k "pos", "not", or "neq"   *)
(* for A != B, with args = <<A, B>>.                                       *)
(***************************************************************************)
EXTENDS Integers, Sequences, FiniteSets, SequencesExt

CONSTANTS Variables,
          Sources,              \* programs: sequences of statements [k, ...]
          MaxFacts              \* rows of a C table: 4096 in the code

(* The statements as the parser hands them over: facts state constants, an *)
(* inequality is between variables.  Unbound stands for the value of a     *)
(* variable that has none, so no constant is the empty string.             *)
Unbound == ""
Row == Seq(STRING \ {Unbound})
Literal == [k : {"pos", "not"}, name : STRING, args : Row]
           \cup [k : {"neq"}, name : {"!="}, args : Variables \X Variables]
Statement == [k : {"fact", "query"}, name : STRING, args : Row]
             \cup [k : {"rule"}, name : STRING, args : Row, body : Seq(Literal)]
ASSUME DatalogAssumption ==
    /\ Variables \subseteq STRING \ {Unbound} /\ IsFiniteSet(Variables)
    /\ \A s \in Sources : s \in Seq(Statement)

VARIABLES rest,                 \* the statements not yet lowered
          facts, rules,         \* lowerer.logicFacts, logicRules
          query,                \* <<>>, or <<the query being lowered>>
          phase,                \* "collect", "strata", "rejected", "c", "beam", "done"
          prog,                 \* [facts, rules] after applyMagicSet
          strata,               \* relation -> stratum
          stratum, ri, changed, \* the evaluator's loops
          tab,                  \* relation -> its rows, in order
          canswer, banswer      \* the answer of each target

vars == <<rest, facts, rules, query, phase, prog, strata, stratum, ri, changed, tab, canswer, banswer>>

isVariable(x) == x \in Variables

(* The members of K up to n in ascending order, and the elements of s that *)
(* stand there.                                                            *)
Positions(K, n) == FlattenSeq([i \in 1..n |-> IF i \in K THEN <<i>> ELSE <<>>])
Kept(s, K) == LET at == Positions(K, Len(s)) IN [j \in DOMAIN at |-> s[at[j]]]

(* The relations a program names.                                          *)
BodyNames(rule) == {l.name : l \in {m \in ToSet(rule.body) : m.k # "neq"}}
Derived(rs) == {rs[i].name : i \in DOMAIN rs}
Relations(fs, rs) == {fs[i].name : i \in DOMAIN fs} \cup Derived(rs)
                     \cup UNION {BodyNames(rs[i]) : i \in DOMAIN rs}

(* Base rows, in the order they were stated.                               *)
Seed(fs, R) ==
    [r \in R |-> LET own == Kept(fs, {i \in DOMAIN fs : fs[i].name = r})
                 IN  [i \in DOMAIN own |-> own[i].args]]

-----------------------------------------------------------------------------
(* computeDatalogStrata: the stratum of a head is raised to what its body  *)
(* needs, rule after rule, in passes; at the end a negated relation that   *)
(* is not below its head is reported as a cycle.                           *)
At(st, r) == IF r \in DOMAIN st THEN st[r] ELSE 0
\* Mutant: a negated relation may share the stratum of the head.
RaisedNotAbove(st, rule) ==
    LET needs == {At(st, rule.name)}
                 \cup {At(st, l.name) : l \in {m \in ToSet(rule.body) : m.k # "neq"}}
    IN  Max(needs)
Raised(st, rule) ==
    LET needs == {At(st, rule.name)}
                 \cup {At(st, l.name) : l \in {m \in ToSet(rule.body) : m.k = "pos"}}
                 \cup {At(st, l.name) + 1 : l \in {m \in ToSet(rule.body) : m.k = "not"}}
    IN  Max(needs)
\* Mutant: one pass over the rules.
PassLimitOne(rs) == 1
PassLimit(rs) == Len(rs) * Len(rs) + 10
CycleReported(st, rs) ==
    \E i \in DOMAIN rs : \E l \in ToSet(rs[i].body) :
        l.k = "not" /\ At(st, l.name) >= At(st, rs[i].name)

-----------------------------------------------------------------------------
(* applyMagicSet.  The arguments that stand where the query has constants: *)
BoundPos(q) == {i \in DOMAIN q.args : ~isVariable(q.args[i])}
AtBound(q, args) == Kept(args, BoundPos(q))
MagicName(q) == "magic_" \o q.name
Guard(q, rule) == [k |-> "pos", name |-> MagicName(q), args |-> AtBound(q, rule.args)]
(* The rule that passes the bound values on to the recursive call at bi,   *)
(* for every such call that has other ones than the head.                  *)
Propagation(q, rule, bi) ==
    [name |-> MagicName(q), args |-> AtBound(q, rule.body[bi].args),
     body |-> <<Guard(q, rule)>>
              \o Kept(rule.body, {i \in 1..(bi - 1) : /\ rule.body[i].k = "pos"
                                                     /\ rule.body[i].name # q.name})]
Propagations(q, rule) ==
    LET calls == Positions({i \in DOMAIN rule.body :
                    /\ rule.body[i].k = "pos" /\ rule.body[i].name = q.name
                    /\ AtBound(q, rule.body[i].args) # AtBound(q, rule.args)}, Len(rule.body))
    IN  [i \in DOMAIN calls |-> Propagation(q, rule, calls[i])]
Guarded(q, rule) ==
    IF rule.name # q.name THEN <<rule>>
    ELSE <<[rule EXCEPT !.body = <<Guard(q, rule)>> \o @]>> \o Propagations(q, rule)
Transforms(q, rs) == BoundPos(q) # {} /\ q.name \in Derived(rs)
applyMagicSet(q, fs, rs) ==
    IF ~Transforms(q, rs) THEN [facts |-> fs, rules |-> rs]
    ELSE [facts |-> Append(fs, [name |-> MagicName(q), args |-> AtBound(q, q.args)]),
          rules |-> FlattenSeq([i \in DOMAIN rs |-> Guarded(q, rs[i])])]

-----------------------------------------------------------------------------
(* A row against the arguments of a literal.  env binds variables; Bind    *)
(* extends it and is <<>> when the row does not fit.                       *)
NoEnv == [x \in Variables |-> Unbound]
Envs == [Variables -> STRING]
Value(env, x) == IF isVariable(x) THEN env[x] ELSE x
Fits(env, args, row) ==
    /\ Len(args) = Len(row)
    /\ \A i \in DOMAIN args :
        IF isVariable(args[i])
        THEN /\ env[args[i]] \in {Unbound, row[i]}
             /\ \A j \in 1..i : args[j] = args[i] => row[j] = row[i]
        ELSE args[i] = row[i]
Bind(env, args, row) ==
    IF ~Fits(env, args, row) THEN <<>>
    ELSE <<[x \in Variables |-> IF Contains(args, x) THEN row[CHOOSE i \in DOMAIN args : args[i] = x]
                                ELSE env[x]]>>
Tables(t) == [DOMAIN t -> Seq(Seq(STRING))]
Ground(env, args) == [i \in DOMAIN args |-> Value(env, args[i])]

(* What emitRule does with the inequalities and the negations of a rule,   *)
(* inside its loops.                                                       *)
Holds(t, env, l) ==
    CASE l.k = "neq" -> Value(env, l.args[1]) # Value(env, l.args[2])
      [] l.k = "not" -> ~\E i \in DOMAIN t[l.name] :
                            t[l.name][i] = Ground(env, l.args)
Passes(t, env, rule) == \A l \in ToSet(rule.body) : l.k # "pos" => Holds(t, env, l)

(* emitRule: one loop per positive literal, each to the end the table has  *)
(* when the loop gets there; a new head row goes to the end of its table   *)
(* and is dropped when the table is full.                                  *)
Insert(t, rule, env) ==
    LET row == Ground(env, rule.args)
    IN  IF /\ Passes(t, env, rule) /\ ~Contains(t[rule.name], row)
           /\ Len(t[rule.name]) < MaxFacts
        THEN [t EXCEPT ![rule.name] = Append(@, row)] ELSE t
emitRule(t, rule) ==
    LET lits == Kept(rule.body, {i \in DOMAIN rule.body : rule.body[i].k = "pos"})
        Loop[s \in Tables(t), n \in Nat, env \in Envs, i \in Nat] ==
            CASE n > Len(lits) -> Insert(s, rule, env)
              [] n <= Len(lits) /\ i > Len(s[lits[n].name]) -> s
              [] OTHER ->
                    LET e == Bind(env, lits[n].args, s[lits[n].name][i])
                    IN  Loop[IF e = <<>> THEN s ELSE Loop[s, n + 1, e[1], 1], n, env, i + 1]
    IN  Loop[t, 1, NoEnv, 1]

(* deriveRule of the BEAM lowerer: the literals in the order they stand.   *)
(* A != and a not look at what is bound by then.                           *)
\* Mutant: an inequality is not checked.
KeepUnequalUnchecked(t, env, l) == l.k = "neq" \/ Holds(t, env, l)
Keep(t, env, l) ==
    IF l.k = "neq"
    THEN Unbound \in {env[l.args[1]], env[l.args[2]]} \/ env[l.args[1]] # env[l.args[2]]
    ELSE Holds(t, env, l)
Joined(t, l, envs) ==
    FlattenSeq([i \in DOMAIN envs |->
        FlattenSeq([j \in DOMAIN t[l.name] |-> Bind(envs[i], l.args, t[l.name][j])])])
Solutions(t, rule) ==
    LET Solve[n \in 0..Len(rule.body)] ==
            IF n = 0 THEN <<NoEnv>>
            ELSE LET envs == Solve[n - 1]
                     l == rule.body[n]
                 IN  IF l.k = "pos" THEN Joined(t, l, envs)
                     ELSE Kept(envs, {i \in DOMAIN envs : Keep(t, envs[i], l)})
    IN  Solve[Len(rule.body)]
deriveRule(t, rule) ==
    LET envs == Solutions(t, rule) IN [i \in DOMAIN envs |-> Ground(envs[i], rule.args)]
(* The rows a relation does not have yet, each once.                       *)
NewRows(have, got) ==
    Kept(got, {i \in DOMAIN got : ~Contains(have, got[i]) /\ \A j \in 1..(i - 1) : got[j] # got[i]})
AddNew(t, rule) == [t EXCEPT ![rule.name] = @ \o NewRows(@, deriveRule(t, rule))]

(* The answer: the values of the free variables, row after row.            *)
FreePos(q) == Positions(DOMAIN q.args \ BoundPos(q), Len(q.args))
Free(q, row) == LET at == FreePos(q) IN [j \in DOMAIN at |-> row[at[j]]]
Matches(q, row) == Len(row) = Len(q.args) /\ \A i \in BoundPos(q) : row[i] = q.args[i]
Answer(q, rows) ==
    LET hit == Kept(rows, {i \in DOMAIN rows : Matches(q, rows[i])})
    IN  FlattenSeq([i \in DOMAIN hit |-> Free(q, hit[i])])

-----------------------------------------------------------------------------
Init == /\ rest \in Sources
        /\ facts = <<>> /\ rules = <<>> /\ query = <<>> /\ phase = "collect"
        /\ prog = [facts |-> <<>>, rules |-> <<>>] /\ strata = [r \in {} |-> 0]
        /\ stratum = 0 /\ ri = 0 /\ changed = FALSE /\ tab = [r \in {} |-> <<>>]
        /\ canswer = <<>> /\ banswer = <<>>

(* lowerStatement: the next statement, once the one before is lowered.     *)
NextIs(k) == phase \in {"collect", "done"} /\ rest # <<>> /\ Head(rest).k = k
Evaluator == <<query, prog, strata, stratum, ri, changed, tab, canswer, banswer>>
collectFact ==
    /\ NextIs("fact")
    /\ facts' = Append(facts, [name |-> Head(rest).name, args |-> Head(rest).args])
    /\ rest' = Tail(rest) /\ phase' = "collect"
    /\ UNCHANGED <<rules, Evaluator>>
collectRule ==
    /\ NextIs("rule")
    /\ rules' = Append(rules, [name |-> Head(rest).name, args |-> Head(rest).args,
                               body |-> Head(rest).body])
    /\ rest' = Tail(rest) /\ phase' = "collect"
    /\ UNCHANGED <<facts, Evaluator>>

(* lowerLogicQuery up to the evaluation it emits.  The C of a query over a *)
(* relation that has neither facts nor rules names a table nobody declares *)
(* and does not compile.                                                   *)
Declared(p, q) == \A r \in Relations(p.facts, p.rules) \cup {q.name} :
                    r \in Derived(p.rules) \/ \E i \in DOMAIN p.facts : p.facts[i].name = r
lowerLogicQuery ==
  LET q == [name |-> Head(rest).name, args |-> Head(rest).args] IN
    /\ NextIs("query")
    /\ rest' = Tail(rest)
    /\ query' = <<q>>
    /\ prog' = applyMagicSet(q, facts, rules)
    /\ strata' = [r \in Relations(prog'.facts, prog'.rules) |-> 0]
    /\ phase' = "strata" /\ stratum' = 0 /\ ri' = 1 /\ changed' = FALSE
    /\ UNCHANGED <<facts, rules, tab, canswer, banswer>>
(* computeDatalogStrata; stratum counts its passes.                        *)
StrataRule ==
    /\ phase = "strata" /\ ri <= Len(prog.rules)
    /\ strata' = [strata EXCEPT ![prog.rules[ri].name] = Raised(strata, prog.rules[ri])]
    /\ changed' = (changed \/ strata' # strata)
    /\ ri' = ri + 1
    /\ UNCHANGED <<rest, facts, rules, query, phase, prog, stratum, tab, canswer, banswer>>
Evaluate(ph, fs, rs) == /\ phase' = ph /\ stratum' = 0
                        /\ tab' = Seed(fs, Relations(fs, rs) \cup {query[1].name})
StrataPass ==
    /\ phase = "strata" /\ ri > Len(prog.rules)
    /\ ri' = 1 /\ changed' = FALSE
    /\ \/ /\ changed /\ stratum + 1 < PassLimit(prog.rules)
          /\ stratum' = stratum + 1
          /\ UNCHANGED <<phase, tab>>
       \/ /\ ~changed \/ stratum + 1 = PassLimit(prog.rules)
          /\ \/ /\ CycleReported(strata, prog.rules)
                /\ phase' = "rejected" /\ UNCHANGED <<stratum, tab>>
             \/ /\ ~CycleReported(strata, prog.rules) /\ Declared(prog, query[1])
                /\ Evaluate("c", prog.facts, prog.rules)
             \/ /\ ~CycleReported(strata, prog.rules) /\ ~Declared(prog, query[1])
                /\ Evaluate("beam", facts, rules)
    /\ UNCHANGED <<rest, facts, rules, query, prog, strata, canswer, banswer>>

(* The emitted C: for each stratum a do-while over its rules.  The checks  *)
(* of a rule without a positive literal stand in no loop of its own: the   *)
(* `continue` of one that fails goes to the end of the do-while.           *)
InLoop(rule) == \E l \in ToSet(rule.body) : l.k = "pos"
CRule ==
    /\ phase = "c" /\ ri <= Len(prog.rules)
    /\ LET rule == prog.rules[ri]
           own == strata[rule.name] = stratum
       IN  /\ tab' = IF own THEN emitRule(tab, rule) ELSE tab
           /\ ri' = IF own /\ ~InLoop(rule) /\ ~Passes(tab, NoEnv, rule)
                    THEN Len(prog.rules) + 1 ELSE ri + 1
    /\ changed' = (changed \/ tab' # tab)
    /\ UNCHANGED <<rest, facts, rules, query, phase, prog, strata, stratum, canswer, banswer>>
CPass ==
    /\ phase = "c" /\ ri > Len(prog.rules)
    /\ \/ /\ changed /\ ri' = 1 /\ changed' = FALSE
          /\ UNCHANGED <<phase, stratum, tab, canswer>>
       \/ /\ ~changed /\ stratum < Max({strata[r] : r \in DOMAIN strata} \cup {0})
          /\ stratum' = stratum + 1 /\ ri' = 1
          /\ UNCHANGED <<phase, changed, tab, canswer>>
       \/ /\ ~changed /\ \A r \in DOMAIN strata : strata[r] <= stratum
          /\ canswer' = Answer(query[1], tab[query[1].name])
          /\ Evaluate("beam", facts, rules) /\ ri' = 1 /\ UNCHANGED changed
    /\ UNCHANGED <<rest, facts, rules, query, prog, strata, banswer>>

(* datalogEval.                                                            *)
\* Mutant: a row that was there already counts as a change.
BeamRuleAnyTuple ==
    /\ phase = "beam" /\ ri <= Len(rules)
    /\ tab' = AddNew(tab, rules[ri])
    /\ changed' = (changed \/ deriveRule(tab, rules[ri]) # <<>>)
    /\ ri' = ri + 1
    /\ UNCHANGED <<rest, facts, rules, query, phase, prog, strata, stratum, canswer, banswer>>
BeamRule ==
    /\ phase = "beam" /\ ri <= Len(rules)
    /\ tab' = AddNew(tab, rules[ri])
    /\ changed' = (changed \/ tab' # tab)
    /\ ri' = ri + 1
    /\ UNCHANGED <<rest, facts, rules, query, phase, prog, strata, stratum, canswer, banswer>>
BeamPass ==
    /\ phase = "beam" /\ ri > Len(rules)
    /\ IF changed THEN ri' = 1 /\ changed' = FALSE /\ UNCHANGED <<phase, banswer>>
       ELSE /\ banswer' = Answer(query[1], tab[query[1].name])
            /\ phase' = "done" /\ UNCHANGED <<ri, changed>>
    /\ UNCHANGED <<rest, facts, rules, query, prog, strata, stratum, tab, canswer>>

Next == collectFact \/ collectRule \/ lowerLogicQuery \/ StrataRule \/ StrataPass
        \/ CRule \/ CPass \/ BeamRule \/ BeamPass

(* The compiler and the program it emits keep running.  This is WF_vars    *)
(* with the condition of an evaluator's steps in the place of ENABLED.     *)
Evaluating == phase \in {"strata", "c", "beam"}
KeepRunning == <>[]Evaluating => []<><<Next>>_vars
Spec == Init /\ [][Next]_vars /\ KeepRunning
-----------------------------------------------------------------------------
(* What the rules mean.  A set of facts is a set of <<relation, row>>.     *)
Constants == (UNION {ToSet(facts[i].args) : i \in DOMAIN facts})
             \cup ((UNION {ToSet(rules[i].args) : i \in DOMAIN rules}) \ Variables)
BaseFacts == {<<facts[i].name, facts[i].args>> : i \in DOMAIN facts}
True(env, l, I, J) ==
    CASE l.k = "pos" -> <<l.name, Ground(env, l.args)>> \in I
      [] l.k = "not" -> <<l.name, Ground(env, l.args)>> \notin J
      [] l.k = "neq" -> env[l.args[1]] # env[l.args[2]]
Consequences(I, J) ==
    UNION {{<<rules[i].name, Ground(env, rules[i].args)>> :
                env \in {e \in [Variables -> Constants \cup {Unbound}] :
                            \A l \in ToSet(rules[i].body) : True(e, l, I, J)}} : i \in DOMAIN rules}

(* The least set closed under the rules when not is judged by J, and the   *)
(* well-founded model by alternation: for a stratified program it is the   *)
(* perfect model, reached stratum by stratum.                              *)
Facts == STRING \X Seq(STRING \cup {Unbound})
Fixpoint(step, x) ==
    LET From[y \in DOMAIN step] == LET next == step[y] IN IF next = y THEN y ELSE From[next]
    IN  From[x]
Least(J) == Fixpoint([I \in SUBSET Facts |-> I \cup Consequences(I, J)], BaseFacts)
WellFounded == Fixpoint([low \in SUBSET Facts |-> Least(Least(low))], {})
Expected == {Free(query[1], f[2]) : f \in {g \in WellFounded :
                                        g[1] = query[1].name /\ Matches(query[1], g[2])}}
(* An answer cut back into rows; a query without variables has none.       *)
Width == Len(FreePos(query[1]))
Rows(ans) == {[j \in 1..Width |-> ans[(i - 1) * Width + j]] :
                i \in {n \in 1..Len(ans) : n * Width <= Len(ans)}}

(* The relations those of S use, perhaps through others.                   *)
UsedBy(rs, S) ==
    LET all == S \cup Relations(<<>>, rs)
        Closed(T) == \A i \in DOMAIN rs : rs[i].name \in T => BodyNames(rs[i]) \subseteq T
    IN  {r \in all : \A T \in SUBSET all : S \subseteq T /\ Closed(T) => r \in T}
NegativeCycle(rs) ==
    \E i \in DOMAIN rs : \E l \in ToSet(rs[i].body) : l.k = "not" /\ rs[i].name \in UsedBy(rs, {l.name})

(* Where the magic sets reach every value a recursive call asks for: the   *)
(* values passed on are bound where they are passed on, and nobody else    *)
(* asks for the queried relation.                                          *)
BoundBefore(rule, n) ==
    UNION {ToSet(rule.body[i].args) : i \in {j \in 1..(n - 1) : rule.body[j].k = "pos"}}
RangeRestricted(rule) ==
    ToSet(rule.args) \cap Variables \subseteq BoundBefore(rule, Len(rule.body) + 1)
PropagationSafe(q) ==
    Transforms(q, rules) =>
        \A i \in DOMAIN prog.rules : LET rule == prog.rules[i] IN
            /\ rule.name = MagicName(q) => RangeRestricted(rule)
            /\ q.name \in BodyNames(rule) => rule.name = q.name

(* Where one pass over the body, and one fixpoint for all the rules, is    *)
(* enough: the head, != and not have variables that are bound by then, and *)
(* not is about relations that have facts only.                            *)
OnePassSafe ==
    \A i \in DOMAIN rules :
        /\ RangeRestricted(rules[i])
        /\ \A j \in DOMAIN rules[i].body :
            LET l == rules[i].body[j] IN
            l.k # "pos" => /\ ToSet(l.args) \cap Variables \subseteq BoundBefore(rules[i], j)
                           /\ l.k = "not" => l.name \notin Derived(rules)

(* Where no rule is passed over by the check of one before it.             *)
NothingSkipped ==
    \A i, j \in DOMAIN prog.rules :
        i < j /\ strata[prog.rules[i].name] = strata[prog.rules[j].name] =>
            \/ InLoop(prog.rules[i])
            \/ \A l \in ToSet(prog.rules[i].body) : True(NoEnv, l, WellFounded, WellFounded)

(* A program with a relation of its own by the name of the magic one.      *)
MagicTaken == Transforms(query[1], rules) /\ MagicName(query[1]) \in Relations(facts, rules)

(* A query is refused only if some relation of the program depends on its  *)
(* own negation: the magic rewriting, which the strata are computed after, *)
(* brings no such cycle in, and the passes are enough to settle the strata.*)
RejectsOnlyCycles == phase = "rejected" => NegativeCycle(rules) \/ MagicTaken

(* When the emitted C starts, no rule has a relation in its body of a      *)
(* higher stratum than its own, and every relation under not is of a lower *)
(* one: it is complete before the negation is checked.                     *)
StrataSound ==
    phase = "c" /\ ~NegativeCycle(rules) /\ ~MagicTaken =>
        \A i \in DOMAIN prog.rules : Raised(strata, prog.rules[i]) = strata[prog.rules[i].name]


(* What datalogEval computes while it compiles is the queried part of the  *)
(* model, wherever one fixpoint is enough.                                 *)
BeamAnswersTheQuery ==
    phase = "done" /\ OnePassSafe /\ Width > 0 => Rows(banswer) = Expected

(* Every query that was begun is answered or refused.                      *)
Terminates == Evaluating ~> (phase \in {"done", "rejected"})

(* The lowerer says of a relation under not that it is "fully evaluated    *)
(* before the negation is checked": then the BEAM's answer is the model's  *)
(* for every program without a cycle through negation.                     *)
NegationIsStratified ==
    phase = "done" /\ ~NegativeCycle(rules) => Rows(banswer) = Expected
=============================================================================
