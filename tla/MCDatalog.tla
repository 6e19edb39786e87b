----------------------------- MODULE MCDatalog -----------------------------
(***************************************************************************)
(* Programs that state the facts of a small graph, one to three rules in   *)
(* any order, and one or two queries with a further fact between them.     *)
(***************************************************************************)
EXTENDS Datalog

Fact(r, as) == [k |-> "fact", name |-> r, args |-> as]
Rule(r, as, b) == [k |-> "rule", name |-> r, args |-> as, body |-> b]
Query(r, as) == [k |-> "query", name |-> r, args |-> as]
L(r, as) == [k |-> "pos", name |-> r, args |-> as]
Not(r, as) == [k |-> "not", name |-> r, args |-> as]
Neq(x, y) == [k |-> "neq", name |-> "!=", args |-> <<x, y>>]

MCVariables == {"X", "Y", "Z"}
Nodes == <<Fact("node", <<"a">>), Fact("node", <<"b">>)>>
Chain == <<Fact("edge", <<"a", "b">>), Fact("edge", <<"b", "c">>)>>
Ring == <<Fact("edge", <<"a", "b">>), Fact("edge", <<"b", "a">>), Fact("edge", <<"a", "c">>)>>

Step == Rule("path", <<"X", "Y">>, <<L("edge", <<"X", "Y">>)>>)
Right == Rule("path", <<"X", "Y">>, <<L("edge", <<"X", "Z">>), L("path", <<"Z", "Y">>)>>)
Left == Rule("path", <<"X", "Y">>, <<L("path", <<"X", "Z">>), L("edge", <<"Z", "Y">>)>>)
Both == Rule("path", <<"X", "Y">>, <<L("path", <<"X", "Z">>), L("path", <<"Z", "Y">>)>>)
FromA == Rule("path", <<"a", "X">>, <<L("node", <<"X">>)>>)
Sibling == Rule("sib", <<"X", "Y">>, <<L("edge", <<"Z", "X">>), L("edge", <<"Z", "Y">>), Neq("X", "Y")>>)
Back == Rule("sib", <<"X", "Y">>, <<L("path", <<"Y", "X">>), Not("edge", <<"X", "Y">>)>>)
Unlinked == Rule("cut", <<"X", "Y">>, <<L("node", <<"X">>), L("node", <<"Y">>), Not("path", <<"X", "Y">>)>>)
Lone == Rule("lone", <<"X">>, <<L("node", <<"X">>), Not("edge", <<"X", "X">>)>>)
Cycle == Rule("path", <<"X", "Y">>, <<L("cut", <<"X", "Y">>)>>)
Far == Rule("far", <<"X", "Y">>, <<L("cut", <<"X", "Y">>)>>)
Taken == Rule("magic_path", <<"X">>, <<L("node", <<"X">>), Not("path", <<"X", "X">>)>>)
Lonely == Rule("lone", <<"X">>, <<Not("cut", <<"X", "X">>), L("node", <<"X">>)>>)
Shut == Rule("path", <<"c", "a">>, <<Not("edge", <<"a", "c">>)>>)

Linked == {Query("path", <<"X", "Y">>), Query("path", <<"a", "Y">>), Query("path", <<"X", "c">>)}
MCQueries == Linked \cup {Query("cut", <<"a", "X">>), Query("sib", <<"X", "Y">>), Query("lone", <<"X">>)}

(* Two rules in either order, and three.                                   *)
Twos(R) == {<<p, q>> : p \in R, q \in R}
Threes(R) == {s \in {<<p, q, r>> : p \in R, q \in R, r \in R} : IsInjective(s)}

Paths == {Step, Right, Left, Both, Sibling, Back, Unlinked, Cycle}
MCSources ==
    {Chain \o Nodes \o rs \o <<q>> : q \in MCQueries, rs \in Twos(Paths)}
    \cup {Ring \o Nodes \o rs \o <<q>> : q \in MCQueries, rs \in Threes(Paths)}
    \cup {Chain \o Nodes \o rs \o <<q, Fact("edge", <<"c", "c">>), p>> :
            q \in Linked, p \in Linked \cup {Query("lone", <<"X">>)},
            rs \in Twos({Step, Right, FromA, Lone, Lonely})}
    \cup {Chain \o Nodes \o rs \o <<q>> : rs \in Threes({Step, Unlinked, Far, Taken, Lonely}),
            q \in {Query("far", <<"X", "Y">>), Query("path", <<"a", "X">>), Query("lone", <<"X">>)}}
    \cup {g \o Nodes \o rs \o <<q>> : g \in {Chain, Ring}, rs \in Threes({Step, Right, Shut}),
            q \in Linked}

(* Programs that negate a relation which has rules.                        *)
MCNegation ==
    {g \o Nodes \o rs \o <<Query("cut", <<"X", "Y">>)>> :
        g \in {Chain, Ring}, rs \in Threes({Step, Right, Unlinked})}
=============================================================================
