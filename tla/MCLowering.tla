----------------------------- MODULE MCLowering -----------------------------
(***************************************************************************)
(* The programs the lowering is checked on.  All have the form             *)
(*     fun f(p) { var x = p; var y = 0; var l = [0, 0]; var m = {0: 0};    *)
(*                BODY; print(y); print(l[0]); print(m[0]); return x + y } *)
(*     print(f(0)); print(f(1))                                            *)
(* where BODY is built from the blocks below, nested up to three deep.  A  *)
(* while loop increments x first, so that every program ends.              *)
(***************************************************************************)
EXTENDS Lowering

X == VarRef("x")
Y == VarRef("y")
Zero == Literal(0)
True == Literal(TRUE)
Inc == AssignStmt("x", Binary("+", X, Literal(1)))
Small == Binary("<", X, Literal(2))
Guarded == Binary("and", Binary("<", Zero, X), Binary("<", Binary("/", Literal(3), X), X))

(* Blocks of one statement; the second set for the body of a loop.         *)
Common == {<<Inc>>, <<AssignStmt("y", X)>>, <<PrintStmt(X)>>, <<ReturnStmt(Y)>>,
           <<MapPutStmt("m", Zero, X)>>, <<PanicStmt(7)>>}
InLoop == Common \cup {<<BreakStmt>>, <<ContinueStmt>>}
More == {<<ListSetStmt("l", Zero, X)>>,
         <<AssignStmt("y", Binary("/", Literal(4), X))>>, <<Inc, PanicStmt(7)>>}

Pairs(A, B) == {a \o b : a \in A, b \in B}

(* The names a construct declares depend on its depth d.                   *)
Loops(B, d) ==
    UNION {{<<WhileStmt(Small, <<Inc>> \o b)>>,
            <<ForRangeStmt(<<"i", "j">>[d], Zero, Literal(2), b)>>,
            <<ForEachStmt(<<"u", "v">>[d], AppendExpr(ListLit(<<X>>), Y), b)>>} : b \in B}
Ifs(B) == {<<IfStmt(c, b, el)>> : b \in B, c \in {Small, Guarded}, el \in {<<>>, <<Inc>>}}
Tries(B) == {<<TryCatchStmt(b, "e", h)>> : b \in B,
                h \in {<<PrintStmt(VarRef("e"))>>, <<AssignStmt("x", VarRef("e"))>>}}

Match(b, other, res) ==
    MatchStmt(VariantLit("some", <<X>>),
              <<MatchArm("some", <<"q">>, Binary("<", VarRef("q"), Literal(1)), b),
                MatchArm("_", <<>>, True, other)>>, res)
Matches(B) == {<<Match(<<PrintStmt(VarRef("q"))>> \o b, <<Inc>>, "")>> : b \in B}
MatchExprs(B) == {<<DeclStmt("r"),
                    Match(<<AssignStmt("r", Binary("+", VarRef("q"), Y))>>,
                          <<AssignStmt("r", Literal(9))>>, "r"),
                    AssignStmt("y", VarRef("r"))>> \o b : b \in B}

Nested(B, d) == UNION {Loops(InLoop, d), Ifs(B), Tries(B \cup More), Matches(B)}

Body1 == UNION {Nested(Common, 1), Pairs(Nested(Common, 1), Common), MatchExprs(Common)}
Body2 == Loops(UNION {InLoop, More, Pairs(InLoop, InLoop), MatchExprs(InLoop),
                      Pairs(Nested(InLoop, 2), InLoop),
                      Pairs(InLoop, Nested(InLoop, 2))}, 1)
Body3 == Loops(Pairs(Loops(Pairs({<<IfStmt(Small, b, <<>>)>> : b \in InLoop}, InLoop), 2),
                     InLoop), 1)

Program(b) ==
    [f |-> [params |-> <<"p">>,
            body |-> <<LetStmt("x", VarRef("p")), LetStmt("y", Zero),
                       LetStmt("l", ListLit(<<Zero, Zero>>)),
                       LetStmt("m", Literal(0 :> 0))>> \o b
                     \o <<PrintStmt(Y), PrintStmt(IndexExpr(VarRef("l"), Zero)),
                          PrintStmt(MapGetExpr(VarRef("m"), Zero)),
                          ReturnStmt(Binary("+", X, Y))>>],
     main |-> [params |-> <<>>,
               body |-> <<PrintStmt(CallExpr("f", <<Zero>>)),
                          PrintStmt(CallExpr("f", <<Literal(1)>>))>>]]

MCPrograms == {Program(b) : b \in UNION {Body1, Body2, Body3}}

(* Loops whose body holds one conditional, try or match.                   *)
MCLoopBodies == {Program(b) : b \in Loops(Nested(Common, 2), 1)}

(* Blocks that declare a name: z is new, x and y are already declared.     *)
MCShadowing ==
    {Program(<<IfStmt(Small, <<LetStmt(n, Literal(5)), PrintStmt(VarRef(n))>>, <<>>)>> \o b)
        : n \in {"x", "y", "z"}, b \in Common}
=============================================================================
