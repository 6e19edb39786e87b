------------------------------ MODULE IRTypes ------------------------------
(***************************************************************************)
(* The types of src/internal/aotir and how its nodes carry them.           *)
(*                                                                         *)
(* An aotir.Type is only a head ("int", "list", "map" ...).  What a list   *)
(* holds, the keys and values of a map, the name of a record, union or     *)
(* agent travel in fields beside the head, on every node, parameter,       *)
(* result and binding.  A stamp is those fields together: t the head, rec, *)
(* union and agent the declared name, elem the element of a list or set,   *)
(* erec the record a list<record> holds, inner the element of a            *)
(* list<list>, mk and mv the key and value of a list<map>, key and val     *)
(* those of a map or omap, lval the element of a map<_, list>, msg what a  *)
(* channel, stream, subscription or future carries, sig the signature of a *)
(* function value.  TypeInvalid and the empty name are "", the zero value. *)
(***************************************************************************)
EXTENDS Integers, Sequences, FiniteSets

Zero == [t |-> "", rec |-> "", union |-> "", agent |-> "", elem |-> "",
         erec |-> "", inner |-> "", mk |-> "", mv |-> "", key |-> "",
         val |-> "", lval |-> "", msg |-> "", sig |-> <<>>]

Only(t) == [Zero EXCEPT !.t = t]
Named(t, n) ==
    CASE t = "record" -> [Zero EXCEPT !.t = t, !.rec = n]
      [] t = "union" -> [Zero EXCEPT !.t = t, !.union = n]
      [] t = "agent" -> [Zero EXCEPT !.t = t, !.agent = n]
ListOf(e) == [Zero EXCEPT !.t = "list", !.elem = e]
SetOf(e) == [Zero EXCEPT !.t = "set", !.elem = e]
MapOf(t, k, v) == [Zero EXCEPT !.t = t, !.key = k, !.val = v]
Carrying(t, e) == [Zero EXCEPT !.t = t, !.msg = e]
FunOf(ps, r) == [Zero EXCEPT !.t = "fun", !.sig = <<ps, r>>]

(* The predicates isScalarElemType, isScalarKeyType, isMapValueType and    *)
(* isListElemType.                                                         *)
Scalars == {"int", "float", "bool", "string"}
Keys == {"int", "string"}
MapValues == Scalars \cup {"list"}
ListElems == Scalars \cup {"record", "list", "map", "future"}
Carriers == {"chan", "stream", "sub"}

(* The fields that mean something beside the head of w.                    *)
Relevant(w) ==
    CASE w.t = "list" -> {"elem"} \cup (CASE w.elem = "record" -> {"erec"}
                                          [] w.elem = "list" -> {"inner"}
                                          [] w.elem = "map" -> {"mk", "mv"}
                                          [] OTHER -> {})
      [] w.t = "map" -> {"key", "val"} \cup (IF w.val = "list" THEN {"lval"} ELSE {})
      [] w.t = "omap" -> {"key", "val"}
      [] w.t = "set" -> {"elem"}
      [] w.t = "record" -> {"rec"}
      [] w.t \in {"union", "agent"} -> {w.t}
      [] w.t \in Carriers -> {"msg"}
      [] w.t = "fun" -> {"sig"}
      [] OTHER -> {}

(* x and w have one head and agree on those of the fields fs that matter.  *)
Agree(fs, x, w) == x.t = w.t /\ \A f \in fs \cap Relevant(w) : x[f] = w[f]

(* The stamp of an element of a list with stamp w.                         *)
ElementOf(w) ==
    [Zero EXCEPT !.t = w.elem, !.rec = w.erec, !.elem = w.inner, !.key = w.mk, !.val = w.mv]

(* Nodes.  k is the aotir node, t its Type(), st the type fields it        *)
(* carries, s its name, operator or function, a its operands.              *)
Node(k, t, st, s, a) == [k |-> k, t |-> t, st |-> st, s |-> s, a |-> a]

(* A node whose type needs no fields, and one that carries its own type.   *)
Plain(k, t, s, a) == Node(k, t, Only(t), s, a)
Typed(k, st, s, a) == Node(k, st.t, st, s, a)

(* Scopes: the frames that are open, innermost last.  A binding is a       *)
(* record [st, mut].                                                       *)
Binding(st, mut) == [st |-> st, mut |-> mut]
NoFrame == [n \in {} |-> Binding(Zero, FALSE)]

Visible(sc) == UNION {DOMAIN sc[i] : i \in DOMAIN sc}

(* lookup: the innermost frame that has the name.                          *)
Found(sc, n) ==
    sc[CHOOSE i \in DOMAIN sc : /\ n \in DOMAIN sc[i]
                                /\ \A j \in DOMAIN sc : n \in DOMAIN sc[j] => j <= i][n]

Declare(sc, n, b) ==
    [sc EXCEPT ![Len(sc)] = [m \in DOMAIN @ \cup {n} |-> IF m = n THEN b ELSE @[m]]]
=============================================================================
