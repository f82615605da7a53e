----------------------------- MODULE MCExpressions -----------------------------
(***************************************************************************)
(* Constants, guards, invariants and assignments of up to seven nodes, in  *)
(* ints of four bits.  In those that are written N is constant, parameters *)
(* k and v are passed by value, r and A by reference, the cells of a have  *)
(* equal initial values and those of b and C have not.                     *)
(***************************************************************************)
EXTENDS Expressions, MCTypedExpressions

Three == Const("N", Bounded({}, {3}, {}, 1))
K == Param(Var("k"), FALSE, TRUE, Bounded({"N"}, {}, {"neg"}, 2))
V == Param(Var("v"), FALSE, FALSE, Just("N"))
R == Param(Var("r"), TRUE, FALSE, Just("n"))
ByReference == Param(Array("A", FALSE, 1, <<>>), TRUE, FALSE, Just("a"))
ToCell == Param(Var("r"), TRUE, FALSE, Bounded({"a", "b"}, {1}, {"[]"}, 3))

Guards ==
  {Scope(<<Var("n"), Three, K, R>>,
         Bounded({"n", "r", "k"}, {1}, {"-", "+", "<", "!=", "&&", "||", "!", "?:"}, 5), Stores,
         {"guard", "invariant"}),
   Scope(<<Var("n"), A, B, C, ByReference>>,
         Bounded({"n", "a", "A", "b", "C"}, {1}, {"-", "[]", "==", "?:"}, 5), Stores, {"guard"}),
   Scope(<<Var("n"), Clock("c"), Clock("d")>>,
         Bounded({"n", "c", "d"}, {}, {"-", ">=", "==", "&&", "||"}, 7), Timed(1), {"guard", "invariant"})}

Updates ==
  {Scope(<<Var("n"), Var("m"), Three, R, V>>,
         Bounded({"n", "m", "r", "v"}, {1, 2}, {"=", "+=", "-=", "*=", "++", "--", "?:", "-"}, 5), Stores,
         {"assignment"}),
   Scope(<<Var("n"), A, B, ByReference>>,
         Bounded({"n", "a", "A", "b"}, {0, 1}, {"=", "-=", "[]", "--"}, 6), Stores, {"assignment"}),
   Scope(<<Var("n"), Var("m"), Clock("c")>>,
         Bounded({"n", "m", "c"}, {1}, {"=", "-=", "++", ","}, 6), Stores, {"assignment"}),
   Scope(<<Var("n"), A, B, ToCell>>,
         Bounded({"n", "r"}, {1}, {"-=", "=", "<", "/="}, 5), Stores, {"assignment", "guard"})}

MCScopes == TypedScopes \cup Guards \cup Updates
=============================================================================
