-------------------------- MODULE MCTypedExpressions --------------------------
(***************************************************************************)
(* Scopes of constants, parameters and clocks, for ints of four bits.      *)
(***************************************************************************)
EXTENDS TypedExpressions

Bounded(names, numbers, ops, size) == [names |-> names, numbers |-> numbers, ops |-> ops, nodes |-> size]
Nothing == Bounded({}, {}, {}, 0)

Var(n) ==
  [name |-> n, kind |-> "var", param |-> FALSE, ref |-> FALSE, const |-> FALSE,
   lo |-> 0, hi |-> 0, cells |-> <<>>, bounds |-> Nothing]
Clock(n) == [Var(n) EXCEPT !.kind = "clock"]
Const(n, bounds) == [Var(n) EXCEPT !.const = TRUE, !.bounds = bounds]
Array(n, const, lo, cells) ==
  [Var(n) EXCEPT !.kind = "array", !.const = const, !.lo = lo, !.hi = lo + 1, !.cells = cells]
Param(d, ref, const, bounds) == [d EXCEPT !.param = TRUE, !.ref = ref, !.const = const, !.bounds = bounds]

MCClocks == {"c", "d"}

\* Values of n and m, of the arrays a and b, and of the clocks; C is constant.
Store(n, m, a, b, c, d) ==
  [cell \in ({"n", "m", "c", "d"} \X {0}) \cup ({"a"} \X {1, 2}) \cup ({"b", "C"} \X {0, 1}) |->
     CASE cell[1] = "n" -> n [] cell[1] = "m" -> m [] cell[1] = "a" -> a[cell[2]]
       [] cell[1] = "b" -> b[cell[2] + 1] [] cell[1] = "C" -> <<2, 5>>[cell[2] + 1]
       [] cell[1] = "c" -> c [] cell[1] = "d" -> d]

Stores == {Store(1, 2, <<2, 1>>, <<0, 1>>, 0, 0), Store(2, -3, <<1, 0>>, <<5, 2>>, 0, 1),
           Store(0, 7, <<2, 2>>, <<1, 2>>, 2, 0)}
Timed(n) == {Store(n, 0, <<2, 1>>, <<0, 1>>, c, d) : c \in 0 .. 2, d \in 0 .. 2}

Scope(declarations, bounds, stores, roles) ==
  [declarations |-> declarations, bounds |-> bounds, stores |-> stores, roles |-> roles]

A == Array("a", FALSE, 1, <<2, 2>>)
B == Array("b", FALSE, 0, <<1, 2>>)
C == Array("C", TRUE, 0, <<2, 5>>)
Just(n) == Bounded({n}, {}, {}, 1)

\* Scalars: constants of constants, parameters of each kind.
ScalarScopes ==
  {Scope(<<Var("n"), Const("N", Bounded({"n"}, {0, 3}, {"-", "/", "="}, 3)),
           Param(Var("k"), FALSE, TRUE, Bounded({"N", "n"}, {}, {"neg", "++"}, 2))>>,
         Bounded({"N", "k", "n"}, {1}, {"-", "/", "==", "&&", "?:", "!"}, 5), Stores, {"constant"}),
   Scope(<<Const("N", Bounded({}, {7}, {"neg"}, 2))>>,
         Bounded({"N"}, {1, 2, 6}, Binary \cup {"neg", "||"}, 4), Stores, {"constant"}),
   Scope(<<Const("N", Bounded({}, {7}, {"neg"}, 2))>>,
         Bounded({"N"}, {1, 6}, {"+", "-", "*", "/", "<", "<<", "&", "||"}, 5), Stores, {"constant"}),
   Scope(<<Var("n"), Const("n", Bounded({}, {1}, {}, 1))>>, Nothing, Stores, {})}

\* Arrays: constant or not, passed by value, by reference and by constant
\* reference, and references to cells.
ArrayScopes ==
  {Scope(<<A, C, Param(d, TRUE, FALSE, Bounded({"a", "C"}, {}, {}, 1)),
           Param(Array("V", TRUE, 0, <<>>), FALSE, TRUE, Bounded({"a", "C", "A"}, {}, {}, 1)),
           Const("N", Bounded({"a", "C", "A", "V"}, {0, 1}, {"[]"}, 3))>>,
         Bounded({"N", "C", "a", "V"}, {1}, {"[]", "-"}, 5), Stores, {"constant"}) :
     d \in {Array("A", FALSE, 1, <<>>), Array("A", TRUE, 0, <<>>)}}
  \cup
  {Scope(<<A, B, Var("n"), Param(Var("r"), TRUE, const, Bounded({"n", "a", "b"}, {1}, {"[]"}, size)),
           Param(Var("q"), FALSE, const, Just("r"))>>,
         Bounded({"r", "q"}, {1}, {"+"}, 3), Stores, {"constant", "guard"}) : const \in BOOLEAN, size \in {1, 3}}
  \cup {Scope(<<Array("V", TRUE, 0, <<>>)>>, Nothing, Stores, {})}

\* Clocks: guards and invariants of differences, disjunctions, conditionals.
ClockScopes ==
  {Scope(<<Clock("c"), Clock("d"), Var("n")>>,
         Bounded({"c", "d", "n"}, {}, {"-", "<", "==", "&&", "||"}, 7), Timed(1), {"guard", "invariant"}),
   Scope(<<Clock("c"), Clock("d")>>,
         Bounded({"c", "d"}, {1}, {"+", "min", "<", "!=", "!", "||"}, 6), Timed(1), {"guard", "invariant"}),
   Scope(<<Clock("c"), Var("n"), Param(Var("k"), FALSE, FALSE, Bounded({"n", "c"}, {1}, {"neg", "--"}, 2))>>,
         Bounded({"c", "n", "k"}, {2}, {"<", "/", "&&", "||", "?:"}, 6), Timed(0) \cup Timed(2), {"guard"}),
   Scope(<<Clock("c"), Clock("d"), Var("n")>>,
         Bounded({"c", "n"}, {1}, {"=", "-=", "++", ",", "=="}, 5), Timed(1), {"guard", "invariant", "assignment"})}

TypedScopes == ScalarScopes \cup ArrayScopes \cup ClockScopes
=============================================================================
