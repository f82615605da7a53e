---------------------------- MODULE MCDeclarations ----------------------------
(***************************************************************************)
(* Declarations of variables and of arrays of up to two dimensions, from   *)
(* 0 or shifted, with equal or different initial values, and two uses.     *)
(***************************************************************************)
EXTENDS Declarations

Range(lo, hi) == [kind |-> "range", lo |-> lo, hi |-> hi]
Bool == [kind |-> "bool", lo |-> 0, hi |-> 1]
Other(kind) == [kind |-> kind, lo |-> 0, hi |-> 0]
Dim(lo, hi) == [lo |-> lo, hi |-> hi]

Zero == [val |-> 0, form |-> "literal"]
Sum == [val |-> 0, form |-> "sum"]
One == [val |-> 1, form |-> "literal"]

Shapes == {<<>>, <<Dim(0, 1)>>, <<Dim(1, 2)>>, <<Dim(0, 1), Dim(1, 2)>>}

Variable(base, dims, named) == [base |-> base, dims |-> dims, named |-> named, init |-> <<>>]
WithInit(v, E) == {[v EXCEPT !.init = <<f>>] : f \in [Cells(v) -> E]}

Uninitialised == {Variable(b, d, {}) : b \in {Range(-1, 1), Bool, Other("clock")}, d \in Shapes}
Initialised ==
  UNION {WithInit(Variable(b, d, {}), {Zero, One}) :
         b \in {Range(-1, 1), Other("const")}, d \in Shapes}
  \cup UNION {WithInit(Variable(Range(0, 1), d, {}), {Zero, Sum, One}) :
              d \in {<<>>, <<Dim(1, 2)>>}}

\* Indices within the bounds, or one beyond.
Index == [dyn : BOOLEAN, val : 0 .. 2]
Fixed == [dyn : {FALSE}, val : 0 .. 2]

Use(k, ref, pre, idx) == [var |-> k, ref |-> ref, pre |-> pre, idx |-> idx]
Uses(k, v) ==
  CASE Len(v.dims) = 0 -> {Use(k, FALSE, <<>>, <<>>), Use(k, TRUE, <<>>, <<>>)}
    [] Len(v.dims) = 1 -> {Use(k, ref, <<>>, <<i>>) : ref \in BOOLEAN, i \in Index}
                          \cup {Use(k, TRUE, <<i>>, <<>>) : i \in Fixed}
    [] Len(v.dims) = 2 -> {Use(k, ref, <<>>, <<i, j>>) : ref \in BOOLEAN, i \in Fixed, j \in Index}
                          \cup {Use(k, TRUE, <<i>>, <<j>>) : i \in Fixed, j \in Fixed}
                          \cup {Use(k, TRUE, <<i, j>>, <<>>) : i \in Fixed, j \in Fixed}

MCUsesOf(P) == IF Len(P) = 1 THEN Uses(1, P[1]) ELSE {}

\* Variables that are refused, and pairs of variables without initial values.
Refused == {Variable(Other("other"), <<>>, {}), Variable(Range(1, 0), <<Dim(0, 1)>>, {}),
            Variable(Bool, <<Dim(1, 0)>>, {}), Variable(Bool, <<Dim(0, 1), Dim(1, 0)>>, {}),
            Variable(Other("chan"), <<>>, {}), Variable(Other("chan"), <<Dim(0, 1)>>, {}),
            Variable(Other("other"), <<Dim(0, 1)>>, {}), Variable(Bool, <<Dim(0, 1), Dim(1, 2)>>, {1})}
  \cup WithInit(Variable(Range(0, 0), <<Dim(0, 1)>>, {}), {Zero, One})
  \cup WithInit(Variable(Range(0, 0), <<>>, {}), {One})
Plain == {Variable(Range(lo, hi), d, {}) : lo \in -2 .. 1, hi \in -1 .. 2, d \in Shapes}

MCPrograms ==
  {<<v>> : v \in Uninitialised \cup Initialised \cup Refused} \cup {<<v, w>> : v, w \in Plain}
=============================================================================
