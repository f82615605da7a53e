------------------------ MODULE TypedExpressionsProofs ------------------------
(***************************************************************************)
(* Proofs that constants are evaluated to what they mean and that guards   *)
(* are convex, for any declarations, expressions and stores: every         *)
(* operator keeps what is known of its operands.                           *)
(***************************************************************************)
EXTENDS TypedExpressions, ListLemmas

-----------------------------------------------------------------------------
(***************************************************************************)
(* The invariant: what is true of each expression on the stack.            *)
(***************************************************************************)
Clocky == {"CLOCK", "DIFF", "DOUBLE", "INVARIANT", "GUARD", "CONSTRAINT"}

\* Meanings are ints, or none.
Meaningful(v) == v \in Min .. Max \/ v = Undefined

\* A value is the meaning v, or a failure that is accounted for.
Accounted(value, v, flags) ==
  \/ value = v
  \/ value = Error /\ "uncomputable" \in flags
  \/ value = Crash /\ "parameter" \in flags

ValueRight(S, e) ==
  /\ ~Integral(e.type) /\ e.type # "ARRAY" => e.value = Error
  /\ "mutable" \notin e.flags =>
       \A s \in S.stores : Defined(e.means[s]) => Accounted(e.value, e.means[s], e.flags)

\* Clocks are not computable.
FlagsRight(e) ==
  /\ e.type \in Clocky => "uncomputable" \in e.flags
  /\ e.type = "DOUBLE" => "numbers" \in e.flags

\* What a type says of the meanings in three stores, one between the others:
\* ints do not depend on clocks, clocks are linear, constraints convex.
Convex(t, u, m, w) ==
  /\ Integral(t) => u = m /\ w = m
  /\ t \in {"CLOCK", "DIFF"} /\ Defined(u) /\ Defined(m) /\ Defined(w) => 2 * m = u + w
  /\ t \in {"INVARIANT", "GUARD"} /\ Holds(u) /\ Holds(w) => m # 0

ZoneRight(S, e) ==
  "numbers" \notin e.flags =>
    \A u, m, w \in S.stores : Between(u, m, w) => Convex(e.type, e.means[u], e.means[m], e.means[w])

MeansRight(S, e) == \A s \in S.stores : Meaningful(e.means[s])

Right(S, e) == ValueRight(S, e) /\ FlagsRight(e) /\ ZoneRight(S, e) /\ MeansRight(S, e)

\* An array is an identifier.
NamesArray(D, e) == e.type = "ARRAY" => e.name \in DOMAIN D /\ D[e.name].kind = "array"

\* What a declared identifier is, as an expression.
Identified(d) ==
  [type |-> TypeOfName(d.kind), value |-> IF d.const THEN d.value ELSE Error, means |-> d.means, flags |-> d.flags]

ArrayRight(S, d) ==
  d.kind = "array" =>
    /\ d.array \notin Clocks /\ ArrayFits(d.array, d, S.stores)
    /\ d.const /\ ~d.param => d.cells # <<>>

EntryRight(S, d) == d.kind \in {"var", "array", "clock"} /\ Right(S, Identified(d)) /\ ArrayRight(S, d)

DeclaredInv == \A n \in DOMAIN declared : EntryRight(scope, declared[n])

StackInv == \A k \in DOMAIN stack : Right(scope, stack[k]) /\ NamesArray(declared, stack[k])

RolesInv ==
  /\ phase \in {"constant", "guard", "invariant"} => Len(stack) = 1
  /\ phase = "constant" => Integral(stack[1].type)
  /\ phase \in {"guard", "invariant"} => Guard(stack[1].type)

TypedInv ==
  /\ scope \in Scopes /\ at \in Nat \ {0} /\ List(stack)
  /\ phase # "refused" => DeclaredInv /\ StackInv /\ RolesInv

-----------------------------------------------------------------------------
(***************************************************************************)
(* Operators: the value is the meaning, where there is one.                *)
(***************************************************************************)
LEMMA Ranges ==
  /\ Max \in Nat /\ Max >= 1 /\ Min \in Int /\ Min = -Max - 1
  /\ Error \notin Min .. Max /\ Crash \notin Min .. Max /\ Undefined \notin Min .. Max
  /\ Failed(Error) /\ Failed(Crash) /\ Error # Undefined /\ Crash # Undefined /\ Undefined # 0
BY RangeAssumption DEF Min, Error, Crash, Undefined, Failed

LEMMA Ints == ASSUME NEW v \in Min .. Max PROVE v \in Int /\ ~Failed(v) /\ Defined(v)
BY Ranges DEF Failed, Defined

\* An int is itself when it wraps.
LEMMA NoWrap == ASSUME NEW v \in Min .. Max PROVE Int32(v) = v
<1> DEFINE n == 2 * Max + 2
           x == v - Min
<1>1. n \in Nat \ {0} /\ x \in 0 .. n - 1 /\ v = x + Min
  BY Ranges
<1> HIDE DEF n, x
<1>2. x % n = x
  BY <1>1
<1> QED  BY <1>1, <1>2 DEF Int32, n, x

LEMMA WithinIs == ASSUME NEW v, Defined(Within(v)) PROVE v \in Min .. Max /\ Within(v) = v
BY DEF Within, Defined

LEMMA TruthIs == ASSUME NEW b PROVE Truth(b) \in {0, 1} /\ Truth(b) \in Min .. Max
BY Ranges DEF Truth

LEMMA UnaryMeans ==
  ASSUME NEW op, NEW x, Meaningful(x)
  PROVE  Meaningful(MeaningUnary(op, x))
BY TruthIs DEF Meaningful, MeaningUnary, Within, Defined

LEMMA BinaryMeans ==
  ASSUME NEW op, NEW x, NEW y, Meaningful(x), Meaningful(y)
  PROVE  Meaningful(MeaningBinary(op, x, y))
BY TruthIs DEF Meaningful, MeaningBinary, Within, Defined

LEMMA UnaryAccounted ==
  ASSUME NEW op, NEW a, NEW x, NEW F, Meaningful(x),
         Defined(x) => Accounted(a, x, F), Defined(MeaningUnary(op, x))
  PROVE  Accounted(EvaluateUnary(op, a), MeaningUnary(op, x), F)
<1>1. Defined(x) /\ x \in Min .. Max /\ Accounted(a, x, F)
  BY DEF MeaningUnary, Meaningful, Defined
<1>2. CASE a = x
  <2>1. ~Failed(a)
    BY <1>1, <1>2, Ints
  <2>2. CASE op = "!"
    BY <1>1, <1>2, <2>1, <2>2 DEF Accounted, EvaluateUnary, MeaningUnary
  <2>3. CASE op # "!"
    <3>1. MeaningUnary(op, x) = Within(-x) /\ EvaluateUnary(op, a) = Int32(-x)
      BY <1>1, <1>2, <2>1, <2>3 DEF EvaluateUnary, MeaningUnary
    <3>2. -x \in Min .. Max /\ Within(-x) = -x
      BY <3>1, WithinIs
    <3> QED  BY <3>1, <3>2, NoWrap DEF Accounted
  <2> QED  BY <2>2, <2>3
<1>3. CASE a # x
  <2>1. EvaluateUnary(op, a) = a
    BY <1>1, <1>3, Ranges DEF Accounted, EvaluateUnary
  <2> QED  BY <1>1, <1>3, <2>1 DEF Accounted
<1> QED  BY <1>2, <1>3

LEMMA BinaryAccounted ==
  ASSUME NEW op, NEW a, NEW b, NEW x, NEW y, NEW any, NEW F, NEW G, Meaningful(x), Meaningful(y),
         Defined(x) => Accounted(a, x, F), Defined(y) => Accounted(b, y, G), Defined(MeaningBinary(op, x, y))
  PROVE  Accounted(EvaluateBinary(op, a, b, any), MeaningBinary(op, x, y), F \cup G)
<1> DEFINE short == op \in {"&&", "||"} /\ (x # 0) = (op = "||")
<1>1. Defined(x) /\ x \in Min .. Max /\ Accounted(a, x, F)
  BY DEF MeaningBinary, Meaningful, Defined
<1>2. CASE a # x
  <2>1. EvaluateBinary(op, a, b, any) = a
    BY <1>1, <1>2, Ranges DEF Accounted, EvaluateBinary
  <2> QED  BY <1>1, <1>2, <2>1 DEF Accounted
<1>3. CASE a = x /\ short
  <2>1. ~Failed(a)
    BY <1>1, <1>3, Ints
  <2>2. EvaluateBinary(op, a, b, any) = Truth(a # 0) /\ MeaningBinary(op, x, y) = Truth(x # 0)
    BY <1>1, <1>3, <2>1, Zenon DEF EvaluateBinary, MeaningBinary
  <2> QED  BY <1>3, <2>2 DEF Accounted
<1>4. CASE a = x /\ ~short
  <2>1. ~Failed(a)
    BY <1>1, <1>4, Ints
  <2>2. MeaningBinary(op, x, y) = IF ~Defined(y) THEN y
                                  ELSE IF op \in {"&&", "||"} THEN Truth(y # 0)
                                  ELSE IF Fatal(op, x, y) \/ Wild(op, y) THEN Undefined ELSE Within(Apply(op, x, y))
    BY <1>1, <1>4, Zenon DEF MeaningBinary
  <2>3. EvaluateBinary(op, a, b, any) = IF Failed(b) THEN b
                                        ELSE IF op \in {"&&", "||"} THEN Truth(b # 0) ELSE ApplyInt(op, a, b, any)
    BY <1>4, <2>1, Zenon DEF EvaluateBinary
  <2> HIDE DEF short
  <2>4. Defined(y) /\ y \in Min .. Max /\ Accounted(b, y, G)
    BY <2>2 DEF Meaningful, Defined
  <2>5. CASE b # y
    <3>1. EvaluateBinary(op, a, b, any) = b
      BY <2>3, <2>4, <2>5, Ranges DEF Accounted
    <3> QED  BY <2>4, <2>5, <3>1 DEF Accounted
  <2>6. CASE b = y /\ op \in {"&&", "||"}
    <3>1. ~Failed(b)
      BY <2>4, <2>6, Ints
    <3> QED  BY <2>2, <2>3, <2>4, <2>6, <3>1 DEF Accounted
  <2>7. CASE b = y /\ op \notin {"&&", "||"}
    <3>1. ~Failed(b)
      BY <2>4, <2>7, Ints
    <3>2. ~Fatal(op, x, y) /\ ~Wild(op, y) /\ MeaningBinary(op, x, y) = Within(Apply(op, x, y))
      BY <2>2, <2>4, <2>7 DEF Defined
    <3>3. EvaluateBinary(op, a, b, any) = Int32(Apply(op, x, y))
      BY <1>4, <2>3, <2>7, <3>1, <3>2 DEF ApplyInt
    <3>4. Apply(op, x, y) \in Min .. Max /\ Within(Apply(op, x, y)) = Apply(op, x, y)
      BY <3>2, WithinIs
    <3> QED  BY <3>2, <3>3, <3>4, NoWrap DEF Accounted
  <2> QED  BY <2>5, <2>6, <2>7
<1> QED  BY <1>2, <1>3, <1>4

LEMMA ConditionalAccounted ==
  ASSUME NEW c, NEW a, NEW b, NEW z, NEW x, NEW y, NEW E, NEW F, NEW G, Meaningful(z), Meaningful(x), Meaningful(y),
         Defined(z) => Accounted(c, z, E), Defined(x) => Accounted(a, x, F), Defined(y) => Accounted(b, y, G),
         Defined(MeaningConditional(z, x, y))
  PROVE  Accounted(EvaluateConditional(c, a, b), MeaningConditional(z, x, y), E \cup F \cup G)
<1>1. Defined(z) /\ z \in Min .. Max /\ Accounted(c, z, E)
  BY DEF MeaningConditional, Meaningful, Defined
<1>2. CASE c # z
  <2>1. EvaluateConditional(c, a, b) = c
    BY <1>1, <1>2, Ranges DEF Accounted, EvaluateConditional
  <2> QED  BY <1>1, <1>2, <2>1 DEF Accounted
<1>3. CASE c = z
  <2>1. ~Failed(c)
    BY <1>1, <1>3, Ints
  <2>2. CASE z # 0
    BY <1>1, <1>3, <2>1, <2>2 DEF EvaluateConditional, Conditional, MeaningConditional, Accounted
  <2>3. CASE z = 0
    BY <1>1, <1>3, <2>1, <2>3 DEF EvaluateConditional, Conditional, MeaningConditional, Accounted
  <2> QED  BY <2>2, <2>3
<1> QED  BY <1>2, <1>3

-----------------------------------------------------------------------------
(***************************************************************************)
(* Types of results.                                                       *)
(***************************************************************************)
Operators == Binary \cup {"&&", "||"}

\* What a type that is no error is: an int, or something with clocks in it.
LEMMA UnaryTyped ==
  ASSUME NEW op, NEW a, NEW t, t = TypeOfUnary(op, a), t # "unknown"
  PROVE  /\ Integral(t) \/ t \in Clocky
         /\ t \in Clocky => a \in Clocky
         /\ t = "DOUBLE" => TypedAsNumbers(t, {a})
         /\ Integral(t) => Integral(a) \/ TypedAsNumbers(t, {a})
         /\ t \notin {"CLOCK", "DIFF", "INVARIANT", "GUARD"}
BY DEF TypeOfUnary, Integral, Constraint, Guard, Invariant, Numeric, Clocky, TypedAsNumbers

\* The arms of TypeOfBinary.
LEMMA Arms ==
  ASSUME NEW op \in Operators, NEW a, NEW b
  PROVE  \/ op = "+" /\ TypeOfBinary(op, a, b) = TypeOfPlus(a, b)
         \/ op = "-" /\ TypeOfBinary(op, a, b) = TypeOfMinus(a, b)
         \/ op = "&&" /\ TypeOfBinary(op, a, b) = TypeOfAnd(a, b)
         \/ op = "||" /\ TypeOfBinary(op, a, b) = TypeOfOr(a, b)
         \/ op = "==" /\ TypeOfBinary(op, a, b) = TypeOfEq(a, b)
         \/ op = "!=" /\ TypeOfBinary(op, a, b) = TypeOfNeq(a, b)
         \/ op \in Orders /\ TypeOfBinary(op, a, b) = TypeOfOrder(a, b)
         \/ op \in {"*", "/", "min", "max"} /\ TypeOfBinary(op, a, b) = TypeOfProduct(a, b)
         \/ op \in {"%"} \cup Bitwise /\ TypeOfBinary(op, a, b) = TypeOfInteger(a, b)
BY DEF TypeOfBinary, Operators, Binary, Orders, Bitwise

LEMMA BinaryTyped ==
  ASSUME NEW op \in Operators, NEW a, NEW b, NEW t, t = TypeOfBinary(op, a, b), t # "unknown"
  PROVE  /\ Integral(t) \/ t \in Clocky
         /\ t \in Clocky => a \in Clocky \/ b \in Clocky
         /\ t = "DOUBLE" => TypedAsNumbers(t, {a, b})
         /\ Integral(t) => (Integral(a) /\ Integral(b)) \/ TypedAsNumbers(t, {a, b})
<1>1. CASE t = TypeOfPlus(a, b)
  BY <1>1 DEF TypeOfPlus, Either, Integral, Numeric, Clocky, TypedAsNumbers
<1>2. CASE t = TypeOfMinus(a, b)
  BY <1>2 DEF TypeOfMinus, Either, Integral, Numeric, Clocky, TypedAsNumbers
<1>3. CASE t = TypeOfAnd(a, b)
  BY <1>3 DEF TypeOfAnd, Integral, Invariant, Guard, Constraint, Clocky
<1>4. CASE t = TypeOfOr(a, b)
  BY <1>4 DEF TypeOfOr, Integral, Invariant, Guard, Constraint, Clocky
<1>5. CASE t = TypeOfEq(a, b)
  BY <1>5 DEF TypeOfEq, Clocked, Either, Integral, Numeric, Clocky, TypedAsNumbers
<1>6. CASE t = TypeOfNeq(a, b)
  BY <1>6 DEF TypeOfNeq, Clocked, Either, Integral, Numeric, Clocky, TypedAsNumbers
<1>7. CASE t = TypeOfOrder(a, b)
  BY <1>7 DEF TypeOfOrder, Bound, Integral, Numeric, Clocky, TypedAsNumbers
<1>8. CASE t = TypeOfProduct(a, b)
  BY <1>8 DEF TypeOfProduct, Integral, Numeric, Clocky, TypedAsNumbers
<1>9. CASE t = TypeOfInteger(a, b)
  BY <1>9 DEF TypeOfInteger, Integral, Clocky
<1> QED  BY <1>1, <1>2, <1>3, <1>4, <1>5, <1>6, <1>7, <1>8, <1>9, Arms

\* Clocks and differences come of a sum or a difference.
LEMMA LinearTyped ==
  ASSUME NEW op \in Operators, NEW a, NEW b, NEW t, t = TypeOfBinary(op, a, b), t \in {"CLOCK", "DIFF"}
  PROVE  /\ op \in {"+", "-"}
         /\ Integral(a) \/ a \in {"CLOCK", "DIFF"}
         /\ Integral(b) \/ b \in {"CLOCK", "DIFF"}
<1>1. t \notin {TypeOfAnd(a, b), TypeOfOr(a, b), TypeOfEq(a, b), TypeOfNeq(a, b), TypeOfOrder(a, b),
                TypeOfProduct(a, b), TypeOfInteger(a, b)}
  BY DEF TypeOfAnd, TypeOfOr, TypeOfEq, TypeOfNeq, TypeOfOrder, TypeOfProduct, TypeOfInteger
<1>2. (op = "+" /\ t = TypeOfPlus(a, b)) \/ (op = "-" /\ t = TypeOfMinus(a, b))
  BY <1>1, Arms
<1> QED  BY <1>2 DEF TypeOfPlus, TypeOfMinus, Either, Integral

\* Constraints that are convex come of comparisons, and of && and ||.
LEMMA ConvexTyped ==
  ASSUME NEW op \in Operators, NEW a, NEW b, NEW t, t = TypeOfBinary(op, a, b), t \in {"INVARIANT", "GUARD"}
  PROVE  \/ /\ op \in Orders \cup {"=="}
            /\ Integral(a) \/ a \in {"CLOCK", "DIFF", "DOUBLE"}
            /\ Integral(b) \/ b \in {"CLOCK", "DIFF", "DOUBLE"}
         \/ op = "&&" /\ Guard(a) /\ Guard(b)
         \/ op = "||" /\ Guard(a) /\ Guard(b) /\ (Integral(a) \/ Integral(b))
<1>1. CASE op = "==" /\ t = TypeOfEq(a, b)
  BY <1>1 DEF TypeOfEq, Clocked, Either, Integral
<1>2. CASE op \in Orders /\ t = TypeOfOrder(a, b)
  BY <1>2 DEF TypeOfOrder, Bound, Integral
<1>3. CASE op = "&&" /\ t = TypeOfAnd(a, b)
  BY <1>3 DEF TypeOfAnd, Integral, Invariant, Guard, Constraint
<1>4. CASE op = "||" /\ t = TypeOfOr(a, b)
  BY <1>4 DEF TypeOfOr, Integral, Invariant, Guard, Constraint
<1>5. t \notin {TypeOfPlus(a, b), TypeOfMinus(a, b), TypeOfNeq(a, b), TypeOfProduct(a, b), TypeOfInteger(a, b)}
  BY DEF TypeOfPlus, TypeOfMinus, TypeOfNeq, TypeOfProduct, TypeOfInteger
<1> QED  BY <1>1, <1>2, <1>3, <1>4, <1>5, Arms

LEMMA ConditionalTyped ==
  ASSUME NEW c, NEW a, NEW b, NEW t, t = TypeOfConditional(c, a, b), t # "unknown"
  PROVE  /\ Integral(t) \/ t \in {"CLOCK", "DOUBLE"}
         /\ t = a /\ Integral(c) /\ (Integral(t) => Integral(b)) /\ (~Integral(t) => b = t)
BY DEF TypeOfConditional, Integral

-----------------------------------------------------------------------------
(***************************************************************************)
(* Meanings in three stores, one half way between the others.              *)
(***************************************************************************)
LEMMA GuardConvex ==
  ASSUME NEW t, NEW u, NEW m, NEW w, Guard(t), Convex(t, u, m, w), Holds(u), Holds(w)
  PROVE  m # 0
BY DEF Guard, Invariant, Convex, Holds

LEMMA UnaryConvex ==
  ASSUME NEW op, NEW a, NEW t, t = TypeOfUnary(op, a), t # "unknown", ~TypedAsNumbers(t, {a}),
         NEW u, NEW m, NEW w, Convex(a, u, m, w)
  PROVE  Convex(t, MeaningUnary(op, u), MeaningUnary(op, m), MeaningUnary(op, w))
<1>1. ASSUME Integral(t)
      PROVE  u = m /\ w = m
  BY <1>1, UnaryTyped DEF Convex
<1> QED  BY <1>1, UnaryTyped DEF Convex

LEMMA Comparisons ==
  ASSUME NEW a, NEW b
  PROVE  /\ Apply("==", a, b) = Truth(a = b)
         /\ Apply("<", a, b) = Truth(a < b) /\ Apply("<=", a, b) = Truth(a <= b)
         /\ Apply(">", a, b) = Truth(a > b) /\ Apply(">=", a, b) = Truth(a >= b)
BY DEF Apply

\* A comparison of linear terms is convex.
LEMMA ComparisonConvex ==
  ASSUME NEW op \in Orders \cup {"=="}, NEW u \in Int, NEW m \in Int, NEW w \in Int,
         NEW x \in Int, NEW n \in Int, NEW y \in Int, 2 * m = u + w, 2 * n = x + y,
         Apply(op, u, x) # 0, Apply(op, w, y) # 0
  PROVE  Apply(op, m, n) = 1
<1>1. CASE op = "=="
  BY <1>1, Comparisons DEF Truth
<1>2. CASE op = "<"
  BY <1>2, Comparisons DEF Truth
<1>3. CASE op = "<="
  BY <1>3, Comparisons DEF Truth
<1>4. CASE op = ">"
  BY <1>4, Comparisons DEF Truth
<1>5. CASE op = ">="
  BY <1>5, Comparisons DEF Truth
<1> QED  BY <1>1, <1>2, <1>3, <1>4, <1>5 DEF Orders

\* What an operator on ints means, where it means something.
LEMMA MeansApplied ==
  ASSUME NEW op, NEW x, NEW y, Meaningful(x), Meaningful(y), op \notin {"&&", "||"}, Defined(MeaningBinary(op, x, y))
  PROVE  x \in Min .. Max /\ y \in Min .. Max /\ MeaningBinary(op, x, y) = Apply(op, x, y)
<1>1. Defined(x)
  BY DEF MeaningBinary
<1>2. MeaningBinary(op, x, y) = IF ~Defined(y) THEN y
                                ELSE IF Fatal(op, x, y) \/ Wild(op, y) THEN Undefined ELSE Within(Apply(op, x, y))
  BY <1>1, Zenon DEF MeaningBinary
<1>3. Defined(y) /\ MeaningBinary(op, x, y) = Within(Apply(op, x, y))
  BY <1>2 DEF Defined
<1> QED  BY <1>1, <1>3, WithinIs DEF Meaningful, Defined

LEMMA BinaryConvex ==
  ASSUME NEW op \in Operators, NEW a, NEW b, NEW t, t = TypeOfBinary(op, a, b), t # "unknown",
         ~TypedAsNumbers(t, {a, b}), a # "DOUBLE", b # "DOUBLE",
         NEW u, NEW m, NEW w, NEW x, NEW n, NEW y, Convex(a, u, m, w), Convex(b, x, n, y),
         Meaningful(u), Meaningful(m), Meaningful(w), Meaningful(x), Meaningful(n), Meaningful(y)
  PROVE  Convex(t, MeaningBinary(op, u, x), MeaningBinary(op, m, n), MeaningBinary(op, w, y))
<1> DEFINE p == MeaningBinary(op, u, x)
           q == MeaningBinary(op, m, n)
           r == MeaningBinary(op, w, y)
<1>1. ASSUME Integral(t)
      PROVE  p = q /\ r = q
  BY <1>1, BinaryTyped DEF Convex
<1>2. ASSUME t \in {"CLOCK", "DIFF"}, Defined(p), Defined(q), Defined(r)
      PROVE  2 * q = p + r
  <2>1. /\ u \in Min .. Max /\ m \in Min .. Max /\ w \in Min .. Max
        /\ x \in Min .. Max /\ n \in Min .. Max /\ y \in Min .. Max
    BY <1>2, LinearTyped, MeansApplied
  <2>2. p = Apply(op, u, x) /\ q = Apply(op, m, n) /\ r = Apply(op, w, y)
    BY <1>2, LinearTyped, MeansApplied
  <2>3. 2 * m = u + w /\ 2 * n = x + y
    BY <1>2, <2>1, LinearTyped, Ints, Ranges DEF Convex
  <2>4. CASE op = "+"
    BY <2>1, <2>2, <2>3, <2>4, Ints DEF Apply
  <2>5. CASE op = "-"
    BY <2>1, <2>2, <2>3, <2>5, Ints DEF Apply
  <2> QED  BY <1>2, <2>4, <2>5, LinearTyped
<1>3. ASSUME t \in {"INVARIANT", "GUARD"}, Holds(p), Holds(r)
      PROVE  q # 0
  <2>1. CASE op \in Orders \cup {"=="}
    <3>1. (Integral(a) \/ a \in {"CLOCK", "DIFF"}) /\ (Integral(b) \/ b \in {"CLOCK", "DIFF"})
      BY <1>3, <2>1, ConvexTyped DEF Orders
    <3>2. SUFFICES ASSUME Defined(q) PROVE q # 0
      BY Ranges, RangeAssumption DEF Defined, Undefined
    <3>3. op \notin {"&&", "||"}
      BY <2>1 DEF Orders
    <3>4. /\ u \in Min .. Max /\ m \in Min .. Max /\ w \in Min .. Max
          /\ x \in Min .. Max /\ n \in Min .. Max /\ y \in Min .. Max
      BY <1>3, <3>2, <3>3, MeansApplied DEF Holds
    <3>5. p = Apply(op, u, x) /\ q = Apply(op, m, n) /\ r = Apply(op, w, y)
      BY <1>3, <3>2, <3>3, MeansApplied DEF Holds
    <3>6. 2 * m = u + w /\ 2 * n = x + y
      BY <3>1, <3>4, Ints, Ranges DEF Convex
    <3> QED  BY <1>3, <2>1, <3>4, <3>5, <3>6, Ints, ComparisonConvex DEF Holds
  <2>2. CASE op = "&&"
    <3>1. Guard(a) /\ Guard(b)
      BY <1>3, <2>2, ConvexTyped DEF Orders
    <3>2. Holds(u) /\ Holds(w) /\ Holds(x) /\ Holds(y)
      BY <1>3, <2>2 DEF Holds, MeaningBinary, Truth
    <3>3. m # 0 /\ n # 0
      BY <3>1, <3>2, GuardConvex
    <3> QED  BY <2>2, <3>3 DEF MeaningBinary, Truth
  <2>3. CASE op = "||"
    <3>1. Guard(a) /\ Guard(b) /\ (Integral(a) \/ Integral(b))
      BY <1>3, <2>3, ConvexTyped DEF Orders
    <3>2. (Holds(u) \/ Holds(x)) /\ (Holds(w) \/ Holds(y)) /\ Defined(u) /\ Defined(w)
      BY <1>3, <2>3 DEF Holds, MeaningBinary, Truth
    <3>3. m # 0 \/ n # 0
      <4>1. CASE Integral(a)
        <5>1. u = m /\ w = m
          BY <4>1 DEF Convex
        <5>2. m # 0 \/ (Holds(x) /\ Holds(y))
          BY <3>2, <5>1 DEF Holds
        <5> QED  BY <3>1, <5>2, GuardConvex
      <4>2. CASE Integral(b)
        <5>1. x = n /\ y = n
          BY <4>2 DEF Convex
        <5>2. n # 0 \/ (Holds(u) /\ Holds(w))
          BY <3>2, <5>1 DEF Holds
        <5> QED  BY <3>1, <5>2, GuardConvex
      <4> QED  BY <3>1, <4>1, <4>2
    <3>4. q = 0 => m = 0 /\ n = 0
      BY <2>3, Ranges DEF MeaningBinary, Truth, Defined
    <3> QED  BY <3>3, <3>4
  <2> QED  BY <1>3, <2>1, <2>2, <2>3, ConvexTyped
<1> QED  BY <1>1, <1>2, <1>3 DEF Convex

LEMMA ConditionalConvex ==
  ASSUME NEW c, NEW a, NEW b, NEW t, t = TypeOfConditional(c, a, b), t # "unknown",
         NEW i, NEW j, NEW k, NEW u, NEW m, NEW w, NEW x, NEW n, NEW y,
         Convex(c, i, j, k), Convex(a, u, m, w), Convex(b, x, n, y)
  PROVE  Convex(t, MeaningConditional(i, u, x), MeaningConditional(j, m, n), MeaningConditional(k, w, y))
BY ConditionalTyped DEF Convex, MeaningConditional, Integral, Defined

-----------------------------------------------------------------------------
(***************************************************************************)
(* Expressions built of right ones are right.                              *)
(***************************************************************************)
LEMMA AccountedMore ==
  ASSUME NEW a, NEW x, NEW F, NEW G, Accounted(a, x, F), F \subseteq G
  PROVE  Accounted(a, x, G)
BY DEF Accounted

\* Expressions without meaning.
LEMMA OpaqueRight ==
  ASSUME NEW e, e.value = Error, e.means = Same(Undefined),
         e.type \in Clocky => "uncomputable" \in e.flags, e.type = "DOUBLE" => "numbers" \in e.flags
  PROVE  Right(scope, e)
<1>1. \A s \in scope.stores : e.means[s] = Undefined
  BY DEF Same
<1>2. ~Defined(Undefined) /\ ~Holds(Undefined)
  BY DEF Defined, Holds
<1>3. ValueRight(scope, e) /\ FlagsRight(e) /\ MeansRight(scope, e)
  BY <1>1, <1>2 DEF ValueRight, FlagsRight, MeansRight, Meaningful
<1>4. ASSUME NEW u \in scope.stores, NEW m \in scope.stores, NEW w \in scope.stores
      PROVE  Convex(e.type, e.means[u], e.means[m], e.means[w])
  BY <1>1, <1>2 DEF Convex
<1> QED  BY <1>3, <1>4 DEF Right, ZoneRight

LEMMA NumberRight ==
  ASSUME NEW v \in Min .. Max
  PROVE  Right(scope, Number(v)) /\ Number(v).type = "INT"
<1> DEFINE e == Number(v)
<1>1. e.type = "INT" /\ e.value = v /\ e.flags = {} /\ e.means = Same(v)
  BY DEF Number, Opaque
<1> HIDE DEF e
<1>2. \A s \in scope.stores : e.means[s] = v
  BY <1>1 DEF Same
<1>3. Integral(e.type) /\ e.type \notin Clocky
  BY <1>1 DEF Integral, Clocky
<1>4. ValueRight(scope, e) /\ FlagsRight(e) /\ MeansRight(scope, e)
  BY <1>1, <1>2, <1>3 DEF ValueRight, FlagsRight, MeansRight, Meaningful, Accounted, Clocky
<1>5. Convex(e.type, v, v, v)
  BY <1>1 DEF Convex
<1> QED  BY <1>1, <1>2, <1>4, <1>5 DEF Right, ZoneRight, e

LEMMA UnaryRight ==
  ASSUME NEW op, NEW e, Right(scope, e), UnaryOf(op, e).type # "unknown"
  PROVE  Right(scope, UnaryOf(op, e)) /\ UnaryOf(op, e).type # "ARRAY"
<1> DEFINE r == UnaryOf(op, e)
           t == TypeOfUnary(op, e.type)
<1>1. /\ r.type = t /\ r.flags = e.flags \cup NumberFlag(t, {e.type})
      /\ r.value = Evaluated(t, EvaluateUnary(op, e.value))
      /\ r.means = [s \in scope.stores |-> MeaningUnary(op, e.means[s])]
  BY DEF UnaryOf, Opaque
<1> HIDE DEF r
<1>2. \A s \in scope.stores : r.means[s] = MeaningUnary(op, e.means[s])
  BY <1>1
<1>3. t # "unknown"
  BY <1>1 DEF r
<1> HIDE DEF t
<1>4. /\ Integral(t) \/ t \in Clocky
      /\ t \in Clocky => e.type \in Clocky
      /\ t = "DOUBLE" => TypedAsNumbers(t, {e.type})
  BY <1>3, UnaryTyped DEF t
<1>5. e.flags \subseteq r.flags /\ (TypedAsNumbers(t, {e.type}) => "numbers" \in r.flags)
  BY <1>1 DEF NumberFlag
<1>6. FlagsRight(r)
  BY <1>1, <1>4, <1>5 DEF FlagsRight, Right
<1>7. ASSUME NEW s \in scope.stores, "mutable" \notin r.flags, Defined(r.means[s])
      PROVE  Accounted(r.value, r.means[s], r.flags)
  <2>1. CASE Integral(t)
    <3>1. r.value = EvaluateUnary(op, e.value)
      BY <1>1, <2>1 DEF Evaluated
    <3>2. Meaningful(e.means[s]) /\ (Defined(e.means[s]) => Accounted(e.value, e.means[s], e.flags))
      BY <1>5, <1>7 DEF Right, MeansRight, ValueRight
    <3>3. Accounted(r.value, r.means[s], e.flags)
      BY <1>2, <1>7, <3>1, <3>2, UnaryAccounted
    <3> QED  BY <1>5, <3>3, AccountedMore
  <2>2. CASE ~Integral(t)
    BY <1>1, <1>4, <1>6, <2>2 DEF Evaluated, Accounted, FlagsRight
  <2> QED  BY <2>1, <2>2
<1>8. ValueRight(scope, r)
  BY <1>1, <1>7 DEF ValueRight, Evaluated
<1>9. MeansRight(scope, r)
  BY <1>2, UnaryMeans DEF Right, MeansRight
<1>10. ASSUME "numbers" \notin r.flags, NEW u \in scope.stores, NEW m \in scope.stores, NEW w \in scope.stores,
              Between(u, m, w)
       PROVE  Convex(r.type, r.means[u], r.means[m], r.means[w])
  <2>1. Convex(e.type, e.means[u], e.means[m], e.means[w])
    BY <1>5, <1>10 DEF Right, ZoneRight
  <2> QED  BY <1>1, <1>2, <1>3, <1>5, <1>10, <2>1, UnaryConvex DEF t
<1>11. t # "ARRAY"
  BY <1>4 DEF Integral, Clocky
<1> QED  BY <1>1, <1>6, <1>8, <1>9, <1>10, <1>11 DEF Right, ZoneRight, r

LEMMA BinaryRight ==
  ASSUME NEW op \in Operators, NEW any, NEW e, NEW f, Right(scope, e), Right(scope, f), BinaryOf(op, e, f, any).type # "unknown"
  PROVE  Right(scope, BinaryOf(op, e, f, any)) /\ BinaryOf(op, e, f, any).type # "ARRAY"
<1> DEFINE r == BinaryOf(op, e, f, any)
           t == TypeOfBinary(op, e.type, f.type)
<1>1. /\ r.type = t /\ r.flags = e.flags \cup f.flags \cup NumberFlag(t, {e.type, f.type})
      /\ r.value = Evaluated(t, EvaluateBinary(op, e.value, f.value, any))
      /\ r.means = [s \in scope.stores |-> MeaningBinary(op, e.means[s], f.means[s])]
  BY DEF BinaryOf, Opaque
<1> HIDE DEF r
<1>2. \A s \in scope.stores : r.means[s] = MeaningBinary(op, e.means[s], f.means[s])
  BY <1>1
<1>3. t # "unknown"
  BY <1>1 DEF r
<1> HIDE DEF t
<1>4. /\ Integral(t) \/ t \in Clocky
      /\ t \in Clocky => e.type \in Clocky \/ f.type \in Clocky
      /\ t = "DOUBLE" => TypedAsNumbers(t, {e.type, f.type})
  BY <1>3, BinaryTyped DEF t
<1>5. /\ e.flags \subseteq r.flags /\ f.flags \subseteq r.flags /\ e.flags \cup f.flags \subseteq r.flags
      /\ TypedAsNumbers(t, {e.type, f.type}) => "numbers" \in r.flags
  BY <1>1 DEF NumberFlag
<1>6. FlagsRight(r)
  BY <1>1, <1>4, <1>5 DEF FlagsRight, Right
<1>7. ASSUME NEW s \in scope.stores, "mutable" \notin r.flags, Defined(r.means[s])
      PROVE  Accounted(r.value, r.means[s], r.flags)
  <2>1. CASE Integral(t)
    <3>1. r.value = EvaluateBinary(op, e.value, f.value, any)
      BY <1>1, <2>1 DEF Evaluated
    <3>2. /\ Meaningful(e.means[s]) /\ (Defined(e.means[s]) => Accounted(e.value, e.means[s], e.flags))
          /\ Meaningful(f.means[s]) /\ (Defined(f.means[s]) => Accounted(f.value, f.means[s], f.flags))
      BY <1>5, <1>7 DEF Right, MeansRight, ValueRight
    <3>3. Defined(MeaningBinary(op, e.means[s], f.means[s]))
      BY <1>2, <1>7
    <3>4. Accounted(EvaluateBinary(op, e.value, f.value, any), MeaningBinary(op, e.means[s], f.means[s]),
                    e.flags \cup f.flags)
      BY ONLY <3>2, <3>3, BinaryAccounted
    <3>5. Accounted(r.value, r.means[s], e.flags \cup f.flags)
      BY <1>2, <3>1, <3>4
    <3> QED  BY <1>5, <3>5, AccountedMore
  <2>2. CASE ~Integral(t)
    BY <1>1, <1>4, <1>6, <2>2 DEF Evaluated, Accounted, FlagsRight
  <2> QED  BY <2>1, <2>2
<1>8. ValueRight(scope, r)
  BY <1>1, <1>7 DEF ValueRight, Evaluated
<1>9. MeansRight(scope, r)
  BY <1>2, BinaryMeans DEF Right, MeansRight
<1>10. ASSUME "numbers" \notin r.flags, NEW u \in scope.stores, NEW m \in scope.stores, NEW w \in scope.stores,
              Between(u, m, w)
       PROVE  Convex(r.type, r.means[u], r.means[m], r.means[w])
  <2>1. Convex(e.type, e.means[u], e.means[m], e.means[w]) /\ Convex(f.type, f.means[u], f.means[m], f.means[w])
    BY <1>5, <1>10 DEF Right, ZoneRight
  <2>2. /\ Meaningful(e.means[u]) /\ Meaningful(e.means[m]) /\ Meaningful(e.means[w])
        /\ Meaningful(f.means[u]) /\ Meaningful(f.means[m]) /\ Meaningful(f.means[w])
    BY DEF Right, MeansRight
  <2>3. e.type # "DOUBLE" /\ f.type # "DOUBLE" /\ ~TypedAsNumbers(t, {e.type, f.type})
    BY <1>5, <1>10 DEF Right, FlagsRight
  <2>4. Convex(t, MeaningBinary(op, e.means[u], f.means[u]), MeaningBinary(op, e.means[m], f.means[m]),
               MeaningBinary(op, e.means[w], f.means[w]))
    BY <1>3, <2>1, <2>2, <2>3, BinaryConvex DEF t
  <2> QED  BY <1>1, <1>2, <2>4
<1>11. t # "ARRAY"
  BY <1>4 DEF Integral, Clocky
<1> QED  BY <1>1, <1>6, <1>8, <1>9, <1>10, <1>11 DEF Right, ZoneRight, r

LEMMA ConditionalRight ==
  ASSUME NEW c, NEW e, NEW f, Right(scope, c), Right(scope, e), Right(scope, f), ConditionalOf(c, e, f).type # "unknown"
  PROVE  Right(scope, ConditionalOf(c, e, f)) /\ ConditionalOf(c, e, f).type # "ARRAY"
<1> DEFINE r == ConditionalOf(c, e, f)
           t == TypeOfConditional(c.type, e.type, f.type)
<1>1. /\ r.type = t /\ r.flags = c.flags \cup e.flags \cup f.flags
      /\ r.value = Evaluated(t, EvaluateConditional(c.value, e.value, f.value))
      /\ r.means = [s \in scope.stores |-> MeaningConditional(c.means[s], e.means[s], f.means[s])]
  BY DEF ConditionalOf, Opaque
<1> HIDE DEF r
<1>2. \A s \in scope.stores : r.means[s] = MeaningConditional(c.means[s], e.means[s], f.means[s])
  BY <1>1
<1>3. t # "unknown"
  BY <1>1 DEF r
<1> HIDE DEF t
<1>4. (Integral(t) \/ t \in {"CLOCK", "DOUBLE"}) /\ t = e.type
  BY <1>3, ConditionalTyped DEF t
<1>5. FlagsRight(r)
  BY <1>1, <1>4 DEF FlagsRight, Right
<1>6. ASSUME NEW s \in scope.stores, "mutable" \notin r.flags, Defined(r.means[s])
      PROVE  Accounted(r.value, r.means[s], r.flags)
  <2>1. CASE Integral(t)
    <3>1. r.value = EvaluateConditional(c.value, e.value, f.value)
      BY <1>1, <2>1 DEF Evaluated
    <3>2. /\ Meaningful(c.means[s]) /\ (Defined(c.means[s]) => Accounted(c.value, c.means[s], c.flags))
          /\ Meaningful(e.means[s]) /\ (Defined(e.means[s]) => Accounted(e.value, e.means[s], e.flags))
          /\ Meaningful(f.means[s]) /\ (Defined(f.means[s]) => Accounted(f.value, f.means[s], f.flags))
      BY <1>1, <1>6 DEF Right, MeansRight, ValueRight
    <3>3. Defined(MeaningConditional(c.means[s], e.means[s], f.means[s]))
      BY <1>2, <1>6
    <3>4. Accounted(EvaluateConditional(c.value, e.value, f.value),
                    MeaningConditional(c.means[s], e.means[s], f.means[s]), c.flags \cup e.flags \cup f.flags)
      BY ONLY <3>2, <3>3, ConditionalAccounted
    <3> QED  BY <1>1, <1>2, <3>1, <3>4
  <2>2. CASE ~Integral(t)
    BY <1>1, <1>4, <1>5, <2>2 DEF Evaluated, Accounted, FlagsRight, Clocky
  <2> QED  BY <2>1, <2>2
<1>7. ValueRight(scope, r)
  BY <1>1, <1>6 DEF ValueRight, Evaluated
<1>8. MeansRight(scope, r)
  BY <1>2 DEF Right, MeansRight, MeaningConditional
<1>9. ASSUME "numbers" \notin r.flags, NEW u \in scope.stores, NEW m \in scope.stores, NEW w \in scope.stores,
             Between(u, m, w)
      PROVE  Convex(r.type, r.means[u], r.means[m], r.means[w])
  <2>1. /\ Convex(c.type, c.means[u], c.means[m], c.means[w])
        /\ Convex(e.type, e.means[u], e.means[m], e.means[w])
        /\ Convex(f.type, f.means[u], f.means[m], f.means[w])
    BY <1>1, <1>9 DEF Right, ZoneRight
  <2>2. Convex(t, MeaningConditional(c.means[u], e.means[u], f.means[u]),
               MeaningConditional(c.means[m], e.means[m], f.means[m]),
               MeaningConditional(c.means[w], e.means[w], f.means[w]))
    BY <1>3, <2>1, ConditionalConvex DEF t
  <2> QED  BY <1>1, <1>2, <2>2
<1>10. t # "ARRAY"
  BY <1>4 DEF Integral
<1> QED  BY <1>1, <1>5, <1>7, <1>8, <1>9, <1>10 DEF Right, ZoneRight, r

LEMMA CellRight ==
  ASSUME NEW e, NEW i, scope \in Scopes, DeclaredInv, NamesArray(declared, e), Right(scope, i), CellOf(e, i).type # "unknown"
  PROVE  Right(scope, CellOf(e, i)) /\ CellOf(e, i).type = "INT"
<1> DEFINE r == CellOf(e, i)
           d == declared[e.name]
<1>1. e.type = "ARRAY" /\ Integral(i.type)
  BY DEF CellOf, Opaque
<1>2. /\ r.type = "INT" /\ r.value = EvaluateCell(d, i.value)
      /\ i.flags \subseteq r.flags
      /\ "mutable" \notin r.flags => d.const
      /\ d.param => "parameter" \in r.flags
      /\ r.means = [s \in scope.stores |-> MeaningCell(s, d.array, i.means[s])]
  BY <1>1 DEF CellOf, Opaque
<1> HIDE DEF r
<1>3. \A s \in scope.stores : r.means[s] = MeaningCell(s, d.array, i.means[s])
  BY <1>2
<1>4. /\ d.array \notin Clocks /\ ArrayFits(d.array, d, scope.stores)
      /\ d.const /\ ~d.param => d.cells # <<>>
  BY <1>1 DEF NamesArray, DeclaredInv, EntryRight, ArrayRight
<1> HIDE DEF d
<1>5. Integral(r.type) /\ r.type \notin Clocky
  BY <1>2 DEF Integral, Clocky
<1>6. ASSUME NEW s \in scope.stores, Defined(r.means[s])
      PROVE  /\ <<d.array, i.means[s]>> \in DOMAIN s /\ Defined(i.means[s])
             /\ r.means[s] = s[<<d.array, i.means[s]>>]
  BY <1>3, <1>6 DEF MeaningCell, Defined
<1>7. ASSUME NEW s \in scope.stores, "mutable" \notin r.flags, Defined(r.means[s])
      PROVE  Accounted(r.value, r.means[s], r.flags)
  <2> DEFINE x == i.means[s]
  <2>1. <<d.array, x>> \in DOMAIN s /\ r.means[s] = s[<<d.array, x>>] /\ Defined(x)
    BY <1>6, <1>7
  <2>2. Meaningful(x) /\ Accounted(i.value, x, i.flags)
    BY <1>2, <1>7, <2>1 DEF Right, MeansRight, ValueRight
  <2>3. d.const
    BY <1>2, <1>7
  <2>4. x \in d.lo .. d.hi /\ (~d.param => s[<<d.array, x>>] = d.cells[x - d.lo + 1])
    <3> DEFINE c == <<d.array, x>>
    <3>1. c \in DOMAIN s /\ c[1] = d.array /\ c[2] = x
      BY <2>1
    <3> HIDE DEF c
    <3>2. c[2] \in d.lo .. d.hi /\ (~d.param => s[c] = d.cells[c[2] - d.lo + 1])
      BY <1>4, <2>3, <3>1 DEF ArrayFits
    <3> QED  BY <3>1, <3>2 DEF c
  <2> HIDE DEF x
  <2>5. CASE i.value # x
    <3>1. Failed(i.value)
      BY <2>2, <2>5, Ranges DEF Accounted
    <3>2. r.value = i.value
      BY <1>2, <3>1 DEF EvaluateCell
    <3> QED  BY <1>2, <2>2, <2>5, <3>2 DEF Accounted
  <2>6. CASE i.value = x
    <3>1. ~Failed(x)
      BY <2>1, <2>2, Ints DEF Meaningful, Defined
    <3>2. CASE d.param
      BY <1>2, <2>4, <2>6, <3>1, <3>2 DEF EvaluateCell, Accounted
    <3>3. CASE ~d.param
      <4>1. d.cells # <<>>
        BY <1>4, <2>3, <3>3
      <4>2. r.value = d.cells[x - d.lo + 1]
        BY <1>2, <2>4, <2>6, <3>1, <3>3, <4>1 DEF EvaluateCell
      <4> QED  BY <2>1, <2>4, <3>3, <4>2 DEF Accounted
    <3> QED  BY <3>2, <3>3
  <2> QED  BY <2>5, <2>6
<1>8. ValueRight(scope, r)
  BY <1>5, <1>7 DEF ValueRight
<1>9. FlagsRight(r)
  BY <1>5 DEF FlagsRight, Clocky
<1>10. ASSUME NEW s \in scope.stores
       PROVE  Meaningful(r.means[s])
  <2>1. CASE Defined(r.means[s])
    BY <1>6, <2>1, ScopesAssumption DEF Meaningful
  <2>2. CASE ~Defined(r.means[s])
    BY <2>2 DEF Meaningful, Defined
  <2> QED  BY <2>1, <2>2
<1>11. ASSUME "numbers" \notin r.flags, NEW u \in scope.stores, NEW m \in scope.stores, NEW w \in scope.stores,
              Between(u, m, w)
       PROVE  Convex(r.type, r.means[u], r.means[m], r.means[w])
  <2>1. i.means[u] = i.means[m] /\ i.means[w] = i.means[m]
    BY <1>1, <1>2, <1>11 DEF Right, ZoneRight, Convex
  <2> DEFINE c == <<d.array, i.means[m]>>
  <2>2. c[1] \notin Clocks
    BY <1>4
  <2> HIDE DEF c
  <2>3. DOMAIN u = DOMAIN m /\ DOMAIN w = DOMAIN m /\ (c \in DOMAIN m => u[c] = m[c] /\ w[c] = m[c])
    BY <1>11, <2>2 DEF Between
  <2>4. r.means[u] = r.means[m] /\ r.means[w] = r.means[m]
    BY <1>3, <2>1, <2>3 DEF MeaningCell, c
  <2> QED  BY <1>2, <2>4 DEF Convex
<1> QED  BY <1>2, <1>8, <1>9, <1>10, <1>11 DEF Right, MeansRight, ZoneRight, r

\* What is right of an expression is right of what has more flags, and of an
\* int which is one of its constants.
LEMMA SameRight ==
  ASSUME NEW e, NEW f, Right(scope, e), f.type = e.type, f.value = e.value, f.means = e.means, f.flags = e.flags
  PROVE  Right(scope, f)
BY DEF Right, ValueRight, FlagsRight, ZoneRight, MeansRight

LEMMA ChangingRight ==
  ASSUME NEW t, NEW F, NEW b, t \in Clocky => "uncomputable" \in F, t = "DOUBLE" => "numbers" \in F
  PROVE  Right(scope, Changing(t, F, b)) /\ Changing(t, F, b).type = t
<1> DEFINE r == Changing(t, F, b)
<1>1. r.type = t /\ r.flags = F \cup {"changes"} /\ r.value = Error /\ r.means = Same(Undefined)
  BY DEF Changing, Opaque
<1> HIDE DEF r
<1>2. Right(scope, r)
  BY <1>1, OpaqueRight
<1> QED  BY <1>1, <1>2 DEF r

LEMMA KnownRight ==
  ASSUME NEW n \in DOMAIN declared, DeclaredInv
  PROVE  Right(scope, Known(n)) /\ NamesArray(declared, Known(n))
<1> DEFINE d == declared[n]
           r == Known(n)
<1>1. /\ r.type = TypeOfName(d.kind) /\ r.name = n /\ r.flags = d.flags /\ r.means = d.means
      /\ r.value = IF d.const THEN d.value ELSE Error
  BY DEF Known, Opaque
<1>2. d.kind \in {"var", "array", "clock"} /\ Right(scope, Identified(d))
  BY DEF DeclaredInv, EntryRight
<1> HIDE DEF r
<1>3. Right(scope, r)
  BY <1>1, <1>2, SameRight DEF Identified
<1>4. r.type = "ARRAY" => d.kind = "array"
  BY <1>1, <1>2 DEF TypeOfName
<1> QED  BY <1>1, <1>3, <1>4 DEF NamesArray, r

-----------------------------------------------------------------------------
(***************************************************************************)
(* Steps.                                                                  *)
(***************************************************************************)
LEMMA TopRight ==
  ASSUME TypedInv, phase = "build", NEW k \in 1 .. 3, Len(stack) >= k
  PROVE  Right(scope, Top(k)) /\ NamesArray(declared, Top(k))
<1>1. Len(stack) \in Nat /\ DOMAIN stack = 1 .. Len(stack)
  BY ListDomain DEF TypedInv
<1> DEFINE l == Len(stack)
<1> HIDE DEF l
<1>2. l - k + 1 \in 1 .. l
  BY <1>1 DEF l
<1>3. l - k + 1 \in DOMAIN stack
  BY <1>1, <1>2 DEF l
<1> QED  BY <1>3 DEF TypedInv, StackInv, Top, l

LEMMA OnlyRight ==
  ASSUME TypedInv, phase # "refused", Len(stack) = 1
  PROVE  Right(scope, stack[1]) /\ NamesArray(declared, stack[1])
<1>1. List(stack) /\ StackInv
  BY DEF TypedInv
<1>2. DOMAIN stack = 1 .. 1
  BY <1>1, ListDomain
<1>3. 1 \in DOMAIN stack
  BY ONLY <1>2
<1> QED  BY <1>1, <1>3 DEF StackInv

LEMMA BuildKeeps ==
  ASSUME TypedInv, NEW k \in 0 .. 3, NEW e, Build(k, e),
         e.type # "unknown" => Right(scope, e) /\ NamesArray(declared, e)
  PROVE  TypedInv'
<1> DEFINE rest == SubSeq(stack, 1, Len(stack) - k)
           l == Len(stack)
<1>1. /\ phase = "build" /\ l >= k /\ stack' = Append(rest, e)
      /\ phase' = IF e.type = "unknown" THEN "refused" ELSE "build"
      /\ scope' = scope /\ at' = at /\ declared' = declared
  BY DEF Build
<1>2. l \in Nat /\ DOMAIN stack = 1 .. l
  BY ListDomain DEF TypedInv
<1>3. l - k \in 0 .. l
  BY <1>1, <1>2
<1>4. List(rest) /\ Len(rest) = l - k /\ \A i \in 1 .. l - k : rest[i] = stack[i]
  BY <1>3, ListPrefix DEF TypedInv
<1> HIDE DEF rest, l
<1>5. /\ List(stack') /\ DOMAIN stack' = 1 .. Len(rest) + 1
      /\ \A i \in 1 .. Len(rest) : stack'[i] = rest[i]
      /\ stack'[Len(rest) + 1] = e
  BY <1>1, <1>4, ListAppend
<1>6. ASSUME e.type # "unknown", NEW i \in DOMAIN stack'
      PROVE  Right(scope, stack'[i]) /\ NamesArray(declared, stack'[i])
  <2>1. i \in 1 .. l - k \/ i = l - k + 1
    BY <1>1, <1>2, <1>4, <1>5
  <2>2. CASE i \in 1 .. l - k
    <3>1. i \in 1 .. l
      BY <1>1, <1>2, <2>2
    <3>2. stack'[i] = stack[i]
      BY <1>4, <1>5, <2>2
    <3> QED  BY <1>1, <1>2, <3>1, <3>2 DEF TypedInv, StackInv
  <2>3. CASE i = l - k + 1
    BY <1>4, <1>5, <1>6, <2>3
  <2> QED  BY <2>1, <2>2, <2>3
<1>7. phase' # "refused" => DeclaredInv' /\ StackInv' /\ RolesInv'
  BY <1>1, <1>6 DEF TypedInv, DeclaredInv, StackInv, RolesInv
<1> QED  BY <1>1, <1>5, <1>7 DEF TypedInv

LEMMA DeclareKeeps ==
  ASSUME TypedInv, phase = "build", NEW d, NEW array, NEW value, NEW means, NEW flags, NEW accepted,
         Declare(d, array, value, means, flags, accepted),
         accepted => EntryRight(scope, Entry(d, array, value, means, flags))
  PROVE  TypedInv'
<1> DEFINE new == Entry(d, array, value, means, flags)
<1>1. /\ phase' = IF accepted /\ d.name \notin DOMAIN declared THEN "build" ELSE "refused"
      /\ declared' = [n \in DOMAIN declared \cup {d.name} |-> IF n = d.name THEN new ELSE declared[n]]
      /\ scope' = scope /\ at' = at + 1 /\ stack' = <<>>
  BY DEF Declare
<1> HIDE DEF new
<1>2. ASSUME phase' # "refused"
      PROVE  DeclaredInv' /\ StackInv' /\ RolesInv'
  <2>1. accepted /\ phase' = "build"
    BY <1>1, <1>2
  <2>2. EntryRight(scope, new)
    BY <2>1 DEF new
  <2>3. ASSUME NEW n \in DOMAIN declared'
        PROVE  EntryRight(scope', declared'[n])
    <3>1. CASE n = d.name
      BY <1>1, <2>2, <3>1
    <3>2. CASE n # d.name
      BY <1>1, <2>3, <3>2 DEF TypedInv, DeclaredInv
    <3> QED  BY <3>1, <3>2
  <2>4. DeclaredInv'
    BY <2>3 DEF DeclaredInv
  <2>5. StackInv' /\ RolesInv'
    BY <1>1, <2>1, EmptyList DEF StackInv, RolesInv
  <2> QED  BY <2>4, <2>5
<1>3. scope' \in Scopes /\ at' \in Nat \ {0} /\ List(stack')
  BY <1>1, EmptyList DEF TypedInv
<1> QED  BY <1>2, <1>3 DEF TypedInv

\* What is declared is of the scope.
LEMMA DeclarationFit ==
  ASSUME TypedInv, Declaring
  PROVE  DeclarationFits(Declaration, scope.stores)
BY ScopesAssumption DEF TypedInv, Declaring, Declaration

\* What is initialised with an int, or stands for an array, is right.
LEMMA EntryOf ==
  ASSUME NEW d, NEW array, NEW e, Right(scope, e), d.kind \in {"var", "array"},
         d.kind = "var" => Integral(e.type)
  PROVE  Right(scope, Identified(Entry(d, array, e.value, e.means, e.flags)))
<1> DEFINE r == Identified(Entry(d, array, e.value, e.means, e.flags))
<1>1. /\ r.type = TypeOfName(d.kind) /\ r.means = e.means /\ e.flags \subseteq r.flags
      /\ r.value = IF d.const THEN e.value ELSE Error
      /\ ~d.const => "uncomputable" \in r.flags
  BY DEF Identified, Entry
<1> HIDE DEF r
<1>2. /\ d.kind = "var" => r.type = "INT"
      /\ d.kind = "array" => r.type = "ARRAY"
  BY <1>1 DEF TypeOfName
<1>3. r.type \notin Clocky /\ (r.type = "ARRAY" \/ Integral(r.type))
  BY <1>2 DEF Clocky, Integral
<1>4. ValueRight(scope, r)
  BY <1>1, <1>3 DEF Right, ValueRight, Accounted
<1>5. FlagsRight(r) /\ MeansRight(scope, r)
  BY <1>1, <1>3 DEF Right, MeansRight, FlagsRight, Clocky
<1>6. ASSUME "numbers" \notin r.flags, NEW u \in scope.stores, NEW m \in scope.stores, NEW w \in scope.stores,
             Between(u, m, w)
      PROVE  Convex(r.type, r.means[u], r.means[m], r.means[w])
  <2>1. Convex(e.type, e.means[u], e.means[m], e.means[w])
    BY <1>1, <1>6 DEF Right, ZoneRight
  <2> QED  BY <1>1, <1>2, <2>1 DEF Convex, Integral
<1> QED  BY <1>4, <1>5, <1>6 DEF Right, ZoneRight, r

\* Variables, clocks and arrays.
LEMMA VariableRight ==
  ASSUME scope \in Scopes, NEW d, DeclarationFits(d, scope.stores), ~HasExpression(d), d.const => d.cells # <<>>,
         NEW means, means = [s \in scope.stores |-> IF d.kind = "array" THEN Undefined ELSE MeaningCell(s, d.name, 0)]
  PROVE  EntryRight(scope, Entry(d, d.name, Error, means, {}))
<1> DEFINE new == Entry(d, d.name, Error, means, {})
           r == Identified(new)
<1>1. /\ new.kind = d.kind /\ new.array = d.name /\ new.const = d.const /\ new.param = d.param
      /\ new.lo = d.lo /\ new.hi = d.hi /\ new.cells = d.cells
  BY DEF Entry
<1>2. /\ r.type = TypeOfName(d.kind) /\ r.means = means /\ r.value = Error
      /\ ~d.const => "uncomputable" \in r.flags
  BY DEF Identified, Entry
<1> HIDE DEF new, r
<1>3. /\ d.kind \in {"var", "array", "clock"} /\ (d.kind = "clock" <=> d.name \in Clocks)
      /\ d.kind # "array" => ~d.const
      /\ ~d.param
  BY DEF DeclarationFits, HasExpression
<1>4. r.type = IF d.kind = "clock" THEN "CLOCK" ELSE IF d.kind = "array" THEN "ARRAY" ELSE "INT"
  BY <1>2, <1>3 DEF TypeOfName
<1>5. ArrayRight(scope, new)
  <2>1. SUFFICES ASSUME d.kind = "array" PROVE ArrayFits(d.name, new, scope.stores)
    BY <1>1, <1>3 DEF ArrayRight
  <2> QED  BY <1>1, <1>3, <2>1 DEF DeclarationFits, ArrayFits
<1>6. ASSUME NEW s \in scope.stores
      PROVE  r.means[s] = IF d.kind = "array" THEN Undefined ELSE MeaningCell(s, d.name, 0)
  BY <1>2
<1>7. ValueRight(scope, r)
  <2>1. CASE d.kind = "array"
    BY <1>4, <1>6, <2>1 DEF ValueRight, Defined
  <2>2. CASE d.kind # "array"
    BY <1>2, <1>3, <2>2 DEF ValueRight, Accounted
  <2> QED  BY <2>1, <2>2
<1>8. FlagsRight(r)
  BY <1>2, <1>3, <1>4 DEF FlagsRight, Clocky
<1>9. ASSUME NEW s \in scope.stores
      PROVE  Meaningful(r.means[s])
  <2>1. \A c \in DOMAIN s : s[c] \in Min .. Max
    BY ScopesAssumption
  <2> QED  BY <1>6, <2>1 DEF MeaningCell, Meaningful
<1>10. ASSUME NEW u \in scope.stores, NEW m \in scope.stores, NEW w \in scope.stores, Between(u, m, w)
       PROVE  Convex(r.type, r.means[u], r.means[m], r.means[w])
  <2> DEFINE c == <<d.name, 0>>
  <2>1. c[1] = d.name
    OBVIOUS
  <2>2. d.kind # "array" => \A s \in scope.stores : r.means[s] = IF c \in DOMAIN s THEN s[c] ELSE Undefined
    BY <1>6, Ranges DEF MeaningCell, Defined
  <2> HIDE DEF c
  <2>3. CASE d.kind = "array"
    BY <1>4, <2>3 DEF Convex, Integral
  <2>4. CASE d.kind = "var"
    <3>1. DOMAIN u = DOMAIN m /\ DOMAIN w = DOMAIN m /\ (c \in DOMAIN m => u[c] = m[c] /\ w[c] = m[c])
      BY <1>3, <1>10, <2>1, <2>4 DEF Between
    <3>2. r.means[u] = r.means[m] /\ r.means[w] = r.means[m]
      BY <2>2, <2>4, <3>1
    <3> QED  BY <1>4, <2>4, <3>2 DEF Convex
  <2>5. CASE d.kind = "clock"
    <3>1. DOMAIN u = DOMAIN m /\ DOMAIN w = DOMAIN m /\ (c \in DOMAIN m => 2 * m[c] = u[c] + w[c])
      BY <1>3, <1>10, <2>1, <2>5 DEF Between
    <3>2. Defined(r.means[m]) => 2 * r.means[m] = r.means[u] + r.means[w]
      BY <2>2, <2>5, <3>1 DEF Defined
    <3> QED  BY <1>4, <2>5, <3>2 DEF Convex, Integral
  <2> QED  BY <1>3, <2>3, <2>4, <2>5
<1>11. Right(scope, r)
  BY <1>7, <1>8, <1>9, <1>10 DEF Right, MeansRight, ZoneRight
<1> QED  BY <1>1, <1>3, <1>5, <1>11 DEF EntryRight, new, r

\* An array parameter stands for the array that is passed.
LEMMA ParameterRight ==
  ASSUME DeclaredInv, NEW d, d.kind \in {"var", "array"}, d.param,
         NEW e, Right(scope, e), NamesArray(declared, e), Compatible(d, e),
         NEW a, e.type = "ARRAY" => a = declared[e.name].array
  PROVE  EntryRight(scope, Entry(d, a, e.value, e.means, e.flags))
<1> DEFINE new == Entry(d, a, e.value, e.means, e.flags)
<1>1. /\ new.kind = d.kind /\ new.array = a /\ new.const = d.const /\ new.param = d.param
      /\ new.lo = d.lo /\ new.hi = d.hi
  BY DEF Entry
<1>2. d.kind = "var" => Integral(e.type)
  BY DEF Compatible, Integral
<1>3. Right(scope, Identified(new))
  BY <1>2, EntryOf
<1>4. ArrayRight(scope, new)
  <2>1. SUFFICES ASSUME d.kind = "array" PROVE a \notin Clocks /\ ArrayFits(a, new, scope.stores)
    BY <1>1 DEF ArrayRight
  <2> DEFINE b == declared[e.name]
  <2>2. e.type = "ARRAY" /\ b.lo = d.lo /\ b.hi = d.hi /\ a = b.array
    BY <2>1 DEF Compatible
  <2>3. e.name \in DOMAIN declared /\ b.kind = "array"
    BY <2>2 DEF NamesArray
  <2>4. EntryRight(scope, b)
    BY <2>3 DEF DeclaredInv
  <2> HIDE DEF b, new
  <2>5. b.array \notin Clocks /\ ArrayFits(b.array, b, scope.stores)
    BY <2>3, <2>4 DEF EntryRight, ArrayRight
  <2> QED  BY <1>1, <2>2, <2>5 DEF ArrayFits
<1> QED  BY <1>1, <1>3, <1>4 DEF EntryRight

LEMMA DeclareSteps ==
  ASSUME TypedInv, DeclareVariable \/ DeclareConstant \/ BindParameter
  PROVE  TypedInv'
<1> DEFINE d == Declaration
           e == stack[1]
<1>1. phase = "build" /\ DeclarationFits(d, scope.stores)
  BY DeclarationFit DEF DeclareVariable, DeclareConstant, BindParameter, Initialising
<1>2. CASE DeclareVariable
  <2> DEFINE means == [s \in scope.stores |-> IF d.kind = "array" THEN Undefined ELSE MeaningCell(s, d.name, 0)]
             fit == d.const => d.cells # <<>>
  <2>1. ~HasExpression(d) /\ Declare(d, d.name, Error, means, {}, fit)
    BY <1>2 DEF DeclareVariable
  <2> HIDE DEF d, means
  <2>2. fit => EntryRight(scope, Entry(d, d.name, Error, means, {}))
    BY <1>1, <2>1, VariableRight DEF TypedInv, means
  <2> QED  BY <1>1, <2>1, <2>2, DeclareKeeps
<1>3. CASE DeclareConstant
  <2> DEFINE fit == Computable(e) /\ SideEffectFree(e) /\ Integral(e.type)
  <2>1. HasExpression(d) /\ ~d.param /\ Len(stack) = 1 /\ Declare(d, "", e.value, e.means, e.flags, fit)
    BY <1>3 DEF DeclareConstant, Initialising
  <2>2. Right(scope, e)
    BY <1>1, <2>1, OnlyRight
  <2> HIDE DEF d, e
  <2>3. d.kind = "var"
    BY <2>1 DEF HasExpression
  <2>4. fit => EntryRight(scope, Entry(d, "", e.value, e.means, e.flags))
    <3>1. SUFFICES ASSUME fit PROVE EntryRight(scope, Entry(d, "", e.value, e.means, e.flags))
      OBVIOUS
    <3>2. Right(scope, Identified(Entry(d, "", e.value, e.means, e.flags)))
      BY <2>2, <2>3, <3>1, EntryOf
    <3>3. Entry(d, "", e.value, e.means, e.flags).kind = "var"
      BY <2>3 DEF Entry
    <3> QED  BY <3>2, <3>3 DEF EntryRight, ArrayRight
  <2> HIDE DEF fit
  <2> QED  BY <1>1, <2>1, <2>4, DeclareKeeps
<1>4. CASE BindParameter
  <2> DEFINE array == IF e.type = "ARRAY" THEN declared[e.name].array ELSE ""
             fit == /\ SideEffectFree(e)
                    /\ IF d.ref /\ ~d.const THEN e.unique ELSE Computable(e)
                    /\ Compatible(d, e)
  <2>1. d.param /\ Len(stack) = 1 /\ Declare(d, array, e.value, e.means, e.flags, fit)
    BY <1>4 DEF BindParameter, Initialising
  <2>2. d.kind \in {"var", "array"}
    BY <1>1, <2>1 DEF DeclarationFits
  <2>3. Right(scope, e) /\ NamesArray(declared, e) /\ DeclaredInv
    BY <1>1, <2>1, OnlyRight DEF TypedInv
  <2>4. (e.type = "ARRAY" => array = declared[e.name].array) /\ (fit => Compatible(d, e))
    OBVIOUS
  <2> HIDE DEF d, e, array, fit
  <2>5. fit => EntryRight(scope, Entry(d, array, e.value, e.means, e.flags))
    BY ONLY <2>1, <2>2, <2>3, <2>4, ParameterRight
  <2> QED  BY <1>1, <2>1, <2>5, DeclareKeeps
<1> QED  BY <1>2, <1>3, <1>4

LEMMA FinishKeeps ==
  ASSUME TypedInv, NEW role, NEW accepted, Finish(role, accepted),
         accepted /\ role = "constant" => Integral(stack[1].type),
         accepted /\ role \in {"guard", "invariant"} => Guard(stack[1].type)
  PROVE  TypedInv'
<1>1. /\ phase = "build" /\ Len(stack) = 1
      /\ phase' = IF accepted THEN role ELSE "refused"
      /\ UNCHANGED <<scope, at, declared, stack>>
  BY DEF Finish, Building
<1>2. phase' # "refused" => DeclaredInv' /\ StackInv'
  BY <1>1 DEF TypedInv, DeclaredInv, StackInv
<1>3. phase' # "refused" => RolesInv'
  BY <1>1 DEF RolesInv
<1> QED  BY <1>1, <1>2, <1>3 DEF TypedInv

LEMMA FinishSteps ==
  ASSUME TypedInv, EvaluateConstant \/ AcceptGuard \/ AcceptInvariant \/ AcceptAssignment
  PROVE  TypedInv'
<1>1. CASE EvaluateConstant
  BY <1>1, FinishKeeps DEF EvaluateConstant
<1>2. CASE AcceptGuard
  BY <1>2, FinishKeeps DEF AcceptGuard
<1>3. CASE AcceptInvariant
  BY <1>3, FinishKeeps DEF AcceptInvariant, Guard
<1>4. CASE AcceptAssignment
  BY <1>4, FinishKeeps DEF AcceptAssignment
<1> QED  BY <1>1, <1>2, <1>3, <1>4

\* An expression which is no array is the name of none.
LEMMA NoArray == ASSUME NEW e, e.type # "ARRAY" PROVE NamesArray(declared, e)
BY DEF NamesArray

LEMMA BuildSteps ==
  ASSUME TypedInv,
         \/ \E n \in DOMAIN declared : ExprId(n)
         \/ \E v \in 0 .. Max : ExprNat(v)
         \/ \E op \in {"!", "neg"} : ExprUnary(op)
         \/ \E op \in Operators, any \in Min .. Max : ExprBinary(op, any)
         \/ ExprInlineIf
         \/ ExprArray
         \/ \E op \in {"="} \cup Compounds : ExprAssignment(op)
         \/ \E op \in {"++", "--"} : ExprIncrement(op)
         \/ ExprComma
  PROVE  TypedInv'
<1>1. phase = "build" /\ DeclaredInv /\ scope \in Scopes
  <2>1. phase = "build"
    BY DEF ExprId, ExprNat, ExprUnary, ExprBinary, ExprInlineIf, ExprArray, ExprAssignment, ExprIncrement, ExprComma, Build
  <2> QED  BY <2>1 DEF TypedInv
<1>2. ASSUME NEW k \in 1 .. 3, Len(stack) >= k
      PROVE  Right(scope, Top(k)) /\ NamesArray(declared, Top(k))
  BY <1>1, <1>2, TopRight
<1>3. ASSUME NEW n \in DOMAIN declared, ExprId(n)
      PROVE  TypedInv'
  BY <1>1, <1>3, KnownRight, BuildKeeps DEF ExprId
<1>4. ASSUME NEW v \in 0 .. Max, ExprNat(v)
      PROVE  TypedInv'
  <2>1. v \in Min .. Max
    BY Ranges
  <2> QED  BY <1>4, <2>1, NumberRight, NoArray, BuildKeeps DEF ExprNat
<1>5. ASSUME NEW op, ExprUnary(op)
      PROVE  TypedInv'
  <2>1. Len(stack) >= 1 /\ Build(1, UnaryOf(op, Top(1)))
    BY <1>5 DEF ExprUnary
  <2>2. UnaryOf(op, Top(1)).type # "unknown" =>
          Right(scope, UnaryOf(op, Top(1))) /\ NamesArray(declared, UnaryOf(op, Top(1)))
    BY <1>2, <2>1, UnaryRight, NoArray
  <2> QED  BY <2>1, <2>2, BuildKeeps
<1>6. ASSUME NEW op \in Operators, NEW any \in Min .. Max, ExprBinary(op, any)
      PROVE  TypedInv'
  <2> DEFINE r == BinaryOf(op, Top(2), Top(1), any)
  <2>1. Len(stack) >= 2 /\ Build(2, r)
    BY <1>6 DEF ExprBinary
  <2>2. Right(scope, Top(2)) /\ Right(scope, Top(1))
    BY <1>2, <2>1, ListDomain DEF TypedInv
  <2>3. r.type # "unknown" => Right(scope, r) /\ NamesArray(declared, r)
    BY <2>2, BinaryRight, NoArray
  <2> QED  BY <2>1, <2>3, BuildKeeps
<1>7. ASSUME ExprInlineIf
      PROVE  TypedInv'
  <2> DEFINE r == ConditionalOf(Top(3), Top(2), Top(1))
  <2>1. Len(stack) >= 3 /\ Build(3, r)
    BY <1>7 DEF ExprInlineIf
  <2>2. Right(scope, Top(3)) /\ Right(scope, Top(2)) /\ Right(scope, Top(1))
    BY <1>2, <2>1, ListDomain DEF TypedInv
  <2>3. r.type # "unknown" => Right(scope, r) /\ NamesArray(declared, r)
    BY <2>2, ConditionalRight, NoArray
  <2> QED  BY <2>1, <2>3, BuildKeeps
<1>8. ASSUME ExprArray
      PROVE  TypedInv'
  <2> DEFINE r == CellOf(Top(2), Top(1))
  <2>1. Len(stack) >= 2 /\ Build(2, r)
    BY <1>8 DEF ExprArray
  <2>2. NamesArray(declared, Top(2)) /\ Right(scope, Top(1))
    BY <1>2, <2>1, ListDomain DEF TypedInv
  <2>3. r.type # "unknown" => Right(scope, r) /\ NamesArray(declared, r)
    BY <1>1, <2>2, CellRight, NoArray
  <2> QED  BY <2>1, <2>3, BuildKeeps
<1>9. ASSUME NEW op, ExprAssignment(op)
      PROVE  TypedInv'
  <2> DEFINE t == TypeOfAssignment(op, Top(2), Top(1).type)
             F == Top(2).flags \cup Top(1).flags
             r == Changing(t, F, TRUE)
  <2>1. Len(stack) >= 2 /\ Build(2, r)
    BY <1>9 DEF ExprAssignment
  <2>2. Right(scope, Top(2))
    BY <1>2, <2>1, ListDomain DEF TypedInv
  <2>3. t = "unknown" \/ (t = Top(2).type /\ t # "ARRAY")
    BY DEF TypeOfAssignment, AssignmentCompatible, Integral
  <2> HIDE DEF t
  <2>4. (t \in Clocky => "uncomputable" \in F) /\ (t = "DOUBLE" => "numbers" \in F)
    BY <2>2, <2>3 DEF Right, FlagsRight, Clocky
  <2>5. Right(scope, r) /\ r.type = t
    BY <2>4, ChangingRight
  <2> HIDE DEF r
  <2>6. r.type # "unknown" => Right(scope, r) /\ NamesArray(declared, r)
    BY <2>3, <2>5, NoArray
  <2> QED  BY <2>1, <2>6, BuildKeeps
<1>10. ASSUME NEW op, ExprIncrement(op)
       PROVE  TypedInv'
  <2> DEFINE t == IF Top(1).modifiable /\ Top(1).type = "INT" THEN "INT" ELSE "unknown"
             F == Top(1).flags
             r == Changing(t, F, op = "++")
  <2>1. Build(1, r)
    BY <1>10 DEF ExprIncrement
  <2>2. t \notin Clocky /\ t # "ARRAY" /\ t # "DOUBLE"
    BY DEF Clocky
  <2> HIDE DEF t
  <2>3. Right(scope, r) /\ r.type = t
    BY <2>2, ChangingRight
  <2> HIDE DEF r
  <2>4. r.type # "unknown" => Right(scope, r) /\ NamesArray(declared, r)
    BY <2>2, <2>3, NoArray
  <2> QED  BY <2>1, <2>4, BuildKeeps
<1>11. ASSUME ExprComma
       PROVE  TypedInv'
  <2> DEFINE t == IF Assignable(Top(2).type) /\ Assignable(Top(1).type) THEN Top(1).type ELSE "unknown"
             F == Top(2).flags \cup Top(1).flags
             r == [Opaque(t, F) EXCEPT !.modifiable = Top(1).modifiable]
  <2>1. Len(stack) >= 2 /\ Build(2, r)
    BY <1>11 DEF ExprComma
  <2>2. Right(scope, Top(1))
    BY <1>2, <2>1, ListDomain DEF TypedInv
  <2>3. t = "unknown" \/ (t = Top(1).type /\ t # "ARRAY")
    BY DEF Assignable
  <2> HIDE DEF t
  <2>4. (t \in Clocky => "uncomputable" \in F) /\ (t = "DOUBLE" => "numbers" \in F)
    BY <2>2, <2>3 DEF Right, FlagsRight, Clocky
  <2> HIDE DEF F
  <2>5. r.type = t /\ r.flags = F /\ r.value = Error /\ r.means = Same(Undefined)
    BY DEF Opaque
  <2> HIDE DEF r
  <2>6. Right(scope, r)
    BY <2>4, <2>5, OpaqueRight
  <2>7. r.type # "unknown" => Right(scope, r) /\ NamesArray(declared, r)
    BY <2>3, <2>5, <2>6, NoArray
  <2> QED  BY <2>1, <2>7, BuildKeeps
<1> QED  BY <1>3, <1>4, <1>5, <1>6, <1>7, <1>8, <1>9, <1>10, <1>11

-----------------------------------------------------------------------------
(***************************************************************************)
(* Theorems.                                                               *)
(***************************************************************************)
LEMMA TypedInit == Init => TypedInv
<1> SUFFICES ASSUME Init PROVE TypedInv
  OBVIOUS
<1>1. scope \in Scopes /\ at = 1 /\ declared = <<>> /\ stack = <<>> /\ phase = "build"
  BY DEF Init
<1>2. DeclaredInv /\ StackInv
  BY <1>1, EmptyList DEF DeclaredInv, StackInv
<1> QED  BY <1>1, <1>2, EmptyList DEF TypedInv, RolesInv

LEMMA TypedStep == TypedInv /\ [Next]_vars => TypedInv'
<1> SUFFICES ASSUME TypedInv, [Next]_vars PROVE TypedInv'
  OBVIOUS
<1>1. CASE UNCHANGED vars
  BY <1>1 DEF vars, TypedInv, DeclaredInv, StackInv, RolesInv
<1>2. CASE DeclareVariable \/ DeclareConstant \/ BindParameter
  BY <1>2, DeclareSteps
<1>3. CASE EvaluateConstant \/ AcceptGuard \/ AcceptInvariant \/ AcceptAssignment
  BY <1>3, FinishSteps
<1>4. CASE \/ \E n \in DOMAIN declared : ExprId(n)
           \/ \E v \in 0 .. Max : ExprNat(v)
           \/ \E op \in {"!", "neg"} : ExprUnary(op)
           \/ \E op \in Operators, any \in Min .. Max : ExprBinary(op, any)
           \/ ExprInlineIf
           \/ ExprArray
           \/ \E op \in {"="} \cup Compounds : ExprAssignment(op)
           \/ \E op \in {"++", "--"} : ExprIncrement(op)
           \/ ExprComma
  BY <1>4, BuildSteps
<1> QED  BY <1>1, <1>2, <1>3, <1>4 DEF Next, Operators

\* Every expression that is built, and every declaration, is right: its value
\* is what it means, or a failure that is accounted for, and its type tells how
\* it depends on clocks (checkExpression, eval_integer_constant).
THEOREM ExpressionsRight == Spec => []TypedInv
BY TypedInit, TypedStep, PTL DEF Spec

\* A constant is evaluated to what it means, where it means something
\* (eval_integer_constant).
THEOREM ConstantsEvaluated == Spec => []ConstantsRight
<1>1. TypedInv => ConstantsRight
  <2> SUFFICES ASSUME TypedInv, phase = "constant", "mutable" \notin Built.flags,
                      NEW s \in scope.stores, Defined(Built.means[s])
               PROVE  Accounted(Built.value, Built.means[s], Built.flags)
    BY DEF ConstantsRight, Accounted
  <2>1. Len(stack) = 1
    BY DEF TypedInv, RolesInv
  <2>2. Right(scope, Built)
    BY <2>1, OnlyRight DEF Built
  <2> QED  BY <2>2 DEF Right, ValueRight
<1> QED  BY <1>1, ExpressionsRight, PTL

\* Guards and invariants that are accepted denote convex sets of clocks
\* (checkExpression, visitEdge, visitState).
THEOREM GuardsAreConvex == Spec => []GuardsConvex
<1>1. TypedInv => GuardsConvex
  <2> SUFFICES ASSUME TypedInv, phase \in {"guard", "invariant"}, "numbers" \notin Built.flags,
                      NEW u \in scope.stores, NEW m \in scope.stores, NEW w \in scope.stores,
                      Between(u, m, w), Holds(Built.means[u]), Holds(Built.means[w])
               PROVE  Built.means[m] # 0
    BY DEF GuardsConvex
  <2>1. Len(stack) = 1 /\ Guard(Built.type)
    BY DEF TypedInv, RolesInv, Built
  <2>2. Right(scope, Built)
    BY <2>1, OnlyRight DEF Built
  <2>3. Convex(Built.type, Built.means[u], Built.means[m], Built.means[w])
    BY <2>2 DEF Right, ZoneRight
  <2> QED  BY <2>1, <2>3, GuardConvex
<1> QED  BY <1>1, ExpressionsRight, PTL
=============================================================================
