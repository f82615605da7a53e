--------------------------- MODULE TypedExpressions ---------------------------
(***************************************************************************)
(* The parser builds expressions (expressionbuilder.cpp) and types them    *)
(* (checkExpression), those of declarations and of arguments first; then   *)
(* utot-expr.cc evaluates a constant, or a guard is accepted.              *)
(*                                                                         *)
(* An expression on the stack is what is known of it:                      *)
(*   type       : INT, BOOL, CLOCK, DIFF, DOUBLE, ARRAY, and for           *)
(*                constraints on clocks INVARIANT, GUARD, CONSTRAINT;      *)
(*                "unknown" is a type error                                *)
(*   modifiable : it may be assigned to                                    *)
(*   unique     : it may be passed by reference                            *)
(*   name       : the identifier it is                                     *)
(*   value      : the constant it is evaluated to                          *)
(*   means      : what it means to Uppaal, in each store                   *)
(*   flags      : what occurs in it                                        *)
(* "neg" is the unary minus, "++" is the increment before a variable and   *)
(* "--" the decrement after it.                                            *)
(***************************************************************************)
EXTENDS Integers, Sequences

CONSTANTS
  Scopes,  \* what is declared, and bound: what expressions are built of
  Clocks,  \* the names of clocks
  Max,     \* the greatest int
  Width    \* the bits of an int

ASSUME RangeAssumption == Max \in Nat \ {0} /\ Width \in Nat

Min == -Max - 1

VARIABLES
  scope,     \* [declarations, bounds, stores, roles]
  at,        \* the next declaration
  declared,  \* what each identifier stands for
  stack,     \* fragments: the expressions being built, the last one on top
  nodes,     \* the number of nodes built
  phase      \* "build", "refused", or what is done: "constant", "guard", ...

vars == <<scope, at, declared, stack, nodes, phase>>

-----------------------------------------------------------------------------
(***************************************************************************)
(* Types of expressions.                                                   *)
(***************************************************************************)
Integral(t) == t \in {"INT", "BOOL"}
Invariant(t) == t = "INVARIANT" \/ Integral(t)
Guard(t) == t = "GUARD" \/ Invariant(t)
Constraint(t) == t = "CONSTRAINT" \/ Guard(t)
Bound(t) == t \in {"INT", "DOUBLE"}
Numeric(t) == t \in {"DOUBLE", "CLOCK", "DIFF"} \/ Integral(t)

\* One of the two is of type s, the other of type t.
Either(a, b, s, t) == <<a, b>> \in {<<s, t>>, <<t, s>>}

TypeOfPlus(a, b) ==
  IF Integral(a) /\ Integral(b) THEN "INT"
  ELSE IF Either(a, b, "INT", "CLOCK") THEN "CLOCK"
  ELSE IF Either(a, b, "INT", "DIFF") THEN "DIFF"
  ELSE IF Numeric(a) /\ Numeric(b) THEN "DOUBLE" ELSE "unknown"

TypeOfMinus(a, b) ==
  IF Integral(a) /\ Integral(b) THEN "INT"
  ELSE IF <<a, b>> = <<"CLOCK", "INT">> THEN "CLOCK"
  ELSE IF Either(a, b, "INT", "DIFF") \/ <<a, b>> = <<"CLOCK", "CLOCK">> THEN "DIFF"
  ELSE IF Numeric(a) /\ Numeric(b) THEN "DOUBLE" ELSE "unknown"

TypeOfAnd(a, b) ==
  IF Integral(a) /\ Integral(b) THEN "BOOL"
  ELSE IF Invariant(a) /\ Invariant(b) THEN "INVARIANT"
  ELSE IF Guard(a) /\ Guard(b) THEN "GUARD"
  ELSE IF Constraint(a) /\ Constraint(b) THEN "CONSTRAINT" ELSE "unknown"

\* Mutated form: the disjunction of two invariants is one.
TypeOfAnyOr(a, b) == TypeOfAnd(a, b)

\* A disjunction keeps its type when one side is without clocks.
TypeOfOr(a, b) ==
  IF Integral(a) /\ Integral(b) THEN "BOOL"
  ELSE IF (Integral(a) /\ Invariant(b)) \/ (Invariant(a) /\ Integral(b)) THEN "INVARIANT"
  ELSE IF (Integral(a) /\ Guard(b)) \/ (Guard(a) /\ Integral(b)) THEN "GUARD"
  ELSE IF Constraint(a) /\ Constraint(b) THEN "CONSTRAINT" ELSE "unknown"

\* Comparisons of clocks and differences with == and !=.
Clocked(a, b) ==
  \/ <<a, b>> = <<"CLOCK", "CLOCK">>
  \/ Either(a, b, "INT", "CLOCK") \/ Either(a, b, "INT", "DIFF")

TypeOfEq(a, b) ==
  IF Clocked(a, b) THEN "GUARD" ELSE IF Numeric(a) /\ Numeric(b) THEN "BOOL" ELSE "unknown"

\* Clocks are of equivalent types, so that != of two clocks comes out as BOOL.
TypeOfNeq(a, b) ==
  IF (Integral(a) /\ Integral(b)) \/ <<a, b>> = <<"CLOCK", "CLOCK">> THEN "BOOL"
  ELSE IF Clocked(a, b) THEN "CONSTRAINT"
  ELSE IF Numeric(a) /\ Numeric(b) THEN "BOOL" ELSE "unknown"

TypeOfOrder(a, b) ==
  IF Integral(a) /\ Integral(b) THEN "BOOL"
  ELSE IF \/ <<a, b>> = <<"CLOCK", "CLOCK">>
          \/ a \in {"CLOCK", "DIFF"} /\ Bound(b)
          \/ b \in {"CLOCK", "DIFF"} /\ Bound(a)
       THEN "INVARIANT"
  ELSE IF Numeric(a) /\ Numeric(b) THEN "BOOL" ELSE "unknown"

TypeOfProduct(a, b) ==
  IF Integral(a) /\ Integral(b) THEN "INT"
  ELSE IF Numeric(a) /\ Numeric(b) THEN "DOUBLE" ELSE "unknown"

TypeOfInteger(a, b) == IF Integral(a) /\ Integral(b) THEN "INT" ELSE "unknown"

Orders == {"<", "<=", ">", ">="}
Bitwise == {"<<", ">>", "&", "|", "^"}
Binary == {"+", "-", "*", "/", "%", "==", "!=", "min", "max"} \cup Orders \cup Bitwise

TypeOfBinary(op, a, b) ==
  CASE op = "+" -> TypeOfPlus(a, b)
    [] op = "-" -> TypeOfMinus(a, b)
    [] op = "&&" -> TypeOfAnd(a, b)
    [] op = "||" -> TypeOfOr(a, b)
    [] op = "==" -> TypeOfEq(a, b)
    [] op = "!=" -> TypeOfNeq(a, b)
    [] op \in Orders -> TypeOfOrder(a, b)
    [] op \in {"*", "/", "min", "max"} -> TypeOfProduct(a, b)
    [] op \in {"%"} \cup Bitwise -> TypeOfInteger(a, b)

TypeOfUnary(op, a) ==
  IF op = "!" THEN IF Integral(a) THEN "BOOL" ELSE IF Constraint(a) THEN "CONSTRAINT" ELSE "unknown"
  ELSE IF Integral(a) THEN "INT" ELSE IF Numeric(a) THEN "DOUBLE" ELSE "unknown"

TypeOfConditional(c, a, b) ==
  IF Integral(c) /\ ((Integral(a) /\ Integral(b)) \/ (a = b /\ a \in {"CLOCK", "DOUBLE"}))
  THEN a ELSE "unknown"

Compounds == {"+=", "-=", "*=", "/="}
Assignable(t) == t \in {"INT", "BOOL", "DOUBLE", "CLOCK"}

AssignmentCompatible(a, b) ==
  \/ a \in {"CLOCK", "DOUBLE"} /\ (Integral(b) \/ b \in {"DOUBLE", "CLOCK"})
  \/ Integral(a) /\ Integral(b)

TypeOfAssignment(op, e, b) ==
  IF /\ e.modifiable
     /\ IF op = "=" THEN AssignmentCompatible(e.type, b) ELSE Integral(e.type) /\ Integral(b)
  THEN e.type ELSE "unknown"

TypeOfName(kind) == CASE kind = "clock" -> "CLOCK" [] kind = "array" -> "ARRAY" [] kind = "var" -> "INT"

\* The typing of numbers added for statistics: clocks and differences under
\* operators that take any numbers.
TypedAsNumbers(t, operands) ==
  t \in {"BOOL", "INT", "DOUBLE"} /\ \E a \in operands : a \in {"CLOCK", "DIFF", "DOUBLE"}

-----------------------------------------------------------------------------
(***************************************************************************)
(* Ints: what operators give in the code (eval_integer_constant), and what *)
(* they mean to Uppaal.  A failure is a value that is no int.              *)
(***************************************************************************)
Error == Max + 1
Crash == Max + 2
Failed(v) == v > Max

Int32(v) == ((v - Min) % (2 * Max + 2)) + Min

Truth(b) == IF b THEN 1 ELSE 0

\* The quotient truncated towards zero and its remainder.
Abs(v) == IF v < 0 THEN -v ELSE v
Quotient(a, b) == IF (a < 0) = (b < 0) THEN Abs(a) \div Abs(b) ELSE -(Abs(a) \div Abs(b))
Remainder(a, b) == a - b * Quotient(a, b)

Unsigned(v) == v % (2 * Max + 2)
BitAnd[a \in Nat, b \in Nat] ==
  IF a = 0 \/ b = 0 THEN 0 ELSE 2 * BitAnd[a \div 2, b \div 2] + (a % 2) * (b % 2)
And(a, b) == BitAnd[Unsigned(a), Unsigned(b)]

\* An operator on the integers.
Apply(op, a, b) ==
  CASE op = "+" -> a + b
    [] op = "-" -> a - b
    [] op = "*" -> a * b
    [] op = "/" -> Quotient(a, b)
    [] op = "%" -> Remainder(a, b)
    [] op = "==" -> Truth(a = b)
    [] op = "!=" -> Truth(a # b)
    [] op = "<" -> Truth(a < b)
    [] op = "<=" -> Truth(a <= b)
    [] op = ">" -> Truth(a > b)
    [] op = ">=" -> Truth(a >= b)
    [] op = "min" -> IF a < b THEN a ELSE b
    [] op = "max" -> IF a < b THEN b ELSE a
    [] op = "<<" -> a * 2 ^ b
    [] op = ">>" -> a \div 2 ^ b
    [] op = "&" -> Int32(And(a, b))
    [] op = "|" -> Int32(Unsigned(a) + Unsigned(b) - And(a, b))
    [] op = "^" -> Int32(Unsigned(a) + Unsigned(b) - 2 * And(a, b))

\* A division that has no result in an int, and a shift beyond the width.
Fatal(op, a, b) == op \in {"/", "%"} /\ (b = 0 \/ (a = Min /\ b = -1))
Wild(op, b) == op \in {"<<", ">>"} /\ b \notin 0 .. Width - 1

\* On ints: a fatal division kills the program; a wild shift is undefined, and
\* may give any value.
ApplyInt(op, a, b, any) ==
  IF Fatal(op, a, b) THEN Crash ELSE IF Wild(op, b) THEN any ELSE Int32(Apply(op, a, b))

\* Mutated form: both branches are evaluated.
EagerConditional(c, v, w) == IF Failed(v) THEN v ELSE IF Failed(w) THEN w ELSE IF c # 0 THEN v ELSE w

Conditional(c, v, w) == IF c # 0 THEN v ELSE w

EvaluateUnary(op, a) ==
  IF Failed(a) THEN a ELSE IF op = "!" THEN Truth(a = 0) ELSE Int32(-a)

EvaluateBinary(op, a, b, any) ==
  IF Failed(a) THEN a
  ELSE IF op \in {"&&", "||"} /\ (a # 0) = (op = "||") THEN Truth(a # 0)
  ELSE IF Failed(b) THEN b
  ELSE IF op \in {"&&", "||"} THEN Truth(b # 0) ELSE ApplyInt(op, a, b, any)

EvaluateConditional(c, a, b) == IF Failed(c) THEN c ELSE Conditional(c, a, b)

\* A cell is read in the initialiser of the array, whatever the array; a
\* parameter has no data, which is not looked for.
EvaluateCell(d, i) ==
  IF Failed(i) THEN i
  ELSE IF i \notin d.lo .. d.hi THEN Error
  ELSE IF d.param THEN Crash
  ELSE IF d.cells = <<>> THEN Error ELSE d.cells[i - d.lo + 1]

\* What has no meaning in a store: values outside Min..Max, fatal divisions,
\* wild shifts, indices out of bounds.
Undefined == Max + 3
Defined(v) == v # Undefined
Within(v) == IF v \in Min .. Max THEN v ELSE Undefined

MeaningUnary(op, a) ==
  IF ~Defined(a) THEN a ELSE IF op = "!" THEN Truth(a = 0) ELSE Within(-a)

MeaningBinary(op, a, b) ==
  IF ~Defined(a) THEN a
  ELSE IF op \in {"&&", "||"} /\ (a # 0) = (op = "||") THEN Truth(a # 0)
  ELSE IF ~Defined(b) THEN b
  ELSE IF op \in {"&&", "||"} THEN Truth(b # 0)
  ELSE IF Fatal(op, a, b) \/ Wild(op, b) THEN Undefined ELSE Within(Apply(op, a, b))

MeaningConditional(c, a, b) == IF ~Defined(c) THEN c ELSE IF c # 0 THEN a ELSE b

\* The cell i of n in a store; variables have the cell 0.
MeaningCell(s, n, i) == IF <<n, i>> \in DOMAIN s /\ Defined(i) THEN s[<<n, i>>] ELSE Undefined

-----------------------------------------------------------------------------
(***************************************************************************)
(* Behaviour: the callbacks of the parser build an expression from its     *)
(* leaves up; what has no type is refused.  A declaration is               *)
(*   [name, kind, param, ref, const, lo, hi, cells, bounds]                *)
(*   kind   : "var", "array" or "clock"                                    *)
(*   param  : it is a parameter of a template, ref : one by reference      *)
(*   lo, hi : the indices of an array; cells : the values of its cells     *)
(*   bounds : bound: what its initialiser, or its argument, is built of    *)
(* and becomes [kind, param, ref, const, lo, hi, cells, array, value,      *)
(* means, flags], where array is the array that a parameter stands for.    *)
(***************************************************************************)
\* The stores hold ints in cells; an array has the cells of its indices, and
\* holds its initial values if it is constant.  Clocks are known by their names;
\* they are not constants (checkType).  Bound: they are not passed.
ArrayFits(name, d, stores) ==
  \A s \in stores : \A c \in DOMAIN s :
    c[1] = name => c[2] \in d.lo .. d.hi /\ (d.const /\ ~d.param => s[c] = d.cells[c[2] - d.lo + 1])

DeclarationFits(d, stores) ==
  /\ d.kind \in {"var", "array", "clock"} /\ (d.kind = "clock" <=> d.name \in Clocks)
  /\ d.kind = "clock" => ~d.const /\ ~d.param
  /\ d.kind = "array" /\ ~d.param => ArrayFits(d.name, d, stores)

ASSUME ScopesAssumption ==
  \A S \in Scopes :
    /\ \A s \in S.stores : \A c \in DOMAIN s : s[c] \in Min .. Max
    /\ Len(S.declarations) \in Nat /\ DOMAIN S.declarations = 1 .. Len(S.declarations)
    /\ \A i \in DOMAIN S.declarations : DeclarationFits(S.declarations[i], S.stores)

Declaring == at <= Len(scope.declarations)
Declaration == scope.declarations[at]

\* Bound: [names, numbers, ops, nodes]
Bounds == IF Declaring THEN Declaration.bounds ELSE scope.bounds

Same(v) == [s \in scope.stores |-> v]

Init ==
  /\ scope \in Scopes
  /\ at = 1 /\ declared = <<>> /\ stack = <<>> /\ nodes = 0 /\ phase = "build"

\* The k-th expression from the top.
Top(k) == stack[Len(stack) - k + 1]

\* Put e in the place of the k expressions on top.  Bound: Bounds.nodes, with
\* what it takes to make one expression of the rest.
Build(k, e) ==
  /\ phase = "build" /\ nodes < Bounds.nodes /\ Len(stack) >= k
  /\ Len(stack) - k <= (IF "?:" \in Bounds.ops THEN 2 ELSE 1) * (Bounds.nodes - nodes - 1)
  /\ nodes' = nodes + 1
  /\ stack' = Append(SubSeq(stack, 1, Len(stack) - k), e)
  /\ phase' = IF e.type = "unknown" THEN "refused" ELSE "build"
  /\ UNCHANGED <<scope, at, declared>>

\* Not evaluated to an int, and without meaning.
Opaque(t, flags) ==
  [type |-> t, modifiable |-> FALSE, unique |-> FALSE, name |-> "", value |-> Error,
   means |-> Same(Undefined), flags |-> flags]

\* What is not of an integer type is not evaluated.
Evaluated(t, v) == IF Integral(t) THEN v ELSE Error

NumberFlag(t, operands) == IF TypedAsNumbers(t, operands) THEN {"numbers"} ELSE {}

Known(n) ==
  LET d == declared[n]
  IN  [Opaque(TypeOfName(d.kind), d.flags) EXCEPT
         !.modifiable = ~d.const, !.unique = TRUE, !.name = n,
         !.value = IF d.const THEN d.value ELSE Error, !.means = d.means]

ExprId(n) == n \in DOMAIN declared /\ n \in Bounds.names /\ Build(0, Known(n))

Number(v) == [Opaque("INT", {}) EXCEPT !.value = v, !.means = Same(v)]

ExprNat(v) == v \in Bounds.numbers /\ Build(0, Number(v))

UnaryOf(op, e) ==
  LET t == TypeOfUnary(op, e.type)
  IN  [Opaque(t, e.flags \cup NumberFlag(t, {e.type})) EXCEPT
         !.value = Evaluated(t, EvaluateUnary(op, e.value)),
         !.means = [s \in scope.stores |-> MeaningUnary(op, e.means[s])]]

ExprUnary(op) == op \in Bounds.ops /\ Len(stack) >= 1 /\ Build(1, UnaryOf(op, Top(1)))

\* Bound: whole arrays are indexed and passed, and never compared, chosen by ?:,
\* assigned, put in a list or made an assignment of their own, which the type
\* checker accepts.  So it is names only that are of an array type.
WholeArrays(e, f) == e.type = "ARRAY" /\ f.type = "ARRAY"

BinaryOf(op, e, f, any) ==
  LET t == TypeOfBinary(op, e.type, f.type)
  IN  [Opaque(t, e.flags \cup f.flags \cup NumberFlag(t, {e.type, f.type})) EXCEPT
         !.value = Evaluated(t, EvaluateBinary(op, e.value, f.value, any)),
         !.means = [s \in scope.stores |-> MeaningBinary(op, e.means[s], f.means[s])]]

ExprBinary(op, any) ==
  /\ op \in Bounds.ops /\ Len(stack) >= 2
  /\ Wild(op, Top(1).value) \/ any = 0
  /\ op \in {"==", "!="} => ~WholeArrays(Top(2), Top(1))
  /\ Build(2, BinaryOf(op, Top(2), Top(1), any))

ConditionalOf(c, e, f) ==
  LET t == TypeOfConditional(c.type, e.type, f.type)
  IN  [Opaque(t, c.flags \cup e.flags \cup f.flags) EXCEPT
         !.modifiable = e.modifiable /\ f.modifiable /\ e.type = f.type,
         !.value = Evaluated(t, EvaluateConditional(c.value, e.value, f.value)),
         !.means = [s \in scope.stores |-> MeaningConditional(c.means[s], e.means[s], f.means[s])]]

ExprInlineIf ==
  /\ "?:" \in Bounds.ops /\ Len(stack) >= 3 /\ ~WholeArrays(Top(2), Top(1))
  /\ Build(3, ConditionalOf(Top(3), Top(2), Top(1)))

\* By the bound on whole arrays e is a name when it is of an array type.
CellOf(e, i) ==
  IF e.type # "ARRAY" \/ ~Integral(i.type) THEN Opaque("unknown", {})
  ELSE LET d == declared[e.name]
       IN  [Opaque("INT", e.flags \cup i.flags \cup (IF d.const THEN {} ELSE {"mutable"})
                            \cup (IF d.param THEN {"parameter"} ELSE {})) EXCEPT
              !.modifiable = e.modifiable, !.unique = "uncomputable" \notin i.flags,
              !.value = EvaluateCell(d, i.value),
              !.means = [s \in scope.stores |-> MeaningCell(s, d.array, i.means[s])]]

ExprArray == "[]" \in Bounds.ops /\ Len(stack) >= 2 /\ Build(2, CellOf(Top(2), Top(1)))

\* Assignments have an effect, and no meaning is needed of their value.
Changing(t, flags, modifiable) == [Opaque(t, flags \cup {"changes"}) EXCEPT !.modifiable = modifiable]

ExprAssignment(op) ==
  /\ op \in Bounds.ops /\ Len(stack) >= 2
  /\ op = "=" => ~WholeArrays(Top(2), Top(1))
  /\ LET t == TypeOfAssignment(op, Top(2), Top(1).type)
     IN  Build(2, Changing(t, Top(2).flags \cup Top(1).flags, TRUE))

ExprIncrement(op) ==
  /\ op \in Bounds.ops /\ Len(stack) >= 1
  /\ LET t == IF Top(1).modifiable /\ Top(1).type = "INT" THEN "INT" ELSE "unknown"
     IN  Build(1, Changing(t, Top(1).flags, op = "++"))

ExprComma ==
  /\ "," \in Bounds.ops /\ Len(stack) >= 2
  /\ Top(1).type # "ARRAY" /\ Top(2).type # "ARRAY"
  /\ LET t == IF Assignable(Top(2).type) /\ Assignable(Top(1).type) THEN Top(1).type ELSE "unknown"
     IN  Build(2, [Opaque(t, Top(2).flags \cup Top(1).flags) EXCEPT !.modifiable = Top(1).modifiable])

\* What is known of a declaration.  What is computable when the model is
\* compiled are constants that are not passed by reference.
Entry(d, array, value, means, flags) ==
  [kind |-> d.kind, param |-> d.param, ref |-> d.ref, const |-> d.const, lo |-> d.lo, hi |-> d.hi,
   cells |-> d.cells, array |-> array, value |-> value, means |-> means,
   flags |-> flags \cup (IF d.const /\ ~d.ref THEN {} ELSE {"uncomputable"})]

\* The declaration is accepted or not.  A name that is declared
\* already is refused (addVariable).
Declare(d, array, value, means, flags, accepted) ==
  /\ phase' = IF accepted /\ d.name \notin DOMAIN declared THEN "build" ELSE "refused"
  /\ declared' = [n \in DOMAIN declared \cup {d.name} |->
                    IF n = d.name THEN Entry(d, array, value, means, flags) ELSE declared[n]]
  /\ at' = at + 1 /\ stack' = <<>> /\ nodes' = 0
  /\ UNCHANGED scope

HasExpression(d) == d.param \/ (d.kind = "var" /\ d.const)

\* Variables, clocks and arrays; an array of constants has an initialiser.
DeclareVariable ==
  /\ phase = "build" /\ Declaring /\ ~HasExpression(Declaration)
  /\ Declare(Declaration, Declaration.name, Error,
             [s \in scope.stores |-> IF Declaration.kind = "array" THEN Undefined ELSE MeaningCell(s, Declaration.name, 0)],
             {}, Declaration.const => Declaration.cells # <<>>)

\* Bound: the initialiser has as many nodes as it may have.
Initialising ==
  phase = "build" /\ Declaring /\ HasExpression(Declaration) /\ Len(stack) = 1 /\ nodes = Bounds.nodes

Computable(e) == "uncomputable" \notin e.flags
SideEffectFree(e) == "changes" \notin e.flags

\* visitVariable
DeclareConstant ==
  /\ Initialising /\ ~Declaration.param
  /\ LET e == stack[1]
     IN  Declare(Declaration, "", e.value, e.means, e.flags, Computable(e) /\ SideEffectFree(e) /\ Integral(e.type))

\* isParameterCompatible: an array is passed for one with the same indices.
Compatible(d, e) ==
  /\ d.ref /\ ~d.const => e.modifiable
  /\ IF d.kind = "array"
     THEN e.type = "ARRAY" /\ declared[e.name].lo = d.lo /\ declared[e.name].hi = d.hi
     ELSE IF d.ref /\ e.modifiable THEN e.type = "INT" ELSE Integral(e.type)

\* visitInstance
BindParameter ==
  /\ Initialising /\ Declaration.param
  /\ LET e == stack[1]
     IN  Declare(Declaration, IF e.type = "ARRAY" THEN declared[e.name].array ELSE "", e.value, e.means, e.flags,
                 /\ SideEffectFree(e)
                 /\ IF Declaration.ref /\ ~Declaration.const THEN e.unique ELSE Computable(e)
                 /\ Compatible(Declaration, e))

Building == phase = "build" /\ ~Declaring /\ Len(stack) = 1

Finish(role, accepted) ==
  /\ Building /\ role \in scope.roles
  /\ phase' = IF accepted THEN role ELSE "refused"
  /\ UNCHANGED <<scope, at, declared, stack, nodes>>

\* eval_integer_constant of a whole expression
EvaluateConstant == Finish("constant", Integral(stack[1].type))

\* visitEdge
AcceptGuard == Finish("guard", Guard(stack[1].type) /\ SideEffectFree(stack[1]))

\* visitState
AcceptInvariant == Finish("invariant", Invariant(stack[1].type) /\ SideEffectFree(stack[1]))

\* checkAssignmentExpression
AcceptAssignment ==
  /\ Finish("assignment", Assignable(stack[1].type))
  /\ stack[1].type # "ARRAY"

Next ==
  \/ \E n \in DOMAIN declared : ExprId(n)
  \/ \E v \in 0 .. Max : ExprNat(v)
  \/ \E op \in {"!", "neg"} : ExprUnary(op)
  \/ \E op \in Binary \cup {"&&", "||"}, any \in Min .. Max : ExprBinary(op, any)
  \/ ExprInlineIf
  \/ ExprArray
  \/ \E op \in {"="} \cup Compounds : ExprAssignment(op)
  \/ \E op \in {"++", "--"} : ExprIncrement(op)
  \/ ExprComma
  \/ DeclareVariable \/ DeclareConstant \/ BindParameter
  \/ EvaluateConstant \/ AcceptGuard \/ AcceptInvariant \/ AcceptAssignment

Spec == Init /\ [][Next]_vars

-----------------------------------------------------------------------------
(***************************************************************************)
(* Properties.                                                             *)
(***************************************************************************)
Built == stack[1]

\* A constant is evaluated to what it means, whatever the store, when it means
\* something; it dies only where it means nothing, or reads a cell of an array
\* parameter.  What is not computable when the model is compiled may be
\* refused.  Left out: cells of variables, which are read in their initial
\* values (eval_integer_constant).
ConstantsRight ==
  phase = "constant" /\ "mutable" \notin Built.flags =>
    \A s \in scope.stores :
      Defined(Built.means[s]) =>
        \/ Built.value = Built.means[s]
        \/ Built.value = Error /\ "uncomputable" \in Built.flags
        \/ Built.value = Crash /\ "parameter" \in Built.flags

\* The store m is between u and w: half way for clocks, and equal to both for
\* the other cells.
Between(u, m, w) ==
  /\ DOMAIN u = DOMAIN m /\ DOMAIN w = DOMAIN m
  /\ \A c \in DOMAIN m : IF c[1] \in Clocks THEN 2 * m[c] = u[c] + w[c] ELSE u[c] = m[c] /\ w[c] = m[c]

Holds(v) == v # 0 /\ Defined(v)

\* Guards and invariants that are accepted denote convex sets of clocks, the
\* only ones of TChecker: if one holds in two stores, it holds half way between
\* them, where it means something (checkExpression).
GuardsConvex ==
  phase \in {"guard", "invariant"} /\ "numbers" \notin Built.flags =>
    \A u, m, w \in scope.stores :
      Between(u, m, w) /\ Holds(Built.means[u]) /\ Holds(Built.means[w])
        => Built.means[m] # 0
=============================================================================
