------------------------------ MODULE Expressions ------------------------------
(***************************************************************************)
(* What is written of expressions (utot-expr.cc): guards, invariants and   *)
(* assignments, as a sequence of tokens, once they are built and typed.    *)
(*                                                                         *)
(* A tree is kept for each expression on the stack, [op, sub, name, val,   *)
(* value, flags], where value and flags are those of the expression, and   *)
(* for the initialiser, or the argument, of what is declared.              *)
(***************************************************************************)
EXTENDS TypedExpressions
LOCAL INSTANCE TLC   \* ToString

VARIABLES
  trees,   \* the trees of the expressions on the stack
  bodies,  \* the tree of what each identifier is initialised with, or stands for
  result   \* [kind, text], kind "none", "text", "error" or "crash"

allVars == <<vars, trees, bodies, result>>

Node(op, sub) == [op |-> op, sub |-> sub, name |-> "", val |-> 0, value |-> Error, flags |-> {}]
Name(n) == [Node("id", <<>>) EXCEPT !.name = n]
Literal(v) == [Node("nat", <<>>) EXCEPT !.val = v]
Cell(n, i) == Node("[]", <<Name(n), i>>)

-----------------------------------------------------------------------------
(***************************************************************************)
(* The text of expressions and assignments.                                *)
(***************************************************************************)
NoText == <<"error">>
Died == <<"crash">>

\* The parts one after the other, or the first failure among them.
RECURSIVE Text(_)
Text(parts) ==
  IF parts = <<>> THEN <<>>
  ELSE IF Head(parts) \in {NoText, Died} THEN Head(parts)
  ELSE LET rest == Text(Tail(parts))
       IN  IF rest \in {NoText, Died} THEN rest ELSE Head(parts) \o rest

Digits(v) == IF v < 0 THEN <<"-", ToString(-v)>> ELSE <<ToString(v)>>

\* Mutated form: no parentheses.
BareBinary(op, a, b) == Text(<<a, <<op>>, b>>)

BinaryText(op, a, b) == Text(<< <<"(">>, a, <<op>>, b, <<")">> >>)

\* The last token is extended with the index.
WithIndex(t, i) ==
  IF t \in {NoText, Died} THEN t
  ELSE [t EXCEPT ![Len(t)] = t[Len(t)] \o "_" \o ToString(i)]

\* The array is written as one: it has equal initial values or is a parameter.
Whole(d) == d.param \/ \A i, j \in DOMAIN d.cells : d.cells[i] = d.cells[j]

\* translate_expression.
RECURSIVE Translate(_)
Translate(e) ==
  CASE e.op = "nat" -> Digits(e.val)
    [] e.op = "id" -> IF declared[e.name].param THEN Translate(bodies[e.name]) ELSE <<e.name>>
    [] e.op = "[]" ->
         LET d == declared[e.sub[1].name]
             i == e.sub[2].value
             array == Translate(e.sub[1])
         IN  IF Whole(d)
             THEN Text(<<array, <<"[">>, Translate(e.sub[2]),
                         IF d.lo = 0 THEN <<>> ELSE <<"-">> \o Digits(d.lo), <<"]">> >>)
             ELSE IF i = Crash THEN Died
             ELSE IF Failed(i) \/ i \notin d.lo .. d.hi THEN NoText
             ELSE WithIndex(array, i)
    [] e.op = "!" -> Text(<< <<"!", "(">>, Translate(e.sub[1]), <<")">> >>)
    [] e.op = "neg" -> Text(<< <<"-", "(">>, Translate(e.sub[1]), <<")">> >>)
    [] e.op = "||" ->
         Text(<< <<"!", "(", "!", "(">>, Translate(e.sub[1]), <<")", "&&", "!", "(">>,
                 Translate(e.sub[2]), <<")", ")">> >>)
    [] e.op = "?:" ->
         Text(<< <<"(", "if">>, Translate(e.sub[1]), <<"then">>, Translate(e.sub[2]),
                 <<"else">>, Translate(e.sub[3]), <<")">> >>)
    [] e.op \in {"+", "-", "*", "/", "%", "&&", "==", "!="} \cup Orders ->
         BinaryText(e.op, Translate(e.sub[1]), Translate(e.sub[2]))
    [] OTHER -> NoText

\* Mutated form: the operands are swapped.
SwappedAssign(x, op, a) == Text(<<x, <<"=">>, a, <<op>>, x>>)

\* s_assign_binary_op
AssignBinary(x, op, a) == Text(<<x, <<"=">>, x, <<op>>, a>>)

\* The operator of a compound assignment.
Compound == [o \in Compounds \cup {"++", "--"} |->
               CASE o \in {"+=", "++"} -> "+" [] o \in {"-=", "--"} -> "-"
                 [] o = "*=" -> "*" [] o = "/=" -> "/"]

\* translate_assignment
RECURSIVE TranslateAssignment(_)
TranslateAssignment(e) ==
  CASE e.op = "=" ->
         Text(<<Translate(e.sub[1]), <<"=">>, Translate(e.sub[2])>>)
    [] e.op \in Compounds ->
         AssignBinary(Translate(e.sub[1]), Compound[e.op], Translate(e.sub[2]))
    [] e.op \in {"++", "--"} -> AssignBinary(Translate(e.sub[1]), Compound[e.op], <<"1">>)
    [] e.op = "," ->
         Text(<<TranslateAssignment(e.sub[1]), <<";">>, TranslateAssignment(e.sub[2])>>)
    [] e.op = "nat" /\ e.val # 0 -> <<"nop">>
    [] OTHER -> NoText

-----------------------------------------------------------------------------
(***************************************************************************)
(* What TChecker reads: operators with their usual precedences, and        *)
(* statements separated by ";".  The tree is put in terms of the model: the*)
(* cell k of an array of TChecker is the cell lo + k, and b_1 is b[1].      *)
(***************************************************************************)
Level == << {"&&"}, {"==", "!="} \cup Orders, {"+", "-"}, {"*", "/", "%"} >>
Numerals == {ToString(v) : v \in 0 .. Max}
Arrays == {n \in DOMAIN declared : declared[n].kind = "array" /\ ~declared[n].param}
Scalars == {n \in DOMAIN declared : declared[n].kind # "array" /\ ~declared[n].param}
FlatCells == {<<n, i>> \in Arrays \X (0 .. Max) : ~Whole(declared[n]) /\ i \in declared[n].lo .. declared[n].hi}
FlatName(c) == c[1] \o "_" \o ToString(c[2])
FlatNames == {FlatName(c) : c \in FlatCells}

Unreadable == [tree |-> Node("unreadable", <<>>), rest |-> <<>>]
Read(tree, rest) == [tree |-> tree, rest |-> rest]

\* The token is next, and what follows it.
Follows(r, token) == r.rest # <<>> /\ Head(r.rest) = token
After(r) == Tail(r.rest)
Ok(r) == r.tree.op # "unreadable"

RECURSIVE ReadLevel(_, _), ReadMore(_, _), ReadAtom(_)
ReadLevel(level, t) == IF level > 4 THEN ReadAtom(t) ELSE ReadMore(level, ReadLevel(level + 1, t))

ReadMore(level, r) ==
  IF ~Ok(r) \/ r.rest = <<>> \/ Head(r.rest) \notin Level[level] THEN r
  ELSE LET right == ReadLevel(level + 1, After(r))
       IN  IF ~Ok(right) THEN Unreadable
           ELSE ReadMore(level, Read(Node(Head(r.rest), <<r.tree, right.tree>>), right.rest))

ReadAtom(t) ==
  IF t = <<>> THEN Unreadable
  ELSE CASE Head(t) \in {"!", "-"} ->
              LET r == ReadAtom(Tail(t))
              IN  IF ~Ok(r) THEN r
                  ELSE Read(Node(IF Head(t) = "-" THEN "neg" ELSE "!", <<r.tree>>), r.rest)
         [] Head(t) = "(" /\ Len(t) > 1 /\ t[2] = "if" ->
              LET c == ReadLevel(1, Tail(Tail(t)))
                  e == IF Ok(c) /\ Follows(c, "then") THEN ReadLevel(1, After(c)) ELSE Unreadable
                  f == IF Ok(e) /\ Follows(e, "else") THEN ReadLevel(1, After(e)) ELSE Unreadable
              IN  IF Ok(f) /\ Follows(f, ")")
                  THEN Read(Node("?:", <<c.tree, e.tree, f.tree>>), After(f)) ELSE Unreadable
         [] Head(t) = "(" /\ ~(Len(t) > 1 /\ t[2] = "if") ->
              LET r == ReadLevel(1, Tail(t))
              IN  IF Ok(r) /\ Follows(r, ")") THEN Read(r.tree, After(r)) ELSE Unreadable
         [] Head(t) \in Numerals -> Read(Literal(CHOOSE v \in 0 .. Max : ToString(v) = Head(t)), Tail(t))
         [] Head(t) \in Scalars -> Read(Name(Head(t)), Tail(t))
         [] Head(t) \in FlatNames ->
              LET c == CHOOSE x \in FlatCells : FlatName(x) = Head(t)
              IN  Read(Cell(c[1], Literal(c[2])), Tail(t))
         [] Head(t) \in Arrays /\ Whole(declared[Head(t)]) /\ Len(t) > 1 /\ t[2] = "[" ->
              LET r == ReadLevel(1, Tail(Tail(t)))
                  lo == declared[Head(t)].lo
              IN  IF Ok(r) /\ Follows(r, "]")
                  THEN Read(Cell(Head(t), IF lo = 0 THEN r.tree ELSE Node("+", <<r.tree, Literal(lo)>>)),
                            After(r))
                  ELSE Unreadable
         [] OTHER -> Unreadable

\* A whole text as an expression.
ReadExpression(t) ==
  LET r == ReadLevel(1, t) IN IF r.rest = <<>> THEN r.tree ELSE Unreadable.tree

\* A statement, from its left side: 1, which does nothing, or an assignment.
AssignTo(x, right) ==
  IF Ok(right) THEN Read(Node("=", <<x, right.tree>>), right.rest) ELSE Unreadable

StatementFrom(left) ==
  IF left.tree.op = "nat" THEN left
  ELSE IF left.tree.op \in {"id", "[]"} /\ Follows(left, "=")
  THEN AssignTo(left.tree, ReadLevel(1, After(left))) ELSE Unreadable

ReadStatement(t) ==
  StatementFrom(IF t # <<>> /\ Head(t) = "nop" THEN Read(Literal(1), Tail(t)) ELSE ReadLevel(1, t))

\* A whole text as statements.
Sequence(first, more) == IF more.op = "unreadable" THEN more ELSE Node(",", <<first, more>>)

RECURSIVE StatementsFrom(_)
StatementsFrom(first) ==
  IF first.rest = <<>> THEN first.tree
  ELSE IF Follows(first, ";") THEN Sequence(first.tree, StatementsFrom(ReadStatement(After(first))))
  ELSE Unreadable.tree

ReadStatements(t) == StatementsFrom(ReadStatement(t))

-----------------------------------------------------------------------------
(***************************************************************************)
(* What trees mean to Uppaal, in any store.  A value parameter holds its   *)
(* argument as long as nothing is assigned to it.                          *)
(***************************************************************************)
RECURSIVE Meaning(_, _), Place(_, _)
Meaning(e, s) ==
  CASE e.op = "nat" -> e.val
    [] e.op = "id" ->
         LET d == declared[e.name]
         IN  IF d.param \/ d.const THEN Meaning(bodies[e.name], s) ELSE MeaningCell(s, e.name, 0)
    [] e.op = "[]" -> MeaningCell(s, Place(e.sub[1], s)[1], Meaning(e.sub[2], s))
    [] e.op \in {"!", "neg"} -> MeaningUnary(e.op, Meaning(e.sub[1], s))
    [] e.op = "?:" -> MeaningConditional(Meaning(e.sub[1], s), Meaning(e.sub[2], s), Meaning(e.sub[3], s))
    [] e.op \in Binary \cup {"&&", "||"} -> MeaningBinary(e.op, Meaning(e.sub[1], s), Meaning(e.sub[2], s))
    [] OTHER -> Undefined

\* The cell an expression stands for, or Nowhere.
Nowhere == <<"nowhere", 0>>
Place(e, s) ==
  IF e.op = "id"
  THEN IF declared[e.name].param THEN Place(bodies[e.name], s) ELSE <<e.name, 0>>
  ELSE IF e.op # "[]" THEN Nowhere
  ELSE LET i == Meaning(e.sub[2], s)
           a == Place(e.sub[1], s)[1]
       IN  IF a = "nowhere" \/ ~Defined(i) THEN Nowhere ELSE <<a, i>>

\* The store after assignments, or Stuck.
Stuck == <<>>
Changes == {"=", "++", "--"} \cup Compounds
RECURSIVE Effect(_, _)
Effect(e, s) ==
  IF s = Stuck THEN s
  ELSE IF e.op = "," THEN Effect(e.sub[2], Effect(e.sub[1], s))
  ELSE IF e.op \in Changes
  THEN LET c == Place(e.sub[1], s)
           one == IF e.op \in {"++", "--"} THEN Literal(1) ELSE e.sub[2]
           v == Meaning(IF e.op = "=" THEN one ELSE Node(Compound[e.op], <<e.sub[1], one>>), s)
       IN  IF c \in DOMAIN s /\ Defined(v) THEN [s EXCEPT ![c] = v] ELSE Stuck
  ELSE IF Defined(Meaning(e, s)) THEN s ELSE Stuck

-----------------------------------------------------------------------------
(***************************************************************************)
(* Behaviour: trees grow with the expressions on the stack.                *)
(***************************************************************************)
NoResult == [kind |-> "none", text |-> <<>>]

TextInit == Init /\ trees = <<>> /\ bodies = <<>> /\ result = NoResult

\* The node on top of the k last trees, with what is known of its expression.
Plant(k, e) ==
  /\ LET top == stack'[Len(stack')]
     IN  trees' = Append(SubSeq(trees, 1, Len(trees) - k), [e EXCEPT !.value = top.value, !.flags = top.flags])
  /\ UNCHANGED <<bodies, result>>

Operands(k) == SubSeq(trees, Len(trees) - k + 1, Len(trees))
Grow(op, k) == Plant(k, Node(op, Operands(k)))

\* What is declared has the tree of its expression, if it has one.
Root ==
  /\ bodies' = [n \in DOMAIN declared' |->
                  IF n # Declaration.name THEN bodies[n]
                  ELSE IF HasExpression(Declaration) THEN trees[1] ELSE Name(n)]
  /\ trees' = <<>>
  /\ UNCHANGED result

TextResult(t) ==
  IF t = NoText THEN [NoResult EXCEPT !.kind = "error"]
  ELSE IF t = Died THEN [NoResult EXCEPT !.kind = "crash"]
  ELSE [NoResult EXCEPT !.kind = "text", !.text = t]

Write(t) ==
  /\ result' = IF phase' = "refused" THEN NoResult ELSE TextResult(t)
  /\ UNCHANGED <<trees, bodies>>

TranslateGuard == AcceptGuard /\ Write(Translate(trees[1]))

\* RateDecomposer: the invariant is put after the constant 1.
TranslateInvariant == AcceptInvariant /\ Write(Translate(Node("&&", <<Literal(1), trees[1]>>)))

TranslateUpdate == AcceptAssignment /\ Write(TranslateAssignment(trees[1]))

TextNext ==
  \/ \E n \in DOMAIN declared : ExprId(n) /\ Plant(0, Name(n))
  \/ \E v \in 0 .. Max : ExprNat(v) /\ Plant(0, Literal(v))
  \/ \E op \in {"!", "neg"} : ExprUnary(op) /\ Grow(op, 1)
  \/ \E op \in Binary \cup {"&&", "||"}, any \in Min .. Max : ExprBinary(op, any) /\ Grow(op, 2)
  \/ ExprInlineIf /\ Grow("?:", 3)
  \/ ExprArray /\ Grow("[]", 2)
  \/ \E op \in {"="} \cup Compounds : ExprAssignment(op) /\ Grow(op, 2)
  \/ \E op \in {"++", "--"} : ExprIncrement(op) /\ Grow(op, 1)
  \/ ExprComma /\ Grow(",", 2)
  \/ DeclareVariable /\ Root
  \/ DeclareConstant /\ Root
  \/ BindParameter /\ Root
  \/ EvaluateConstant /\ UNCHANGED <<trees, bodies, result>>
  \/ TranslateGuard \/ TranslateInvariant \/ TranslateUpdate

TextSpec == TextInit /\ [][TextNext]_allVars

-----------------------------------------------------------------------------
(***************************************************************************)
(* Properties.                                                             *)
(***************************************************************************)
RECURSIVE Nodes(_)
Nodes(e) == {e} \cup UNION {Nodes(e.sub[i]) : i \in DOMAIN e.sub}

\* The index of a cell written by its name depends on a cell of an array that
\* is not constant.
IndexReadsMutable(e) ==
  \E f \in Nodes(e) : f.op = "[]" /\ ~Whole(declared[f.sub[1].name]) /\ "mutable" \in f.sub[2].flags

\* A conditional expression is assigned to, or a parameter that has a copy.
UnwritableTarget(e) ==
  \E f \in Nodes(e) :
    /\ f.op \in Changes
    /\ \/ f.sub[1].op \notin {"id", "[]"}
       \/ f.sub[1].op = "id" /\ declared[f.sub[1].name].param /\ ~declared[f.sub[1].name].ref

\* A guard or an invariant reads back with the meaning it has in the model, in
\* every store: parentheses, indices from another base, arguments of
\* parameters, disjunctions (translate_expression).
TextMeansTheSame ==
  phase \in {"guard", "invariant"} /\ result.kind = "text" /\ ~IndexReadsMutable(trees[1]) =>
    LET e == ReadExpression(result.text)
    IN  /\ e.op # "unreadable"
        /\ \A s \in scope.stores :
             LET v == Built.means[s]
                 w == Meaning(e, s)
             IN  Defined(v) => (w # 0) = (v # 0) /\ Defined(w)

\* Assignments read back with the effects they have in the model, one after the
\* other, in every store (translate_assignment).
EffectsTheSame ==
  phase = "assignment" /\ result.kind = "text" /\ ~UnwritableTarget(trees[1]) /\ ~IndexReadsMutable(trees[1]) =>
    LET e == ReadStatements(result.text)
    IN  /\ e.op # "unreadable"
        /\ \A s \in scope.stores :
             Effect(trees[1], s) # Stuck => Effect(e, s) = Effect(trees[1], s)
=============================================================================
