----------------------------- MODULE Declarations -----------------------------
(***************************************************************************)
(* The declaration of variables (utot-decl.cc) and the references to their *)
(* cells in expressions (the case ARRAY of translate_expression).  An array*)
(* is declared as one TChecker array when it has one dimension and equal   *)
(* initial values, and is flattened into one variable per cell otherwise;  *)
(* the declaration and each use decide apart which it is.                  *)
(*                                                                         *)
(* A variable is [base, dims, named, init]:                                *)
(*   base  : [kind, lo, hi], its elements; a range, a bool (0..1), a const,*)
(*           a clock, a chan or a kind that is not supported ("other")     *)
(*   dims  : the bounds [lo, hi] of its dimensions, <<>> if not an array   *)
(*   named : the numbers of dimensions after which the type left is a name *)
(*           introduced by typedef                                         *)
(*   init  : <<>>, or <<f>> with f[c] = [val, form] for each cell c, form  *)
(*           telling apart expressions of the same value                   *)
(* A cell is the sequence of its indices.                                  *)
(***************************************************************************)
EXTENDS Integers, Sequences, FiniteSets

CONSTANTS
  Programs,   \* the sequences of variables that may be declared
  UsesOf(_),  \* the uses that may be made of the variables of a program
  MaxUses     \* bound: the number of uses translated

VARIABLES
  program,  \* the variables being declared
  phase,    \* "declare", "flatten", "use", or "failed", "aborted"
  pos,      \* the position of the variable to declare
  left,     \* in "flatten", the cells of that variable still to declare
  lines,    \* output: the declarations, [var, cell, kind, size, min, max, init]
  refs      \* output: the references, <<use, [var, cell, sub]>>

vars == <<program, phase, pos, left, lines, refs>>

-----------------------------------------------------------------------------
Cells(v) ==
  {c \in [DOMAIN v.dims -> UNION {v.dims[k].lo .. v.dims[k].hi : k \in DOMAIN v.dims}] :
     \A k \in DOMAIN v.dims : c[k] \in v.dims[k].lo .. v.dims[k].hi}

\* What the parser hands over.
IsVariable(v) ==
  /\ v.base \in [kind : {"range", "bool", "const", "clock", "chan", "other"}, lo : Int, hi : Int]
  /\ v.dims \in Seq([lo : Int, hi : Int])
  /\ v.init # <<>> => Len(v.init) = 1 /\ v.init[1] \in [Cells(v) -> [val : Int, form : STRING]]

IsUse(P, u) ==
  /\ u.var \in DOMAIN P /\ u.ref \in BOOLEAN
  /\ u.pre \in Seq([dyn : BOOLEAN, val : Int]) /\ u.idx \in Seq([dyn : BOOLEAN, val : Int])

ASSUME ProgramsAssumption ==
  \A P \in Programs : /\ Len(P) \in Nat /\ DOMAIN P = 1 .. Len(P)
                      /\ \A k \in DOMAIN P : IsVariable(P[k])
                      /\ \A u \in UsesOf(P) : IsUse(P, u)

EmptyRange(b) == b.lo > b.hi

Basic(v) == v.base.kind \in {"bool", "clock", "range"}

\* is_one_dim_array_type
OneDim(v) == Len(v.dims) = 1 /\ Basic(v)

\* are_all_equals_in_list: the elements along the first dimension are the same
\* expressions.
AllEqual(v) ==
  v.init # <<>> => \A c, d \in Cells(v) : Tail(c) = Tail(d) => v.init[1][c] = v.init[1][d]

\* Whether translate_declarations keeps the array as it is.
Kept(v) == OneDim(v) /\ AllEqual(v)

\* The default of s_output_integer_variable, and that of s_declare_one_dim_array.
VariableDefault(b) == IF b.lo <= 0 /\ 0 <= b.hi THEN 0 ELSE b.lo

\* Mutated form: the test on the lower bound is turned round.
TurnedDefault(b) == IF b.lo <= 0 \/ b.hi <= 0 THEN b.lo ELSE 0

ArrayDefault(b) == IF 0 <= b.lo \/ b.hi <= 0 THEN b.lo ELSE 0

\* The value a cell begins with.
InitialValue(v, c) ==
  IF v.init # <<>> THEN v.init[1][c].val
  ELSE IF Kept(v) THEN ArrayDefault(v.base) ELSE VariableDefault(v.base)

Domain(v, c) ==
  IF v.base.kind = "const" THEN [lo |-> InitialValue(v, c), hi |-> InitialValue(v, c)]
  ELSE [lo |-> v.base.lo, hi |-> v.base.hi]

Line(kind, size, v, name, c) ==
  IF kind = "clock"
  THEN [var |-> pos, cell |-> name, kind |-> kind, size |-> size, min |-> 0, max |-> 0, init |-> 0]
  ELSE [var |-> pos, cell |-> name, kind |-> kind, size |-> size,
        min |-> Domain(v, c).lo, max |-> Domain(v, c).hi, init |-> InitialValue(v, c)]

\* Mutated form: the initial value is not compared with the domain.
UncheckedInitial(v, c) == ~EmptyRange(v.base)

\* The tests that precede the output of an integer variable or array.
InitialInDomain(v, c) ==
  InitialValue(v, c) \in Domain(v, c).lo .. Domain(v, c).hi

-----------------------------------------------------------------------------
Init ==
  /\ program \in Programs
  /\ phase = "declare" /\ pos = 1 /\ left = {}
  /\ lines = {} /\ refs = {}

Var == program[pos]

Fail == phase' = "failed" /\ UNCHANGED <<program, pos, left, lines, refs>>

Declaring == phase = "declare" /\ pos <= Len(program)

\* A variable that is not an array; a channel is left to s_build_edge_label.
DeclareVariable ==
  /\ Declaring /\ Var.dims = <<>>
  /\ IF Var.base.kind = "other" \/
        (Var.base.kind \in {"bool", "range", "const"} /\ ~InitialInDomain(Var, <<>>))
     THEN Fail
     ELSE /\ lines' = IF Var.base.kind = "chan" THEN lines
                      ELSE lines \cup {Line(IF Var.base.kind = "clock" THEN "clock" ELSE "int",
                                            1, Var, <<>>, <<>>)}
          /\ pos' = pos + 1
          /\ UNCHANGED <<program, phase, left, refs>>

\* An array declared as one TChecker array.
DeclareArray ==
  /\ Declaring /\ Var.dims # <<>> /\ Kept(Var)
  /\ LET first == <<Var.dims[1].lo>>
         size == Var.dims[1].hi - Var.dims[1].lo + 1
     IN  IF EmptyRange(Var.dims[1]) \/
            (Var.base.kind # "clock" /\ ~InitialInDomain(Var, first))
         THEN Fail
         ELSE /\ lines' = lines \cup {Line(IF Var.base.kind = "clock" THEN "clock" ELSE "int",
                                           size, Var, <<>>, first)}
              /\ pos' = pos + 1
              /\ UNCHANGED <<program, phase, left, refs>>

\* An array is flattened: its cells are enumerated by
\* s_enumerate_array_elements_decl, in the order of their indices.
FlattenArray ==
  /\ Declaring /\ Var.dims # <<>> /\ ~Kept(Var)
  /\ IF \E k \in DOMAIN Var.dims : EmptyRange(Var.dims[k])
     THEN Fail
     ELSE /\ phase' = "flatten"
          /\ left' = Cells(Var)
          /\ UNCHANGED <<program, pos, lines, refs>>

Before(c, d) == \E k \in DOMAIN c : c[k] < d[k] /\ \A j \in 1 .. k - 1 : c[j] = d[j]

\* The enumeration stops where the type is no more an array, or is a name: it
\* does not look through the names.
Hidden(v) == \E k \in 1 .. Len(v.dims) - 1 : k \in v.named

Leaf(v) ==
  IF Hidden(v) THEN "array" ELSE v.base.kind

\* A channel or a clock is recognised unless its type is a name.
Recognised(v, kind) == v.base.kind = kind /\ ~Hidden(v) /\ Len(v.dims) \notin v.named

\* The assertion of s_output_integer_variable on what is left.
IntegerLeaf(v) ==
  Recognised(v, "chan") \/ Recognised(v, "clock") \/ Leaf(v) \in {"bool", "range", "const"}

DeclareCell(c) ==
  /\ phase = "flatten" /\ IntegerLeaf(Var)
  /\ \A d \in left \ {c} : Before(c, d)
  /\ IF Var.base.kind \in {"bool", "range", "const"} /\ ~InitialInDomain(Var, c)
     THEN Fail
     ELSE /\ lines' = IF Var.base.kind = "chan" THEN lines
                      ELSE lines \cup {Line(IF Var.base.kind = "clock" THEN "clock" ELSE "int",
                                            1, Var, c, c)}
          /\ left' = left \ {c}
          /\ phase' = IF left' = {} THEN "declare" ELSE "flatten"
          /\ pos' = IF left' = {} THEN pos + 1 ELSE pos
          /\ UNCHANGED <<program, refs>>

AbortCell ==
  /\ phase = "flatten" /\ ~IntegerLeaf(Var)
  /\ phase' = "aborted"
  /\ UNCHANGED <<program, pos, left, lines, refs>>

EndDeclarations ==
  /\ phase = "declare" /\ pos > Len(program)
  /\ phase' = "use"
  /\ UNCHANGED <<program, pos, left, lines, refs>>

-----------------------------------------------------------------------------
(***************************************************************************)
(* A use is [var, ref, pre, idx]: the indices idx applied to the variable, *)
(* or, when ref, to a parameter that stands by reference for what the      *)
(* indices pre, constants, leave of the variable.  An index is [dyn, val], *)
(* val the value it has when the model runs, known to the translation      *)
(* unless dyn.                                                             *)
(***************************************************************************)
Indices(u) == u.pre \o u.idx

Cell(u) == [k \in DOMAIN Indices(u) |-> Indices(u)[k].val]

\* Mutated form: an array is written as declared in one piece whatever its
\* initial values.
AlwaysSubscripted(u) ==
  LET v == program[u.var]
  IN  v.dims # <<>> /\ Len(Indices(u)) = Len(v.dims) /\ Basic(v)

\* is_one_dim_array_variable on the last index: a parameter has no data, so
\* that the initial values of the array it stands for are not looked at, and
\* neither are the dimensions before the last.
Subscripted(u) ==
  LET v == program[u.var]
  IN  /\ v.dims # <<>> /\ Len(Indices(u)) = Len(v.dims)
      /\ Basic(v)
      /\ (u.ref /\ u.idx # <<>>) \/ AllEqual(v)

Flattened(u) == IF Subscripted(u) THEN 1 .. Len(Indices(u)) - 1 ELSE DOMAIN Indices(u)

\* Mutated form: only the last of the indices is joined to the name.
RowForgotten(u) ==
  LET n == Len(Indices(u))
  IN  [var |-> u.var, cell |-> IF n \in Flattened(u) THEN <<Cell(u)[n]>> ELSE <<>>,
       sub |-> IF Subscripted(u) THEN <<Cell(u)[n] - program[u.var].dims[n].lo>> ELSE <<>>]

\* What is written: indices joined to the name, and a subscript less the first
\* index.
Reference(u) ==
  LET n == Len(Indices(u))
  IN  [var |-> u.var, cell |-> [k \in Flattened(u) |-> Cell(u)[k]],
       sub |-> IF Subscripted(u) THEN <<Cell(u)[n] - program[u.var].dims[n].lo>> ELSE <<>>]

\* The indices joined to the name have to be constants within the bounds.
Translatable(u) ==
  \A k \in Flattened(u) :
    /\ ~Indices(u)[k].dyn
    /\ Cell(u)[k] \in program[u.var].dims[k].lo .. program[u.var].dims[k].hi

TranslateUse(u) ==
  /\ phase = "use" /\ Cardinality(refs) < MaxUses
  /\ Translatable(u)
  /\ refs' = refs \cup {<<u, Reference(u)>>}
  /\ UNCHANGED <<program, phase, pos, left, lines>>

FailUse(u) ==
  /\ phase = "use" /\ Cardinality(refs) < MaxUses
  /\ ~Translatable(u)
  /\ Fail

Next ==
  \/ DeclareVariable \/ DeclareArray \/ FlattenArray \/ EndDeclarations
  \/ \E c \in left : DeclareCell(c)
  \/ AbortCell
  \/ \E u \in UsesOf(program) : TranslateUse(u) \/ FailUse(u)

Spec == Init /\ [][Next]_vars

-----------------------------------------------------------------------------
\* Every integer declared satisfies the assertions of outputter::intvar, and no
\* name is declared twice.
LinesWellFormed ==
  /\ \A l \in lines : l.min <= l.max /\ l.min <= l.init /\ l.init <= l.max
  /\ \A l, m \in lines : l.var = m.var /\ l.cell = m.cell => l = m

\* The uses for which the decision taken by the declaration and the one taken
\* by the use differ: a flattened array whose elements have equal rows and more
\* than one dimension, or that is reached through a parameter.
Misjudged(u) ==
  LET v == program[u.var]
  IN  ~Kept(v) /\ Basic(v) /\ ((u.ref /\ u.idx # <<>>) \/ (Len(v.dims) > 1 /\ AllEqual(v)))

\* The line a reference denotes: the name is declared, and subscripted just when
\* it is an array, within its size.
Denotes(r, l) ==
  /\ l.var = r.var /\ l.cell = r.cell
  /\ IF r.sub = <<>> THEN program[r.var].dims = <<>> \/ l.cell # <<>>
     ELSE Kept(program[r.var]) /\ r.sub[1] \in 0 .. l.size - 1

WholeCell(u) == Len(Indices(u)) = Len(program[u.var].dims)
InBounds(u) == Cell(u) \in Cells(program[u.var])

FindsCell(u, r) ==
  \E l \in lines :
    /\ Denotes(r, l)
    /\ l.kind = "int" /\ program[u.var].init # <<>> =>
         l.init = program[u.var].init[1][Cell(u)].val

\* A reference to a cell of a declared variable denotes a line of the output,
\* with the initial value of that cell, unless the use is misjudged.
UsesFindCells ==
  \A x \in refs :
    /\ WholeCell(x[1]) /\ InBounds(x[1]) /\ program[x[1].var].base.kind # "chan"
    /\ ~Misjudged(x[1])
    => FindsCell(x[1], x[2])

\* Two references are the same just when they are to the same cell.
CellsKeptApart ==
  \A x, y \in refs :
    InBounds(x[1]) /\ InBounds(y[1]) /\ ~Misjudged(x[1]) /\ ~Misjudged(y[1]) =>
      (x[2] = y[2] <=> x[1].var = y[1].var /\ Cell(x[1]) = Cell(y[1]))

\* Two cells of the same domain and without initial values begin with the same
\* value, whether declared alone, in an array or flattened; but not when the
\* domain ends at 0, where s_declare_one_dim_array takes its first value.
DefaultsAgree ==
  \A l, m \in lines :
    LET v == program[l.var]
        w == program[m.var]
    IN  /\ v.init = <<>> /\ w.init = <<>> /\ v.base = w.base
        /\ (v.base.hi = 0 => v.base.lo = 0 \/ (Kept(v) <=> Kept(w)))
        => l.init = m.init
=============================================================================
