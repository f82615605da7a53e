-------------------------- MODULE DeclarationsProofs --------------------------
(***************************************************************************)
(* Proofs about declarations and the references to them, for any programs, *)
(* any uses and any number of them.                                        *)
(***************************************************************************)
EXTENDS Declarations, ListLemmas

ProgramOK ==
  /\ Len(program) \in Nat /\ DOMAIN program = 1 .. Len(program)
  /\ \A k \in DOMAIN program : IsVariable(program[k])
  /\ \A u \in UsesOf(program) : IsUse(program, u)

\* A position is that of a variable until all are declared.
PositionOK ==
  /\ ProgramOK
  /\ pos \in 1 .. Len(program) + 1
  /\ phase = "flatten" => pos \in DOMAIN program /\ left \subseteq Cells(Var) /\ Var.dims # <<>> /\ ~Kept(Var)
  /\ phase = "use" \/ refs # {} => pos > Len(program)
  /\ phase \in {"declare", "flatten", "use", "failed", "aborted"}

\* What every line of the output is.
LineOK(l) ==
  /\ l.var \in DOMAIN program
  /\ l.min <= l.max /\ l.min <= l.init /\ l.init <= l.max
  /\ LET v == program[l.var]
     IN  v.init = <<>> =>
           l.init = IF v.base.kind = "clock" THEN 0
                    ELSE IF Kept(v) THEN ArrayDefault(v.base) ELSE VariableDefault(v.base)

\* The variable of a line comes before the one to declare, or the line is of a
\* cell that is no more to be declared.
Ordered ==
  /\ phase \in {"declare", "use"} => \A l \in lines : l.var < pos
  /\ phase = "flatten" => \A l \in lines : l.var < pos \/ (l.var = pos /\ l.cell \notin left)

NamesOnce == \A l, m \in lines : l.var = m.var /\ l.cell = m.cell => l = m

LinesInv == (\A l \in lines : LineOK(l)) /\ Ordered /\ NamesOnce

\* The line that declares the cell c of variable k, of the name its decision
\* gives it.
InOnePiece(v) == v.dims # <<>> /\ Kept(v)

IsLineOf(l, k, c) ==
  LET v == program[k]
  IN  /\ l.var = k
      /\ l.cell = IF InOnePiece(v) THEN <<>> ELSE c
      /\ InOnePiece(v) => l.size = v.dims[1].hi - v.dims[1].lo + 1
      /\ l.kind = "int" /\ v.init # <<>> => l.init = v.init[1][c].val

HasLine(k, c) == \E l \in lines : IsLineOf(l, k, c)

\* Every cell that is past has its line.
CellsHaveLines ==
  \A k \in DOMAIN program :
    program[k].base.kind # "chan" =>
      \A c \in Cells(program[k]) :
        k < pos \/ (k = pos /\ phase = "flatten" /\ c \notin left) => HasLine(k, c)

\* Every reference is that of a use.
RefsOK == \A x \in refs : x[1] \in UsesOf(program) /\ x[2] = Reference(x[1])

-----------------------------------------------------------------------------
\* Every step keeps the position of the declarations.
LEMMA PositionStep == PositionOK /\ [Next]_vars => PositionOK'
<1> SUFFICES ASSUME PositionOK, [Next]_vars PROVE PositionOK'
  OBVIOUS
<1>1. program' = program /\ ProgramOK'
  BY DEF Next, vars, Fail, DeclareVariable, DeclareArray, FlattenArray, EndDeclarations, DeclareCell, AbortCell,
     TranslateUse, FailUse, PositionOK, ProgramOK
<1> USE <1>1 DEF PositionOK, ProgramOK
<1>2. CASE DeclareVariable
  BY <1>2 DEF DeclareVariable, Declaring, Fail
<1>3. CASE DeclareArray
  BY <1>3 DEF DeclareArray, Declaring, Fail
<1>4. CASE FlattenArray
  <2>1. CASE phase' = "flatten"
    <3>1. /\ pos' = pos /\ pos \in DOMAIN program /\ left' = Cells(Var) /\ refs' = refs
          /\ phase = "declare" /\ Var.dims # <<>> /\ ~Kept(Var)
      BY <2>1, <1>4 DEF FlattenArray, Declaring, Fail
    <3>2. Cells(Var)' = Cells(Var) /\ Kept(Var)' = Kept(Var) /\ Var' = Var
      BY <3>1 DEF Var, Cells, Kept, OneDim, AllEqual, Basic
    <3> QED  BY <2>1, <3>1, <3>2
  <2> QED  BY <2>1, <1>4 DEF FlattenArray, Declaring, Fail
<1>5. CASE EndDeclarations
  BY <1>5 DEF EndDeclarations
<1>6. ASSUME NEW c \in left, DeclareCell(c) PROVE PositionOK'
  <2>1. CASE phase' = "flatten"
    <3>1. /\ pos' = pos /\ left' = left \ {c} /\ phase = "flatten" /\ refs' = refs
      BY <2>1, <1>6 DEF DeclareCell, Fail
    <3>2. Cells(Var)' = Cells(Var) /\ Kept(Var)' = Kept(Var) /\ Var' = Var
      BY <3>1 DEF Var, Cells, Kept, OneDim, AllEqual, Basic
    <3> QED  BY <2>1, <3>1, <3>2
  <2> QED  BY <2>1, <1>6 DEF DeclareCell, Fail
<1>7. CASE AbortCell
  BY <1>7 DEF AbortCell
<1>8. ASSUME NEW u \in UsesOf(program), TranslateUse(u) \/ FailUse(u) PROVE PositionOK'
  BY <1>8 DEF TranslateUse, FailUse, Fail
<1>9. CASE UNCHANGED vars
  BY <1>9 DEF vars, Var, Kept, OneDim, AllEqual, Cells, Basic
<1> QED  BY <1>2, <1>3, <1>4, <1>5, <1>6, <1>7, <1>8, <1>9 DEF Next

\* The position is right in every state.
LEMMA PositionInvariant == Spec => []PositionOK
<1>1. Init => PositionOK
  BY ProgramsAssumption DEF Init, PositionOK, ProgramOK
<1> QED  BY <1>1, PositionStep, PTL DEF Spec

-----------------------------------------------------------------------------
\* A variable that is not an array has one cell, without indices.
LEMMA OneCell ==
  ASSUME NEW v, v.dims = <<>>
  PROVE  Cells(v) = {<<>>}
<1>1. DOMAIN v.dims = {}
  BY EmptyList
<1>2. <<>> \in [{} -> {}]
  OBVIOUS
<1>3. \A c, d \in [{} -> UNION {v.dims[k].lo .. v.dims[k].hi : k \in {}}] : c = d
  OBVIOUS
<1>4. <<>> \in [{} -> UNION {v.dims[k].lo .. v.dims[k].hi : k \in {}}]
  BY <1>2
<1> QED  BY <1>1, <1>3, <1>4 DEF Cells

\* The dimensions of a variable are intervals of integers.
LEMMA Dimensions ==
  ASSUME NEW v, IsVariable(v)
  PROVE  /\ Len(v.dims) \in Nat /\ DOMAIN v.dims = 1 .. Len(v.dims)
         /\ \A k \in DOMAIN v.dims : v.dims[k].lo \in Int /\ v.dims[k].hi \in Int
<1> DEFINE S == [lo : Int, hi : Int]
           d == v.dims
<1>1. d \in Seq(S)
  BY DEF IsVariable
<1>2. \A e \in S : e.lo \in Int /\ e.hi \in Int
  OBVIOUS
<1> HIDE DEF S, d
<1>3. Len(d) \in Nat /\ DOMAIN d = 1 .. Len(d) /\ \A k \in 1 .. Len(d) : d[k] \in S
  BY <1>1, ElementOfSeq, LenProperties
<1> QED  BY <1>2, <1>3 DEF d

\* The first cell of an array of one dimension that is not empty.
LEMMA FirstCell ==
  ASSUME NEW v, IsVariable(v), Kept(v), ~EmptyRange(v.dims[1])
  PROVE  <<v.dims[1].lo>> \in Cells(v)
<1>1. Len(v.dims) = 1 /\ DOMAIN v.dims = {1} /\ v.dims[1].lo \in Int /\ v.dims[1].hi \in Int
  BY Dimensions DEF Kept, OneDim
<1>2. v.dims[1].lo \in v.dims[1].lo .. v.dims[1].hi
  BY <1>1 DEF EmptyRange
<1> DEFINE S == UNION {v.dims[k].lo .. v.dims[k].hi : k \in DOMAIN v.dims}
<1>3. v.dims[1].lo \in S
  BY <1>1, <1>2
<1>4. <<v.dims[1].lo>> \in [{1} -> S]
  BY <1>3
<1> QED  BY <1>1, <1>2, <1>4 DEF Cells

\* The value a cell begins with is a number.
LEMMA InitialIsInt ==
  ASSUME NEW v, IsVariable(v), NEW c \in Cells(v)
  PROVE  InitialValue(v, c) \in Int
BY DEF IsVariable, InitialValue, ArrayDefault, VariableDefault

\* What a line written after the tests is.
LEMMA LineValues ==
  ASSUME PositionOK, pos \in DOMAIN program, NEW c \in Cells(Var), NEW size, NEW name,
         Var.base.kind \in {"clock", "chan"} \/ InitialInDomain(Var, c)
  PROVE  LET l == Line(IF Var.base.kind = "clock" THEN "clock" ELSE "int", size, Var, name, c)
         IN  /\ l.var = pos /\ l.cell = name /\ l.size = size
             /\ Var.base.kind # "chan" => LineOK(l)
             /\ l.kind = "int" /\ Var.init # <<>> => l.init = Var.init[1][c].val
<1> DEFINE v == Var
           l == Line(IF Var.base.kind = "clock" THEN "clock" ELSE "int", size, Var, name, c)
<1>1. IsVariable(v) /\ InitialValue(v, c) \in Int
  BY InitialIsInt DEF PositionOK, ProgramOK, Var
<1>2. l.var = pos /\ l.cell = name /\ l.size = size
  BY DEF Line
<1>3. CASE v.base.kind = "clock"
  <2>1. l.min = 0 /\ l.max = 0 /\ l.init = 0 /\ l.kind = "clock"
    BY <1>3 DEF Line
  <2> QED  BY <1>2, <1>3, <2>1 DEF LineOK, Var
<1>4. CASE v.base.kind # "clock"
  <2>1. l.min = Domain(v, c).lo /\ l.max = Domain(v, c).hi /\ l.init = InitialValue(v, c)
    BY <1>4 DEF Line
  <2>2. v.base.kind # "chan" => l.min <= l.init /\ l.init <= l.max /\ l.min <= l.max
    BY <1>1, <1>4, <2>1 DEF InitialInDomain, Domain, IsVariable
  <2>3. v.init = <<>> => l.init = IF Kept(v) THEN ArrayDefault(v.base) ELSE VariableDefault(v.base)
    BY <2>1 DEF InitialValue
  <2>4. v.init # <<>> => l.init = v.init[1][c].val
    BY <2>1 DEF InitialValue
  <2> QED  BY <1>2, <1>4, <2>2, <2>3, <2>4 DEF LineOK, Var
<1> QED  BY <1>3, <1>4, <1>2

\* The cells of an array of one dimension have nothing after the first index.
LEMMA OneIndex ==
  ASSUME NEW v, IsVariable(v), Len(v.dims) = 1, NEW c \in Cells(v)
  PROVE  Tail(c) = <<>>
<1> DEFINE S == UNION {v.dims[k].lo .. v.dims[k].hi : k \in DOMAIN v.dims}
<1>1. c \in [1 .. 1 -> S]
  BY Dimensions DEF Cells
<1> HIDE DEF S
<1>2. c \in Seq(S) /\ Len(c) = 1
  <2>1. c \in Seq(S)
    <3>1. \A n \in Nat : [1 .. n -> S] \subseteq Seq(S)
      BY SeqDef
    <3>2. [1 .. 1 -> S] \subseteq Seq(S)
      BY <3>1
    <3> QED  BY <1>1, <3>2
  <2>2. DOMAIN c = 1 .. 1 /\ DOMAIN c = 1 .. Len(c) /\ Len(c) \in Nat
    BY <1>1, <2>1, LenProperties
  <2> QED  BY <2>1, <2>2
<1>3. Tail(c) \in Seq(S) /\ Len(Tail(c)) = 0
  BY <1>2, HeadTailProperties, EmptySeq
<1> QED  BY <1>3, EmptySeq

-----------------------------------------------------------------------------
\* The step that declares a variable, or an array in one piece, writes the line
\* of all its cells.
LEMMA WholeDeclared ==
  ASSUME PositionOK, DeclareVariable \/ DeclareArray, phase' = "declare"
  PROVE  /\ phase = "declare" /\ pos \in DOMAIN program /\ pos' = pos + 1
         /\ \/ Var.base.kind = "chan" /\ lines' = lines
            \/ \E l : /\ lines' = lines \cup {l}
                      /\ LineOK(l) /\ l.var = pos /\ \A c \in Cells(Var) : IsLineOf(l, pos, c)
<1>1. phase = "declare" /\ pos \in DOMAIN program /\ pos' = pos + 1
  BY DEF DeclareVariable, DeclareArray, Declaring, Fail, PositionOK, ProgramOK
<1>2. IsVariable(Var)
  BY <1>1 DEF PositionOK, ProgramOK, Var
<1>3. CASE DeclareVariable
  <2>1. Var.dims = <<>> /\ Cells(Var) = {<<>>}
    BY <1>3, OneCell DEF DeclareVariable
  <2>2. Var.base.kind \in {"clock", "chan"} \/ InitialInDomain(Var, <<>>)
    BY <1>1, <1>2, <1>3 DEF DeclareVariable, Fail, IsVariable
  <2>3. CASE Var.base.kind = "chan"
    BY <1>1, <1>3, <2>3 DEF DeclareVariable, Fail
  <2>4. CASE Var.base.kind # "chan"
    <3> DEFINE l == Line(IF Var.base.kind = "clock" THEN "clock" ELSE "int", 1, Var, <<>>, <<>>)
    <3>1. lines' = lines \cup {l}
      BY <1>1, <1>3, <2>4 DEF DeclareVariable, Fail
    <3>2. /\ l.var = pos /\ l.cell = <<>> /\ LineOK(l)
          /\ l.kind = "int" /\ Var.init # <<>> => l.init = Var.init[1][<<>>].val
      BY <1>1, <2>1, <2>2, <2>4, LineValues
    <3> HIDE DEF l
    <3>3. \A c \in Cells(Var) : IsLineOf(l, pos, c)
      BY <2>1, <3>2 DEF IsLineOf, InOnePiece, Var
    <3> QED  BY <1>1, <3>1, <3>2, <3>3
  <2> QED  BY <2>3, <2>4
<1>4. CASE DeclareArray
  <2> DEFINE first == <<Var.dims[1].lo>>
             size == Var.dims[1].hi - Var.dims[1].lo + 1
             l == Line(IF Var.base.kind = "clock" THEN "clock" ELSE "int", size, Var, <<>>, first)
  <2>1. /\ Var.dims # <<>> /\ Kept(Var) /\ ~EmptyRange(Var.dims[1])
        /\ Var.base.kind = "clock" \/ InitialInDomain(Var, first)
        /\ lines' = lines \cup {l}
    BY <1>1, <1>4 DEF DeclareArray, Fail
  <2>2. first \in Cells(Var)
    BY <1>2, <2>1, FirstCell
  <2>3. Var.base.kind # "chan" /\ Len(Var.dims) = 1
    BY <2>1 DEF Kept, OneDim, Basic
  <2>4. /\ l.var = pos /\ l.cell = <<>> /\ l.size = size /\ LineOK(l)
        /\ l.kind = "int" /\ Var.init # <<>> => l.init = Var.init[1][first].val
    <3> HIDE DEF first, size
    <3> QED  BY <1>1, <2>1, <2>2, <2>3, LineValues
  <2> HIDE DEF l, first
  <2>5. ASSUME NEW c \in Cells(Var) PROVE Var.init # <<>> => Var.init[1][c] = Var.init[1][first]
    <3>1. Tail(c) = Tail(first)
      BY <1>2, <2>2, <2>3, OneIndex
    <3> QED  BY <2>1, <2>2, <3>1 DEF Kept, AllEqual
  <2>6. \A c \in Cells(Var) : IsLineOf(l, pos, c)
    BY <2>1, <2>4, <2>5 DEF IsLineOf, InOnePiece, Var
  <2> QED  BY <1>1, <2>1, <2>4, <2>6
<1> QED  BY <1>3, <1>4

\* The step that declares a cell writes its line.
LEMMA CellDeclared ==
  ASSUME PositionOK, NEW c \in left, DeclareCell(c), phase' # "failed"
  PROVE  /\ phase = "flatten" /\ pos \in DOMAIN program
         /\ left' = left \ {c}
         /\ \/ left' # {} /\ phase' = "flatten" /\ pos' = pos
            \/ left' = {} /\ phase' = "declare" /\ pos' = pos + 1
         /\ \/ Var.base.kind = "chan" /\ lines' = lines
            \/ \E l : /\ lines' = lines \cup {l}
                      /\ LineOK(l) /\ l.var = pos /\ l.cell = c /\ IsLineOf(l, pos, c)
<1>1. /\ phase = "flatten" /\ pos \in DOMAIN program /\ left' = left \ {c}
      /\ \/ left' # {} /\ phase' = "flatten" /\ pos' = pos
         \/ left' = {} /\ phase' = "declare" /\ pos' = pos + 1
  BY DEF DeclareCell, Fail, PositionOK
<1>2. IsVariable(Var) /\ c \in Cells(Var) /\ ~Kept(Var) /\ Var.dims # <<>>
  BY <1>1 DEF PositionOK, ProgramOK, Var
<1>3. CASE Var.base.kind = "chan"
  BY <1>1, <1>3 DEF DeclareCell, Fail
<1>4. CASE Var.base.kind = "other"
  BY <1>1, <1>4 DEF DeclareCell, IntegerLeaf, Leaf, Recognised
<1>5. CASE Var.base.kind \notin {"chan", "other"}
  <2> DEFINE l == Line(IF Var.base.kind = "clock" THEN "clock" ELSE "int", 1, Var, c, c)
  <2>1. Var.base.kind = "clock" \/ InitialInDomain(Var, c)
    BY <1>1, <1>2, <1>5 DEF DeclareCell, Fail, IsVariable
  <2>2. lines' = lines \cup {l}
    BY <1>1, <1>5 DEF DeclareCell, Fail
  <2>3. /\ l.var = pos /\ l.cell = c /\ LineOK(l)
        /\ l.kind = "int" /\ Var.init # <<>> => l.init = Var.init[1][c].val
    BY <1>1, <1>2, <1>5, <2>1, LineValues
  <2> HIDE DEF l
  <2>4. IsLineOf(l, pos, c)
    BY <1>2, <2>3 DEF IsLineOf, InOnePiece, Var
  <2> QED  BY <1>1, <2>2, <2>3, <2>4
<1> QED  BY <1>3, <1>4, <1>5

-----------------------------------------------------------------------------
\* The steps, as far as lines and positions go.
LEMMA StepKinds ==
  ASSUME PositionOK, [Next]_vars
  PROVE  /\ program' = program
         /\ \/ (DeclareVariable \/ DeclareArray) /\ phase' = "declare"
            \/ \E c \in left : DeclareCell(c) /\ phase' # "failed"
            \/ /\ lines' = lines /\ pos' = pos
               /\ \/ phase = "declare" /\ phase' = "flatten" /\ left' = Cells(Var)
                  \/ phase = "declare" /\ phase' = "use"
                  \/ phase' \in {phase, "failed", "aborted"} /\ left' = left
<1>1. program' = program
  BY DEF Next, vars, Fail, DeclareVariable, DeclareArray, FlattenArray, EndDeclarations, DeclareCell, AbortCell,
     TranslateUse, FailUse
<1>2. CASE DeclareVariable
  BY <1>1, <1>2 DEF DeclareVariable, Declaring, Fail
<1>3. CASE DeclareArray
  BY <1>1, <1>3 DEF DeclareArray, Declaring, Fail
<1>4. CASE FlattenArray
  BY <1>1, <1>4 DEF FlattenArray, Declaring, Fail
<1>5. CASE EndDeclarations
  BY <1>1, <1>5 DEF EndDeclarations
<1>6. ASSUME NEW c \in left, DeclareCell(c)
      PROVE  phase' # "failed" \/ (lines' = lines /\ pos' = pos /\ left' = left)
  BY <1>6 DEF DeclareCell, Fail
<1>7. CASE AbortCell
  BY <1>1, <1>7 DEF AbortCell
<1>8. ASSUME NEW u \in UsesOf(program), TranslateUse(u) \/ FailUse(u)
      PROVE  lines' = lines /\ pos' = pos /\ phase' \in {phase, "failed"} /\ left' = left
  BY <1>8 DEF TranslateUse, FailUse, Fail
<1>9. CASE UNCHANGED vars
  BY <1>9 DEF vars
<1> QED  BY <1>1, <1>2, <1>3, <1>4, <1>5, <1>6, <1>7, <1>8, <1>9 DEF Next

\* A line added of the variable being declared, of a new name, keeps the lines
\* well formed.
LEMMA LineAdded ==
  ASSUME PositionOK, LinesInv, program' = program, phase \in {"declare", "flatten"},
         NEW l, lines' = lines \cup {l}, LineOK(l), l.var = pos,
         phase = "flatten" => l.cell \in left
  PROVE  (\A m \in lines : LineOK(m))' /\ NamesOnce'
<1>1. \A m : LineOK(m)' = LineOK(m)
  BY DEF LineOK, Kept, OneDim, AllEqual, Basic, Cells
<1>2. pos \in Int /\ \A m \in lines : m.var \in Int
  BY DEF LinesInv, LineOK, PositionOK, ProgramOK
<1>3. \A m \in lines : ~(m.var = l.var /\ m.cell = l.cell)
  BY <1>2 DEF LinesInv, Ordered
<1>4. NamesOnce'
  BY <1>3 DEF LinesInv, NamesOnce
<1> QED  BY <1>1, <1>4 DEF LinesInv

\* Every step keeps the lines well formed, ordered and of different names.
LEMMA LinesStep == PositionOK /\ LinesInv /\ [Next]_vars => LinesInv'
<1> SUFFICES ASSUME PositionOK, LinesInv, [Next]_vars PROVE LinesInv'
  OBVIOUS
<1>1. program' = program
  BY StepKinds
<1>2. \A m : LineOK(m)' = LineOK(m)
  BY <1>1 DEF LineOK, Kept, OneDim, AllEqual, Basic, Cells
<1>3. pos \in Int /\ \A m \in lines : m.var \in Int
  BY DEF LinesInv, LineOK, PositionOK, ProgramOK
<1>4. CASE (DeclareVariable \/ DeclareArray) /\ phase' = "declare"
  <2>1. phase = "declare" /\ pos' = pos + 1
    BY <1>4, WholeDeclared
  <2>2. CASE lines' = lines
    BY <1>2, <1>3, <2>1, <2>2, <1>4 DEF LinesInv, Ordered, NamesOnce
  <2>3. CASE lines' # lines
    <3>1. PICK l : lines' = lines \cup {l} /\ LineOK(l) /\ l.var = pos
      BY <1>4, <2>3, WholeDeclared
    <3>2. (\A m \in lines : LineOK(m))' /\ NamesOnce'
      BY <1>1, <2>1, <3>1, LineAdded
    <3>3. Ordered'
      BY <1>3, <1>4, <2>1, <3>1 DEF LinesInv, Ordered
    <3> QED  BY <3>2, <3>3 DEF LinesInv
  <2> QED  BY <2>2, <2>3
<1>5. ASSUME NEW c \in left, DeclareCell(c), phase' # "failed" PROVE LinesInv'
  <2>1. /\ phase = "flatten" /\ left' = left \ {c}
        /\ \/ left' # {} /\ phase' = "flatten" /\ pos' = pos
           \/ left' = {} /\ phase' = "declare" /\ pos' = pos + 1
    BY <1>5, CellDeclared
  <2>2. CASE lines' = lines
    BY <1>2, <1>3, <2>1, <2>2 DEF LinesInv, Ordered, NamesOnce
  <2>3. CASE lines' # lines
    <3>1. PICK l : lines' = lines \cup {l} /\ LineOK(l) /\ l.var = pos /\ l.cell = c
      BY <1>5, <2>3, CellDeclared
    <3>2. (\A m \in lines : LineOK(m))' /\ NamesOnce'
      BY <1>1, <2>1, <3>1, LineAdded
    <3>3. Ordered'
      BY <1>3, <2>1, <3>1 DEF LinesInv, Ordered
    <3> QED  BY <3>2, <3>3 DEF LinesInv
  <2> QED  BY <2>2, <2>3
<1>6. CASE /\ lines' = lines /\ pos' = pos
           /\ \/ phase = "declare" /\ phase' \in {"flatten", "use"}
              \/ phase' \in {phase, "failed", "aborted"} /\ left' = left
  BY <1>2, <1>6 DEF LinesInv, Ordered, NamesOnce
<1> QED  BY <1>4, <1>5, <1>6, StepKinds

\* The lines are so in every state.
LEMMA LinesInvariant == Spec => []LinesInv
<1>1. Init => LinesInv
  BY DEF Init, LinesInv, Ordered, NamesOnce
<1> QED  BY <1>1, LinesStep, PositionInvariant, PTL DEF Spec

\* Every integer declared has its initial value within its domain, which is not
\* empty, and no name is declared twice (s_output_integer_variable,
\* s_declare_one_dim_array, s_enumerate_array_elements_decl).
THEOREM WellFormed == Spec => []LinesWellFormed
<1>1. LinesInv => LinesWellFormed
  BY DEF LinesInv, LineOK, NamesOnce, LinesWellFormed
<1> QED  BY <1>1, LinesInvariant, PTL

\* The two defaults of an integer differ only on a domain that ends at 0.
LEMMA SameDefault ==
  ASSUME NEW b, b.lo \in Int, b.hi \in Int, b.hi = 0 => b.lo = 0
  PROVE  ArrayDefault(b) = VariableDefault(b)
BY DEF ArrayDefault, VariableDefault

\* Two cells of one domain begin with the same value, whichever way they are
\* declared, unless the domain ends at 0 (s_output_integer_variable and
\* s_declare_one_dim_array each choose the default value).
THEOREM Defaults == Spec => []DefaultsAgree
<1>1. ASSUME PositionOK, LinesInv, NEW l \in lines, NEW m \in lines,
             program[l.var].init = <<>>, program[m.var].init = <<>>,
             program[l.var].base = program[m.var].base,
             LET b == program[l.var].base
             IN  b.hi = 0 => b.lo = 0 \/ (Kept(program[l.var]) <=> Kept(program[m.var]))
      PROVE  l.init = m.init
  <2> DEFINE v == program[l.var]
             w == program[m.var]
  <2>1. /\ l.init = IF v.base.kind = "clock" THEN 0
                    ELSE IF Kept(v) THEN ArrayDefault(v.base) ELSE VariableDefault(v.base)
        /\ m.init = IF w.base.kind = "clock" THEN 0
                    ELSE IF Kept(w) THEN ArrayDefault(w.base) ELSE VariableDefault(w.base)
    BY <1>1 DEF LinesInv, LineOK
  <2>2. v.base.lo \in Int /\ v.base.hi \in Int /\ v.base = w.base
    BY <1>1 DEF LinesInv, LineOK, PositionOK, ProgramOK, IsVariable
  <2>3. CASE Kept(v) <=> Kept(w)
    BY <2>1, <2>2, <2>3
  <2>4. CASE ~(Kept(v) <=> Kept(w))
    <3>1. ArrayDefault(v.base) = VariableDefault(v.base)
      BY <1>1, <2>2, <2>4, SameDefault
    <3> QED  BY <2>1, <2>2, <3>1
  <2> QED  BY <2>3, <2>4
<1>2. PositionOK /\ LinesInv => DefaultsAgree
  BY <1>1 DEF DefaultsAgree
<1> QED  BY <1>2, PositionInvariant, LinesInvariant, PTL

-----------------------------------------------------------------------------
\* What past cells have, they keep.
LEMMA CellsStep == PositionOK /\ CellsHaveLines /\ [Next]_vars => CellsHaveLines'
<1> SUFFICES ASSUME PositionOK, CellsHaveLines, [Next]_vars PROVE CellsHaveLines'
  OBVIOUS
<1>1. program' = program
  BY StepKinds
<1> SUFFICES ASSUME NEW k \in DOMAIN program, program[k].base.kind # "chan", NEW c \in Cells(program[k]),
                    k < pos' \/ (k = pos' /\ phase' = "flatten" /\ c \notin left')
             PROVE  HasLine(k, c)'
  <2>1. \A k \in DOMAIN program : Cells(program[k])' = Cells(program[k])
    BY <1>1 DEF Cells
  <2> QED  BY <1>1, <2>1 DEF CellsHaveLines
<1>2. \A l : IsLineOf(l, k, c)' = IsLineOf(l, k, c)
  BY <1>1 DEF IsLineOf, InOnePiece, Kept, OneDim, AllEqual, Basic, Cells
<1>3. lines \subseteq lines' /\ HasLine(k, c) => HasLine(k, c)'
  BY <1>2 DEF HasLine
<1>4. \A l : lines' = lines \cup {l} /\ IsLineOf(l, k, c) => HasLine(k, c)'
  BY <1>2 DEF HasLine
<1>5. k \in Int /\ pos \in Int
  BY DEF PositionOK, ProgramOK
<1>6. k < pos \/ (k = pos /\ phase = "flatten" /\ c \notin left) => HasLine(k, c)
  BY DEF CellsHaveLines
<1>7. CASE (DeclareVariable \/ DeclareArray) /\ phase' = "declare"
  <2>1. pos' = pos + 1 /\ lines \subseteq lines'
    BY <1>7, WholeDeclared
  <2>2. CASE k = pos
    BY <1>4, <1>7, <2>2, WholeDeclared DEF Var
  <2>3. CASE k # pos
    BY <1>3, <1>5, <1>6, <1>7, <2>1, <2>3
  <2> QED  BY <2>2, <2>3
<1>8. ASSUME NEW d \in left, DeclareCell(d), phase' # "failed" PROVE HasLine(k, c)'
  <2>1. /\ phase = "flatten" /\ left' = left \ {d} /\ lines \subseteq lines'
        /\ \/ left' # {} /\ phase' = "flatten" /\ pos' = pos
           \/ left' = {} /\ phase' = "declare" /\ pos' = pos + 1
    BY <1>8, CellDeclared
  <2>2. CASE k = pos /\ c = d
    BY <1>4, <1>8, <2>2, CellDeclared DEF Var
  <2>3. CASE k # pos \/ c # d
    BY <1>3, <1>5, <1>6, <2>1, <2>3
  <2> QED  BY <2>2, <2>3
<1>9. CASE /\ lines' = lines /\ pos' = pos
           /\ phase = "declare" /\ phase' = "flatten" /\ left' = Cells(Var)
  BY <1>3, <1>6, <1>9 DEF Var
<1>10. CASE /\ lines' = lines /\ pos' = pos
            /\ \/ phase = "declare" /\ phase' = "use"
               \/ phase' \in {phase, "failed", "aborted"} /\ left' = left
  BY <1>3, <1>6, <1>10
<1> QED  BY <1>7, <1>8, <1>9, <1>10, StepKinds

\* Every cell that is past has its line, with its initial value.
LEMMA CellsInvariant == Spec => []CellsHaveLines
<1>1. Init => CellsHaveLines
  BY ProgramsAssumption DEF Init, CellsHaveLines
<1> QED  BY <1>1, CellsStep, PositionInvariant, PTL DEF Spec

\* References are written as Reference says and never change.
LEMMA RefsInvariant == Spec => []RefsOK
<1>1. Init => RefsOK
  BY DEF Init, RefsOK
<1>2. RefsOK /\ PositionOK /\ [Next]_vars => RefsOK'
  <2> SUFFICES ASSUME RefsOK, PositionOK, [Next]_vars PROVE RefsOK'
    OBVIOUS
  <2>1. program' = program
    BY StepKinds
  <2>2. \A u : Reference(u)' = Reference(u)
    BY <2>1 DEF Reference, Flattened, Subscripted, Indices, Cell, Basic, AllEqual, Cells
  <2>3. refs' = refs \/ \E u \in UsesOf(program) : refs' = refs \cup {<<u, Reference(u)>>}
    BY DEF Next, vars, Fail, DeclareVariable, DeclareArray, FlattenArray, EndDeclarations, DeclareCell,
       AbortCell, TranslateUse, FailUse
  <2> QED  BY <2>1, <2>2, <2>3 DEF RefsOK
<1> QED  BY <1>1, <1>2, PositionInvariant, PTL DEF Spec

-----------------------------------------------------------------------------
\* The indices of a use are a sequence, and its cell has their length.
LEMMA UseCell ==
  ASSUME ProgramOK, NEW u \in UsesOf(program)
  PROVE  /\ Len(Indices(u)) \in Nat
         /\ DOMAIN Cell(u) = 1 .. Len(Indices(u)) /\ DOMAIN Indices(u) = 1 .. Len(Indices(u))
         /\ u.var \in DOMAIN program /\ IsVariable(program[u.var])
         /\ InBounds(u) => WholeCell(u)
<1> DEFINE S == [dyn : BOOLEAN, val : Int]
<1>1. u.pre \in Seq(S) /\ u.idx \in Seq(S) /\ u.var \in DOMAIN program /\ IsVariable(program[u.var])
  BY DEF ProgramOK, IsUse
<1> HIDE DEF S
<1>2. Indices(u) \in Seq(S)
  BY <1>1, ConcatProperties DEF Indices
<1>3. Len(Indices(u)) \in Nat /\ DOMAIN Indices(u) = 1 .. Len(Indices(u))
  BY <1>2, LenProperties
<1>4. DOMAIN Cell(u) = 1 .. Len(Indices(u))
  BY <1>3 DEF Cell
<1>5. Len(program[u.var].dims) \in Nat /\ DOMAIN program[u.var].dims = 1 .. Len(program[u.var].dims)
  BY <1>1, Dimensions
<1>6. InBounds(u) => DOMAIN Cell(u) = DOMAIN program[u.var].dims
  BY DEF InBounds, Cells
<1>7. InBounds(u) => WholeCell(u)
  <2>1. \A m, n \in Nat : 1 .. m = 1 .. n => m = n
    <3> TAKE m, n \in Nat
    <3>1. \A i \in Nat : (i \in 1 .. m <=> 1 <= i /\ i <= m) /\ (i \in 1 .. n <=> 1 <= i /\ i <= n)
      OBVIOUS
    <3>2. 1 .. m = 1 .. n => (m \in 1 .. m <=> m \in 1 .. n) /\ (n \in 1 .. m <=> n \in 1 .. n)
      OBVIOUS
    <3> QED  BY <3>1, <3>2
  <2> QED  BY <1>3, <1>4, <1>5, <1>6, <2>1 DEF WholeCell
<1> QED  BY <1>1, <1>3, <1>4, <1>7

\* The use of a whole cell that is not misjudged takes an array for declared in
\* one piece just when it is.
LEMMA Judged ==
  ASSUME ProgramOK, NEW u \in UsesOf(program), WholeCell(u), ~Misjudged(u)
  PROVE  Subscripted(u) <=> InOnePiece(program[u.var])
<1> DEFINE v == program[u.var]
<1>1. IsVariable(v) /\ Len(Indices(u)) = Len(v.dims) /\ Len(v.dims) \in Nat
  BY UseCell, Dimensions DEF WholeCell
<1>2. v.dims # <<>> => Len(v.dims) # 0
  <2>1. DOMAIN v.dims = 1 .. Len(v.dims)
    BY <1>1, Dimensions
  <2>2. v.dims \in Seq([lo : Int, hi : Int])
    BY <1>1 DEF IsVariable
  <2> QED  BY <2>2, EmptySeq
<1>3. InOnePiece(v) => Subscripted(u)
  BY <1>1 DEF InOnePiece, Kept, OneDim, Subscripted
<1>4. Subscripted(u) => InOnePiece(v)
  <2> SUFFICES ASSUME Subscripted(u), ~Kept(v) PROVE FALSE
    BY DEF InOnePiece, Subscripted
  <2>1. v.dims # <<>> /\ Basic(v) /\ ((u.ref /\ u.idx # <<>>) \/ AllEqual(v))
    BY DEF Subscripted
  <2>2. ~(u.ref /\ u.idx # <<>>) /\ ~(Len(v.dims) > 1 /\ AllEqual(v))
    BY <2>1 DEF Misjudged
  <2>3. AllEqual(v)
    BY <2>1, <2>2
  <2>4. Len(v.dims) # 0 /\ ~(Len(v.dims) > 1)
    BY <1>2, <2>1, <2>2, <2>3
  <2>5. Len(v.dims) = 1
    <3>1. \A n \in Nat : n # 0 /\ ~(n > 1) => n = 1
      OBVIOUS
    <3>2. Len(v.dims) \in Nat
      BY <1>1
    <3> HIDE DEF v
    <3> QED  BY <2>4, <3>1, <3>2
  <2> QED  BY <2>1, <2>3, <2>5 DEF Kept, OneDim
<1> QED  BY <1>3, <1>4

\* What is written for the use of a cell of an array in one piece.
LEMMA SubscriptReference ==
  ASSUME ProgramOK, NEW u \in UsesOf(program), InBounds(u), ~Misjudged(u), InOnePiece(program[u.var])
  PROVE  /\ Len(program[u.var].dims) = 1
         /\ Reference(u).var = u.var /\ Reference(u).cell = <<>>
         /\ Reference(u).sub = <<Cell(u)[1] - program[u.var].dims[1].lo>>
         /\ Cell(u)[1] \in program[u.var].dims[1].lo .. program[u.var].dims[1].hi
         /\ DOMAIN Cell(u) = {1}
<1> DEFINE v == program[u.var]
<1>1. Subscripted(u) /\ WholeCell(u)
  BY UseCell, Judged
<1>2. IsVariable(v) /\ Len(v.dims) = 1 /\ DOMAIN v.dims = {1}
  BY UseCell, Dimensions DEF InOnePiece, Kept, OneDim
<1>3. Len(Indices(u)) = 1 /\ DOMAIN Cell(u) = {1}
  BY <1>1, <1>2, UseCell DEF WholeCell
<1>4. Cell(u)[1] \in v.dims[1].lo .. v.dims[1].hi
  BY <1>2 DEF InBounds, Cells
<1>5. Flattened(u) = {}
  BY <1>1, <1>3 DEF Flattened
<1>6. Reference(u).cell = <<>>
  <2>1. Reference(u).cell = [k \in {} |-> Cell(u)[k]]
    BY <1>5 DEF Reference
  <2>2. [k \in {} |-> Cell(u)[k]] = <<>>
    OBVIOUS
  <2> QED  BY <2>1, <2>2
<1>7. Reference(u).var = u.var /\ Reference(u).sub = <<Cell(u)[1] - v.dims[1].lo>>
  BY <1>1, <1>3 DEF Reference
<1> QED  BY <1>2, <1>3, <1>4, <1>6, <1>7

\* What is written for the use of another cell.
LEMMA FlatReference ==
  ASSUME ProgramOK, NEW u \in UsesOf(program), InBounds(u), ~Misjudged(u), ~InOnePiece(program[u.var])
  PROVE  Reference(u).var = u.var /\ Reference(u).cell = Cell(u) /\ Reference(u).sub = <<>>
<1>1. ~Subscripted(u)
  BY UseCell, Judged
<1>2. Flattened(u) = DOMAIN Indices(u)
  BY <1>1 DEF Flattened
<1>3. Cell(u) = [k \in DOMAIN Indices(u) |-> Cell(u)[k]]
  BY DEF Cell
<1>4. Reference(u).cell = Cell(u)
  BY <1>2, <1>3 DEF Reference
<1> QED  BY <1>1, <1>4 DEF Reference

\* A reference to a cell of a declared variable denotes a line of the output,
\* with the initial value of that cell, unless declaration and use misjudge the
\* array differently (translate_declarations decides on the dimensions and the
\* initial values, translate_expression on what it knows of the last index).
THEOREM CellsFound == Spec => []UsesFindCells
<1>1. ASSUME PositionOK, CellsHaveLines, RefsOK, NEW x \in refs,
             InBounds(x[1]), program[x[1].var].base.kind # "chan", ~Misjudged(x[1])
      PROVE  FindsCell(x[1], x[2])
  <2> DEFINE u == x[1]
             v == program[u.var]
  <2>1. u \in UsesOf(program) /\ x[2] = Reference(u) /\ ProgramOK
    BY <1>1 DEF RefsOK, PositionOK
  <2>2. u.var \in DOMAIN program /\ IsVariable(v)
    BY <2>1, UseCell
  <2>3. u.var < pos
    BY <1>1, <2>2 DEF PositionOK, ProgramOK
  <2>4. Cell(u) \in Cells(v)
    BY <1>1 DEF InBounds
  <2> HIDE DEF u
  <2>5. PICK l \in lines : IsLineOf(l, u.var, Cell(u))
    BY <1>1, <2>2, <2>3, <2>4 DEF CellsHaveLines, HasLine, u
  <2>6. Denotes(Reference(u), l)
    <3>1. CASE InOnePiece(v)
      <4>1. /\ Reference(u).var = u.var /\ Reference(u).cell = <<>>
            /\ Reference(u).sub = <<Cell(u)[1] - v.dims[1].lo>>
            /\ Cell(u)[1] \in v.dims[1].lo .. v.dims[1].hi
            /\ Len(v.dims) = 1
        BY <1>1, <2>1, <3>1, SubscriptReference DEF u
      <4>2. l.var = u.var /\ l.cell = <<>> /\ l.size = v.dims[1].hi - v.dims[1].lo + 1
        BY <2>5, <3>1 DEF IsLineOf
      <4>3. v.dims[1].lo \in Int /\ v.dims[1].hi \in Int
        BY <2>2, <4>1, Dimensions
      <4>4. Cell(u)[1] - v.dims[1].lo \in 0 .. l.size - 1
        BY <4>1, <4>2, <4>3
      <4>5. Reference(u).sub # <<>> /\ Reference(u).sub[1] = Cell(u)[1] - v.dims[1].lo
        BY <4>1
      <4> QED  BY <3>1, <4>1, <4>2, <4>4, <4>5 DEF Denotes, InOnePiece
    <3>2. CASE ~InOnePiece(v)
      <4>1. Reference(u).var = u.var /\ Reference(u).cell = Cell(u) /\ Reference(u).sub = <<>>
        BY <1>1, <2>1, <3>2, FlatReference DEF u
      <4>2. l.var = u.var /\ l.cell = Cell(u)
        BY <2>5, <3>2 DEF IsLineOf
      <4>3. Cell(u) = <<>> => v.dims = <<>>
        <5>1. DOMAIN Cell(u) = DOMAIN v.dims
          BY <2>4 DEF Cells
        <5>2. v.dims \in Seq([lo : Int, hi : Int])
          BY <2>2 DEF IsVariable
        <5>3. DOMAIN v.dims = {} => v.dims = <<>>
          BY <5>2, <2>2, Dimensions, EmptySeq
        <5> QED  BY <5>1, <5>3
      <4> QED  BY <4>1, <4>2, <4>3 DEF Denotes
    <3> QED  BY <3>1, <3>2
  <2>7. l.kind = "int" /\ v.init # <<>> => l.init = v.init[1][Cell(u)].val
    BY <2>5 DEF IsLineOf
  <2> QED  BY <2>1, <2>6, <2>7 DEF FindsCell, u
<1>2. PositionOK /\ CellsHaveLines /\ RefsOK => UsesFindCells
  BY <1>1 DEF UsesFindCells
<1> QED  BY <1>2, PositionInvariant, CellsInvariant, RefsInvariant, PTL

\* Two references written are the same just when they are to the same cell, so
\* that no two cells are confused (the indices joined to the name by
\* translate_expression, the subscript less the first index).
THEOREM CellsApart == Spec => []CellsKeptApart
<1>1. ASSUME PositionOK, RefsOK, NEW x \in refs, NEW y \in refs, InBounds(x[1]), InBounds(y[1]),
             ~Misjudged(x[1]), ~Misjudged(y[1])
      PROVE  x[2] = y[2] <=> x[1].var = y[1].var /\ Cell(x[1]) = Cell(y[1])
  <2> DEFINE u == x[1]
             w == y[1]
  <2>1. /\ u \in UsesOf(program) /\ x[2] = Reference(u)
        /\ w \in UsesOf(program) /\ y[2] = Reference(w) /\ ProgramOK
    BY <1>1 DEF RefsOK, PositionOK
  <2>2. InBounds(u) /\ InBounds(w) /\ ~Misjudged(u) /\ ~Misjudged(w)
    BY <1>1
  <2> HIDE DEF u, w
  <2>3. Reference(u).var = u.var /\ Reference(w).var = w.var
    BY DEF Reference
  <2>4. ASSUME u.var = w.var, InOnePiece(program[u.var])
        PROVE  Reference(u) = Reference(w) <=> Cell(u) = Cell(w)
    <3> DEFINE lo == program[u.var].dims[1].lo
    <3>1. /\ Reference(u).cell = <<>> /\ Reference(u).sub = <<Cell(u)[1] - lo>>
          /\ Reference(w).cell = <<>> /\ Reference(w).sub = <<Cell(w)[1] - lo>>
          /\ DOMAIN Cell(u) = {1} /\ DOMAIN Cell(w) = {1} /\ Len(program[u.var].dims) = 1
          /\ Cell(u)[1] \in lo .. program[u.var].dims[1].hi
          /\ Cell(w)[1] \in lo .. program[u.var].dims[1].hi
      BY <2>1, <2>2, <2>4, SubscriptReference
    <3>2. lo \in Int /\ program[u.var].dims[1].hi \in Int
      BY <2>1, <3>1, UseCell, Dimensions
    <3> HIDE DEF lo
    <3>3. Cell(u)[1] \in Int /\ Cell(w)[1] \in Int
      BY <3>1, <3>2
    <3>4. Reference(u).sub = Reference(w).sub => Cell(u)[1] = Cell(w)[1]
      <4>1. \A a, b : <<a>> = <<b>> => a = b
        OBVIOUS
      <4>2. Reference(u).sub = Reference(w).sub => Cell(u)[1] - lo = Cell(w)[1] - lo
        BY <3>1, <4>1
      <4> QED  BY <3>2, <3>3, <4>2
    <3>5. Cell(u)[1] = Cell(w)[1] => Cell(u) = Cell(w)
      BY <3>1 DEF Cell
    <3>6. Cell(u) = Cell(w) => Reference(u) = Reference(w)
      BY <2>3, <2>4, <3>1 DEF Reference
    <3> QED  BY <3>4, <3>5, <3>6
  <2>5. ASSUME u.var = w.var, ~InOnePiece(program[u.var])
        PROVE  Reference(u) = Reference(w) <=> Cell(u) = Cell(w)
    <3>1. /\ Reference(u).cell = Cell(u) /\ Reference(u).sub = <<>>
          /\ Reference(w).cell = Cell(w) /\ Reference(w).sub = <<>>
      BY <2>1, <2>2, <2>5, FlatReference
    <3> QED  BY <2>3, <2>5, <3>1 DEF Reference
  <2>6. Reference(u) = Reference(w) => u.var = w.var
    BY <2>3
  <2> QED  BY <2>1, <2>4, <2>5, <2>6 DEF u, w
<1>2. PositionOK /\ RefsOK => CellsKeptApart
  BY <1>1 DEF CellsKeptApart
<1> QED  BY <1>2, PositionInvariant, RefsInvariant, PTL
=============================================================================
