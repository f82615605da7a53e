--------------------------------- MODULE Types ---------------------------------
(***************************************************************************)
(* The types of the parser: how the declarations of a model build them     *)
(* (expressionbuilder.cpp, statementbuilder.cpp), what type.cpp answers    *)
(* about them, and the relations between types that the type checker       *)
(* decides by (typechecker.cpp).                                           *)
(*                                                                         *)
(* A type is a tree [kind, sub, names, range]:                             *)
(*   kind  : that of its root; a prefix (const, urgent, ...), a range, a   *)
(*           reference and a label have one child, the type they qualify;  *)
(*           an array has its elements and its size, a record its fields   *)
(*   sub   : the children                                                  *)
(*   names : the name of a label, the names of the fields of a record      *)
(*   range : the bounds <<lo, hi>> of a range, <<>> otherwise              *)
(*                                                                         *)
(* A bound is an expression, compared as it is written and not by its      *)
(* value: a number or a difference of numbers.                             *)
(***************************************************************************)
EXTENDS Integers, Sequences, FiniteSets
LOCAL INSTANCE TLC   \* ToString

CONSTANT Scopes
  \* bounds: a scope is [words, aliases, decls, fields]: the types that may be
  \* written, [prefix, base, lo, hi]; the names that may be given to types with
  \* the prefixes they may take, [name, prefix]; the number of typedefs,
  \* variables and parameters; the number of fields of a structure

VARIABLES
  scope,    \* the bounds of this model
  stack,    \* typeFragments: the types being built, the last one on top
  fields,   \* the fields of the structure being read
  types,    \* the names introduced by typedef: <<name, type>>, in order
  declared, \* the variables and parameters: [type, sort, init], in order
  scalars,  \* scalar_count
  errors    \* the errors reported

vars == <<scope, stack, fields, types, declared, scalars, errors>>

Prefixes == {"CONSTANT", "SYSTEM_META", "URGENT", "BROADCAST"}

\* The trees of expression_t that bounds are made of, their leaves from left to
\* right; two trees are equal() when these sequences are.
Number(n) == <<n>>
Minus(m, n) == <<m, n>>

Primitive(k) == [kind |-> k, sub |-> <<>>, names |-> <<>>, range |-> <<>>]
Prefixed(k, t) == [kind |-> k, sub |-> <<t>>, names |-> <<>>, range |-> <<>>]
Ranged(t, lo, hi) == [kind |-> "RANGE", sub |-> <<t>>, names |-> <<>>, range |-> <<lo, hi>>]
Labelled(n, t) == [kind |-> "LABEL", sub |-> <<t>>, names |-> <<n>>, range |-> <<>>]
ArrayOf(t, size) == [kind |-> "ARRAY", sub |-> <<t, size>>, names |-> <<>>, range |-> <<>>]
RecordOf(F) == [kind |-> "RECORD", sub |-> F, names |-> [i \in DOMAIN F |-> i], range |-> <<>>]

-----------------------------------------------------------------------------
(***************************************************************************)
(* What type.cpp answers.                                                  *)
(***************************************************************************)
\* The kinds that is() and strip() look through.
Transparent == Prefixes \cup {"RANGE", "REF", "LABEL"}

RECURSIVE Is(_, _)
Is(t, k) == t.kind = k \/ (t.kind \in Transparent /\ Is(t.sub[1], k))

IsIntegral(t) == Is(t, "INT") \/ Is(t, "BOOL")

RECURSIVE Strip(_)
Strip(t) == IF t.kind \in Transparent THEN Strip(t.sub[1]) ELSE t

RECURSIVE StripArray(_)
StripArray(t) ==
  LET s == Strip(t) IN IF s.kind = "ARRAY" THEN StripArray(s.sub[1]) ELSE s

\* getSub: the prefixes of an array or record are those of its parts.
RECURSIVE SubType(_, _)
SubType(t, i) ==
  CASE t.kind \in {"REF", "LABEL"} -> SubType(t.sub[1], i)
    [] t.kind \in Prefixes -> Prefixed(t.kind, SubType(t.sub[1], i))
    [] OTHER -> t.sub[i]

ArraySize(t) == Strip(t).sub[2]
RecordSize(t) == Len(Strip(t).sub)

RECURSIVE RangeOf(_)
RangeOf(t) == IF t.kind = "RANGE" THEN t.range ELSE RangeOf(t.sub[1])

RECURSIVE IsConstant(_)
IsConstant(t) ==
  CASE t.kind = "CONSTANT" -> TRUE
    [] t.kind = "RECORD" -> \A i \in DOMAIN t.sub : IsConstant(t.sub[i])
    [] OTHER -> t.sub # <<>> /\ IsConstant(t.sub[1])

\* Mutated form: the elements of an array are not looked at.
RECURSIVE NonConstantWhole(_)
NonConstantWhole(t) ==
  CASE t.kind = "CONSTANT" -> FALSE
    [] t.kind = "RECORD" -> \A i \in DOMAIN t.sub : NonConstantWhole(t.sub[i])
    [] OTHER -> t.kind = "ARRAY" \/ t.sub = <<>> \/ NonConstantWhole(t.sub[1])

RECURSIVE IsNonConstant(_)
IsNonConstant(t) ==
  CASE t.kind = "CONSTANT" -> FALSE
    [] t.kind = "RECORD" -> \A i \in DOMAIN t.sub : IsNonConstant(t.sub[i])
    [] OTHER -> t.sub = <<>> \/ IsNonConstant(t.sub[1])

-----------------------------------------------------------------------------
(***************************************************************************)
(* The relations of the type checker.                                      *)
(***************************************************************************)
ChannelCapability(t) ==
  IF Is(t, "URGENT") THEN 0 ELSE IF Is(t, "BROADCAST") THEN 1 ELSE 2

\* Name equivalence of scalar types.  References are looked through on the
\* left only: on the right the code tests the kind EF for REF.
RECURSIVE IsSameScalarType(_, _)
IsSameScalarType(t1, t2) ==
  CASE t1.kind \in {"REF", "CONSTANT", "SYSTEM_META"} -> IsSameScalarType(t1.sub[1], t2)
    [] t1.kind \notin {"REF", "CONSTANT", "SYSTEM_META"}
       /\ t2.kind \in {"CONSTANT", "SYSTEM_META"} -> IsSameScalarType(t1, t2.sub[1])
    [] t1.kind = "LABEL" /\ t2.kind = "LABEL" ->
         t1.names = t2.names /\ IsSameScalarType(t1.sub[1], t2.sub[1])
    [] t1.kind = "SCALAR" /\ t2.kind = "SCALAR" -> TRUE
    [] t1.kind = "RANGE" /\ t2.kind = "RANGE" ->
         IsSameScalarType(t1.sub[1], t2.sub[1]) /\ t1.range = t2.range
    [] OTHER -> FALSE

\* Mutated form: the ranges of integers are not compared.
SameRangeUnchecked(a, b) == TRUE

SameRange(a, b) == Is(a, "RANGE") /\ Is(b, "RANGE") => RangeOf(a) = RangeOf(b)

RECURSIVE AreEquivalent(_, _)
AreEquivalent(a, b) ==
  CASE Is(a, "INT") /\ Is(b, "INT") -> SameRange(a, b)
    [] \E k \in {"BOOL", "CLOCK", "DOUBLE"} : Is(a, k) /\ Is(b, k) -> TRUE
    [] Is(a, "CHANNEL") /\ Is(b, "CHANNEL") -> ChannelCapability(a) = ChannelCapability(b)
    [] Is(a, "RECORD") /\ Is(b, "RECORD") ->
         /\ RecordSize(a) = RecordSize(b)
         /\ \A i \in 1 .. RecordSize(a) :
              /\ Strip(a).names[i] = Strip(b).names[i]
              /\ AreEquivalent(SubType(a, i), SubType(b, i))
    [] Is(a, "ARRAY") /\ Is(b, "ARRAY") ->
         LET sa == ArraySize(a)
             sb == ArraySize(b)
         IN  /\ \/ Is(sa, "INT") /\ Is(sb, "INT") /\ RangeOf(sa) = RangeOf(sb)
                \/ Is(sa, "SCALAR") /\ Is(sb, "SCALAR") /\ IsSameScalarType(sa, sb)
             /\ AreEquivalent(SubType(a, 1), SubType(b, 1))
    [] Is(a, "SCALAR") /\ Is(b, "SCALAR") -> IsSameScalarType(a, b)
    [] OTHER -> FALSE

AreAssignmentCompatible(l, r) ==
  \/ (Is(l, "CLOCK") \/ Is(l, "DOUBLE")) /\ (IsIntegral(r) \/ Is(r, "DOUBLE") \/ Is(r, "CLOCK"))
  \/ IsIntegral(l) /\ IsIntegral(r)
  \/ AreEquivalent(l, r)

\* The argument is a variable, so that it is a modifiable l-value unless part
\* of it is constant.
IsParameterCompatible(p, arg) ==
  LET ref    == Is(p, "REF")
      lvalue == IsNonConstant(arg)
  IN  /\ ref /\ ~IsConstant(p) => lvalue
      /\ CASE Is(p, "CHANNEL") /\ Is(arg, "CHANNEL") ->
                ChannelCapability(arg) >= ChannelCapability(p)
           [] ~(Is(p, "CHANNEL") /\ Is(arg, "CHANNEL")) /\ ref /\ lvalue ->
                AreEquivalent(arg, p)
           [] OTHER -> AreAssignmentCompatible(p, arg)

\* checkType: no error is found.  The expressions of bounds and sizes are
\* integer constants here.
RECURSIVE CheckType(_, _, _)
CheckType(t, initialisable, inStruct) ==
  CASE t.kind = "LABEL" -> CheckType(t.sub[1], initialisable, inStruct)
    [] t.kind \in {"URGENT", "BROADCAST"} ->
         Is(t, "CHANNEL") /\ CheckType(t.sub[1], initialisable, inStruct)
    [] t.kind \in {"CONSTANT", "SYSTEM_META"} ->
         ~Is(t, "CLOCK") /\ CheckType(t.sub[1], TRUE, inStruct)
    [] t.kind = "REF" ->
         /\ \E k \in {"INT", "BOOL", "ARRAY", "RECORD", "CHANNEL", "CLOCK", "SCALAR", "DOUBLE"} : Is(t, k)
         /\ CheckType(t.sub[1], initialisable, inStruct)
    [] t.kind = "RANGE" -> Is(t, "INT") \/ Is(t, "SCALAR")
    [] t.kind = "ARRAY" ->
         /\ Is(ArraySize(t), "RANGE") /\ CheckType(ArraySize(t), FALSE, FALSE)
         /\ CheckType(t.sub[1], initialisable, inStruct)
    [] t.kind = "RECORD" -> \A i \in DOMAIN t.sub : CheckType(t.sub[i], TRUE, TRUE)
    [] t.kind = "DOUBLE" -> ~inStruct
    [] t.kind \in {"INT", "BOOL"} -> TRUE
    [] OTHER -> ~initialisable

\* Mutated form: the parts of an array are not looked at.
RECURSIVE MustInitialiseWhole(_)
MustInitialiseWhole(t) ==
  CASE t.kind = "CONSTANT" -> TRUE
    [] t.kind = "RECORD" -> \E i \in DOMAIN t.sub : MustInitialiseWhole(t.sub[i])
    [] OTHER -> t.kind # "ARRAY" /\ t.sub # <<>> /\ MustInitialiseWhole(t.sub[1])

RECURSIVE MustInitialise(_)
MustInitialise(t) ==
  CASE t.kind = "CONSTANT" -> TRUE
    [] t.kind = "RECORD" -> \E i \in DOMAIN t.sub : MustInitialise(t.sub[i])
    [] OTHER -> t.sub # <<>> /\ MustInitialise(t.sub[1])

\* initRec: all the leaves are of one sort, and no array is over a scalar set.
RECURSIVE AllLeaves(_, _)
AllLeaves(t, sort) ==
  LET s == Strip(t)
  IN  CASE s.kind = "RECORD" -> \A i \in DOMAIN s.sub : AllLeaves(s.sub[i], sort)
        [] s.kind = "ARRAY"  -> ~Is(ArraySize(s), "SCALAR") /\ AllLeaves(SubType(s, 1), sort)
        [] OTHER -> \E k \in sort : Is(s, k)

Initialisable(t) ==
  \E sort \in {{"INT", "BOOL"}, {"CLOCK"}, {"DOUBLE"}} : AllLeaves(t, sort)

\* Mutated form: arrays are not looked through.
IsBroadcastItself(t) == Is(t, "BROADCAST")

\* s_is_broadcast of the translation: looks through arrays.
RECURSIVE IsBroadcast(_)
IsBroadcast(t) == IF Is(t, "ARRAY") THEN IsBroadcast(t.sub[1]) ELSE Is(t, "BROADCAST")

-----------------------------------------------------------------------------
(***************************************************************************)
(* The building of types.                                                  *)
(***************************************************************************)
Init ==
  /\ scope \in Scopes
  /\ stack = <<>> /\ fields = <<>> /\ types = <<>> /\ declared = <<>>
  /\ scalars = 0 /\ errors = {}

Top == stack[Len(stack)]
Pop == SubSeq(stack, 1, Len(stack) - 1)

\* Nothing is said of a model once an error is reported in it.
Building == errors = {} /\ Len(types) + Len(declared) < scope.decls

ApplyPrefix(p, t) == IF p = "NONE" THEN t ELSE Prefixed(p, t)

\* A word is [prefix, base, lo, hi]; a plain int has its default range unless it
\* is constant; each scalar set takes a name of its own, and its last value is
\* the difference of its size and 1.
WordType(w) ==
  CASE w.base = "SCALAR" ->
         Labelled("#scalarset" \o ToString(scalars),
                  ApplyPrefix(w.prefix, Ranged(Primitive("SCALAR"), w.lo, w.hi)))
    [] w.base = "RANGE" -> ApplyPrefix(w.prefix, Ranged(Primitive("INT"), w.lo, w.hi))
    [] w.base = "INT" /\ w.prefix # "CONSTANT" ->
         ApplyPrefix(w.prefix, Ranged(Primitive("INT"), w.lo, w.hi))
    [] OTHER -> ApplyPrefix(w.prefix, Primitive(w.base))

WriteWord(w) ==
  /\ Building /\ stack = <<>>
  /\ stack' = <<WordType(w)>>
  /\ scalars' = IF w.base = "SCALAR" THEN scalars + 1 ELSE scalars
  /\ UNCHANGED <<fields, types, declared, errors>>

\* typeName; a name may also stand for the size of an array.
WriteName(i, prefix) ==
  /\ Building /\ i \in DOMAIN types /\ Len(stack) <= 1
  /\ stack' = Append(stack, ApplyPrefix(prefix, Labelled(types[i][1], types[i][2])))
  /\ UNCHANGED <<fields, types, declared, scalars, errors>>

\* Bound: no arrays of arrays or of structures, no structures of structures.
Simple(t) == Strip(t).kind \notin {"ARRAY", "RECORD"}

\* The size n is written as the type int[0, n - 1], whose bound is left as it is.
TypeArrayOfSize(n) ==
  /\ Building /\ Len(stack) = 1 /\ Simple(Top)
  /\ stack' = <<ArrayOf(Top, Ranged(Primitive("INT"), Number(0), Minus(n, 1)))>>
  /\ UNCHANGED <<fields, types, declared, scalars, errors>>

TypeArrayOfType ==
  /\ Building /\ Len(stack) = 2 /\ Simple(stack[1])
  /\ stack' = <<ArrayOf(stack[1], Top)>>
  /\ errors' = IF (Is(Top, "INT") \/ Is(Top, "SCALAR")) /\ Is(Top, "RANGE") THEN {}
               ELSE {"array size"}
  /\ UNCHANGED <<fields, types, declared, scalars>>

StructField ==
  /\ Building /\ Len(stack) = 1 /\ Len(fields) < scope.fields
  /\ Strip(Top).kind # "RECORD"
  /\ fields' = Append(fields, Top)
  /\ stack' = Pop
  /\ errors' = (IF Is(Top, "CONSTANT") THEN {"constant field"} ELSE {})
               \cup (IF Is(StripArray(Top), "RECORD") \/ Is(StripArray(Top), "SCALAR")
                        \/ IsIntegral(StripArray(Top))
                     THEN {} ELSE {"field type"})
  /\ UNCHANGED <<types, declared, scalars>>

TypeStruct(prefix) ==
  /\ Building /\ stack = <<>> /\ fields # <<>>
  /\ stack' = <<ApplyPrefix(prefix, RecordOf(fields))>>
  /\ fields' = <<>>
  /\ UNCHANGED <<types, declared, scalars, errors>>

DeclTypeDef(n) ==
  /\ Building /\ Len(stack) = 1
  /\ stack' = Pop
  /\ IF \E i \in DOMAIN types : types[i][1] = n
     THEN errors' = {"duplicate"} /\ UNCHANGED types
     ELSE types' = Append(types, <<n, Top>>) /\ UNCHANGED errors
  /\ UNCHANGED <<fields, declared, scalars>>

DeclVar(init) ==
  /\ Building /\ Len(stack) = 1
  /\ stack' = Pop
  /\ errors' = (IF init /\ ~Initialisable(Top) THEN {"initialiser"} ELSE {})
               \cup (IF ~init /\ MustInitialise(Top) THEN {"no initialiser"} ELSE {})
  /\ declared' = Append(declared, [type |-> Top, sort |-> "variable", init |-> init])
  /\ UNCHANGED <<fields, types, scalars>>

DeclParameter(ref) ==
  /\ Building /\ Len(stack) = 1
  /\ stack' = Pop
  /\ declared' = Append(declared, [type |-> IF ref THEN Prefixed("REF", Top) ELSE Top,
                                   sort |-> "parameter", init |-> FALSE])
  /\ UNCHANGED <<fields, types, scalars, errors>>

Next ==
  /\ UNCHANGED scope
  /\ \/ \E w \in scope.words : WriteWord(w)
     \/ \E i \in DOMAIN types : \E a \in scope.aliases :
          a.name = types[i][1] /\ WriteName(i, a.prefix)
     \/ TypeArrayOfSize(2) \/ TypeArrayOfType
     \/ StructField \/ TypeStruct("NONE") \/ TypeStruct("CONSTANT")
     \/ \E a \in scope.aliases : DeclTypeDef(a.name)
     \/ \E b \in BOOLEAN : DeclVar(b) \/ DeclParameter(b)

Spec == Init /\ [][Next]_vars

-----------------------------------------------------------------------------
(***************************************************************************)
(* Properties: what the types declared stand for, and who relies on it.    *)
(***************************************************************************)
Variables == {declared[i].type : i \in {j \in DOMAIN declared : declared[j].sort = "variable"}}
Parameters == {declared[i].type : i \in {j \in DOMAIN declared : declared[j].sort = "parameter"}}
Checked(t) == errors = {} /\ CheckType(t, FALSE, FALSE)

\* The name typeScalar gave to a scalar set: that of the innermost label.
RECURSIVE ScalarName(_)
ScalarName(t) ==
  IF t.kind = "LABEL" /\ ~Is(t.sub[1], "LABEL") THEN t.names[1] ELSE ScalarName(t.sub[1])

\* A type without names, constancy and references, its bounds as they are written.
RECURSIVE AsWritten(_)
AsWritten(t) ==
  LET k == Strip(t).kind
  IN  CASE k = "INT" -> <<k, IF Is(t, "RANGE") THEN RangeOf(t) ELSE <<>> >>
        [] k = "SCALAR" -> <<k, ScalarName(t)>>
        [] k = "CHANNEL" -> <<k, ChannelCapability(t)>>
        [] k = "RECORD" -> <<k, [i \in 1 .. RecordSize(t) |-> AsWritten(SubType(t, i))]>>
        [] k = "ARRAY" -> <<k, AsWritten(ArraySize(t)), AsWritten(SubType(t, 1))>>
        [] OTHER -> <<k>>

\* The type with every bound replaced by its value.
Value(bound) == IF Len(bound) = 1 THEN bound[1] ELSE bound[1] - bound[2]

RECURSIVE Evaluated(_)
Evaluated(t) ==
  [t EXCEPT !.sub = [i \in DOMAIN t.sub |-> Evaluated(t.sub[i])],
            !.range = [i \in DOMAIN t.range |-> Number(Value(t.range[i]))]]

\* The values of a type.
Meaning(t) == AsWritten(Evaluated(t))

\* The types at the leaves; the sizes of arrays are not leaves.
RECURSIVE Leaves(_)
Leaves(t) ==
  CASE Is(t, "RECORD") -> UNION {Leaves(SubType(t, i)) : i \in 1 .. RecordSize(t)}
    [] Is(t, "ARRAY") -> Leaves(SubType(t, 1))
    [] OTHER -> {t}

Unranged(t) == \E l \in Leaves(t) : Is(l, "INT") /\ ~Is(l, "RANGE")
OverScalars(t) ==
  (\E l \in Leaves(t) : Is(l, "SCALAR")) \/ (Is(t, "ARRAY") /\ Is(ArraySize(t), "SCALAR"))
  \/ \E i \in DOMAIN Strip(t).sub : Is(Strip(t).sub[i], "ARRAY") /\ Is(ArraySize(Strip(t).sub[i]), "SCALAR")

\* Types that areEquivalent accepts have the same values.  The types it accepts,
\* unless they are made of scalars, are those whose bounds are moreover written
\* in the same way: int[0,1] and int[0,2-1] have the same values, and are not
\* equivalent.  An int whose range is not written is equivalent to all.
EquivalentAsMeant ==
  \A s, t \in Variables \cup Parameters :
    Checked(s) /\ Checked(t) /\ ~Unranged(s) /\ ~Unranged(t) =>
      /\ AreEquivalent(s, t) => Meaning(s) = Meaning(t)
      /\ ~OverScalars(s) => (AreEquivalent(s, t) <=> AsWritten(s) = AsWritten(t))

\* A variable may be passed by reference, to be changed, only to a parameter of
\* the same values, so that no change leaves its range, and only when no part
\* of it is constant.
ReferencesSafe ==
  \A p \in Parameters : \A v \in Variables :
    /\ Checked(p) /\ Checked(v) /\ Is(p, "REF") /\ ~IsConstant(p)
    /\ IsParameterCompatible(p, v) /\ ~Is(v, "CHANNEL")
    => /\ Meaning(p) = Meaning(v)
       /\ \A l \in Leaves(v) : ~Is(l, "CONSTANT")

\* What the evaluation of constants takes for granted: a variable that
\* isConstant has initial values, and they are integers, booleans or doubles.
ConstantsHaveValues ==
  \A i \in DOMAIN declared :
    LET d == declared[i]
    IN  d.sort = "variable" /\ Checked(d.type) /\ IsConstant(d.type) =>
          /\ d.init
          /\ \A l \in Leaves(d.type) : Strip(l).kind \in {"INT", "BOOL", "DOUBLE"}

\* The translation finds that channels are broadcast channels however their
\* types are nested.
BroadcastSeen ==
  \A t \in Variables \cup Parameters :
    Checked(t) => (IsBroadcast(t) <=> \E l \in Leaves(t) : Is(l, "BROADCAST"))
=============================================================================
