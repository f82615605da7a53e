------------------------------ MODULE MCInstances ------------------------------
(***************************************************************************)
(* A template T, and up to two instantiations P and Q in a chain.          *)
(***************************************************************************)
EXTENDS Instances

Symbol(name, mode, range, init) == [name |-> name, mode |-> mode, range |-> range, init |-> init]
N == Symbol("N", "constant", <<>>, <<Lit(1)>>)
x == Symbol("x", "variable", <<>>, <<>>)
A == Symbol("A", "array", <<>>, <<>>)

To1 == <<Lit(0), Lit(1)>>
Param(name, mode) == Symbol(name, mode, <<>>, <<>>)
Ranged(name, mode, hi) == Symbol(name, mode, <<Lit(0), hi>>, <<>>)

n == Ranged("n", "const", Id(N))
m == Symbol("m", "constant", <<>>, <<Inc(Id(n))>>)

\* No value is in its range, so that the bounds of those before it are not read.
z == Symbol("z", "const", <<Lit(1), Lit(0)>>, <<>>)
Templates ==
  {[name |-> "T", params |-> P, sizes |-> {}, syncs |-> <<>>] :
     P \in {<<n, Ranged("i", "const", Id(n))>>, <<n, Ranged("i", "const", Id(n)), z>>,
            <<Param("k", "const"), Param("r", "ref")>>,
            <<Ranged("v", "value", Lit(1)), n>>, <<Param("c", "constref")>>, <<Param("r", "ref")>>,
            <<Ranged("w", "const", Id(x))>>}}
  \cup {[name |-> "T", params |-> P, sizes |-> {Id(m)}, syncs |-> <<>>] : P \in {<<n>>, <<Param("r", "ref"), n>>}}
  \cup {[name |-> "T", params |-> <<Ranged("v", "value", Lit(1))>>,
         sizes |-> {Id(Ranged("v", "value", Lit(1)))}, syncs |-> <<>>]}

Syncs == {<<>>, <<"io">>, <<"csp">>, <<"io", "csp">>, <<"csp", "io">>, <<"io", "io">>}
Section(io, csp) == [io |-> io, csp |-> csp]
SectionLists == {<<>>} \cup {<<Section(i, c)>> : i, c \in BOOLEAN}
                \cup {<<Section(TRUE, FALSE), Section(FALSE, TRUE)>>, <<Section(FALSE, TRUE), Section(FALSE, FALSE)>>}

MCModels ==
  {[templ |-> t, sections |-> <<>>, lines |-> 3 - procs, procs |-> procs] :
     t \in Templates, procs \in 1 .. 2}
  \cup {[templ |-> [name |-> "T", params |-> <<>>, sizes |-> {}, syncs |-> s], sections |-> list,
         lines |-> 0, procs |-> 1] : s \in Syncs, list \in SectionLists}

\* The parameters of a line are told by their names; an argument may be one.
const == Ranged("b", "const", Lit(1))
value == Ranged("b", "value", Lit(1))
ref == Param("b", "ref")
d == Ranged("d", "const", Lit(1))
Free == {Lit(1), Id(x)}

MCOffered ==
  [P |-> [params |-> {<<>>, <<const>>, <<value>>, <<ref>>},
          args |-> Free \cup {Id(const), Inc(Id(const)), Cell(A, Id(const)),
                             Id(value), Cell(A, Id(value)), Id(ref)}],
   Q |-> [params |-> {<<>>, <<d>>}, args |-> Free \cup {Id(d), Cell(A, Id(d))}]]
=============================================================================
