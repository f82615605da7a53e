-------------------------------- MODULE MCTypes --------------------------------
(***************************************************************************)
(* The types of up to three declarations, over small ranges.               *)
(***************************************************************************)
EXTENDS Types

Bounded(p, b, lo, hi) == [prefix |-> p, base |-> b, lo |-> lo, hi |-> hi]
Word(p, b, lo, hi) == Bounded(p, b, Number(lo), Number(hi))

\* int[0,2-1], which is int[0,1] written in another way.
Difference01 == Bounded("NONE", "RANGE", Number(0), Minus(2, 1))

Integers01 == {Word(p, "RANGE", 0, 1) : p \in {"NONE", "CONSTANT"}}
Others == {Word("NONE", "RANGE", 0, 2), Word("CONSTANT", "INT", -9, 9), Word("NONE", "INT", -9, 9),
           Word("SYSTEM_META", "BOOL", 0, 1), Word("CONSTANT", "BOOL", 0, 1),
           Word("NONE", "DOUBLE", 0, 0), Word("CONSTANT", "DOUBLE", 0, 0),
           Word("NONE", "CLOCK", 0, 0), Word("CONSTANT", "CLOCK", 0, 0)}
Channels == {Word(p, "CHANNEL", 0, 0) : p \in {"NONE", "BROADCAST", "URGENT"}}
ScalarWord(p) == Bounded(p, "SCALAR", Number(0), Minus(2, 1))
ScalarWords == {ScalarWord("NONE"), ScalarWord("CONSTANT")}

\* Two declarations from any words, and three over ranges, scalars or channels.
AnyWords == Integers01 \cup {Difference01} \cup Others \cup Channels \cup ScalarWords
FewWords == {Word("NONE", "RANGE", 0, 1), Word("CONSTANT", "RANGE", 0, 1), Difference01,
             ScalarWord("NONE"), Word("NONE", "CHANNEL", 0, 0)}

Alias(p) == [name |-> "S", prefix |-> p]
Aliases == {Alias(p) : p \in {"NONE", "CONSTANT", "BROADCAST"}}

MCScopes ==
  {[words |-> AnyWords, aliases |-> Aliases, decls |-> 2, fields |-> 1],
   [words |-> FewWords, aliases |-> Aliases, decls |-> 3, fields |-> 0]}
=============================================================================
