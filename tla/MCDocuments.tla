------------------------------ MODULE MCDocuments ------------------------------
(***************************************************************************)
(* Documents of one or two templates T and U, in several families: all     *)
(* shapes of locations, all shapes of transitions, the parts of a template *)
(* in every order, references from one template to the other, ids bound    *)
(* twice, and templates after the system.                                  *)
(***************************************************************************)
EXTENDS Documents

Part(tag, id, name, kind) == [tag |-> tag, id |-> id, name |-> name, kind |-> kind]
Label(kind) == Part("label", 0, "", kind)
Using(kind, iterator) == Part("label", 0, iterator, kind)
Select(iterator, last) == Part("label", last, iterator, "select")
Flag(tag) == Part(tag, 0, "", "")
Clock == Part("label", 0, "clock", "invariant")
Whole == Part("label", 0, "int", "invariant")
Rate == Part("label", 0, "int", "exponentialrate")

Location(id, name, rest) ==
  <<Part("location", id, "", "")>>
  \o (IF name = "" THEN <<>> ELSE <<Part("name", 0, name, "")>>) \o rest
Starting(ref) == <<Part("init", ref, "", "")>>
Transition(src, dst, kind, labels) ==
  <<Part("transition", 0, "", kind), Part("source", src, "", ""), Part("target", dst, "", "")>> \o labels
Template(name, body) == <<Part("template", 0, name, "")>> \o body
Document(body) == body \o <<Part("system", 0, "", "")>>

Guarded == Transition(1, 2, "", <<Label("guard")>>)

LabelLists == {<<>>, <<Clock>>, <<Whole, Clock>>, <<Clock, Rate>>, <<Rate, Whole>>, <<Rate, Clock>>,
               <<Label("comments"), Whole, Rate, Whole>>}
FlagLists == {<<>>, <<Flag("urgent")>>, <<Flag("committed")>>, <<Flag("urgent"), Flag("committed")>>,
              <<Flag("committed"), Flag("urgent")>>}
Names == {"", "s", "_1", "_2", "v"}
ByLocations ==
  {Document(Template("T", Location(1, n, l \o f) \o Location(2, m, g) \o Starting(ref) \o Guarded)) :
     n \in Names, m \in Names, l \in LabelLists, f \in FlagLists, g \in {<<Clock>>, <<Label("guard"), Flag("committed")>>},
     ref \in {0, 1}}

TwoLocations == Location(1, "s", <<>>) \o Location(2, "", <<Clock>>)
Branch == <<Part("branchpoint", 3, "", "")>>
EdgeLabels ==
  {<<>>, <<Label("guard"), Label("assignment")>>, <<Clock, Rate, Label("guard")>>,
   <<Select("i", 1), Using("guard", "i"), Label("synchronisation")>>,
   <<Select("i", 1), Select("j", 2), Using("guard", "j"), Using("assignment", "i")>>,
   <<Select("i", 1), Using("guard", "i"), Select("i", 2), Using("synchronisation", "i")>>,
   <<Select("i", -1), Label("guard")>>,
   <<Using("guard", "i"), Select("i", 1)>>, <<Using("guard", "v"), Select("v", 1), Using("assignment", "v")>>,
   <<Label("guard"), Flag("nail"), Label("assignment")>>, <<Label("comments"), Flag("nail"), Flag("nail")>>}
ByTransitions ==
  {Document(Template("T", TwoLocations \o b \o Starting(ref) \o Transition(x, y, k, l) \o Transition(2, 1, "", m))) :
     b \in {<<>>, Branch}, ref \in {1, 3, 9}, x \in {1, 2, 3}, y \in {1, 3, 9}, k \in {"", "action"},
     l \in EdgeLabels, m \in {<<>>, <<Label("guard")>>, <<Select("i", 1), Using("guard", "i")>>}}

PartsOf == <<Location(1, "s", <<>>) \o Location(2, "", <<Clock>>), Branch, Starting(1), Guarded \o Guarded>>
Orders == {o \in [1 .. 4 -> 0 .. 4] : \A i, j \in 1 .. 4 : o[i] = o[j] => i = j \/ o[i] = 0}
Chosen(i) == IF i = 0 THEN <<>> ELSE PartsOf[i]
ByOrder ==
  {Document(Template("T", Chosen(o[1]) \o Chosen(o[2]) \o Chosen(o[3]) \o Chosen(o[4]))) : o \in Orders}

ByTemplates ==
  {Document(Template("T", Location(1, n, <<>>) \o Starting(1) \o t)
            \o Template(u, Location(2, m, <<Whole>>) \o Location(id, "t", <<Flag("urgent")>>) \o Starting(ref)
                           \o Transition(x, 2, "", l))) :
     n \in {"", "s", "r"}, t \in {<<>>, Transition(1, 1, "", <<Label("guard")>>)}, u \in {"T", "U"},
     m \in {"", "s"}, id \in {1, 2, 3}, ref \in {1, 2}, x \in {1, 2, 3},
     l \in {<<>>, <<Label("guard")>>, <<Select("i", 1)>>, <<Label("comments")>>}}

\* What comes after the system tag is not read.
OneTemplate(name) == Document(Template(name, TwoLocations \o Starting(1) \o Guarded))
BySystem == {Document(<<>>), OneTemplate("T") \o OneTemplate("U")}

MCFamilies == <<ByLocations, ByTransitions, ByOrder, ByTemplates, BySystem>>
MCDeclared == [T |-> <<"v">>, U |-> <<"r">>]
=============================================================================
