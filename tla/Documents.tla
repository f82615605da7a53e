------------------------------- MODULE Documents -------------------------------
(***************************************************************************)
(* From an XML document to written processes: the reader walks over the    *)
(* elements (xmlreader.cpp), the builder makes templates of them           *)
(* (systembuilder.cpp, system.cpp), and the translation writes locations   *)
(* and edges, an edge once for each valuation of its iterators             *)
(* (utot-translate.cc).  The reader looks only for the starts of elements, *)
(* so that a document is the sequence of these.                            *)
(*                                                                         *)
(* An element is [tag, id, name, kind]:                                    *)
(*   id   : of a location or branchpoint; what a reference refers to, 0 if *)
(*          nothing; for a label of kind "select" the last value of its    *)
(*          iterator, which starts at 0                                    *)
(*   name : of a template or location; the iterator of a label, "" if none;*)
(*          for an invariant "clock" or "int", what it is about            *)
(*   kind : of a label; "action" for a transition with an action           *)
(* Labels are told apart by their positions in the document.  Left out:    *)
(* names that are keywords, labels that do not parse, and texts other than *)
(* these; declarations and parameters come with the template, as the names *)
(* they declare (Declared).  What is read keeps the position it was read   *)
(* from, in a field "at" that only the properties look at.                 *)
(***************************************************************************)
EXTENDS Integers, Sequences, FiniteSets
LOCAL INSTANCE TLC            \* ToString

CONSTANTS
  Families,       \* families of documents, each with the system tag at its end
  Declared        \* the names that a template declares, by its name

Element == [tag : STRING, id : Int, name : STRING, kind : STRING]

\* A document ends with the system tag, and its templates are known.
IsDocument(d) ==
  /\ d \in Seq(Element) /\ d # <<>> /\ d[Len(d)].tag = "system"
  /\ \A p \in DOMAIN d : d[p].tag = "template" => Declared[d[p].name] \in Seq(STRING)

ASSUME FamiliesAssumption == \A i \in DOMAIN Families : \A d \in Families[i] : IsDocument(d)

VARIABLES
  document,
  at,           \* the element that the reader looks at
  phase,        \* what is read next, then "translate" and "done"; or
                \* "refused", "aborted" or "crashed"
  names,        \* of the locations and branchpoints, by id
  templates,    \* [at, name, symbols, states, init, edges]; states, initial
                \* location and ends of edges are indices of symbols
  currentEdge,  \* <<template, edge>>, or <<>>
  dummy,        \* the transition being read is not the current edge
  fragments,    \* the expressions parsed and not yet used, the last one on top
  errors,       \* an error was reported
  written       \* the processes written, [name, locations, edges]

vars == <<document, at, phase, names, templates, currentEdge, dummy, fragments, errors, written>>

Tag(p) == document[p].tag

\* Where elements with the given tags, from p on, end.
After(tags, p) ==
  CHOOSE q \in p .. Len(document) : Tag(q) \notin tags /\ \A r \in p .. q - 1 : Tag(r) \in tags

\* At most one element.
Past(tag, p) == IF Tag(p) = tag THEN p + 1 ELSE p

\* The elements of a finite set of positions, in order.
Listed(P) == [k \in 1 .. Cardinality(P) |-> CHOOSE p \in P : Cardinality({q \in P : q <= p}) = k]

Init ==
  /\ \E i \in DOMAIN Families : document \in Families[i]
  /\ at = 1 /\ phase = "project" /\ names = <<>> /\ templates = <<>>
  /\ currentEdge = <<>> /\ dummy = FALSE /\ fragments = <<>> /\ errors = FALSE /\ written = <<>>

\* Mutated form: the first symbol of a name.
FirstOf(I) == CHOOSE i \in I : \A j \in I : i <= j

\* frame_t keeps the last symbol of a name.
LastOf(I) == CHOOSE i \in I : \A j \in I : j <= i

\* The symbol of a name, or 0.
Find(symbols, name) ==
  LET I == {i \in DOMAIN symbols : symbols[i].name = name}
  IN  IF I = {} THEN 0 ELSE LastOf(I)

Current == Len(templates)
Symbols == templates[Current].symbols
KindOf(i) == IF i = 0 THEN "none" ELSE Symbols[i].kind

NewSymbol(name, kind, flags, p) == [name |-> name, kind |-> kind, flags |-> flags, at |-> p]

-----------------------------------------------------------------------------
(***************************************************************************)
(* Reading.                                                                *)
(***************************************************************************)
\* templ and procBegin, with the name, the parameters and the declarations.
ReadTemplate ==
  /\ phase = "project" /\ Tag(at) = "template"
  /\ templates' = Append(templates,
       [at |-> at, name |-> document[at].name,
        symbols |-> [i \in DOMAIN Declared[document[at].name] |->
                       NewSymbol(Declared[document[at].name][i], "variable", {}, 0)],
        states |-> <<>>, init |-> 0, edges |-> <<>>])
  /\ errors' = (errors \/ \E i \in DOMAIN templates : templates[i].name = document[at].name)
  /\ phase' = "locations" /\ at' = at + 1
  /\ UNCHANGED <<document, names, currentEdge, dummy, fragments, written>>

\* Mutated form: the expression at the bottom of the stack.
Bottom(stack) == stack[1]

Top(stack) == stack[Len(stack)]
Pop(stack) == SubSeq(stack, 1, Len(stack) - 1)

\* Mutated form: nothing is a duplicate.
Never(name) == FALSE

Duplicate(name) == Find(Symbols, name) # 0

\* procStateUrgent, after procStateCommit
UrgentFits(flags) == "committed" \notin flags

NameOf(name, id) == IF name = "" THEN "_" \o ToString(id) ELSE name

Bind(id, name) == [i \in DOMAIN names \cup {id} |-> IF i = id THEN name ELSE names[i]]

\* location, procState and addLocation: name, labels, urgent, committed, in
\* this order.  A second location of the same name is added, and reported
\* before its flags are set.
ReadLocation ==
  LET id == document[at].id
      n == Past("name", at + 1)
      l == After({"label"}, n)
      u == Past("urgent", l)
      c == Past("committed", u)
      name == NameOf(IF n > at + 1 THEN document[at + 1].name ELSE "", id)
      kinds == {document[p].kind : p \in n .. l - 1}
      pushed == fragments \o Listed({p \in n .. l - 1 : document[p].kind \in {"invariant", "exponentialrate"}})
      below == IF "exponentialrate" \in kinds THEN Pop(pushed) ELSE pushed
      duplicate == Duplicate(name)
      committed == IF c > u THEN {"committed"} ELSE {}
      urgent == IF u > l /\ UrgentFits(committed) THEN {"urgent"} ELSE {}
      flags == IF duplicate THEN {} ELSE committed \cup urgent
  IN  /\ phase = "locations" /\ Tag(at) = "location"
      /\ names' = Bind(id, name)
      /\ fragments' = IF "invariant" \in kinds THEN Pop(below) ELSE below
      /\ templates' =
           [templates EXCEPT
              ![Current].symbols = Append(@, NewSymbol(name, "location", flags, at)),
              ![Current].states = Append(@,
                 [uid |-> Len(Symbols) + 1,
                  invariant |-> IF "invariant" \in kinds THEN Top(below) ELSE 0,
                  rate |-> IF "exponentialrate" \in kinds THEN Top(pushed) ELSE 0])]
      /\ errors' = (errors \/ duplicate \/ (u > l /\ ~UrgentFits(committed)))
      /\ at' = c
      /\ UNCHANGED <<document, phase, currentEdge, dummy, written>>

\* branchpoint, procBranchpoint and addBranchpoint
ReadBranchpoint ==
  LET name == NameOf("", document[at].id)
  IN  /\ phase = "branchpoints" /\ Tag(at) = "branchpoint"
      /\ names' = Bind(document[at].id, name)
      /\ templates' = [templates EXCEPT ![Current].symbols = Append(@, NewSymbol(name, "branchpoint", {}, at))]
      /\ errors' = (errors \/ Duplicate(name))
      /\ at' = at + 1
      /\ UNCHANGED <<document, phase, currentEdge, dummy, fragments, written>>

\* The loops over locations and branchpoints end at the first other element.
EndLoop ==
  /\ \/ phase = "locations" /\ Tag(at) # "location" /\ phase' = "branchpoints"
     \/ phase = "branchpoints" /\ Tag(at) # "branchpoint" /\ phase' = "init"
  /\ UNCHANGED <<document, at, names, templates, currentEdge, dummy, fragments, errors, written>>

\* init and procStateInit.  A reference to nothing known is an exception that
\* no one catches before main.
ReadInit ==
  LET ref == document[at].id
      uid == IF ref \in DOMAIN names THEN Find(Symbols, names[ref]) ELSE 0
      fits == Tag(at) = "init" /\ KindOf(uid) = "location"
  IN  /\ phase = "init"
      /\ phase' = IF Tag(at) = "init" /\ ref # 0 /\ ref \notin DOMAIN names THEN "aborted"
                  ELSE "transitions"
      /\ templates' = IF fits THEN [templates EXCEPT ![Current].init = uid] ELSE templates
      /\ errors' = (errors \/ ~fits)
      /\ at' = Past("init", at)
      /\ UNCHANGED <<document, names, currentEdge, dummy, fragments, written>>

NoLabel == [at |-> 0, iterator |-> 0]
NewEdge(src, dst, action, p) ==
  [at |-> p, src |-> src, dst |-> dst, action |-> action, select |-> <<>>,
   labels |-> [k \in {"guard", "synchronisation", "assignment"} |-> NoLabel]]

\* Mutated form: any symbol is the end of an edge.
AnySymbol(kind) == kind # "none"

IsEnd(kind) == kind \in {"location", "branchpoint"}

\* transition, source, target and procEdgeBegin.  When an end is missing the
\* current edge is still the one before, in a frame of its own.
BeginTransition ==
  LET known == /\ Tag(at + 1) = "source" /\ document[at + 1].id \in DOMAIN names
               /\ Tag(at + 2) = "target" /\ document[at + 2].id \in DOMAIN names
      src == Find(Symbols, names[document[at + 1].id])
      dst == Find(Symbols, names[document[at + 2].id])
      fits == IsEnd(KindOf(src)) /\ IsEnd(KindOf(dst))
  IN  /\ phase = "transitions" /\ Tag(at) = "transition"
      /\ IF ~known THEN phase' = "aborted" /\ UNCHANGED <<at, templates, currentEdge, dummy, errors>>
         ELSE /\ phase' = "labels" /\ at' = at + 3 /\ dummy' = ~fits
              /\ IF fits
                 THEN /\ templates' = [templates EXCEPT ![Current].edges =
                                         Append(@, NewEdge(src, dst, document[at].kind = "action", at))]
                      /\ currentEdge' = <<Current, Len(templates[Current].edges) + 1>>
                      /\ UNCHANGED errors
                 ELSE errors' = TRUE /\ UNCHANGED <<templates, currentEdge>>
      /\ UNCHANGED <<document, names, fragments, written>>

AtLabel == Tag(at) = "label"

Edge == templates[currentEdge[1]].edges[currentEdge[2]]

\* An invariant is left on the stack; the other kinds are not read.
IgnoreLabel ==
  LET e == document[at]
  IN  /\ phase = "labels" /\ AtLabel /\ e.kind \in {"comments", "invariant", "exponentialrate"}
      /\ fragments' = IF e.kind = "invariant" THEN Append(fragments, at) ELSE fragments
      /\ at' = at + 1
      /\ UNCHANGED <<document, phase, names, templates, currentEdge, dummy, errors, written>>

\* procSelect
ReadSelect ==
  LET e == document[at]
  IN  /\ phase = "labels" /\ AtLabel /\ e.kind = "select"
      /\ IF currentEdge = <<>> THEN phase' = "crashed" /\ UNCHANGED <<at, templates>>
         ELSE /\ templates' = [templates EXCEPT ![currentEdge[1]].edges[currentEdge[2]].select =
                                 Append(@, [at |-> at, name |-> e.name, last |-> e.id])]
              /\ at' = at + 1 /\ UNCHANGED phase
      /\ UNCHANGED <<document, names, currentEdge, dummy, fragments, errors, written>>

\* procGuard, procSync and procUpdate.  An identifier is an iterator read
\* before, or else a symbol of the template.
ReadLabel ==
  LET e == document[at]
      iterator == IF dummy THEN 0 ELSE Find(Edge.select, e.name)
      unknown == e.name # "" /\ iterator = 0 /\ Find(Symbols, e.name) = 0
  IN  /\ phase = "labels" /\ AtLabel /\ e.kind \in {"guard", "synchronisation", "assignment"}
      /\ IF currentEdge = <<>> THEN phase' = "crashed" /\ UNCHANGED <<at, templates, errors>>
         ELSE /\ templates' = [templates EXCEPT ![currentEdge[1]].edges[currentEdge[2]].labels[e.kind] =
                                 [at |-> at, iterator |-> iterator]]
              /\ errors' = (errors \/ unknown)
              /\ at' = at + 1 /\ UNCHANGED phase
      /\ UNCHANGED <<document, names, currentEdge, dummy, fragments, written>>

\* The nails, and procEdgeEnd.
EndTransition ==
  /\ phase = "labels" /\ ~AtLabel
  /\ phase' = "transitions" /\ at' = After({"nail"}, at)
  /\ UNCHANGED <<document, names, templates, currentEdge, dummy, fragments, errors, written>>

\* Mutated form: the loop goes on to the next template.
AtTop == phase = "transitions" /\ Tag(at) \in {"template", "system"}

AtEnd == phase = "transitions" /\ Tag(at) # "transition"

\* procEnd
EndTemplate ==
  /\ AtEnd
  /\ phase' = "project"
  /\ UNCHANGED <<document, at, names, templates, currentEdge, dummy, fragments, errors, written>>

\* visitState: a rate is a number.  An invariant may be one.
NumberRates ==
  \A t \in DOMAIN templates : \A i \in DOMAIN templates[t].states :
    LET rate == templates[t].states[i].rate
    IN  rate # 0 => document[rate].name # "clock"

\* system, with every template in it, and the type checker.
ReadSystem ==
  /\ phase = "project" /\ Tag(at) # "template"
  /\ LET fine == ~errors /\ Tag(at) = "system" /\ NumberRates
     IN  /\ errors' = ~fine
         /\ phase' = IF fine THEN "translate" ELSE "refused"
  /\ UNCHANGED <<document, at, names, templates, currentEdge, dummy, fragments, written>>

-----------------------------------------------------------------------------
(***************************************************************************)
(* Translation.                                                            *)
(***************************************************************************)
\* s_translate_states
WrittenLocations(t) ==
  [i \in DOMAIN t.states |->
     LET s == t.symbols[t.states[i].uid]
     IN  [name |-> s.name, invariant |-> t.states[i].invariant, flags |-> s.flags,
          initial |-> t.states[i].uid = t.init]]

\* s_translate_edge_with_select: the values of the iterators.
Valuations(select) ==
  {val \in [DOMAIN select -> 0 .. 2] : \A i \in DOMAIN val : val[i] <= select[i].last}

\* A label as written, its iterator replaced by the value.
Instantiated(label, val) ==
  [at |-> label.at, value |-> IF label.iterator = 0 THEN -1 ELSE val[label.iterator]]

\* s_translate_edge of edge k
WrittenEdges(t, k) ==
  LET e == t.edges[k]
  IN  {[edge |-> k, src |-> t.symbols[e.src].name, dst |-> t.symbols[e.dst].name, val |-> val,
        labels |-> [kind \in DOMAIN e.labels |-> Instantiated(e.labels[kind], val)]] :
         val \in Valuations(e.select)}

\* A location that is no location is dereferenced, or an assertion fails.
Fatal(t, k) ==
  LET e == t.edges[k]
  IN  /\ Valuations(e.select) # {}
      /\ t.symbols[e.src].kind # "location" \/ t.symbols[e.dst].kind # "location" \/ e.action

\* s_translate_process
TranslateTemplate ==
  /\ phase = "translate"
  /\ LET t == templates[Len(written) + 1]
         crash == \E k \in DOMAIN t.edges : Fatal(t, k)
     IN  IF Len(written) = Len(templates) THEN phase' = "done" /\ UNCHANGED written
         ELSE IF crash THEN phase' = "crashed" /\ UNCHANGED written
         ELSE /\ written' = Append(written, [name |-> t.name, locations |-> WrittenLocations(t),
                                             edges |-> UNION {WrittenEdges(t, k) : k \in DOMAIN t.edges}])
              /\ UNCHANGED phase
  /\ UNCHANGED <<document, at, names, templates, currentEdge, dummy, fragments, errors>>

Next ==
  \/ ReadTemplate \/ ReadLocation \/ ReadBranchpoint \/ EndLoop \/ ReadInit
  \/ BeginTransition \/ IgnoreLabel \/ ReadSelect \/ ReadLabel \/ EndTransition \/ EndTemplate \/ ReadSystem \/ TranslateTemplate

Spec == Init /\ [][Next]_vars /\ WF_vars(Next)

-----------------------------------------------------------------------------
(***************************************************************************)
(* Properties.                                                             *)
(***************************************************************************)
\* The document as it is drawn: what is between an element and the next one of
\* the given tags is part of it.
Tops == {"template", "system"}
Parts == Tops \cup {"location", "branchpoint", "init", "transition"}
Inside(p, tags) ==
  LET stop == CHOOSE q \in p + 1 .. Len(document) :
                Tag(q) \in tags /\ \A r \in p + 1 .. q - 1 : Tag(r) \notin tags
  IN  p + 1 .. stop - 1
WithTag(P, tag) == {p \in P : Tag(p) = tag}
OfKind(P, kind) == {p \in WithTag(P, "label") : document[p].kind = kind}
LastPart(P) == IF P = {} THEN 0 ELSE CHOOSE p \in P : \A q \in P : q <= p

\* s lists the positions P in order.
Lists(s, P) == /\ {s[k] : k \in DOMAIN s} = P
               /\ \A j, k \in DOMAIN s : j < k => s[j] < s[k]

\* Processes are written for the templates that are drawn, in order.
TemplatesListed ==
  Lists([i \in DOMAIN templates |-> templates[i].at], WithTag(Inside(0, {"system"}), "template"))

DrawnNodes(t) == {p \in Inside(t, Tops) : Tag(p) \in {"location", "branchpoint"}}
DrawnName(p) ==
  LET given == WithTag(Inside(p, Parts), "name")
  IN  NameOf(IF given = {} THEN "" ELSE document[CHOOSE q \in given : TRUE].name, document[p].id)
DrawnLocation(t, p) ==
  LET P == Inside(p, Parts)
  IN  [name |-> DrawnName(p), invariant |-> LastPart(OfKind(P, "invariant")),
       flags |-> {tag \in {"urgent", "committed"} : WithTag(P, tag) # {}},
       initial |-> \E q \in WithTag(Inside(t, Tops), "init") : document[q].id = document[p].id]

NoRates(p) == OfKind(Inside(p, Parts), "exponentialrate") = {}

\* The nodes of a template have ids of their own, and what refers to nodes in it,
\* in elements of the given tags, refers to these.
OwnIds(t) == \A p, q \in DrawnNodes(t) : document[p].id = document[q].id => p = q
Closed(t, tags) ==
  \A p \in Inside(t, Tops) :
    Tag(p) \in tags => \E q \in DrawnNodes(t) : document[q].id = document[p].id

\* Processes are written with the locations that are drawn, in their order,
\* each with its last invariant, its flags and whether it is initial, wherever
\* elements that are out of place occur (location, procState,
\* s_translate_states).  Left out: invariants of locations with a rate, which
\* are exchanged with the rate when it comes first; and which location is
\* initial when ids are bound twice or the reference is to another template.
LocationsAsDrawn ==
  /\ written # <<>> => TemplatesListed
  /\ \A i \in DOMAIN written :
       LET t == templates[i]
           drawn == [k \in DOMAIN t.states |-> t.symbols[t.states[k].uid].at]
       IN  /\ Lists(drawn, WithTag(Inside(t.at, Tops), "location"))
           /\ DOMAIN written[i].locations = DOMAIN drawn
           /\ \A k \in DOMAIN drawn :
                LET d == DrawnLocation(t.at, drawn[k])
                    w == written[i].locations[k]
                IN  /\ w.name = d.name /\ w.flags = d.flags
                    /\ NoRates(drawn[k]) => w.invariant = d.invariant
                    /\ OwnIds(t.at) /\ Closed(t.at, {"init"}) => w.initial = d.initial

\* The iterators of a transition that come before a position.
DrawnIterators(e, p) == {q \in OfKind(Inside(e, Parts), "select") : q < p}

DrawnLabel(e, p, val) ==
  LET Q == {q \in DrawnIterators(e, p) : document[q].name = document[p].name}
  IN  [at |-> p, value |-> IF p = 0 \/ Q = {} THEN -1 ELSE val[LastPart(Q)]]

DrawnEdges(t, e) ==
  LET P == Inside(e, Parts)
      S == OfKind(P, "select")
      EndOf(tag) == LET ref == CHOOSE p \in P : Tag(p) = tag
                    IN  DrawnName(CHOOSE p \in DrawnNodes(t) : document[p].id = document[ref].id)
  IN  {[src |-> EndOf("source"), dst |-> EndOf("target"),
        labels |-> [kind \in {"guard", "synchronisation", "assignment"} |->
                      DrawnLabel(e, LastPart(OfKind(P, kind)), val)]] :
         val \in {v \in [S -> 0 .. 2] : \A p \in S : v[p] <= document[p].id}}

\* Processes are written with the transitions that are drawn, once for each
\* valuation of their iterators, each between its own locations and with its
\* own labels, though labels go to whatever edge is current, names are found by
\* an id that another template may have bound, and iterators may have the same
\* name (transition, procEdgeBegin, s_translate_edge_with_select).  Left out:
\* ids bound twice, and references to other templates, which find a location of
\* the same name.
EdgesAsDrawn ==
  \A i \in DOMAIN written :
    LET t == templates[i]
        drawn == [k \in DOMAIN t.edges |-> t.edges[k].at]
        Of(k) == {[src |-> e.src, dst |-> e.dst, labels |-> e.labels] :
                    e \in {f \in written[i].edges : f.edge = k}}
    IN  /\ Lists(drawn, WithTag(Inside(t.at, Tops), "transition"))
        /\ {e.edge : e \in written[i].edges} \subseteq DOMAIN drawn
        /\ OwnIds(t.at) /\ Closed(t.at, {"source", "target"}) =>
             \A k \in DOMAIN drawn : Of(k) = DrawnEdges(t.at, drawn[k])

\* The locations of a process have names of their own, given or made up from an
\* id (addLocation and addBranchpoint note that names may conflict); one of them
\* is initial, and none is both urgent and committed, which are flags set by
\* elements that come later (init, procStateInit, procStateUrgent).
LocationsWellFormed ==
  \A i \in DOMAIN written :
    LET L == written[i].locations
    IN  /\ \A j, k \in DOMAIN L : L[j].name = L[k].name => j = k
        /\ \E k \in DOMAIN L : \A j \in DOMAIN L : L[j].initial <=> j = k
        /\ \A k \in DOMAIN L : ~({"urgent", "committed"} \subseteq L[k].flags)

\* The program fails only on a document that it refuses anyway, or on an edge
\* with a branchpoint or an action (procGuard, s_translate_edge).
CrashesKnown ==
  phase = "crashed" /\ ~errors =>
    \E p \in DOMAIN document : Tag(p) = "branchpoint" \/ document[p].kind = "action"

\* Every document is translated, refused or given up; the loops of the reader
\* end whatever elements come out of place.
Ends == <>(phase \in {"done", "refused", "aborted", "crashed"})
=============================================================================
