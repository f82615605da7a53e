---------------------------- MODULE DocumentsProofs ----------------------------
(***************************************************************************)
(* Proofs about the reading of documents, for any families of documents.   *)
(* What is written of a template is well formed because of what is read    *)
(* into it: the invariant relates the symbols of a template to its states, *)
(* its initial location and the ends of its edges, as long as no error was *)
(* reported.                                                               *)
(***************************************************************************)
EXTENDS Documents, FiniteSetTheorems, ListLemmas

-----------------------------------------------------------------------------
(***************************************************************************)
(* The position of the reader.                                             *)
(***************************************************************************)
\* The reader is at an element of a document that ends with the system tag.
PositionOK == IsDocument(document) /\ at \in DOMAIN document

\* An element that is not the system tag is followed by another.
LEMMA NextElement ==
  ASSUME IsDocument(document), NEW p \in DOMAIN document, Tag(p) # "system"
  PROVE  p + 1 \in DOMAIN document
BY DEF IsDocument, Tag

\* The reader that passes an element is still in the document.
LEMMA PastElement ==
  ASSUME IsDocument(document), NEW p \in DOMAIN document, NEW tag, tag # "system"
  PROVE  Past(tag, p) \in DOMAIN document
BY NextElement DEF Past

\* The reader that passes a run of elements is still in the document, at the
\* first element that is not one of them.
LEMMA AfterElements ==
  ASSUME IsDocument(document), NEW p \in DOMAIN document, NEW tags, "system" \notin tags
  PROVE  /\ After(tags, p) \in DOMAIN document /\ p <= After(tags, p)
         /\ Tag(After(tags, p)) \notin tags
         /\ \A r \in p .. After(tags, p) - 1 : Tag(r) \in tags
<1> DEFINE I == {q \in p .. Len(document) : Tag(q) \notin tags}
<1>1. Len(document) \in I /\ I \subseteq Nat /\ DOMAIN document = 1 .. Len(document) /\ Len(document) \in Nat
  BY DEF IsDocument, Tag
<1>2. PICK q \in I : \A r \in I : q <= r
  BY <1>1, FirstPosition
<1>3. ASSUME NEW r \in p .. q - 1 PROVE Tag(r) \in tags
  BY <1>1, <1>2, <1>3
<1>4. q \in p .. Len(document) /\ Tag(q) \notin tags /\ \A r \in p .. q - 1 : Tag(r) \in tags
  BY <1>2, <1>3
<1>5. /\ After(tags, p) \in p .. Len(document) /\ Tag(After(tags, p)) \notin tags
      /\ \A r \in p .. After(tags, p) - 1 : Tag(r) \in tags
  BY <1>4 DEF After
<1> QED  BY <1>1, <1>5

\* Every step leaves the reader in the document.
LEMMA PositionStep == PositionOK /\ [Next]_vars => PositionOK'
<1> SUFFICES ASSUME PositionOK, [Next]_vars PROVE PositionOK'
  OBVIOUS
<1>1. document' = document
  BY DEF Next, vars, ReadTemplate, ReadLocation, ReadBranchpoint, EndLoop, ReadInit, BeginTransition,
     IgnoreLabel, ReadSelect, ReadLabel, EndTransition, EndTemplate, ReadSystem, TranslateTemplate
<1>2. IsDocument(document) /\ at \in DOMAIN document
  BY DEF PositionOK
<1>3. CASE UNCHANGED at
  BY <1>1, <1>2, <1>3 DEF PositionOK, IsDocument
<1>4. CASE at' = at + 1 /\ Tag(at) # "system"
  BY <1>1, <1>2, <1>4, NextElement DEF PositionOK, IsDocument
<1>5. CASE ReadLocation
  <2>1. at + 1 \in DOMAIN document
    BY <1>2, <1>5, NextElement, Zenon DEF ReadLocation
  <2>2. Past("name", at + 1) \in DOMAIN document
    BY <1>2, <2>1, PastElement
  <2>3. After({"label"}, Past("name", at + 1)) \in DOMAIN document
    BY <1>2, <2>2, AfterElements
  <2>4. Past("urgent", After({"label"}, Past("name", at + 1))) \in DOMAIN document
    BY <1>2, <2>3, PastElement
  <2>5. at' \in DOMAIN document
    BY <1>2, <1>5, <2>4, PastElement, Zenon DEF ReadLocation
  <2> QED  BY <1>1, <1>2, <2>5 DEF PositionOK, IsDocument
<1>6. CASE ReadInit
  BY <1>1, <1>2, <1>6, PastElement DEF ReadInit, PositionOK, IsDocument
<1>7. CASE BeginTransition
  <2>1. CASE UNCHANGED at
    BY <1>3, <2>1
  <2>2. CASE ~ UNCHANGED at
    <3>1. Tag(at) = "transition" /\ Tag(at + 1) = "source" /\ Tag(at + 2) = "target" /\ at' = at + 3
      BY <1>7, <2>2 DEF BeginTransition
    <3>2. at + 1 \in DOMAIN document
      BY <1>2, <3>1, NextElement
    <3>3. (at + 1) + 1 \in DOMAIN document
      BY <1>2, <3>1, <3>2, NextElement
    <3>4. (at + 1) + 1 = at + 2 /\ (at + 2) + 1 = at + 3
      BY <1>2 DEF IsDocument
    <3>5. at + 3 \in DOMAIN document
      BY <1>2, <3>1, <3>3, <3>4, NextElement
    <3> QED  BY <1>1, <1>2, <3>1, <3>5 DEF PositionOK, IsDocument
  <2> QED  BY <2>1, <2>2
<1>8. CASE EndTransition
  BY <1>1, <1>2, <1>8, AfterElements DEF EndTransition, PositionOK, IsDocument
<1>9. CASE ReadSelect \/ ReadLabel \/ IgnoreLabel
  BY <1>3, <1>4, <1>9, Zenon DEF ReadSelect, ReadLabel, IgnoreLabel, AtLabel
<1>10. CASE ReadTemplate \/ ReadBranchpoint
  BY <1>4, <1>10, Zenon DEF ReadTemplate, ReadBranchpoint
<1> QED
  BY <1>3, <1>5, <1>6, <1>7, <1>8, <1>9, <1>10 DEF Next, vars, EndLoop, EndTemplate, ReadSystem, TranslateTemplate

\* The reader never looks past the end of the document: every loop and every
\* optional element stops at the system tag, whatever is out of place.
THEOREM ReaderInDocument == Spec => []PositionOK
<1>1. Init => PositionOK
  BY FamiliesAssumption DEF Init, PositionOK, IsDocument
<1> QED  BY <1>1, PositionStep, PTL DEF Spec

-----------------------------------------------------------------------------
(***************************************************************************)
(* What is read into a template.                                           *)
(***************************************************************************)
TemplateOK(t) ==
  /\ DOMAIN t = {"at", "name", "symbols", "states", "init", "edges"}
  /\ List(t.symbols) /\ List(t.states) /\ List(t.edges)
  /\ \A k \in DOMAIN t.edges : DOMAIN t.edges[k] = {"at", "src", "dst", "action", "select", "labels"}

IsLocation(t, i) == i \in DOMAIN t.symbols /\ t.symbols[i].kind = "location"

\* Each location has one state, and an initial location is a location.
StatesOK(t) ==
  /\ \A j \in DOMAIN t.states : IsLocation(t, t.states[j].uid)
  /\ \A j, k \in DOMAIN t.states : t.states[j].uid = t.states[k].uid => j = k
  /\ \A i \in DOMAIN t.symbols : t.symbols[i].kind = "location" => \E j \in DOMAIN t.states : t.states[j].uid = i
  /\ t.init # 0 => IsLocation(t, t.init)
  /\ \A i \in DOMAIN t.symbols : ~ ({"urgent", "committed"} \subseteq t.symbols[i].flags)

HasBranchpoint == \E p \in DOMAIN document : Tag(p) = "branchpoint"
HasAction == \E p \in DOMAIN document : document[p].kind = "action"

\* An edge is between locations and branchpoints, and what is not a location
\* or has an action comes of the document.
EdgesOK(t) ==
  /\ \A i \in DOMAIN t.symbols : t.symbols[i].kind = "branchpoint" => HasBranchpoint
  /\ \A k \in DOMAIN t.edges :
       LET e == t.edges[k]
       IN  /\ e.src \in DOMAIN t.symbols /\ IsEnd(t.symbols[e.src].kind)
           /\ e.dst \in DOMAIN t.symbols /\ IsEnd(t.symbols[e.dst].kind)
           /\ e.action => HasAction

\* No symbol other than a variable has the name of one before it.
NamesDiffer(t) ==
  \A i, j \in DOMAIN t.symbols :
    i < j /\ t.symbols[j].kind # "variable" => t.symbols[i].name # t.symbols[j].name

Open == {"locations", "branchpoints", "init"}
Reading == Open \cup {"transitions", "labels"}

TemplatesOK ==
  /\ List(templates)
  /\ phase \in Reading => templates # <<>>
  /\ \A i \in DOMAIN templates : TemplateOK(templates[i]) /\ StatesOK(templates[i]) /\ EdgesOK(templates[i])

\* Unless an error was reported, names differ, and every template that is read
\* has an initial location.
NoErrorOK ==
  ~errors =>
    /\ \A i \in DOMAIN templates : NamesDiffer(templates[i])
    /\ \A i \in DOMAIN templates : i < Len(templates) \/ phase \notin Open => templates[i].init # 0

\* The transition that is read is the current edge, or an error was reported.
CurrentOK == phase = "labels" => IF dummy THEN errors ELSE currentEdge # <<>>

ReadingInv == PositionOK /\ TemplatesOK /\ NoErrorOK /\ CurrentOK

-----------------------------------------------------------------------------
\* A name that is not found is the name of no symbol; what is found is a symbol.
LEMMA FindFinds ==
  ASSUME NEW symbols, List(symbols), NEW name
  PROVE  /\ Find(symbols, name) = 0 => \A i \in DOMAIN symbols : symbols[i].name # name
         /\ Find(symbols, name) # 0 => Find(symbols, name) \in DOMAIN symbols
<1> DEFINE I == {i \in DOMAIN symbols : symbols[i].name = name}
<1>1. Len(symbols) \in Nat /\ DOMAIN symbols = 1 .. Len(symbols)
  BY ListDomain
<1>2. CASE I = {}
  BY <1>2 DEF Find
<1>3. CASE I # {}
  <2>1. \E i \in I : \A j \in I : j <= i
    <3>1. I \subseteq 1 .. Len(symbols)
      BY <1>1
    <3> HIDE DEF I
    <3> QED  BY <1>1, <1>3, <3>1, LastPosition
  <2>2. LastOf(I) \in I
    BY <2>1 DEF LastOf
  <2>3. Find(symbols, name) = LastOf(I)
    BY <1>3 DEF Find
  <2> QED  BY <1>1, <2>2, <2>3
<1> QED  BY <1>2, <1>3

\* A new symbol, with a state when it is a location, and a name of its own
\* unless this is reported.
LEMMA AddSymbol ==
  ASSUME NEW t, TemplateOK(t), StatesOK(t), EdgesOK(t),
         NEW u, TemplateOK(u), u.edges = t.edges, u.init = t.init,
         NEW name, NEW kind, NEW flags, NEW p, ~ ({"urgent", "committed"} \subseteq flags),
         u.symbols = Append(t.symbols, NewSymbol(name, kind, flags, p)),
         \/ /\ kind = "location"
            /\ \E s : s.uid = Len(t.symbols) + 1 /\ u.states = Append(t.states, s)
         \/ kind = "branchpoint" /\ u.states = t.states /\ HasBranchpoint
  PROVE  /\ StatesOK(u) /\ EdgesOK(u)
         /\ NamesDiffer(t) /\ Find(t.symbols, name) = 0 => NamesDiffer(u)
<1> DEFINE n == Len(t.symbols)
           m == Len(t.states)
<1>1. /\ n \in Nat /\ DOMAIN t.symbols = 1 .. n /\ DOMAIN u.symbols = 1 .. n + 1
      /\ \A i \in 1 .. n : u.symbols[i] = t.symbols[i]
      /\ u.symbols[n + 1].name = name /\ u.symbols[n + 1].kind = kind /\ u.symbols[n + 1].flags = flags
  BY ListAppend, ListDomain DEF TemplateOK, NewSymbol
<1>2. m \in Nat /\ DOMAIN t.states = 1 .. m
  BY ListDomain DEF TemplateOK
<1>3. \A i \in DOMAIN u.symbols : ~ ({"urgent", "committed"} \subseteq u.symbols[i].flags)
  BY <1>1 DEF StatesOK
<1>4. u.init # 0 => IsLocation(u, u.init)
  BY <1>1 DEF StatesOK, IsLocation
<1>5. /\ \A j \in DOMAIN u.states : IsLocation(u, u.states[j].uid)
      /\ \A j, k \in DOMAIN u.states : u.states[j].uid = u.states[k].uid => j = k
      /\ \A i \in DOMAIN u.symbols : u.symbols[i].kind = "location" => \E j \in DOMAIN u.states : u.states[j].uid = i
  <2>1. CASE kind = "location"
    <3>1. /\ DOMAIN u.states = 1 .. m + 1
          /\ \A i \in 1 .. m : u.states[i] = t.states[i]
          /\ u.states[m + 1].uid = n + 1
      BY <2>1, ListAppend DEF TemplateOK
    <3>2. ASSUME NEW j \in 1 .. m PROVE u.states[j].uid \in 1 .. n /\ IsLocation(u, u.states[j].uid)
      <4>1. u.states[j] = t.states[j] /\ IsLocation(t, t.states[j].uid)
        BY <1>2, <3>1 DEF StatesOK
      <4>2. t.states[j].uid \in 1 .. n /\ t.symbols[t.states[j].uid].kind = "location"
        BY <1>1, <4>1 DEF IsLocation
      <4> QED  BY <1>1, <4>1, <4>2 DEF IsLocation
    <3>3. IsLocation(u, u.states[m + 1].uid)
      BY <1>1, <2>1, <3>1 DEF IsLocation
    <3>4. \A j \in DOMAIN u.states : IsLocation(u, u.states[j].uid)
      BY <1>2, <3>1, <3>2, <3>3
    <3>5. ASSUME NEW j \in DOMAIN u.states, NEW k \in DOMAIN u.states, u.states[j].uid = u.states[k].uid
          PROVE  j = k
      <4>1. CASE j \in 1 .. m /\ k \in 1 .. m
        BY <1>2, <3>1, <3>5, <4>1 DEF StatesOK
      <4>2. CASE j = m + 1 /\ k \in 1 .. m
        <5>1. u.states[k].uid \in 1 .. n /\ u.states[j].uid = n + 1
          BY <3>1, <3>2, <4>2
        <5> QED  BY <1>1, <3>5, <5>1
      <4>3. CASE k = m + 1 /\ j \in 1 .. m
        <5>1. u.states[j].uid \in 1 .. n /\ u.states[k].uid = n + 1
          BY <3>1, <3>2, <4>3
        <5> QED  BY <1>1, <3>5, <5>1
      <4>4. j \in 1 .. m + 1 /\ k \in 1 .. m + 1
        BY <3>1
      <4> HIDE DEF m
      <4> QED  BY <1>2, <4>1, <4>2, <4>3, <4>4
    <3>6. ASSUME NEW i \in DOMAIN u.symbols, u.symbols[i].kind = "location"
          PROVE  \E j \in DOMAIN u.states : u.states[j].uid = i
      <4>1. CASE i = n + 1
        BY <1>2, <3>1, <4>1
      <4>2. CASE i \in 1 .. n
        <5>1. PICK j \in DOMAIN t.states : t.states[j].uid = i
          BY <1>1, <3>6, <4>2 DEF StatesOK
        <5> QED  BY <1>2, <3>1, <5>1
      <4> QED  BY <1>1, <4>1, <4>2
    <3> QED  BY <3>4, <3>5, <3>6
  <2>2. CASE kind = "branchpoint"
    BY <1>1, <2>2 DEF StatesOK, IsLocation
  <2> QED  BY <2>1, <2>2
<1>6. StatesOK(u)
  BY <1>3, <1>4, <1>5 DEF StatesOK
<1>7. EdgesOK(u)
  BY <1>1 DEF EdgesOK
<1>8. NamesDiffer(t) /\ Find(t.symbols, name) = 0 => NamesDiffer(u)
  BY <1>1, FindFinds DEF TemplateOK, NamesDiffer
<1> QED  BY <1>6, <1>7, <1>8

\* A step that changes only the last template keeps the others as they are.
LEMMA OnlyCurrent ==
  ASSUME TemplatesOK, templates # <<>>, NEW u, templates' = [templates EXCEPT ![Current] = u],
         TemplateOK(u), StatesOK(u), EdgesOK(u), UNCHANGED document
  PROVE  /\ TemplatesOK'
         /\ Len(templates') = Current /\ DOMAIN templates' = 1 .. Current
         /\ Current \in Nat \ {0}
         /\ templates'[Current] = u
         /\ \A i \in 1 .. Current - 1 : templates'[i] = templates[i]
<1>1. Current \in Nat \ {0} /\ DOMAIN templates = 1 .. Current
  BY EmptySeq, ListDomain DEF TemplatesOK, Current, List
<1>2. /\ List(templates') /\ Len(templates') = Current /\ DOMAIN templates' = 1 .. Current
      /\ \A i \in DOMAIN templates : templates'[i] = IF i = Current THEN u ELSE templates[i]
  BY <1>1, ListReplace DEF TemplatesOK, Current
<1>3. templates' # <<>>
  BY <1>1, <1>2
<1>4. ASSUME NEW i \in DOMAIN templates'
      PROVE  TemplateOK(templates'[i]) /\ StatesOK(templates'[i]) /\ EdgesOK(templates'[i])
  BY <1>1, <1>2 DEF TemplatesOK
<1>5. ASSUME NEW i \in DOMAIN templates'
      PROVE  (TemplateOK(templates[i]) /\ StatesOK(templates[i]) /\ EdgesOK(templates[i]))'
  <2>1. TemplateOK(templates[i])'
    BY <1>4 DEF TemplateOK
  <2>2. StatesOK(templates[i])'
    BY <1>4 DEF StatesOK, IsLocation
  <2>3. EdgesOK(templates[i])'
    BY <1>4 DEF EdgesOK, HasBranchpoint, HasAction, Tag
  <2> QED  BY <2>1, <2>2, <2>3
<1>6. TemplatesOK'
  BY <1>2, <1>3, <1>5 DEF TemplatesOK
<1> QED  BY <1>1, <1>2, <1>6

\* A new template has the symbols that it declares, all of them variables.
LEMMA ReadTemplateKeeps == ReadingInv /\ ReadTemplate => TemplatesOK' /\ NoErrorOK'
<1> SUFFICES ASSUME ReadingInv, ReadTemplate PROVE TemplatesOK' /\ NoErrorOK'
  OBVIOUS
<1> DEFINE declared == Declared[document[at].name]
           u == [at |-> at, name |-> document[at].name,
                 symbols |-> [i \in DOMAIN declared |-> NewSymbol(declared[i], "variable", {}, 0)],
                 states |-> <<>>, init |-> 0, edges |-> <<>>]
<1>1. declared \in Seq(STRING)
  BY DEF ReadingInv, PositionOK, IsDocument, ReadTemplate, Tag
<1>2. List(u.symbols)
  <2> DEFINE T == {NewSymbol(declared[i], "variable", {}, 0) : i \in DOMAIN declared}
  <2>1. u.symbols \in [1 .. Len(declared) -> T] /\ Len(declared) \in Nat
    BY <1>1
  <2>2. u.symbols \in Seq(T)
    BY <2>1
  <2> HIDE DEF T, u
  <2> QED  BY <2>2, SeqIsList
<1>3. TemplateOK(u)
  BY <1>2, EmptyList DEF TemplateOK
<1>4. \A i \in DOMAIN u.symbols : u.symbols[i].kind = "variable" /\ u.symbols[i].flags = {}
  BY DEF NewSymbol
<1>5. StatesOK(u) /\ EdgesOK(u) /\ NamesDiffer(u)
  BY <1>4, EmptyList, ZenonT(30) DEF StatesOK, EdgesOK, NamesDiffer
<1>6. List(templates) /\ templates' = Append(templates, u) /\ document' = document
  BY DEF ReadTemplate, ReadingInv, TemplatesOK
<1>7. phase = "project" /\ phase' = "locations" /\ (errors => errors')
  BY DEF ReadTemplate
<1> HIDE DEF u, declared
<1>8. /\ Len(templates) \in Nat /\ DOMAIN templates = 1 .. Len(templates)
      /\ List(templates') /\ Len(templates') = Len(templates) + 1 /\ DOMAIN templates' = 1 .. Len(templates) + 1
      /\ \A i \in 1 .. Len(templates) : templates'[i] = templates[i]
      /\ templates'[Len(templates) + 1] = u
  BY <1>6, ListAppend, ListDomain
<1>9. TemplatesOK'
  <2>1. templates' # <<>>
    BY <1>8
  <2>2. ASSUME NEW i \in DOMAIN templates'
        PROVE  TemplateOK(templates'[i]) /\ StatesOK(templates'[i]) /\ EdgesOK(templates'[i])
    BY <1>3, <1>5, <1>8 DEF ReadingInv, TemplatesOK
  <2>3. HasBranchpoint' = HasBranchpoint /\ HasAction' = HasAction
    BY ONLY <1>6 DEF HasBranchpoint, HasAction, Tag
  <2>4. ASSUME NEW i \in DOMAIN templates'
        PROVE  (TemplateOK(templates[i]) /\ StatesOK(templates[i]) /\ EdgesOK(templates[i]))'
    <3>1. TemplateOK(templates[i])'
      BY ONLY <2>2, <2>4 DEF TemplateOK
    <3>2. StatesOK(templates[i])'
      BY ONLY <2>2, <2>4 DEF StatesOK, IsLocation
    <3>3. EdgesOK(templates[i])'
      BY ONLY <2>2, <2>3, <2>4 DEF EdgesOK
    <3> QED  BY ONLY <3>1, <3>2, <3>3
  <2> QED  BY ONLY <1>8, <2>1, <2>4 DEF TemplatesOK
<1>10. NoErrorOK'
  BY <1>5, <1>7, <1>8 DEF ReadingInv, NoErrorOK, NamesDiffer, Open
<1> QED  BY <1>9, <1>10

\* A step that changes no template keeps what is said of them.
LEMMA NoTemplateChanged ==
  ASSUME TemplatesOK, UNCHANGED <<document, templates>>, phase' \in Reading => templates # <<>>
  PROVE  TemplatesOK'
<1>1. ASSUME NEW i \in DOMAIN templates'
      PROVE  TemplateOK(templates'[i]) /\ StatesOK(templates'[i]) /\ EdgesOK(templates'[i])
  BY DEF TemplatesOK
<1>2. HasBranchpoint' = HasBranchpoint /\ HasAction' = HasAction
  BY DEF HasBranchpoint, HasAction, Tag
<1>3. ASSUME NEW i \in DOMAIN templates'
      PROVE  (TemplateOK(templates[i]) /\ StatesOK(templates[i]) /\ EdgesOK(templates[i]))'
  <2>1. TemplateOK(templates[i])'
    BY ONLY <1>1, <1>3 DEF TemplateOK
  <2>2. StatesOK(templates[i])'
    BY ONLY <1>1, <1>3 DEF StatesOK, IsLocation
  <2>3. EdgesOK(templates[i])'
    BY ONLY <1>1, <1>2, <1>3 DEF EdgesOK
  <2> QED  BY ONLY <2>1, <2>2, <2>3
<1> QED  BY <1>3 DEF TemplatesOK

\* While a template is read it is the last one, and it is well formed.
LEMMA CurrentTemplate ==
  ASSUME TemplatesOK, phase \in Reading
  PROVE  /\ templates # <<>> /\ Current \in DOMAIN templates /\ DOMAIN templates = 1 .. Current
         /\ TemplateOK(templates[Current]) /\ StatesOK(templates[Current]) /\ EdgesOK(templates[Current])
BY EmptySeq, ListDomain DEF Current, TemplatesOK, List

\* Unless an error is reported, it is enough that the new symbol of the last
\* template has a name of its own, and that an initial location is known when
\* it is to be.
LEMMA NoErrorKept ==
  ASSUME ReadingInv, phase \in Reading, errors => errors', NEW u,
         DOMAIN templates' = 1 .. Current, Len(templates') = Current, templates'[Current] = u,
         \A i \in 1 .. Current - 1 : templates'[i] = templates[i],
         ~errors' /\ NamesDiffer(templates[Current]) => NamesDiffer(u),
         ~errors' => phase' \in Open \/ u.init # 0
  PROVE  NoErrorOK'
<1> SUFFICES ASSUME ~errors' 
             PROVE  /\ \A i \in DOMAIN templates' : NamesDiffer(templates'[i])
                    /\ \A i \in DOMAIN templates' : i < Len(templates') \/ phase' \notin Open => templates'[i].init # 0
  BY DEF NoErrorOK, NamesDiffer, Open
<1>1. ~errors
  OBVIOUS
<1>2. DOMAIN templates = 1 .. Current /\ Current = Len(templates) /\ Current \in Nat
  BY CurrentTemplate, ListDomain DEF ReadingInv, Current, TemplatesOK
<1>3. /\ \A i \in 1 .. Current : NamesDiffer(templates[i])
      /\ \A i \in 1 .. Current : i < Current => templates[i].init # 0
  BY <1>1, <1>2 DEF ReadingInv, NoErrorOK
<1>4. ASSUME NEW i \in DOMAIN templates' PROVE NamesDiffer(templates'[i])
  <2>1. CASE i = Current
    BY <1>3, <2>1
  <2>2. CASE i # Current
    BY <1>2, <1>3, <2>2
  <2> QED  BY <2>1, <2>2
<1>5. ASSUME NEW i \in DOMAIN templates', i < Len(templates') \/ phase' \notin Open
      PROVE  templates'[i].init # 0
  <2>1. CASE i = Current
    BY <1>2, <1>5, <2>1
  <2>2. CASE i # Current
    BY <1>2, <1>3, <2>2
  <2> QED  BY <2>1, <2>2
<1> QED  BY <1>4, <1>5

\* A location is a symbol and a state, with a name of its own or an error.
LEMMA ReadLocationKeeps == ReadingInv /\ ReadLocation => TemplatesOK' /\ NoErrorOK'
<1> SUFFICES ASSUME ReadingInv, ReadLocation PROVE TemplatesOK' /\ NoErrorOK'
  OBVIOUS
<1>1. phase = "locations" /\ phase' = phase /\ document' = document /\ templates # <<>> /\ TemplatesOK
  BY Zenon DEF ReadLocation, ReadingInv, TemplatesOK, Reading, Open
<1>2. Current \in DOMAIN templates
  BY <1>1, EmptySeq DEF Current, TemplatesOK, List
<1> DEFINE t == templates[Current]
<1>3. TemplateOK(t) /\ StatesOK(t) /\ EdgesOK(t)
  BY <1>1, <1>2 DEF TemplatesOK
<1>4. PICK name, flags, s :
        /\ templates' = [templates EXCEPT ![Current].symbols = Append(@, NewSymbol(name, "location", flags, at)),
                                          ![Current].states = Append(@, s)]
        /\ s.uid = Len(t.symbols) + 1
        /\ ~ ({"urgent", "committed"} \subseteq flags)
        /\ errors \/ Duplicate(name) => errors'
  <2> DEFINE n == Past("name", at + 1)
             l == After({"label"}, n)
             u == Past("urgent", l)
             c == Past("committed", u)
             kinds == {document[p].kind : p \in n .. l - 1}
             pushed == fragments \o Listed({p \in n .. l - 1 : document[p].kind \in {"invariant", "exponentialrate"}})
             below == IF "exponentialrate" \in kinds THEN Pop(pushed) ELSE pushed
             Name == NameOf(IF n > at + 1 THEN document[at + 1].name ELSE "", document[at].id)
             committed == IF c > u THEN {"committed"} ELSE {}
             urgent == IF u > l /\ UrgentFits(committed) THEN {"urgent"} ELSE {}
             Flags == IF Duplicate(Name) THEN {} ELSE committed \cup urgent
             State == [uid |-> Len(Symbols) + 1,
                       invariant |-> IF "invariant" \in kinds THEN Top(below) ELSE 0,
                       rate |-> IF "exponentialrate" \in kinds THEN Top(pushed) ELSE 0]
  <2>1. /\ templates' = [templates EXCEPT ![Current].symbols = Append(@, NewSymbol(Name, "location", Flags, at)),
                                          ![Current].states = Append(@, State)]
        /\ errors \/ Duplicate(Name) => errors'
    BY Zenon DEF ReadLocation
  <2>2. ~ ({"urgent", "committed"} \subseteq Flags)
    BY Zenon DEF UrgentFits
  <2>3. State.uid = Len(t.symbols) + 1
    BY DEF Symbols
  <2> HIDE DEF n, l, u, c, kinds, pushed, below, Name, committed, urgent, Flags, State
  <2> QED  BY <2>1, <2>2, <2>3
<1> DEFINE u == [t EXCEPT !.symbols = Append(@, NewSymbol(name, "location", flags, at)), !.states = Append(@, s)]
<1>5. templates' = [templates EXCEPT ![Current] = u]
  BY <1>4
<1>6. /\ u.symbols = Append(t.symbols, NewSymbol(name, "location", flags, at))
      /\ u.states = Append(t.states, s) /\ u.init = t.init /\ u.edges = t.edges
      /\ DOMAIN u = DOMAIN t
  BY <1>3 DEF TemplateOK
<1> HIDE DEF u
<1>7. TemplateOK(u)
  BY <1>3, <1>6, ListAppend DEF TemplateOK
<1>8. StatesOK(u) /\ EdgesOK(u) /\ (NamesDiffer(t) /\ Find(t.symbols, name) = 0 => NamesDiffer(u))
  BY <1>3, <1>4, <1>6, <1>7, AddSymbol
<1>9. /\ TemplatesOK' /\ Len(templates') = Current /\ DOMAIN templates' = 1 .. Current
      /\ Current \in Nat \ {0} /\ templates'[Current] = u
      /\ \A i \in 1 .. Current - 1 : templates'[i] = templates[i]
  BY <1>1, <1>5, <1>7, <1>8, OnlyCurrent
<1>10. NoErrorOK'
  <2>1. (errors => errors') /\ (~errors' => Find(t.symbols, name) = 0)
    BY <1>4 DEF Duplicate, Symbols
  <2> QED  BY <1>1, <1>8, <1>9, <2>1, NoErrorKept DEF Reading, Open
<1> QED  BY <1>9, <1>10

\* A branchpoint is a symbol only, with a name of its own or an error.
LEMMA ReadBranchpointKeeps == ReadingInv /\ ReadBranchpoint => TemplatesOK' /\ NoErrorOK'
<1> SUFFICES ASSUME ReadingInv, ReadBranchpoint PROVE TemplatesOK' /\ NoErrorOK'
  OBVIOUS
<1> DEFINE t == templates[Current]
           name == NameOf("", document[at].id)
           u == [t EXCEPT !.symbols = Append(@, NewSymbol(name, "branchpoint", {}, at))]
<1>1. phase = "branchpoints" /\ phase' = phase /\ document' = document /\ TemplatesOK
  BY Zenon DEF ReadBranchpoint, ReadingInv
<1>2. /\ templates # <<>> /\ Current \in DOMAIN templates /\ DOMAIN templates = 1 .. Current
      /\ TemplateOK(t) /\ StatesOK(t) /\ EdgesOK(t)
  BY <1>1, CurrentTemplate DEF Reading, Open
<1>3. templates' = [templates EXCEPT ![Current] = u] /\ (errors \/ Find(t.symbols, name) # 0 => errors')
  BY Zenon DEF ReadBranchpoint, Duplicate, Symbols
<1>4. HasBranchpoint
  BY Zenon DEF ReadBranchpoint, HasBranchpoint, ReadingInv, PositionOK
<1>5. /\ u.symbols = Append(t.symbols, NewSymbol(name, "branchpoint", {}, at))
      /\ u.states = t.states /\ u.init = t.init /\ u.edges = t.edges /\ DOMAIN u = DOMAIN t
  BY <1>2, Zenon DEF TemplateOK
<1> HIDE DEF u, name
<1>6. TemplateOK(u)
  BY <1>2, <1>5, ListAppend DEF TemplateOK
<1>7. StatesOK(u) /\ EdgesOK(u) /\ (NamesDiffer(t) /\ Find(t.symbols, name) = 0 => NamesDiffer(u))
  BY <1>2, <1>4, <1>5, <1>6, AddSymbol
<1>8. /\ TemplatesOK' /\ Len(templates') = Current /\ DOMAIN templates' = 1 .. Current
      /\ Current \in Nat \ {0} /\ templates'[Current] = u
      /\ \A i \in 1 .. Current - 1 : templates'[i] = templates[i]
  BY <1>1, <1>2, <1>3, <1>6, <1>7, OnlyCurrent
<1>9. NoErrorOK'
  <2>1. (errors => errors') /\ (~errors' => Find(t.symbols, name) = 0)
    BY <1>3
  <2> QED  BY <1>1, <1>7, <1>8, <2>1, NoErrorKept DEF Reading, Open
<1> QED  BY <1>8, <1>9

\* The initial location is a location, or an error is reported.
LEMMA ReadInitKeeps == ReadingInv /\ ReadInit => TemplatesOK' /\ NoErrorOK'
<1> SUFFICES ASSUME ReadingInv, ReadInit PROVE TemplatesOK' /\ NoErrorOK'
  OBVIOUS
<1> DEFINE t == templates[Current]
<1>1. phase = "init" /\ phase' \in {"aborted", "transitions"} /\ document' = document /\ TemplatesOK
  BY DEF ReadInit, ReadingInv
<1>2. /\ templates # <<>> /\ Current \in DOMAIN templates /\ DOMAIN templates = 1 .. Current
      /\ TemplateOK(t) /\ StatesOK(t) /\ EdgesOK(t)
  BY <1>1, CurrentTemplate DEF Reading, Open
<1>3. ASSUME UNCHANGED templates, errors' PROVE TemplatesOK' /\ NoErrorOK'
  <2>1. TemplatesOK'
    BY <1>1, <1>2, <1>3, NoTemplateChanged
  <2>2. NoErrorOK'
    BY <1>3 DEF NoErrorOK
  <2> QED  BY <2>1, <2>2
<1>4. ASSUME NEW uid, KindOf(uid) = "location", uid = 0 \/ uid \in DOMAIN t.symbols,
             templates' = [templates EXCEPT ![Current].init = uid], errors => errors'
      PROVE  TemplatesOK' /\ NoErrorOK'
  <2> DEFINE u == [t EXCEPT !.init = uid]
  <2>1. templates' = [templates EXCEPT ![Current] = u]
    BY <1>4
  <2>2. /\ u.symbols = t.symbols /\ u.states = t.states /\ u.edges = t.edges /\ u.init = uid
        /\ DOMAIN u = DOMAIN t
    BY <1>2 DEF TemplateOK
  <2>3. uid # 0 /\ IsLocation(t, uid)
    BY <1>4 DEF KindOf, Symbols, IsLocation
  <2> HIDE DEF u
  <2>4. TemplateOK(u) /\ StatesOK(u) /\ EdgesOK(u) /\ (NamesDiffer(t) => NamesDiffer(u)) /\ u.init # 0
    <3>1. TemplateOK(u)
      BY ONLY <1>2, <2>2 DEF TemplateOK
    <3>2. StatesOK(u)
      BY ONLY <1>2, <2>2, <2>3 DEF StatesOK, IsLocation
    <3>3. EdgesOK(u)
      BY ONLY <1>2, <2>2 DEF EdgesOK
    <3>4. NamesDiffer(t) => NamesDiffer(u)
      BY ONLY <2>2 DEF NamesDiffer
    <3> QED  BY <2>2, <2>3, <3>1, <3>2, <3>3, <3>4
  <2>5. /\ TemplatesOK' /\ Len(templates') = Current /\ DOMAIN templates' = 1 .. Current
        /\ Current \in Nat \ {0} /\ templates'[Current] = u
        /\ \A i \in 1 .. Current - 1 : templates'[i] = templates[i]
    BY <1>1, <1>2, <2>1, <2>4, OnlyCurrent
  <2>6. NoErrorOK'
    BY <1>1, <1>4, <2>4, <2>5, NoErrorKept DEF Reading, Open
  <2> QED  BY <2>5, <2>6
<1>5. QED
  <2> DEFINE ref == document[at].id
             uid == IF ref \in DOMAIN names THEN Find(Symbols, names[ref]) ELSE 0
             fits == Tag(at) = "init" /\ KindOf(uid) = "location"
  <2>1. uid = 0 \/ uid \in DOMAIN t.symbols
    BY <1>2, FindFinds DEF Symbols, TemplateOK
  <2>2. /\ templates' = IF fits THEN [templates EXCEPT ![Current].init = uid] ELSE templates
        /\ errors' = (errors \/ ~fits)
    BY DEF ReadInit
  <2> HIDE DEF uid
  <2>3. CASE fits
    BY <1>4, <2>1, <2>2, <2>3
  <2>4. CASE ~fits
    BY <1>3, <2>2, <2>4
  <2> QED  BY <2>3, <2>4

\* An edge is added between two ends that are locations or branchpoints.
LEMMA BeginTransitionKeeps == ReadingInv /\ BeginTransition => TemplatesOK' /\ NoErrorOK'
<1> SUFFICES ASSUME ReadingInv, BeginTransition PROVE TemplatesOK' /\ NoErrorOK'
  OBVIOUS
<1> DEFINE t == templates[Current]
           action == document[at].kind = "action"
<1>1. phase = "transitions" /\ phase' \in {"aborted", "labels"} /\ document' = document /\ TemplatesOK
  BY DEF BeginTransition, ReadingInv
<1>2. /\ templates # <<>> /\ Current \in DOMAIN templates /\ DOMAIN templates = 1 .. Current
      /\ TemplateOK(t) /\ StatesOK(t) /\ EdgesOK(t)
  BY <1>1, CurrentTemplate DEF Reading
<1>3. ASSUME UNCHANGED templates, errors => errors' PROVE TemplatesOK' /\ NoErrorOK'
  <2>1. TemplatesOK'
    BY <1>1, <1>2, <1>3, NoTemplateChanged
  <2>2. ~errors' => ~errors
    BY <1>3
  <2>3. NoErrorOK'
    BY <1>1, <1>3, <2>2 DEF ReadingInv, NoErrorOK, NamesDiffer, Open
  <2> QED  BY <2>1, <2>3
<1>4. ASSUME NEW src, NEW dst, src = 0 \/ src \in DOMAIN t.symbols, dst = 0 \/ dst \in DOMAIN t.symbols,
             IsEnd(KindOf(src)) /\ IsEnd(KindOf(dst)),
             templates' = [templates EXCEPT ![Current].edges = Append(@, NewEdge(src, dst, action, at))],
             errors' = errors
      PROVE  TemplatesOK' /\ NoErrorOK'
  <2> DEFINE u == [t EXCEPT !.edges = Append(@, NewEdge(src, dst, action, at))]
             n == Len(t.edges)
  <2>1. templates' = [templates EXCEPT ![Current] = u]
    BY <1>4
  <2>2. /\ u.symbols = t.symbols /\ u.states = t.states /\ u.init = t.init
        /\ u.edges = Append(t.edges, NewEdge(src, dst, action, at)) /\ DOMAIN u = DOMAIN t
    BY <1>2 DEF TemplateOK
  <2> HIDE DEF u
  <2>3. /\ src \in DOMAIN t.symbols /\ IsEnd(t.symbols[src].kind)
        /\ dst \in DOMAIN t.symbols /\ IsEnd(t.symbols[dst].kind)
    BY <1>4 DEF KindOf, IsEnd, Symbols
  <2>4. /\ n \in Nat /\ DOMAIN t.edges = 1 .. n /\ DOMAIN u.edges = 1 .. n + 1 /\ List(u.edges)
        /\ \A k \in 1 .. n : u.edges[k] = t.edges[k]
        /\ u.edges[n + 1] = NewEdge(src, dst, action, at)
    BY <1>2, <2>2, ListAppend, ListDomain DEF TemplateOK
  <2>5. TemplateOK(u)
    BY <1>2, <2>2, <2>4 DEF TemplateOK, NewEdge
  <2>6. StatesOK(u) /\ (NamesDiffer(t) => NamesDiffer(u)) /\ (t.init # 0 => u.init # 0)
    BY <1>2, <2>2 DEF StatesOK, IsLocation, NamesDiffer
  <2>7. action => HasAction
    BY DEF ReadingInv, PositionOK, HasAction
  <2>8. EdgesOK(u)
    <3>1. u.edges[n + 1].src = src /\ u.edges[n + 1].dst = dst /\ u.edges[n + 1].action = action
      BY <2>4 DEF NewEdge
    <3>2. \A j \in 1 .. n + 1 : j \in 1 .. n \/ j = n + 1
      BY <2>4
    <3> HIDE DEF n, action
    <3> QED  BY <1>2, <2>2, <2>3, <2>4, <2>7, <3>1, <3>2 DEF EdgesOK
  <2>9. /\ TemplatesOK' /\ Len(templates') = Current /\ DOMAIN templates' = 1 .. Current
        /\ Current \in Nat \ {0} /\ templates'[Current] = u
        /\ \A i \in 1 .. Current - 1 : templates'[i] = templates[i]
    BY <1>1, <1>2, <2>1, <2>5, <2>6, <2>8, OnlyCurrent
  <2>10. ~errors' => t.init # 0
    BY <1>1, <1>2, <1>4 DEF ReadingInv, NoErrorOK, Open
  <2>11. NoErrorOK'
    BY <1>1, <1>4, <2>6, <2>9, <2>10, NoErrorKept DEF Reading
  <2> QED  BY <2>9, <2>11
<1>5. QED
  <2> DEFINE known == /\ Tag(at + 1) = "source" /\ document[at + 1].id \in DOMAIN names
                      /\ Tag(at + 2) = "target" /\ document[at + 2].id \in DOMAIN names
             src == Find(Symbols, names[document[at + 1].id])
             dst == Find(Symbols, names[document[at + 2].id])
             fits == IsEnd(KindOf(src)) /\ IsEnd(KindOf(dst))
  <2>1. (src = 0 \/ src \in DOMAIN t.symbols) /\ (dst = 0 \/ dst \in DOMAIN t.symbols)
    BY <1>2, FindFinds DEF Symbols, TemplateOK
  <2>2. IF known /\ fits
        THEN /\ templates' = [templates EXCEPT ![Current].edges = Append(@, NewEdge(src, dst, action, at))]
             /\ errors' = errors
        ELSE UNCHANGED templates /\ (errors => errors')
    BY DEF BeginTransition
  <2> HIDE DEF known, src, dst, action
  <2>3. CASE known /\ fits
    BY <1>4, <2>1, <2>2, <2>3
  <2>4. CASE ~ (known /\ fits)
    BY <1>3, <2>2, <2>4
  <2> QED  BY <2>3, <2>4

\* Labels and iterators go to an edge, and change neither its ends nor what
\* the template has besides its edges.
LEMMA LabelKeeps == ReadingInv /\ (ReadSelect \/ ReadLabel) => TemplatesOK' /\ NoErrorOK'
<1> SUFFICES ASSUME ReadingInv, ReadSelect \/ ReadLabel PROVE TemplatesOK' /\ NoErrorOK'
  OBVIOUS
<1>1. phase = "labels" /\ phase' \in {"crashed", "labels"} /\ document' = document /\ TemplatesOK /\ (errors => errors')
  BY Zenon DEF ReadSelect, ReadLabel, ReadingInv
<1>2. CASE UNCHANGED templates
  <2>1. TemplatesOK'
    BY <1>1, <1>2, CurrentTemplate, NoTemplateChanged DEF Reading
  <2>2. NoErrorOK'
    <3>1. ~errors' => ~errors
      BY <1>1
    <3> QED  BY <1>1, <1>2, <3>1 DEF ReadingInv, NoErrorOK, NamesDiffer, Open
  <2> QED  BY <2>1, <2>2
<1>3. ASSUME NEW i, NEW k, NEW e,
             i \in DOMAIN templates /\ k \in DOMAIN templates[i].edges =>
               /\ DOMAIN e = DOMAIN templates[i].edges[k]
               /\ e.src = templates[i].edges[k].src /\ e.dst = templates[i].edges[k].dst
               /\ e.action = templates[i].edges[k].action,
             templates' = [templates EXCEPT ![i] = [templates[i] EXCEPT !.edges = [templates[i].edges EXCEPT ![k] = e]]]
      PROVE  TemplatesOK' /\ NoErrorOK'
  <2> DEFINE t == templates[i]
             u == [t EXCEPT !.edges = [t.edges EXCEPT ![k] = e]]
  <2>1. List(templates') /\ Len(templates') = Len(templates) /\ DOMAIN templates' = DOMAIN templates
        /\ \A j \in DOMAIN templates : templates'[j] = IF j = i THEN u ELSE templates[j]
    <3>1. templates' = [templates EXCEPT ![i] = u]
      BY <1>3
    <3> HIDE DEF u
    <3> QED  BY <1>1, <3>1, ListReplace DEF TemplatesOK
  <2>2. ASSUME i \in DOMAIN templates
        PROVE  /\ TemplateOK(u) /\ StatesOK(u) /\ EdgesOK(u)
               /\ (NamesDiffer(t) => NamesDiffer(u)) /\ u.init = t.init
    <3>1. TemplateOK(t) /\ StatesOK(t) /\ EdgesOK(t)
      BY <1>1, <2>2 DEF TemplatesOK
    <3>2. /\ u.symbols = t.symbols /\ u.states = t.states /\ u.init = t.init
          /\ u.edges = [t.edges EXCEPT ![k] = e] /\ DOMAIN u = DOMAIN t
      BY <3>1 DEF TemplateOK
    <3> HIDE DEF u
    <3>3. /\ List(u.edges) /\ DOMAIN u.edges = DOMAIN t.edges
          /\ \A j \in DOMAIN t.edges : u.edges[j] = IF j = k THEN e ELSE t.edges[j]
      <4> DEFINE edges == t.edges
      <4>1. List(edges)
        BY <3>1 DEF TemplateOK
      <4>2. /\ List([edges EXCEPT ![k] = e]) /\ DOMAIN [edges EXCEPT ![k] = e] = DOMAIN edges
            /\ \A j \in DOMAIN edges : [edges EXCEPT ![k] = e][j] = IF j = k THEN e ELSE edges[j]
        <5> HIDE DEF edges
        <5> QED  BY <4>1, ListReplace
      <4> QED  BY <3>2, <4>2
    <3>4. TemplateOK(u)
      BY <1>3, <2>2, <3>1, <3>2, <3>3 DEF TemplateOK
    <3>5. StatesOK(u) /\ (NamesDiffer(t) => NamesDiffer(u))
      BY <3>1, <3>2 DEF StatesOK, IsLocation, NamesDiffer
    <3>6. \A j \in DOMAIN t.edges : /\ u.edges[j].src = t.edges[j].src /\ u.edges[j].dst = t.edges[j].dst
                                    /\ u.edges[j].action = t.edges[j].action
      BY <1>3, <2>2, <3>3
    <3>7. EdgesOK(u)
      BY <3>1, <3>2, <3>3, <3>6 DEF EdgesOK
    <3> QED  BY <3>2, <3>4, <3>5, <3>7
  <2> HIDE DEF u
  <2>3. TemplatesOK'
    <3>1. ASSUME NEW j \in DOMAIN templates'
          PROVE  TemplateOK(templates'[j]) /\ StatesOK(templates'[j]) /\ EdgesOK(templates'[j])
      BY <1>1, <2>1, <2>2 DEF TemplatesOK
    <3>2. templates' # <<>>
      BY <1>1, <2>1, CurrentTemplate DEF Reading
    <3>3. HasBranchpoint' = HasBranchpoint /\ HasAction' = HasAction
      BY ONLY <1>1 DEF HasBranchpoint, HasAction, Tag
    <3>4. ASSUME NEW j \in DOMAIN templates'
          PROVE  (TemplateOK(templates[j]) /\ StatesOK(templates[j]) /\ EdgesOK(templates[j]))'
      <4>1. TemplateOK(templates[j])'
        BY ONLY <3>1, <3>4 DEF TemplateOK
      <4>2. StatesOK(templates[j])'
        BY ONLY <3>1, <3>4 DEF StatesOK, IsLocation
      <4>3. EdgesOK(templates[j])'
        BY ONLY <3>1, <3>3, <3>4 DEF EdgesOK
      <4> QED  BY ONLY <4>1, <4>2, <4>3
    <3> QED  BY ONLY <2>1, <3>2, <3>4 DEF TemplatesOK
  <2>4. NoErrorOK'
    <3>1. ~errors' => ~errors
      BY <1>1
    <3>2. ~errors' => \A j \in DOMAIN templates' : NamesDiffer(templates'[j]) /\ templates'[j].init # 0
      BY <1>1, <2>1, <2>2, <3>1 DEF ReadingInv, NoErrorOK, Open
    <3> QED  BY <3>2 DEF NoErrorOK, NamesDiffer
  <2> QED  BY <2>3, <2>4
<1>4. QED
  <2> DEFINE i == currentEdge[1]
             k == currentEdge[2]
             old == templates[i].edges[k]
  <2>1. CASE ~ UNCHANGED templates
    <3>1. ASSUME i \in DOMAIN templates, k \in DOMAIN templates[i].edges
          PROVE  DOMAIN old = {"at", "src", "dst", "action", "select", "labels"}
      BY <1>1, <3>1 DEF TemplatesOK, TemplateOK
    <3>2. CASE ReadSelect
      <4> DEFINE iterator == [at |-> at, name |-> document[at].name, last |-> document[at].id]
                 e == [old EXCEPT !.select = Append(@, iterator)]
      <4>1. templates' = [templates EXCEPT ![i].edges[k].select = Append(@, iterator)]
        BY <2>1, <3>2 DEF ReadSelect
      <4>2. templates' = [templates EXCEPT ![i] = [templates[i] EXCEPT !.edges = [templates[i].edges EXCEPT ![k] = e]]]
        BY <4>1
      <4>3. i \in DOMAIN templates /\ k \in DOMAIN templates[i].edges =>
              /\ DOMAIN e = DOMAIN old
              /\ e.src = old.src /\ e.dst = old.dst /\ e.action = old.action
        BY <3>1
      <4> HIDE DEF e, i, k
      <4> QED  BY <1>3, <4>2, <4>3
    <3>3. CASE ReadLabel
      <4> DEFINE kind == document[at].kind
                 label == [at |-> at, iterator |-> IF dummy THEN 0 ELSE Find(Edge.select, document[at].name)]
                 e == [old EXCEPT !.labels = [old.labels EXCEPT ![kind] = label]]
      <4>1. templates' = [templates EXCEPT ![i].edges[k].labels[kind] = label]
        BY <2>1, <3>3, Zenon DEF ReadLabel
      <4>2. templates' = [templates EXCEPT ![i] = [templates[i] EXCEPT !.edges = [templates[i].edges EXCEPT ![k] = e]]]
        BY <4>1
      <4>3. i \in DOMAIN templates /\ k \in DOMAIN templates[i].edges =>
              /\ DOMAIN e = DOMAIN old
              /\ e.src = old.src /\ e.dst = old.dst /\ e.action = old.action
        BY <3>1
      <4> HIDE DEF e, i, k
      <4> QED  BY <1>3, <4>2, <4>3
    <3> QED  BY <3>2, <3>3
  <2> QED  BY <1>2, <2>1

\* The invariant of the reading holds through every step.
LEMMA ReadingStep == ReadingInv /\ [Next]_vars => ReadingInv'
<1> SUFFICES ASSUME ReadingInv, [Next]_vars PROVE ReadingInv'
  OBVIOUS
<1>1. PositionOK'
  BY PositionStep DEF ReadingInv
<1>2. ASSUME UNCHANGED <<document, templates>>, phase' \in Reading => templates # <<>>, errors => errors',
             phase \in Open => phase' \in Open
      PROVE  TemplatesOK' /\ NoErrorOK'
  <2>1. TemplatesOK'
    BY <1>2, NoTemplateChanged DEF ReadingInv
  <2>2. ~errors' => ~errors
    BY <1>2
  <2>3. ~errors => /\ \A i \in DOMAIN templates : NamesDiffer(templates[i])
                   /\ \A i \in DOMAIN templates : i < Len(templates) \/ phase \notin Open => templates[i].init # 0
    BY DEF ReadingInv, NoErrorOK
  <2>4. ~errors' => /\ \A i \in DOMAIN templates : NamesDiffer(templates[i])
                    /\ \A i \in DOMAIN templates : i < Len(templates) \/ phase' \notin Open => templates[i].init # 0
    BY <1>2, <2>2, <2>3
  <2>5. NoErrorOK'
    BY <1>2, <2>4 DEF NoErrorOK, NamesDiffer, Open
  <2> QED  BY <2>1, <2>5
<1>3. TemplatesOK' /\ NoErrorOK'
  <2> USE DEF ReadingInv, TemplatesOK, Reading, Open
  <2>1. CASE ReadTemplate
    BY <2>1, ReadTemplateKeeps
  <2>2. CASE ReadLocation
    BY <2>2, ReadLocationKeeps
  <2>3. CASE ReadBranchpoint
    BY <2>3, ReadBranchpointKeeps
  <2>4. CASE ReadInit
    BY <2>4, ReadInitKeeps
  <2>5. CASE BeginTransition
    BY <2>5, BeginTransitionKeeps
  <2>6. CASE ReadSelect \/ ReadLabel
    BY <2>6, LabelKeeps
  <2>7. CASE EndLoop
    BY <1>2, <2>7 DEF EndLoop
  <2>8. CASE IgnoreLabel
    BY <1>2, <2>8 DEF IgnoreLabel
  <2>9. CASE EndTransition
    BY <1>2, <2>9 DEF EndTransition
  <2>10. CASE EndTemplate
    BY <1>2, <2>10 DEF EndTemplate, AtEnd
  <2>11. CASE ReadSystem
    BY <1>2, <2>11 DEF ReadSystem
  <2>12. CASE TranslateTemplate
    BY <1>2, <2>12 DEF TranslateTemplate
  <2>13. CASE UNCHANGED vars
    BY <1>2, <2>13 DEF vars
  <2> QED
    BY <2>1, <2>2, <2>3, <2>4, <2>5, <2>6, <2>7, <2>8, <2>9, <2>10, <2>11, <2>12, <2>13 DEF Next
<1>4. CurrentOK'
  <2> USE DEF CurrentOK, ReadingInv
  <2>1. CASE BeginTransition
    <3> DEFINE fits == /\ IsEnd(KindOf(Find(Symbols, names[document[at + 1].id])))
                       /\ IsEnd(KindOf(Find(Symbols, names[document[at + 2].id])))
    <3>1. phase' = "labels" =>
            /\ dummy' = ~fits
            /\ fits => currentEdge' = <<Current, Len(templates[Current].edges) + 1>>
            /\ ~fits => errors'
      BY <2>1 DEF BeginTransition
    <3> HIDE DEF fits
    <3>2. CASE fits
      <4>1. phase' = "labels" => dummy' = FALSE
        BY <3>1, <3>2
      <4>2. phase' = "labels" => currentEdge' # <<>>
        BY <3>1, <3>2
      <4> QED  BY <4>1, <4>2
    <3>3. CASE ~fits
      <4>1. phase' = "labels" => dummy' = TRUE /\ errors'
        BY <3>1, <3>3
      <4> QED  BY <4>1
    <3> QED  BY <3>2, <3>3
  <2>2. CASE ReadSelect \/ ReadLabel
    <3>1. phase = "labels" /\ UNCHANGED <<currentEdge, dummy>> /\ (errors => errors')
      BY <2>2, Zenon DEF ReadSelect, ReadLabel
    <3> QED  BY <3>1
  <2>3. CASE IgnoreLabel
    BY <2>3 DEF IgnoreLabel
  <2>4. CASE UNCHANGED vars
    BY <2>4 DEF vars
  <2>5. CASE ReadTemplate \/ ReadLocation \/ ReadBranchpoint \/ EndLoop \/ ReadInit
    BY <2>5, Zenon DEF ReadTemplate, ReadLocation, ReadBranchpoint, EndLoop, ReadInit
  <2>6. CASE EndTransition \/ EndTemplate \/ ReadSystem \/ TranslateTemplate
    BY <2>6 DEF EndTransition, EndTemplate, ReadSystem, TranslateTemplate
  <2> QED  BY <2>1, <2>2, <2>3, <2>4, <2>5, <2>6 DEF Next
<1> QED  BY <1>1, <1>3, <1>4 DEF ReadingInv

\* What is read is as described in every state.
LEMMA ReadingInvariant == Spec => []ReadingInv
<1>1. Init => ReadingInv
  BY FamiliesAssumption, EmptyList
     DEF Init, ReadingInv, PositionOK, IsDocument, TemplatesOK, NoErrorOK, CurrentOK, Reading, Open
<1> QED  BY <1>1, ReadingStep, PTL DEF Spec

-----------------------------------------------------------------------------
(***************************************************************************)
(* What is written.                                                        *)
(***************************************************************************)
\* Only a document without errors is translated, and what is written is of the
\* templates as they were read; an edge that the translation fails on is of an
\* element of the document.
WrittenInv ==
  /\ List(written) /\ Len(written) <= Len(templates)
  /\ phase \in {"translate", "done"} \/ written # <<>> => ~errors
  /\ written # <<>> => phase \in {"translate", "done", "crashed"}
  /\ \A i \in DOMAIN written : written[i].locations = WrittenLocations(templates[i])
  /\ phase = "crashed" /\ ~errors => HasBranchpoint \/ HasAction

\* Every step keeps what is written true to the templates.
LEMMA WrittenStep == ReadingInv /\ WrittenInv /\ [Next]_vars => WrittenInv'
<1> SUFFICES ASSUME ReadingInv, WrittenInv, [Next]_vars PROVE WrittenInv'
  OBVIOUS
<1>1. List(templates) /\ (Len(templates) \in Nat) /\ (Len(written) \in Nat) /\ DOMAIN written = 1 .. Len(written)
  BY ListDomain DEF ReadingInv, TemplatesOK, WrittenInv
<1>2. ASSUME phase \notin {"translate", "done", "crashed"}, written' = written,
             phase' \in {"translate", "done"} => ~errors',
             phase' = "crashed" => errors'
      PROVE  WrittenInv'
  <2>1. written = <<>> /\ written' = <<>>
    BY <1>2 DEF WrittenInv
  <2>2. Len(templates') \in Nat
    BY ReadingStep, ListDomain DEF ReadingInv, TemplatesOK
  <2> QED  BY <1>2, <2>1, <2>2, EmptyList DEF WrittenInv
<1>3. CASE ReadTemplate \/ ReadLocation \/ ReadBranchpoint \/ EndLoop \/ ReadInit
  BY <1>2, <1>3, Zenon DEF ReadTemplate, ReadLocation, ReadBranchpoint, EndLoop, ReadInit
<1>4. CASE BeginTransition \/ IgnoreLabel \/ EndTransition \/ EndTemplate
  BY <1>2, <1>4 DEF BeginTransition, IgnoreLabel, EndTransition, EndTemplate, AtEnd
<1>5. CASE ReadSelect \/ ReadLabel
  <2>1. phase' = "crashed" => currentEdge = <<>> /\ phase = "labels"
    BY <1>5, Zenon DEF ReadSelect, ReadLabel
  <2>2. phase' = "crashed" => errors
    BY <2>1 DEF ReadingInv, CurrentOK
  <2>3. phase' = "crashed" => errors'
    BY <1>5, <2>2 DEF ReadSelect, ReadLabel
  <2> QED  BY <1>2, <1>5, <2>3, Zenon DEF ReadSelect, ReadLabel
<1>6. CASE ReadSystem
  <2> DEFINE fine == ~errors /\ Tag(at) = "system" /\ NumberRates
  <2>1. /\ phase = "project" /\ written' = written
        /\ errors' = ~fine /\ phase' = IF fine THEN "translate" ELSE "refused"
    BY <1>6 DEF ReadSystem
  <2> HIDE DEF fine
  <2>2. phase' \in {"translate", "refused"} /\ (phase' = "translate" => fine)
    BY <2>1
  <2>3. phase' = "translate" => ~errors'
    BY <2>1, <2>2, Zenon
  <2> QED  BY <1>2, <2>1, <2>2, <2>3
<1>7. CASE TranslateTemplate
  <2> DEFINE k == Len(written) + 1
             t == templates[k]
             w == [name |-> t.name, locations |-> WrittenLocations(t),
                   edges |-> UNION {WrittenEdges(t, j) : j \in DOMAIN t.edges}]
             crash == \E j \in DOMAIN t.edges : Fatal(t, j)
  <2>1. ~errors /\ phase = "translate" /\ UNCHANGED <<document, templates, errors>>
    BY <1>7 DEF TranslateTemplate, WrittenInv
  <2>2. CASE Len(written) = Len(templates)
    BY <1>7, <2>1, <2>2 DEF TranslateTemplate, WrittenInv
  <2>3. CASE Len(written) # Len(templates) /\ crash
    <3>1. phase' = "crashed" /\ written' = written
      BY <1>7, <2>3 DEF TranslateTemplate
    <3>2. k \in DOMAIN templates
      BY <1>1, <2>3, ListDomain DEF WrittenInv
    <3>3. EdgesOK(t)
      BY <3>2 DEF ReadingInv, TemplatesOK
    <3>4. PICK j \in DOMAIN t.edges : Fatal(t, j)
      BY <2>3
    <3>5. HasBranchpoint \/ HasAction
      BY <3>3, <3>4 DEF EdgesOK, Fatal, IsEnd
    <3> QED  BY <2>1, <3>1, <3>5 DEF WrittenInv, HasBranchpoint, HasAction, Tag
  <2>4. CASE Len(written) # Len(templates) /\ ~crash
    <3>1. written' = Append(written, w) /\ phase' = phase
      BY <1>7, <2>4 DEF TranslateTemplate
    <3> HIDE DEF w
    <3>2. /\ List(written') /\ Len(written') = Len(written) + 1 /\ DOMAIN written' = 1 .. Len(written) + 1
          /\ \A i \in 1 .. Len(written) : written'[i] = written[i]
          /\ written'[Len(written) + 1] = w
      BY <3>1, ListAppend DEF WrittenInv
    <3>3. w.locations = WrittenLocations(templates[Len(written) + 1])
      BY DEF w
    <3>4. Len(written') <= Len(templates)
      BY <1>1, <2>4, <3>2 DEF WrittenInv
    <3>5. ASSUME NEW i \in DOMAIN written' PROVE written'[i].locations = WrittenLocations(templates[i])
      BY <1>1, <3>2, <3>3 DEF WrittenInv
    <3>6. (\A i \in DOMAIN written : written[i].locations = WrittenLocations(templates[i]))'
      BY ONLY <2>1, <3>5 DEF WrittenLocations
    <3>7. (List(written) /\ Len(written) <= Len(templates))'
      BY <2>1, <3>2, <3>4
    <3>8. phase' = "translate" /\ ~errors'
      BY <2>1, <3>1
    <3> QED  BY <3>6, <3>7, <3>8 DEF WrittenInv
  <2> QED  BY <2>2, <2>3, <2>4
<1>8. CASE UNCHANGED vars
  <2>1. UNCHANGED <<document, templates, written, phase, errors>>
    BY ONLY <1>8 DEF vars
  <2>2. HasBranchpoint' = HasBranchpoint /\ HasAction' = HasAction
    BY ONLY <2>1 DEF HasBranchpoint, HasAction, Tag
  <2>3. (\A i \in DOMAIN written : written[i].locations = WrittenLocations(templates[i]))'
    <3>1. \A i \in DOMAIN written : written[i].locations = WrittenLocations(templates[i])
      BY ONLY WrittenInv DEF WrittenInv
    <3>2. ASSUME NEW i \in DOMAIN written' PROVE (written[i].locations = WrittenLocations(templates[i]))'
      <4>1. written'[i].locations = WrittenLocations(templates[i])
        BY ONLY <2>1, <3>1, <3>2
      <4> QED  BY ONLY <2>1, <4>1 DEF WrittenLocations
    <3> QED  BY ONLY <3>2
  <2> QED  BY ONLY <2>1, <2>2, <2>3, WrittenInv DEF WrittenInv
<1> QED  BY <1>3, <1>4, <1>5, <1>6, <1>7, <1>8 DEF Next

\* What is written is so in every state.
LEMMA WrittenInvariant == Spec => []WrittenInv
<1>1. Init => WrittenInv
  BY EmptyList DEF Init, WrittenInv
<1> QED  BY <1>1, WrittenStep, ReadingInvariant, PTL DEF Spec

\* The locations of a process that is written have names of their own, just one
\* of them is initial, and none is both urgent and committed.
THEOREM LocationsKept == Spec => []LocationsWellFormed
<1>1. ReadingInv /\ WrittenInv => LocationsWellFormed
  <2> SUFFICES ASSUME ReadingInv, WrittenInv, NEW i \in DOMAIN written
               PROVE  LET L == written[i].locations
                      IN  /\ \A j, k \in DOMAIN L : L[j].name = L[k].name => j = k
                          /\ \E k \in DOMAIN L : \A j \in DOMAIN L : L[j].initial <=> j = k
                          /\ \A k \in DOMAIN L : ~({"urgent", "committed"} \subseteq L[k].flags)
    BY DEF LocationsWellFormed
  <2> DEFINE t == templates[i]
             L == written[i].locations
  <2>1. i \in DOMAIN templates
    BY ListDomain DEF ReadingInv, WrittenInv, TemplatesOK
  <2>2. TemplateOK(t) /\ StatesOK(t) /\ NamesDiffer(t) /\ t.init # 0
    <3>1. ~errors /\ phase \notin Open
      BY EmptyList DEF WrittenInv, Open
    <3> QED  BY <2>1, <3>1 DEF ReadingInv, TemplatesOK, NoErrorOK
  <2>3. L = WrittenLocations(t)
    BY DEF WrittenInv
  <2> HIDE DEF L, t
  <2>4. /\ DOMAIN L = DOMAIN t.states
        /\ \A j \in DOMAIN t.states : /\ L[j].name = t.symbols[t.states[j].uid].name
                                      /\ L[j].flags = t.symbols[t.states[j].uid].flags
                                      /\ L[j].initial <=> t.states[j].uid = t.init
    <3>1. DOMAIN L = DOMAIN t.states
      BY <2>3 DEF WrittenLocations
    <3>2. ASSUME NEW j \in DOMAIN t.states
          PROVE  /\ L[j].name = t.symbols[t.states[j].uid].name
                 /\ L[j].flags = t.symbols[t.states[j].uid].flags
                 /\ L[j].initial <=> t.states[j].uid = t.init
      <4> DEFINE initial == t.states[j].uid = t.init
      <4>1. L[j] = [name |-> t.symbols[t.states[j].uid].name, invariant |-> t.states[j].invariant,
                    flags |-> t.symbols[t.states[j].uid].flags, initial |-> initial]
        BY <2>3 DEF WrittenLocations
      <4> HIDE DEF initial
      <4>2. L[j].initial = initial
        BY <4>1
      <4>3. L[j].initial <=> t.states[j].uid = t.init
        BY <4>2 DEF initial
      <4>4. L[j].name = t.symbols[t.states[j].uid].name /\ L[j].flags = t.symbols[t.states[j].uid].flags
        BY <4>1
      <4> QED  BY <4>3, <4>4
    <3> QED  BY <3>1, <3>2
  <2>5. \A j, k \in DOMAIN L : L[j].name = L[k].name => j = k
    <3>1. DOMAIN t.symbols = 1 .. Len(t.symbols) /\ Len(t.symbols) \in Nat
      BY <2>2, ListDomain DEF TemplateOK
    <3>2. SUFFICES ASSUME NEW j \in DOMAIN L, NEW k \in DOMAIN L, j # k PROVE L[j].name # L[k].name
      OBVIOUS
    <3>3. /\ t.states[j].uid \in DOMAIN t.symbols /\ t.symbols[t.states[j].uid].kind = "location"
          /\ t.states[k].uid \in DOMAIN t.symbols /\ t.symbols[t.states[k].uid].kind = "location"
          /\ t.states[j].uid # t.states[k].uid
      BY <2>2, <2>4, <3>2 DEF StatesOK, IsLocation
    <3>4. t.states[j].uid < t.states[k].uid \/ t.states[k].uid < t.states[j].uid
      BY <3>1, <3>3
    <3> QED  BY <2>2, <2>4, <3>3, <3>4 DEF NamesDiffer
  <2>6. \E k \in DOMAIN L : \A j \in DOMAIN L : L[j].initial <=> j = k
    <3>1. PICK k \in DOMAIN t.states : t.states[k].uid = t.init
      BY <2>2 DEF StatesOK, IsLocation
    <3>2. \A j \in DOMAIN t.states : t.states[j].uid = t.init <=> j = k
      BY <2>2, <3>1 DEF StatesOK
    <3> QED  BY <2>4, <3>1, <3>2
  <2>7. \A k \in DOMAIN L : ~({"urgent", "committed"} \subseteq L[k].flags)
    BY <2>2, <2>4 DEF StatesOK, IsLocation
  <2> QED  BY <2>5, <2>6, <2>7 DEF L
<1> QED  BY <1>1, ReadingInvariant, WrittenInvariant, PTL

\* The program fails only on a document that is refused, or on an edge with a
\* branchpoint or an action: a label that finds no current edge comes after an
\* error, and an edge is between locations and branchpoints.
THEOREM CrashesAreKnown == Spec => []CrashesKnown
<1>1. WrittenInv => CrashesKnown
  BY DEF WrittenInv, CrashesKnown, HasBranchpoint, HasAction
<1> QED  BY <1>1, WrittenInvariant, PTL

-----------------------------------------------------------------------------
(***************************************************************************)
(* What is read is what is drawn.  The predicates below relate a template  *)
(* t, whose elements end at the position z of the document d, to the       *)
(* elements it was read from.                                              *)
(***************************************************************************)
NodeTags == {"location", "branchpoint"}

Tagged(d, P, tag) == {p \in P : d[p].tag = tag}
Kind(d, P, kind) == {p \in Tagged(d, P, "label") : d[p].kind = kind}

\* The nodes of a template are those of its elements, in order, after the names
\* it declares, and its states are in the order of its locations.
SymbolPlaced(d, t, z, j) ==
  LET s == t.symbols[j]
  IN  \/ s.kind = "variable" /\ s.at = 0
      \/ s.kind \in NodeTags /\ s.at \in t.at + 1 .. z - 1 /\ d[s.at].tag = s.kind

NodesOK(d, t, z) ==
  /\ \A j \in DOMAIN t.symbols : SymbolPlaced(d, t, z, j)
  /\ \A j, k \in DOMAIN t.symbols :
       j < k => IF t.symbols[k].kind = "variable" THEN t.symbols[j].kind = "variable"
                ELSE t.symbols[j].at < t.symbols[k].at
  /\ \A p \in t.at + 1 .. z - 1 : d[p].tag \in NodeTags => \E j \in DOMAIN t.symbols : t.symbols[j].at = p
  /\ \A j, k \in DOMAIN t.states : j < k => t.states[j].uid < t.states[k].uid

\* What belongs to an element ends at stop, known once the next one is met.
Ended(d, stop, loose) == stop = loose \/ d[stop].tag \in Parts

\* A location has what belongs to its element.
LocationFits(d, s, state, stop) ==
  LET P == s.at + 1 .. stop - 1
      given == Tagged(d, P, "name")
  IN  /\ s.at < stop
      /\ \A p \in P : d[p].tag \notin Parts
      /\ s.name = NameOf(IF given = {} THEN "" ELSE d[CHOOSE q \in given : TRUE].name, d[s.at].id)
      /\ s.flags = {tag \in {"urgent", "committed"} : Tagged(d, P, tag) # {}}
      /\ Kind(d, P, "exponentialrate") = {} => state.invariant = LastPart(Kind(d, P, "invariant"))

LocationsFit(d, t, z, loose) ==
  \A k \in DOMAIN t.states :
    \E stop \in 1 .. z : Ended(d, stop, loose) /\ LocationFits(d, t.symbols[t.states[k].uid], t.states[k], stop)

\* No id is bound twice.
Apart(d, P) ==
  \A p, q \in P : d[p].tag \in NodeTags /\ d[q].tag \in NodeTags /\ d[p].id = d[q].id => p = q

\* An element p refers to the node of index i, if ids are bound once up to z.
Refers(d, t, z, p, i) ==
  Apart(d, t.at + 1 .. z - 1) =>
    \A j \in DOMAIN t.symbols : t.symbols[j].kind \in NodeTags /\ d[t.symbols[j].at].id = d[p].id => i = j

InitFits(d, t, z) == \A q \in Tagged(d, t.at + 1 .. z - 1, "init") : Refers(d, t, z, q, t.init)
HasInit(d, t, z) == Tagged(d, t.at + 1 .. z - 1, "init") # {}

\* A label of an edge is the last one of its kind that belongs to it, and what it
\* uses the last of the iterators of this name that come before it.
LabelKinds == {"guard", "synchronisation", "assignment"}

LabelFits(d, e, kind, stop) ==
  LET l == e.labels[kind]
      J == {j \in DOMAIN e.select : e.select[j].at < l.at /\ e.select[j].name = d[l.at].name}
  IN  /\ l.at = LastPart(Kind(d, e.at + 1 .. stop - 1, kind))
      /\ IF J = {} THEN l.iterator = 0 ELSE l.iterator \in J /\ \A j \in J : j <= l.iterator

\* The iterators of an edge are those that belong to it, in order.
SelectFits(d, e, stop) ==
  /\ Lists([j \in DOMAIN e.select |-> e.select[j].at], Kind(d, e.at + 1 .. stop - 1, "select"))
  /\ \A j \in DOMAIN e.select : /\ e.select[j].name = d[e.select[j].at].name
                                /\ e.select[j].last = d[e.select[j].at].id

EdgeFits(d, t, e, stop) ==
  /\ e.at \in Nat /\ e.at + 2 < stop
  /\ d[e.at].tag = "transition" /\ d[e.at + 1].tag = "source" /\ d[e.at + 2].tag = "target"
  /\ \A q \in e.at + 3 .. stop - 1 : d[q].tag \in {"label", "nail"}
  /\ Refers(d, t, e.at, e.at + 1, e.src) /\ Refers(d, t, e.at, e.at + 2, e.dst)
  /\ List(e.select) /\ SelectFits(d, e, stop)
  /\ DOMAIN e.labels = LabelKinds /\ \A kind \in LabelKinds : LabelFits(d, e, kind, stop)

EdgeEnded(d, t, z, loose, k) ==
  \E stop \in 1 .. z : Ended(d, stop, loose) /\ EdgeFits(d, t, t.edges[k], stop)

EdgesListed(d, t, z) ==
  Lists([k \in DOMAIN t.edges |-> t.edges[k].at], Tagged(d, t.at + 1 .. z - 1, "transition"))

EdgesFit(d, t, z, loose) ==
  EdgesListed(d, t, z) /\ \A k \in DOMAIN t.edges : EdgeEnded(d, t, z, loose, k)

-----------------------------------------------------------------------------
\* The templates that are read are those the reader has passed, in order.
PlacesOK ==
  /\ \A p \in 1 .. at - 1 : Tag(p) # "system"
  /\ \A i \in DOMAIN templates : templates[i].at \in 1 .. at - 1 /\ Tag(templates[i].at) = "template"
  /\ \A i, j \in DOMAIN templates : i < j => templates[i].at < templates[j].at
  /\ \A p \in 1 .. at - 1 : Tag(p) = "template" => \E i \in DOMAIN templates : templates[i].at = p

\* A template that another one follows.
Finished(d, t, z, failed) ==
  /\ NodesOK(d, t, z)
  /\ ~failed => /\ LocationsFit(d, t, z, 0)
                /\ InitFits(d, t, z) /\ HasInit(d, t, z)
                /\ EdgesFit(d, t, z, 0)

FinishedOK ==
  \A i \in DOMAIN templates : i < Len(templates) => Finished(document, templates[i], templates[i + 1].at, errors)

\* The last template.  While labels are read, they belong to its last edge.
LastOK ==
  templates # <<>> =>
    LET t == templates[Current]
    IN  /\ NodesOK(document, t, at)
        /\ phase \in Open => t.edges = <<>>
        /\ ~errors =>
             /\ LocationsFit(document, t, at, IF phase = "labels" THEN 0 ELSE at)
             /\ InitFits(document, t, at)
             /\ phase \in Open <=> ~HasInit(document, t, at)
             /\ EdgesListed(document, t, at)
             /\ IF phase = "labels"
                THEN /\ ~dummy /\ t.edges # <<>> /\ currentEdge = <<Current, Len(t.edges)>>
                     /\ EdgeFits(document, t, t.edges[Len(t.edges)], at)
                     /\ \A k \in 1 .. Len(t.edges) - 1 : EdgeEnded(document, t, at, 0, k)
                ELSE \A k \in DOMAIN t.edges : EdgeEnded(document, t, at, at, k)

\* The nodes of the template that is read have their names by their ids.
NamesOK ==
  phase \in Reading =>
    LET t == templates[Current]
    IN  Apart(document, t.at + 1 .. at - 1) =>
          \A j \in DOMAIN t.symbols :
            t.symbols[j].kind \in NodeTags =>
              LET id == document[t.symbols[j].at].id
              IN  id \in DOMAIN names /\ names[id] = t.symbols[j].name

DrawnInv == PlacesOK /\ FinishedOK /\ LastOK /\ NamesOK

-----------------------------------------------------------------------------
\* What belongs to a template grows with the position of the reader.
LEMMA SpanGrows ==
  ASSUME NEW a \in Nat, NEW z \in Nat, NEW y \in Nat, a < z, z <= y
  PROVE  /\ a + 1 .. y - 1 = (a + 1 .. z - 1) \cup (z .. y - 1)
         /\ a + 1 .. z - 1 \subseteq a + 1 .. y - 1
OBVIOUS

\* A list of positions to which a later one is added.
LEMMA ListsMore ==
  ASSUME NEW s, NEW n \in Nat, DOMAIN s = 1 .. n, NEW P, Lists(s, P),
         NEW z \in Nat, \A p \in P : p < z,
         NEW r, DOMAIN r = 1 .. n + 1, \A k \in 1 .. n : r[k] = s[k], r[n + 1] = z
  PROVE  Lists(r, P \cup {z})
<1>1. {r[k] : k \in 1 .. n + 1} = P \cup {z}
  <2>1. {s[k] : k \in 1 .. n} = P
    BY DEF Lists
  <2>2. \A k \in 1 .. n + 1 : k \in 1 .. n \/ k = n + 1
    OBVIOUS
  <2>3. \A k \in 1 .. n : k \in 1 .. n + 1
    OBVIOUS
  <2>4. n + 1 \in 1 .. n + 1
    OBVIOUS
  <2> QED  BY <2>1, <2>2, <2>3, <2>4
<1>2. ASSUME NEW j \in 1 .. n + 1, NEW k \in 1 .. n + 1, j < k PROVE r[j] < r[k]
  <2>1. j \in 1 .. n
    BY <1>2
  <2>2. CASE k = n + 1
    <3>1. s[j] \in P
      BY <2>1 DEF Lists
    <3> QED  BY <2>1, <2>2, <3>1
  <2>3. CASE k \in 1 .. n
    BY <1>2, <2>1, <2>3 DEF Lists
  <2> QED  BY <2>2, <2>3
<1> QED  BY <1>1, <1>2 DEF Lists

\* The last of the positions up to some length.
LEMMA LastPartIs ==
  ASSUME NEW P, P \subseteq Nat, NEW m \in P, \A q \in P : q <= m
  PROVE  LastPart(P) = m
<1>1. \A p \in P : (\A q \in P : q <= p) => p = m
  OBVIOUS
<1> QED  BY <1>1 DEF LastPart

\* Positions up to some length are finitely many.
LEMMA FinitelyMany ==
  ASSUME NEW m \in Nat, NEW P, P \subseteq 1 .. m
  PROVE  IsFiniteSet(P) /\ Cardinality(P) \in Nat /\ (P # {} => Cardinality(P) # 0)
<1>1. IsFiniteSet(1 .. m)
  BY FS_Interval
<1>2. IsFiniteSet(P)
  BY <1>1, FS_Subset
<1> QED  BY <1>2, FS_CardinalityType, FS_EmptySet

\* The last element of a listing is the last position.
LEMMA TopListed ==
  ASSUME NEW f, List(f), NEW m \in Nat, NEW P, P \subseteq 1 .. m, P # {}
  PROVE  Top(f \o Listed(P)) = LastPart(P)
<1>1. IsFiniteSet(P) /\ Cardinality(P) \in Nat \ {0}
  BY FinitelyMany
<1> DEFINE c == Cardinality(P)
           Upto(p) == {q \in P : q <= p}
<1>2. PICK max \in P : \A q \in P : q <= max
  BY LastPosition
<1>3. Upto(max) = P
  BY <1>2
<1>4. ASSUME NEW p \in P, Cardinality(Upto(p)) = c PROVE p = max
  <2>1. Upto(p) = P
    BY <1>1, <1>4, FS_Subset
  <2>2. max <= p
    BY <2>1
  <2> QED  BY <1>2, <2>2
<1>5. c \in 1 .. c
  BY <1>1
<1>6. Listed(P)[c] = max
  <2>1. Listed(P)[c] = CHOOSE p \in P : Cardinality(Upto(p)) = c
    BY <1>5 DEF Listed
  <2> HIDE DEF c, Upto
  <2>2. Cardinality(Upto(max)) = c
    BY <1>3 DEF c
  <2> QED  BY <1>4, <2>1, <2>2
<1>7. List(Listed(P)) /\ Len(Listed(P)) = c
  <2> DEFINE s == Listed(P)
  <2>1. s \in [1 .. c -> Range(s)]
    BY DEF Listed, Range
  <2>2. s \in Seq(Range(s))
    BY <1>1, <2>1
  <2>3. Len(s) = c
    BY <1>1, <2>1, <2>2
  <2> QED  BY <2>2, <2>3 DEF List
<1> DEFINE r == f \o Listed(P)
<1>8. Len(r) = Len(f) + c /\ r[Len(f) + c] = max
  <2> HIDE DEF c
  <2> QED  BY <1>5, <1>6, <1>7, ListConcat
<1>9. LastPart(P) = max
  <2>1. P \subseteq Nat
    OBVIOUS
  <2> QED  BY <1>2, <2>1, LastPartIs
<1> QED  BY <1>8, <1>9 DEF Top

\* The stack of expressions is a list, whatever is taken off it.
LEMMA ListedIsList == ASSUME NEW m \in Nat, NEW P, P \subseteq 1 .. m PROVE List(Listed(P))
<1>1. Cardinality(P) \in Nat
  BY FinitelyMany
<1> DEFINE s == Listed(P)
<1>2. s \in [1 .. Cardinality(P) -> Range(s)]
  BY DEF Listed, Range
<1> QED  BY <1>1, <1>2 DEF List

LEMMA PopIsList == ASSUME NEW s, List(s) PROVE List(Pop(s))
<1>1. Len(s) \in Nat /\ DOMAIN s = 1 .. Len(s)
  BY ListDomain
<1>2. \A i \in 1 .. Len(s) - 1 : s[i] \in Range(s)
  BY <1>1 DEF Range
<1>3. Pop(s) \in Seq(Range(s))
  BY <1>1, <1>2, SubSeqProperties DEF Pop
<1> QED  BY <1>3, SeqIsList

\* Fewer elements bind fewer ids.
LEMMA ApartShrinks ==
  ASSUME NEW d, NEW P, NEW Q, P \subseteq Q, Apart(d, Q)
  PROVE  Apart(d, P)
BY DEF Apart

\* What a template is made of stays drawn when the reader passes elements of
\* other tags: its nodes,
LEMMA NodesGrow ==
  ASSUME NEW d, NEW t, NEW z \in Nat, NEW y \in Nat, t.at \in Nat, t.at < z, z <= y, NodesOK(d, t, z),
         \A q \in z .. y - 1 : d[q].tag \notin NodeTags,
         NEW u, u.at = t.at, u.symbols = t.symbols, u.states = t.states
  PROVE  NodesOK(d, u, y)
<1>1. /\ t.at + 1 .. y - 1 = (t.at + 1 .. z - 1) \cup (z .. y - 1)
      /\ t.at + 1 .. z - 1 \subseteq t.at + 1 .. y - 1
  BY SpanGrows
<1>2. ASSUME NEW p \in t.at + 1 .. y - 1, d[p].tag \in NodeTags
      PROVE  \E j \in DOMAIN t.symbols : t.symbols[j].at = p
  BY <1>1, <1>2 DEF NodesOK
<1>3. \A j \in DOMAIN t.symbols : SymbolPlaced(d, t, y, j)
  BY <1>1 DEF NodesOK, SymbolPlaced
<1>4. \A j \in DOMAIN u.symbols : SymbolPlaced(d, u, y, j)
  BY <1>3 DEF SymbolPlaced
<1> QED  BY <1>2, <1>4 DEF NodesOK

\* its locations, unless the element they may still grow to is a part,
LEMMA LocationsGrow ==
  ASSUME NEW d, NEW t, NEW z \in Nat, NEW y \in Nat, z <= y,
         NEW loose, NEW new, LocationsFit(d, t, z, loose),
         loose = 0 \/ loose = new \/ d[loose].tag \in Parts,
         NEW u, u.symbols = t.symbols, u.states = t.states
  PROVE  LocationsFit(d, u, y, new)
<1> SUFFICES ASSUME NEW k \in DOMAIN t.states
             PROVE  \E stop \in 1 .. y : /\ Ended(d, stop, new)
                                         /\ LocationFits(d, t.symbols[t.states[k].uid], t.states[k], stop)
  BY DEF LocationsFit
<1>1. PICK stop \in 1 .. z : Ended(d, stop, loose) /\ LocationFits(d, t.symbols[t.states[k].uid], t.states[k], stop)
  BY DEF LocationsFit
<1>2. stop # 0 /\ stop \in 1 .. y
  OBVIOUS
<1>3. Ended(d, stop, new)
  BY <1>1, <1>2 DEF Ended
<1> QED  BY <1>1, <1>2, <1>3

\* what an edge is drawn from,
LEMMA EdgeFitsNodes ==
  ASSUME NEW d, NEW t, NEW u, NEW e, NEW z, u.at = t.at, u.symbols = t.symbols, EdgeFits(d, t, e, z)
  PROVE  EdgeFits(d, u, e, z)
<1>1. Refers(d, t, e.at, e.at + 1, e.src) /\ Refers(d, t, e.at, e.at + 2, e.dst)
  BY DEF EdgeFits
<1>2. Refers(d, u, e.at, e.at + 1, e.src) /\ Refers(d, u, e.at, e.at + 2, e.dst)
  BY <1>1 DEF Refers
<1> QED  BY <1>2 DEF EdgeFits

\* its initial location,
LEMMA InitGrows ==
  ASSUME NEW d, NEW t, NEW z \in Nat, NEW y \in Nat, t.at \in Nat, t.at < z, z <= y, InitFits(d, t, z),
         \A q \in z .. y - 1 : d[q].tag # "init",
         NEW u, u.at = t.at, u.symbols = t.symbols, u.init = t.init
  PROVE  InitFits(d, u, y) /\ (HasInit(d, u, y) <=> HasInit(d, t, z))
<1>1. Tagged(d, t.at + 1 .. y - 1, "init") = Tagged(d, t.at + 1 .. z - 1, "init")
  <2> DEFINE a == t.at
  <2>1. a \in Nat /\ a < z
    OBVIOUS
  <2> HIDE DEF a
  <2>2. Tagged(d, a + 1 .. y - 1, "init") = Tagged(d, a + 1 .. z - 1, "init")
    <3>1. a + 1 .. y - 1 = (a + 1 .. z - 1) \cup (z .. y - 1)
      BY <2>1, SpanGrows
    <3> QED  BY <3>1 DEF Tagged
  <2> QED  BY <2>2 DEF a
<1>2. t.at + 1 .. z - 1 \subseteq t.at + 1 .. y - 1
  BY SpanGrows
<1>3. Apart(d, t.at + 1 .. y - 1) => Apart(d, t.at + 1 .. z - 1)
  BY <1>2, ApartShrinks
<1> QED  BY <1>1, <1>3 DEF InitFits, HasInit, Refers

\* and its edges.
LEMMA EdgeGrows ==
  ASSUME NEW d, NEW t, NEW z \in Nat, NEW y \in Nat, z <= y,
         NEW k, NEW loose, NEW new, EdgeEnded(d, t, z, loose, k),
         loose = 0 \/ loose = new \/ d[loose].tag \in Parts,
         NEW u, u.at = t.at, u.symbols = t.symbols, u.edges[k] = t.edges[k]
  PROVE  EdgeEnded(d, u, y, new, k)
<1>1. PICK stop \in 1 .. z : Ended(d, stop, loose) /\ EdgeFits(d, t, t.edges[k], stop)
  BY DEF EdgeEnded
<1>2. stop # 0 /\ stop \in 1 .. y
  OBVIOUS
<1>3. Ended(d, stop, new)
  BY <1>1, <1>2 DEF Ended
<1>4. EdgeFits(d, u, u.edges[k], stop)
  BY <1>1 DEF EdgeFits, Refers
<1> QED  BY <1>2, <1>3, <1>4 DEF EdgeEnded

LEMMA EdgesListedGrow ==
  ASSUME NEW d, NEW t, NEW z \in Nat, NEW y \in Nat, t.at \in Nat, t.at < z, z <= y, EdgesListed(d, t, z),
         \A q \in z .. y - 1 : d[q].tag # "transition",
         NEW u, u.at = t.at, DOMAIN u.edges = DOMAIN t.edges,
         \A k \in DOMAIN t.edges : u.edges[k].at = t.edges[k].at
  PROVE  EdgesListed(d, u, y)
<1>1. Tagged(d, t.at + 1 .. y - 1, "transition") = Tagged(d, t.at + 1 .. z - 1, "transition")
  <2> DEFINE a == t.at
  <2>1. a \in Nat /\ a < z
    OBVIOUS
  <2> HIDE DEF a
  <2>2. Tagged(d, a + 1 .. y - 1, "transition") = Tagged(d, a + 1 .. z - 1, "transition")
    <3>1. a + 1 .. y - 1 = (a + 1 .. z - 1) \cup (z .. y - 1)
      BY <2>1, SpanGrows
    <3> QED  BY <3>1 DEF Tagged
  <2> QED  BY <2>2 DEF a
<1>2. [k \in DOMAIN u.edges |-> u.edges[k].at] = [k \in DOMAIN t.edges |-> t.edges[k].at]
  OBVIOUS
<1> QED  BY <1>1, <1>2 DEF EdgesListed

-----------------------------------------------------------------------------
\* Templates with the same nodes.
SameNodes(t, u) == u.at = t.at /\ u.symbols = t.symbols /\ u.states = t.states

\* An error that is reported takes nothing away from a template that is finished,
\* nor does a label that goes to a wrong edge after an error.
LEMMA FinishedKept ==
  ASSUME NEW d, NEW t, NEW z, errors => errors', Finished(d, t, z, errors),
         NEW u, u = t \/ (errors' /\ SameNodes(t, u))
  PROVE  Finished(d, u, z, errors')
<1>1. CASE u = t
  BY <1>1 DEF Finished
<1>2. CASE errors' /\ SameNodes(t, u)
  <2>1. NodesOK(d, u, z)
    BY <1>2 DEF Finished, NodesOK, SymbolPlaced, SameNodes
  <2> QED  BY <1>2, <2>1 DEF Finished
<1> QED  BY <1>1, <1>2

\* A step changes only the last template, if any, or edges after an error.
OnlyLast ==
  /\ document' = document /\ templates # <<>>
  /\ Len(templates') = Current /\ DOMAIN templates' = 1 .. Current
  /\ \A i \in 1 .. Current - 1 : templates'[i] = templates[i] \/ (errors' /\ SameNodes(templates[i], templates'[i]))
  /\ templates'[Current].at = templates[Current].at
  /\ errors => errors'

\* The reader passes elements that are neither templates nor the system.
Passes == at <= at' /\ \A q \in at .. at' - 1 : Tag(q) \notin Tops

\* The reader is at a position, and so are the templates it has read.
LEMMA Positions ==
  ASSUME ReadingInv, DrawnInv
  PROVE  /\ at \in Nat \ {0} /\ List(templates) /\ DOMAIN templates = 1 .. Len(templates) /\ Len(templates) \in Nat
         /\ \A i \in DOMAIN templates : templates[i].at \in Nat /\ templates[i].at < at
         /\ templates # <<>> => Current \in DOMAIN templates
<1>1. at \in Nat \ {0}
  BY DEF ReadingInv, PositionOK, IsDocument
<1>2. List(templates) /\ DOMAIN templates = 1 .. Len(templates) /\ Len(templates) \in Nat
  BY ListDomain DEF ReadingInv, TemplatesOK
<1>3. \A i \in DOMAIN templates : templates[i].at \in Nat /\ templates[i].at < at
  <2>1. \A i \in DOMAIN templates : templates[i].at \in 1 .. at - 1
    BY DEF DrawnInv, PlacesOK
  <2> QED  BY <1>1, <2>1
<1>4. templates # <<>> => Current \in DOMAIN templates
  BY <1>2, EmptySeq DEF Current, List
<1> QED  BY <1>1, <1>2, <1>3, <1>4

\* Such a step keeps the templates in their places, and those before the last
\* one finished.
LEMMA PlacesKept ==
  ASSUME ReadingInv, DrawnInv, OnlyLast, Passes, at' \in Nat
  PROVE  PlacesOK' /\ FinishedOK' /\ Current' = Current /\ Current \in DOMAIN templates
<1>1. /\ at \in Nat \ {0} /\ DOMAIN templates = 1 .. Current /\ Current \in Nat \ {0}
      /\ Len(templates) = Current
  BY Positions DEF Current, OnlyLast
<1>2. /\ DOMAIN templates' = 1 .. Current /\ Current' = Current
      /\ \A i \in 1 .. Current : templates'[i].at = templates[i].at
  BY <1>1 DEF OnlyLast, Current, SameNodes
<1>3. 1 .. at' - 1 = (1 .. at - 1) \cup (at .. at' - 1)
  BY <1>1 DEF Passes
<1>4. \A p \in 1 .. at' - 1 : document'[p] = document[p] /\ (Tag(p) \in Tops => p \in 1 .. at - 1)
  BY <1>3 DEF Passes, OnlyLast
<1>5. PlacesOK'
  <2>1. PlacesOK
    BY DEF DrawnInv
  <2>2. \A p \in 1 .. at' - 1 : document'[p].tag # "system"
    BY <1>4, <2>1 DEF PlacesOK, Tag, Tops
  <2>3. \A i \in 1 .. Current : templates[i].at \in 1 .. at' - 1 /\ document'[templates[i].at].tag = "template"
    <3>1. \A i \in 1 .. Current : templates[i].at \in 1 .. at - 1 /\ document[templates[i].at].tag = "template"
      BY ONLY <1>1, <2>1 DEF PlacesOK, Tag
    <3>2. 1 .. at - 1 \subseteq 1 .. at' - 1
      BY ONLY <1>3
    <3> QED  BY ONLY <1>4, <3>1, <3>2
  <2>4. \A i, j \in 1 .. Current : i < j => templates[i].at < templates[j].at
    BY <1>1, <2>1 DEF PlacesOK
  <2>5. \A p \in 1 .. at' - 1 : document'[p].tag = "template" => \E i \in 1 .. Current : templates[i].at = p
    BY <1>1, <1>4, <2>1 DEF PlacesOK, Tag, Tops
  <2>6. /\ \A i \in 1 .. Current : templates'[i].at \in 1 .. at' - 1 /\ document'[templates'[i].at].tag = "template"
        /\ \A i, j \in 1 .. Current : i < j => templates'[i].at < templates'[j].at
        /\ \A p \in 1 .. at' - 1 : document'[p].tag = "template" => \E i \in 1 .. Current : templates'[i].at = p
    BY <1>2, <2>3, <2>4, <2>5
  <2> QED  BY <1>2, <2>2, <2>6 DEF PlacesOK, Tag
<1>6. FinishedOK'
  <2>1. ASSUME NEW i \in 1 .. Current, i < Current
        PROVE  Finished(document', templates'[i], templates'[i + 1].at, errors')
    <3>1. Finished(document, templates[i], templates[i + 1].at, errors)
      BY <1>1, <2>1 DEF DrawnInv, FinishedOK
    <3>2. /\ templates'[i] = templates[i] \/ (errors' /\ SameNodes(templates[i], templates'[i]))
          /\ templates'[i + 1].at = templates[i + 1].at
      <4>1. i \in 1 .. Current - 1 /\ i + 1 \in 1 .. Current
        BY <1>1, <2>1
      <4> QED  BY <1>2, <4>1 DEF OnlyLast
    <3>3. document' = document /\ (errors => errors')
      BY DEF OnlyLast
    <3> DEFINE t == templates[i]
               u == templates'[i]
               z == templates[i + 1].at
    <3>4. Finished(document, t, z, errors) /\ (u = t \/ (errors' /\ SameNodes(t, u)))
      BY <3>1, <3>2
    <3>5. templates'[i + 1].at = z
      BY <3>2
    <3> HIDE DEF t, u, z
    <3>6. Finished(document, u, z, errors')
      BY <3>3, <3>4, FinishedKept
    <3>7. Finished(document', u, templates'[i + 1].at, errors')
      BY <3>3, <3>5, <3>6
    <3> QED  BY <3>7 DEF u
  <2> QED  BY <1>2, <2>1 DEF FinishedOK, OnlyLast
<1> QED  BY <1>1, <1>2, <1>5, <1>6

\* The last template is replaced, or none is.
LEMMA Replaced ==
  ASSUME ReadingInv, DrawnInv, phase \in Reading, document' = document, errors => errors',
         NEW u, u.at = templates[Current].at, templates' = [templates EXCEPT ![Current] = u]
  PROVE  OnlyLast /\ templates'[Current] = u
<1>1. /\ templates # <<>> /\ List(templates) /\ Len(templates) = Current /\ DOMAIN templates = 1 .. Current
      /\ Current \in DOMAIN templates
  BY Positions DEF ReadingInv, TemplatesOK, Current
<1>2. /\ Len(templates') = Current /\ DOMAIN templates' = 1 .. Current
      /\ \A i \in DOMAIN templates : templates'[i] = IF i = Current THEN u ELSE templates[i]
  BY <1>1, ListReplace
<1>3. \A i \in 1 .. Current - 1 : i \in DOMAIN templates /\ i # Current
  BY <1>1, ListDomain
<1> QED  BY <1>1, <1>2, <1>3 DEF OnlyLast

LEMMA NotReplaced ==
  ASSUME ReadingInv, DrawnInv, templates # <<>>, UNCHANGED <<document, templates>>, errors => errors'
  PROVE  OnlyLast
BY Positions DEF OnlyLast, Current

\* Names stay bound while no node is read.
LEMMA NamesKept ==
  ASSUME ReadingInv, DrawnInv, OnlyLast, Passes, at' \in Nat, names' = names,
         templates'[Current].symbols = templates[Current].symbols, phase' \in Reading => phase \in Reading
  PROVE  NamesOK'
<1>1. Current' = Current /\ document' = document /\ templates'[Current].at = templates[Current].at
  BY PlacesKept DEF OnlyLast
<1> DEFINE t == templates[Current]
           u == templates'[Current]
<1>2. SUFFICES ASSUME phase \in Reading, Apart(document, t.at + 1 .. at' - 1), NEW j \in DOMAIN t.symbols,
                      t.symbols[j].kind \in NodeTags
               PROVE  LET id == document[t.symbols[j].at].id
                      IN  id \in DOMAIN names /\ names[id] = t.symbols[j].name
  <2>1. u.symbols = t.symbols /\ u.at = t.at
    BY <1>1
  <2> HIDE DEF u, t
  <2> QED  BY <1>1, <2>1 DEF NamesOK, t, u
<1>3. at \in Nat /\ at <= at'
  BY Positions DEF Passes
<1>4. t.at + 1 .. at - 1 \subseteq t.at + 1 .. at' - 1
  <2>1. t.at \in Nat
    BY PlacesKept, Positions
  <2> HIDE DEF t
  <2> QED  BY <1>3, <2>1
<1>5. Apart(document, t.at + 1 .. at - 1)
  BY <1>2, <1>4, ApartShrinks
<1> QED  BY <1>2, <1>5 DEF DrawnInv, NamesOK

\* A step that reads nothing keeps everything drawn, unless labels begin or end,
\* or the initial location was to be read.
LEMMA StayDrawn ==
  ASSUME ReadingInv, DrawnInv, UNCHANGED <<document, at, templates, names>>, errors => errors',
         phase' \in Reading => phase \in Reading,
         phase' \in Open => phase \in Open,
         \/ errors'
         \/ UNCHANGED <<phase, currentEdge, dummy>>
         \/ phase # "labels" /\ phase' # "labels" /\ (phase \in Open => phase' \in Open)
  PROVE  DrawnInv'
<1>0. at \in Nat
  BY Positions
<1>1. CASE templates = <<>>
  <2>1. /\ DOMAIN templates = {} /\ DOMAIN templates' = {} /\ templates' = <<>>
        /\ phase \notin Reading /\ phase' \notin Reading
    BY <1>1 DEF ReadingInv, TemplatesOK
  <2>2. PlacesOK' /\ FinishedOK' /\ LastOK' /\ NamesOK'
    <3>1. PlacesOK'
      BY <2>1 DEF DrawnInv, PlacesOK, Tag
    <3>2. FinishedOK'
      BY <2>1 DEF FinishedOK
    <3>3. LastOK'
      BY <2>1 DEF LastOK
    <3>4. NamesOK'
      BY <2>1 DEF NamesOK
    <3> QED  BY <3>1, <3>2, <3>3, <3>4
  <2> QED  BY <2>2 DEF DrawnInv
<1>2. CASE templates # <<>>
  <2>1. OnlyLast
    BY <1>2, NotReplaced
  <2>2. Passes /\ at' \in Nat
    BY <1>0 DEF Passes
  <2>3. PlacesOK' /\ FinishedOK' /\ Current' = Current /\ NamesOK'
    BY <2>1, <2>2, PlacesKept, NamesKept
  <2>4. LastOK'
    <3> DEFINE t == templates[Current]
    <3>1. /\ NodesOK(document, t, at)
          /\ phase \in Open => t.edges = <<>>
          /\ ~errors =>
               /\ LocationsFit(document, t, at, IF phase = "labels" THEN 0 ELSE at)
               /\ InitFits(document, t, at)
               /\ phase \in Open <=> ~HasInit(document, t, at)
               /\ EdgesListed(document, t, at)
               /\ IF phase = "labels"
                  THEN /\ ~dummy /\ t.edges # <<>> /\ currentEdge = <<Current, Len(t.edges)>>
                       /\ EdgeFits(document, t, t.edges[Len(t.edges)], at)
                       /\ \A k \in 1 .. Len(t.edges) - 1 : EdgeEnded(document, t, at, 0, k)
                  ELSE \A k \in DOMAIN t.edges : EdgeEnded(document, t, at, at, k)
      BY <1>2 DEF DrawnInv, LastOK
    <3>2. templates'[Current'] = t
      BY <2>3
    <3> HIDE DEF t
    <3>3. /\ NodesOK(document', t, at')
          /\ phase' \in Open => t.edges = <<>>
          /\ ~errors' =>
               /\ LocationsFit(document', t, at', IF phase' = "labels" THEN 0 ELSE at')
               /\ InitFits(document', t, at')
               /\ phase' \in Open <=> ~HasInit(document', t, at')
               /\ EdgesListed(document', t, at')
               /\ IF phase' = "labels"
                  THEN /\ ~dummy' /\ t.edges # <<>> /\ currentEdge' = <<Current, Len(t.edges)>>
                       /\ EdgeFits(document', t, t.edges[Len(t.edges)], at')
                       /\ \A k \in 1 .. Len(t.edges) - 1 : EdgeEnded(document', t, at', 0, k)
                  ELSE \A k \in DOMAIN t.edges : EdgeEnded(document', t, at', at', k)
      <4>1. CASE errors'
        BY <3>1, <4>1
      <4>2. CASE ~errors' /\ UNCHANGED <<phase, currentEdge, dummy>>
        BY <3>1, <4>2
      <4>3. CASE ~errors' /\ phase # "labels" /\ phase' # "labels" /\ (phase \in Open <=> phase' \in Open)
        BY <3>1, <4>3
      <4> QED  BY <4>1, <4>2, <4>3
    <3> QED  BY <2>3, <3>2, <3>3 DEF LastOK, Open
  <2> QED  BY <2>3, <2>4 DEF DrawnInv
<1> QED  BY <1>1, <1>2

-----------------------------------------------------------------------------
\* The name of a node is found to be its own, since names differ.
LEMMA FindNode ==
  ASSUME NEW d, NEW t, NEW z, TemplateOK(t), NodesOK(d, t, z), NamesDiffer(t),
         NEW j \in DOMAIN t.symbols, t.symbols[j].kind \in NodeTags
  PROVE  Find(t.symbols, t.symbols[j].name) = j
<1> DEFINE I == {i \in DOMAIN t.symbols : t.symbols[i].name = t.symbols[j].name}
<1>1. DOMAIN t.symbols = 1 .. Len(t.symbols) /\ Len(t.symbols) \in Nat
  BY ListDomain DEF TemplateOK
<1>2. \A i \in DOMAIN t.symbols : j < i => t.symbols[i].kind # "variable"
  BY DEF NodesOK, NodeTags
<1>3. ASSUME NEW i \in I PROVE i = j
  <2>1. CASE i < j
    BY <2>1 DEF NamesDiffer, NodeTags
  <2>2. CASE j < i
    BY <1>2, <2>2 DEF NamesDiffer
  <2>3. i \in Int /\ j \in Int
    BY <1>1
  <2> QED  BY <2>1, <2>2, <2>3
<1>4. I = {j}
  BY <1>3
<1>5. LastOf({j}) = j
  <2>1. \A i \in {j} : (\A k \in {j} : k <= i) => i = j
    OBVIOUS
  <2>2. j <= j
    BY <1>1
  <2> QED  BY <2>1, <2>2 DEF LastOf
<1> QED  BY <1>4, <1>5 DEF Find

\* What an element refers to is found by name.
LEMMA ReferenceFound ==
  ASSUME ReadingInv, DrawnInv, phase \in Reading, ~errors, NEW p, document[p].id \in DOMAIN names
  PROVE  Refers(document, templates[Current], at, p, Find(Symbols, names[document[p].id]))
<1> DEFINE t == templates[Current]
<1>1. TemplateOK(t) /\ NamesDiffer(t) /\ NodesOK(document, t, at)
  <2>1. Current \in DOMAIN templates /\ templates # <<>>
    BY CurrentTemplate DEF ReadingInv
  <2> QED  BY <2>1 DEF ReadingInv, TemplatesOK, NoErrorOK, DrawnInv, LastOK
<1>2. ASSUME Apart(document, t.at + 1 .. at - 1), NEW j \in DOMAIN t.symbols,
             t.symbols[j].kind \in NodeTags, document[t.symbols[j].at].id = document[p].id
      PROVE  Find(t.symbols, names[document[p].id]) = j
  <2>1. names[document[p].id] = t.symbols[j].name
    BY <1>2 DEF DrawnInv, NamesOK
  <2> QED  BY <1>1, <1>2, <2>1, FindNode
<1> QED  BY <1>2 DEF Refers, Symbols

\* The template that is read, and the step on it, in terms of positions.
LEMMA LastTemplate ==
  ASSUME ReadingInv, DrawnInv, phase \in Reading
  PROVE  /\ templates # <<>> /\ Current \in DOMAIN templates /\ at \in Nat \ {0}
         /\ templates[Current].at \in Nat /\ templates[Current].at < at
         /\ TemplateOK(templates[Current]) /\ StatesOK(templates[Current])
         /\ NodesOK(document, templates[Current], at)
BY Positions, CurrentTemplate DEF ReadingInv, DrawnInv, LastOK

\* After the initial location is read, it is the one that is drawn.
LEMMA ReadInitDrawn == ReadingInv /\ DrawnInv /\ ReadInit => DrawnInv'
<1> SUFFICES ASSUME ReadingInv, DrawnInv, ReadInit PROVE DrawnInv'
  OBVIOUS
<1> DEFINE t == templates[Current]
           ref == document[at].id
           uid == IF ref \in DOMAIN names THEN Find(Symbols, names[ref]) ELSE 0
           fits == Tag(at) = "init" /\ KindOf(uid) = "location"
           u == IF fits THEN [t EXCEPT !.init = uid] ELSE t
<1>1. /\ phase = "init" /\ phase \in Reading /\ phase \in Open /\ phase' \in {"aborted", "transitions"}
      /\ UNCHANGED <<document, names>> /\ errors' = (errors \/ ~fits)
      /\ phase' \in Reading => phase \in Reading
      /\ fits => phase' = "transitions"
      /\ at' = Past("init", at)
      /\ templates' = IF fits THEN [templates EXCEPT ![Current].init = uid] ELSE templates
  <2>1. fits => ref \in DOMAIN names
    BY DEF KindOf
  <2> QED  BY <2>1 DEF ReadInit, Reading, Open
<1>2. /\ templates # <<>> /\ at \in Nat \ {0} /\ t.at \in Nat /\ t.at < at
      /\ TemplateOK(t) /\ NodesOK(document, t, at)
  BY <1>1, LastTemplate
<1>3. /\ at' \in Nat /\ at <= at' /\ at' <= at + 1
      /\ \A q \in at .. at' - 1 : q = at /\ Tag(q) = "init"
      /\ Tag(at) = "init" => at' = at + 1
  BY <1>1, <1>2 DEF Past
<1>4. u.at = t.at /\ u.symbols = t.symbols /\ u.states = t.states /\ u.edges = t.edges
  BY <1>2 DEF TemplateOK
<1>5. OnlyLast /\ templates'[Current] = u
  <2>1. CASE fits
    <3>1. templates' = [templates EXCEPT ![Current] = u]
      BY <1>1, <2>1
    <3>2. errors => errors'
      BY <1>1
    <3> HIDE DEF u, fits
    <3> QED  BY <1>1, <1>4, <3>1, <3>2, Replaced
  <2>2. CASE ~fits
    BY <1>1, <1>2, <2>2, NotReplaced
  <2> QED  BY <2>1, <2>2
<1>6. Passes
  BY <1>3 DEF Passes, Tops
<1>7. PlacesOK' /\ FinishedOK' /\ Current' = Current /\ NamesOK'
  BY <1>1, <1>3, <1>4, <1>5, <1>6, PlacesKept, NamesKept
<1>8. NodesOK(document, u, at')
  <2>1. \A q \in at .. at' - 1 : document[q].tag \notin NodeTags
    BY <1>3 DEF NodeTags, Tag
  <2> HIDE DEF u, t
  <2> QED  BY <1>2, <1>3, <1>4, <2>1, NodesGrow
<1>9. phase' \notin Open /\ phase' # "labels"
  BY <1>1 DEF Open
<1>10. ASSUME ~errors'
       PROVE  /\ LocationsFit(document, u, at', at') /\ InitFits(document, u, at') /\ HasInit(document, u, at')
              /\ EdgesListed(document, u, at') /\ \A k \in DOMAIN u.edges : EdgeEnded(document, u, at', at', k)
  <2>1. ~errors /\ fits /\ Tag(at) = "init" /\ at' = at + 1
    BY <1>1, <1>3, <1>10
  <2>2. /\ LocationsFit(document, t, at, at) /\ ~HasInit(document, t, at) /\ EdgesListed(document, t, at)
        /\ \A k \in DOMAIN t.edges : EdgeEnded(document, t, at, at, k)
    BY <1>1, <1>2, <2>1 DEF DrawnInv, LastOK
  <2>3. u.init = uid
    BY <1>2, <2>1 DEF TemplateOK
  <2>4. document[at].tag \in Parts /\ document[at].tag # "transition"
    BY <2>1 DEF Parts, Tops, Tag
  <2>5. \A q \in at .. at' - 1 : document[q].tag # "transition"
    BY <1>3 DEF Tag
  <2>6. ref \in DOMAIN names /\ Refers(document, t, at, at, uid)
    <3>1. ref \in DOMAIN names
      BY <2>1 DEF KindOf
    <3> QED  BY <1>1, <2>1, <3>1, ReferenceFound
  <2> HIDE DEF u, t, fits, uid
  <2>7. LocationsFit(document, u, at', at')
    BY <1>2, <1>3, <1>4, <2>2, <2>4, LocationsGrow
  <2>8. Tagged(document, t.at + 1 .. at' - 1, "init") = {at}
    <3>1. Tagged(document, t.at + 1 .. at - 1, "init") = {}
      BY <2>2 DEF HasInit
    <3>2. t.at + 1 .. at' - 1 = (t.at + 1 .. at - 1) \cup {at}
      BY <1>2, <2>1
    <3> QED  BY <2>1, <3>1, <3>2 DEF Tagged, Tag
  <2>9. HasInit(document, u, at')
    BY <1>4, <2>8 DEF HasInit
  <2>10. InitFits(document, u, at')
    <3>1. t.at + 1 .. at - 1 \subseteq t.at + 1 .. at' - 1
      BY <1>2, <1>3
    <3>2. Apart(document, t.at + 1 .. at' - 1) => Apart(document, t.at + 1 .. at - 1)
      BY <3>1, ApartShrinks
    <3> QED  BY <1>4, <2>3, <2>6, <2>8, <3>2 DEF InitFits, Refers
  <2>11. EdgesListed(document, u, at')
    BY <1>2, <1>3, <1>4, <2>2, <2>5, EdgesListedGrow
  <2>12. \A k \in DOMAIN u.edges : EdgeEnded(document, u, at', at', k)
    BY <1>2, <1>3, <1>4, <2>2, <2>4, EdgeGrows
  <2> QED  BY <2>7, <2>9, <2>10, <2>11, <2>12
<1>11. LastOK'
  <2> HIDE DEF u
  <2> QED  BY <1>1, <1>5, <1>7, <1>8, <1>9, <1>10 DEF LastOK, Open
<1> QED  BY <1>7, <1>11 DEF DrawnInv

\* An edge that has no label yet.
LEMMA NewEdgeFits ==
  ASSUME NEW d, NEW t, NEW z \in Nat, t.at \in Nat, t.at < z, NEW src, NEW dst, NEW action,
         d[z].tag = "transition", d[z + 1].tag = "source", d[z + 2].tag = "target",
         Refers(d, t, z, z + 1, src), Refers(d, t, z, z + 2, dst)
  PROVE  EdgeFits(d, t, NewEdge(src, dst, action, z), z + 3)
<1> DEFINE e == NewEdge(src, dst, action, z)
<1>1. /\ e.at = z /\ e.src = src /\ e.dst = dst /\ e.select = <<>>
      /\ DOMAIN e.labels = LabelKinds /\ \A kind \in LabelKinds : e.labels[kind].at = 0 /\ e.labels[kind].iterator = 0
  BY DEF NewEdge, NoLabel, LabelKinds
<1> HIDE DEF e
<1>2. z + 1 .. (z + 3) - 1 = {z + 1, z + 2} /\ z + 3 .. (z + 3) - 1 = {} /\ z + 2 < z + 3
  OBVIOUS
<1>3. ASSUME NEW kind PROVE Kind(d, z + 1 .. (z + 3) - 1, kind) = {}
  BY <1>2 DEF Kind, Tagged
<1>4. \A kind \in LabelKinds : LabelFits(d, e, kind, z + 3)
  <2>1. LastPart({}) = 0
    BY DEF LastPart
  <2>2. DOMAIN e.select = {}
    BY <1>1
  <2> QED  BY <1>1, <1>3, <2>1, <2>2 DEF LabelFits
<1>5. List(e.select) /\ SelectFits(d, e, z + 3)
  BY <1>1, <1>3, EmptyList DEF SelectFits, Lists
<1>6. EdgeFits(d, t, e, z + 3)
  BY <1>1, <1>2, <1>4, <1>5 DEF EdgeFits
<1> QED  BY <1>6 DEF e

\* A transition that is read is drawn, without labels yet.
LEMMA BeginTransitionDrawn == ReadingInv /\ DrawnInv /\ BeginTransition => DrawnInv'
<1> SUFFICES ASSUME ReadingInv, DrawnInv, BeginTransition PROVE DrawnInv'
  OBVIOUS
<1> DEFINE known == /\ Tag(at + 1) = "source" /\ document[at + 1].id \in DOMAIN names
                    /\ Tag(at + 2) = "target" /\ document[at + 2].id \in DOMAIN names
           src == Find(Symbols, names[document[at + 1].id])
           dst == Find(Symbols, names[document[at + 2].id])
           fits == IsEnd(KindOf(src)) /\ IsEnd(KindOf(dst))
           action == document[at].kind = "action"
           t == templates[Current]
           n == Len(t.edges)
           u == IF fits THEN [t EXCEPT !.edges = Append(@, NewEdge(src, dst, action, at))] ELSE t
<1>1. /\ phase = "transitions" /\ phase \in Reading /\ phase \notin Open /\ phase # "labels"
      /\ Tag(at) = "transition" /\ UNCHANGED <<document, names>>
  BY DEF BeginTransition, Reading, Open
<1>2. /\ templates # <<>> /\ at \in Nat \ {0} /\ t.at \in Nat /\ t.at < at
      /\ TemplateOK(t) /\ NodesOK(document, t, at)
  BY <1>1, LastTemplate
<1>3. CASE ~known
  <2>1. phase' = "aborted" /\ UNCHANGED <<at, templates, currentEdge, dummy, errors>>
    BY <1>3 DEF BeginTransition
  <2> HIDE DEF known
  <2> QED  BY <1>1, <2>1, StayDrawn DEF Reading, Open
<1>4. CASE known
  <2>1. /\ phase' = "labels" /\ at' = at + 3 /\ dummy' = ~fits
        /\ fits => /\ templates' = [templates EXCEPT ![Current].edges = Append(@, NewEdge(src, dst, action, at))]
                   /\ currentEdge' = <<Current, n + 1>> /\ errors' = errors
        /\ ~fits => errors' = TRUE /\ templates' = templates
    BY <1>4 DEF BeginTransition
  <2>2. u.at = t.at /\ u.symbols = t.symbols /\ u.states = t.states /\ u.init = t.init
    BY <1>2 DEF TemplateOK
  <2>3. OnlyLast /\ templates'[Current] = u
    <3>1. CASE fits
      <4>1. templates' = [templates EXCEPT ![Current] = u]
        BY <2>1, <3>1
      <4>2. errors => errors'
        BY <2>1, <3>1
      <4> HIDE DEF u, fits
      <4> QED  BY <1>1, <2>2, <4>1, <4>2, Replaced
    <3>2. CASE ~fits
      BY <1>1, <1>2, <2>1, <3>2, NotReplaced
    <3> QED  BY <3>1, <3>2
  <2>4. \A q \in at .. at' - 1 : document[q].tag \in {"transition", "source", "target"}
    <3>1. at .. at' - 1 = {at, at + 1, at + 2}
      BY <1>2, <2>1
    <3> QED  BY <1>1, <1>4, <3>1 DEF Tag
  <2>5. Passes /\ at' \in Nat /\ at <= at' /\ at' = at + 3
    BY <1>2, <2>1, <2>4 DEF Passes, Tag, Tops
  <2>10. dummy' = ~fits /\ (fits => currentEdge' = <<Current, n + 1>>)
    BY <2>1
  <2> HIDE DEF known, u
  <2>6. PlacesOK' /\ FinishedOK' /\ Current' = Current /\ NamesOK'
    BY <1>1, <2>2, <2>3, <2>5, PlacesKept, NamesKept
  <2>7. NodesOK(document, u, at')
    <3>1. \A q \in at .. at' - 1 : document[q].tag \notin NodeTags
      BY <2>4 DEF NodeTags
    <3>2. at \in Nat /\ t.at \in Nat /\ t.at < at /\ NodesOK(document, t, at)
      BY <1>2
    <3> QED  BY ONLY <2>2, <2>5, <3>1, <3>2, NodesGrow
  <2>8. ASSUME ~errors'
        PROVE  /\ LocationsFit(document, u, at', 0) /\ InitFits(document, u, at') /\ HasInit(document, u, at')
               /\ EdgesListed(document, u, at')
               /\ ~dummy' /\ u.edges # <<>> /\ currentEdge' = <<Current, Len(u.edges)>>
               /\ EdgeFits(document, u, u.edges[Len(u.edges)], at')
               /\ \A k \in 1 .. Len(u.edges) - 1 : EdgeEnded(document, u, at', 0, k)
    <3>1. fits /\ ~errors
      BY <2>1, <2>8
    <3>2. /\ LocationsFit(document, t, at, at) /\ InitFits(document, t, at) /\ HasInit(document, t, at)
          /\ EdgesListed(document, t, at) /\ \A k \in DOMAIN t.edges : EdgeEnded(document, t, at, at, k)
      BY <1>1, <1>2, <3>1 DEF DrawnInv, LastOK
    <3> DEFINE e == NewEdge(src, dst, action, at)
    <3>3. u.edges = Append(t.edges, e)
      BY <1>2, <3>1 DEF TemplateOK, u
    <3>4. Refers(document, t, at, at + 1, src) /\ Refers(document, t, at, at + 2, dst)
      BY <1>1, <1>4, <3>1, ReferenceFound DEF known
    <3>5. EdgeFits(document, t, e, at + 3) /\ e.at = at
      <4>1. document[at].tag = "transition" /\ document[at + 1].tag = "source" /\ document[at + 2].tag = "target"
        BY <1>1, <1>4 DEF known, Tag
      <4>2. e.at = at
        BY DEF NewEdge
      <4> HIDE DEF src, dst, action
      <4> QED  BY <1>2, <3>4, <4>1, <4>2, NewEdgeFits
    <3> HIDE DEF e, src, dst, action, fits
    <3>6. /\ n \in Nat /\ DOMAIN t.edges = 1 .. n /\ Len(u.edges) = n + 1 /\ DOMAIN u.edges = 1 .. n + 1
          /\ \A k \in 1 .. n : u.edges[k] = t.edges[k]
          /\ u.edges[n + 1] = e
      BY <1>2, <3>3, ListAppend, ListDomain DEF TemplateOK
    <3>7. document[at].tag \in Parts
      BY <1>1 DEF Parts, Tag
    <3> HIDE DEF t, n
    <3>8. LocationsFit(document, u, at', 0)
      BY <1>2, <2>2, <2>5, <3>2, <3>7, LocationsGrow
    <3>9. InitFits(document, u, at') /\ HasInit(document, u, at')
      <4>1. \A q \in at .. at' - 1 : document[q].tag # "init"
        BY <2>4
      <4> QED  BY <1>2, <2>2, <2>5, <3>2, <4>1, InitGrows
    <3>10. EdgesListed(document, u, at')
      <4>1. t.at + 1 .. at' - 1 = (t.at + 1 .. at - 1) \cup {at, at + 1, at + 2}
        <5> DEFINE a == t.at
        <5>1. a \in Nat /\ at \in Nat /\ a < at /\ at' = at + 3
          BY <1>2, <2>5
        <5> HIDE DEF a
        <5>2. a + 1 .. (at + 3) - 1 = (a + 1 .. at - 1) \cup {at, at + 1, at + 2}
          BY <5>1
        <5> QED  BY <5>1, <5>2 DEF a
      <4>2. document[at].tag = "transition" /\ document[at + 1].tag = "source" /\ document[at + 2].tag = "target"
        BY <1>1, <1>4 DEF known, Tag
      <4>3. Tagged(document, t.at + 1 .. at' - 1, "transition")
              = Tagged(document, t.at + 1 .. at - 1, "transition") \cup {at}
        BY <4>1, <4>2 DEF Tagged
      <4> DEFINE P == Tagged(document, t.at + 1 .. at - 1, "transition")
                 s == [k \in DOMAIN t.edges |-> t.edges[k].at]
                 r == [k \in DOMAIN u.edges |-> u.edges[k].at]
      <4>4. DOMAIN s = 1 .. n /\ DOMAIN r = 1 .. n + 1 /\ (\A k \in 1 .. n : r[k] = s[k]) /\ r[n + 1] = at
        <5>1. \A k \in 1 .. n : k \in 1 .. n + 1
          BY <3>6
        <5>2. n + 1 \in 1 .. n + 1
          BY <3>6
        <5> QED  BY <3>5, <3>6, <5>1, <5>2
      <4>5. Lists(s, P) /\ \A p \in P : p < at
        BY <1>2, <3>2 DEF EdgesListed, Tagged
      <4>6. Lists(r, P \cup {at})
        <5> HIDE DEF P, s, r
        <5> QED  BY <1>2, <3>6, <4>4, <4>5, ListsMore
      <4> QED  BY <2>2, <4>3, <4>6 DEF EdgesListed
    <3>11. EdgeFits(document, u, u.edges[Len(u.edges)], at')
      <4>1. u.edges[Len(u.edges)] = e /\ at' = at + 3
        BY <2>5, <3>6
      <4>2. u.at = t.at /\ u.symbols = t.symbols
        BY <2>2
      <4> QED  BY ONLY <3>5, <4>1, <4>2, EdgeFitsNodes
    <3>12. \A k \in 1 .. Len(u.edges) - 1 : EdgeEnded(document, u, at', 0, k)
      <4>1. ASSUME NEW k \in 1 .. Len(u.edges) - 1 PROVE EdgeEnded(document, u, at', 0, k)
        <5>1. k \in 1 .. n /\ u.edges[k] = t.edges[k] /\ EdgeEnded(document, t, at, at, k)
          BY <3>2, <3>6
        <5> QED  BY <1>2, <2>2, <2>5, <3>7, <5>1, EdgeGrows
      <4> QED  BY <4>1
    <3>13. ~dummy' /\ u.edges # <<>> /\ currentEdge' = <<Current, Len(u.edges)>>
      <4>1. currentEdge' = <<Current, n + 1>> /\ ~dummy'
        BY <2>10, <3>1
      <4>2. n + 1 # 0
        BY <3>6
      <4>3. u.edges # <<>>
        BY <3>6, <4>2, EmptyList
      <4> QED  BY <3>6, <4>1, <4>3
    <3> QED  BY <3>8, <3>9, <3>10, <3>11, <3>12, <3>13
  <2>9. LastOK'
    BY <1>1, <2>1, <2>3, <2>6, <2>7, <2>8 DEF LastOK, Open
  <2> QED  BY <2>6, <2>9 DEF DrawnInv
<1> QED  BY <1>3, <1>4

-----------------------------------------------------------------------------
\* An edge stays drawn when the reader passes what is no label of it.
LEMMA EdgePasses ==
  ASSUME NEW d, NEW t, NEW e, NEW z \in Nat, NEW y \in Nat, z <= y, EdgeFits(d, t, e, z),
         \A q \in z .. y - 1 : d[q].tag \in {"label", "nail"},
         \A q \in z .. y - 1 : d[q].tag = "label" => d[q].kind \notin LabelKinds \cup {"select"}
  PROVE  EdgeFits(d, t, e, y)
<1>1. e.at \in Nat /\ e.at + 2 < z
  BY DEF EdgeFits
<1>2. e.at + 2 < y /\ e.at < z
  BY <1>1
<1>3. \A q \in e.at + 3 .. y - 1 : d[q].tag \in {"label", "nail"}
  <2>1. \A q \in e.at + 3 .. y - 1 : q \in e.at + 3 .. z - 1 \/ q \in z .. y - 1
    BY <1>1
  <2> QED  BY <2>1 DEF EdgeFits
<1>4. ASSUME NEW kind \in LabelKinds \cup {"select"}
      PROVE  Kind(d, e.at + 1 .. y - 1, kind) = Kind(d, e.at + 1 .. z - 1, kind)
  <2> DEFINE a == e.at
  <2>1. a \in Nat /\ a < z
    BY <1>1, <1>2
  <2>2. \A q \in z .. y - 1 : d[q].tag = "label" => d[q].kind # kind
    OBVIOUS
  <2> HIDE DEF a
  <2>3. a + 1 .. y - 1 = (a + 1 .. z - 1) \cup (z .. y - 1)
    BY <2>1, SpanGrows
  <2>4. Kind(d, a + 1 .. y - 1, kind) = Kind(d, a + 1 .. z - 1, kind)
    BY <2>2, <2>3 DEF Kind, Tagged
  <2> QED  BY <2>4 DEF a
<1>5. SelectFits(d, e, y)
  BY <1>4 DEF EdgeFits, SelectFits
<1>6. \A kind \in LabelKinds : LabelFits(d, e, kind, y)
  BY <1>4 DEF EdgeFits, LabelFits
<1> QED  BY <1>1, <1>2, <1>3, <1>5, <1>6 DEF EdgeFits

\* While labels are read, and when they end, the last edge is the one they
\* belong to.
LEMMA LabelsDrawn ==
  ASSUME ReadingInv, DrawnInv, phase = "labels", phase' \in {"labels", "transitions"},
         UNCHANGED <<names, currentEdge, dummy>>, at' \in Nat, at <= at',
         \A q \in at .. at' - 1 : Tag(q) \in {"label", "nail"},
         OnlyLast, NEW u, templates'[Current] = u, SameNodes(templates[Current], u),
         ~errors' => LET t == templates[Current]
                         n == Len(t.edges)
                     IN  /\ u.init = t.init /\ DOMAIN u.edges = DOMAIN t.edges /\ Len(u.edges) = n
                         /\ \A k \in 1 .. n - 1 : u.edges[k] = t.edges[k]
                         /\ u.edges[n].at = t.edges[n].at
                         /\ EdgeFits(document, t, u.edges[n], at')
  PROVE  DrawnInv'
<1> DEFINE t == templates[Current]
           n == Len(t.edges)
<1>1. phase \in Reading /\ phase' \notin Open /\ document' = document
  BY DEF Reading, Open, OnlyLast
<1>2. /\ templates # <<>> /\ at \in Nat \ {0} /\ t.at \in Nat /\ t.at < at
      /\ TemplateOK(t) /\ NodesOK(document, t, at)
  BY <1>1, LastTemplate
<1>3. Passes
  BY DEF Passes, Tops
<1>4. PlacesOK' /\ FinishedOK' /\ Current' = Current /\ NamesOK'
  BY <1>1, <1>3, PlacesKept, NamesKept DEF SameNodes
<1>5. u.at = t.at /\ u.symbols = t.symbols /\ u.states = t.states
  BY DEF SameNodes
<1>6. /\ \A q \in at .. at' - 1 : document[q].tag \notin NodeTags
      /\ \A q \in at .. at' - 1 : document[q].tag # "init"
      /\ \A q \in at .. at' - 1 : document[q].tag # "transition"
  BY DEF Tag, NodeTags
<1>7. n \in Nat /\ DOMAIN t.edges = 1 .. n
  BY <1>2, ListDomain DEF TemplateOK
<1>8. NodesOK(document, u, at')
  <2> HIDE DEF t, n
  <2> QED  BY <1>2, <1>5, <1>6, NodesGrow
<1>9. ASSUME ~errors'
      PROVE  /\ u.init = t.init /\ DOMAIN u.edges = DOMAIN t.edges /\ Len(u.edges) = n
             /\ \A k \in 1 .. n - 1 : u.edges[k] = t.edges[k]
             /\ u.edges[n].at = t.edges[n].at
             /\ EdgeFits(document, t, u.edges[n], at')
             /\ LocationsFit(document, t, at, 0)
             /\ InitFits(document, t, at) /\ HasInit(document, t, at) /\ EdgesListed(document, t, at)
             /\ ~dummy /\ t.edges # <<>> /\ currentEdge = <<Current, n>>
             /\ \A k \in 1 .. n - 1 : EdgeEnded(document, t, at, 0, k)
  <2>1. ~errors
    BY <1>9 DEF OnlyLast
  <2> QED  BY <1>2, <1>9, <2>1 DEF DrawnInv, LastOK, Open
<1> HIDE DEF t
<1>10. ASSUME ~errors'
       PROVE  /\ LocationsFit(document, u, at', IF phase' = "labels" THEN 0 ELSE at')
              /\ InitFits(document, u, at') /\ HasInit(document, u, at')
              /\ EdgesListed(document, u, at')
  <2> DEFINE new == IF phase' = "labels" THEN 0 ELSE at'
  <2>1. EdgesListed(document, u, at')
    <3>1. \A k \in DOMAIN t.edges : u.edges[k].at = t.edges[k].at
      <4>1. \A k \in 1 .. n : k = n \/ k \in 1 .. n - 1
        BY <1>7
      <4> QED  BY <1>7, <1>9, <1>10, <4>1
    <3> HIDE DEF n
    <3> QED  BY <1>2, <1>5, <1>6, <1>9, <1>10, <3>1, EdgesListedGrow
  <2> HIDE DEF new, n
  <2>2. LocationsFit(document, u, at', new)
    BY <1>2, <1>5, <1>9, <1>10, LocationsGrow
  <2>3. InitFits(document, u, at') /\ HasInit(document, u, at')
    <3>1. at \in Nat /\ at' \in Nat /\ t.at \in Nat /\ t.at < at /\ at <= at'
      BY <1>2
    <3>2. /\ InitFits(document, t, at) /\ HasInit(document, t, at)
          /\ u.at = t.at /\ u.symbols = t.symbols /\ u.init = t.init
      BY <1>5, <1>9, <1>10
    <3> QED  BY ONLY <1>6, <3>1, <3>2, InitGrows
  <2> QED  BY <2>1, <2>2, <2>3 DEF new
<1>11. ASSUME ~errors' PROVE EdgeFits(document, u, u.edges[n], at')
  <2> DEFINE e == u.edges[n]
  <2>1. EdgeFits(document, t, e, at')
    BY <1>9, <1>11
  <2> HIDE DEF e
  <2>2. EdgeFits(document, u, e, at')
    BY ONLY <1>5, <2>1, EdgeFitsNodes
  <2> QED  BY <2>2 DEF e
<1>12. ASSUME ~errors', NEW k \in 1 .. n - 1, NEW new PROVE EdgeEnded(document, u, at', new, k)
  BY <1>2, <1>5, <1>9, <1>12, EdgeGrows
<1>13. ASSUME ~errors' PROVE u.edges # <<>>
  <2>1. t.edges # <<>> /\ DOMAIN u.edges = DOMAIN t.edges
    BY <1>9, <1>13
  <2>2. n # 0
    BY <1>2, <1>7, <2>1, EmptySeq DEF TemplateOK, List
  <2> QED  BY <1>7, <2>1, <2>2, EmptyList
<1>14. CASE phase' = "labels"
  <2>1. ~errors' => /\ ~dummy' /\ u.edges # <<>> /\ currentEdge' = <<Current, Len(u.edges)>>
                    /\ EdgeFits(document, u, u.edges[Len(u.edges)], at')
                    /\ \A k \in 1 .. Len(u.edges) - 1 : EdgeEnded(document, u, at', 0, k)
    BY <1>9, <1>11, <1>12, <1>13
  <2> HIDE DEF n
  <2>2. LastOK'
    BY <1>1, <1>4, <1>8, <1>10, <1>14, <2>1 DEF LastOK, Open
  <2> QED  BY <1>4, <2>2 DEF DrawnInv
<1>15. CASE phase' = "transitions"
  <2>1. ASSUME ~errors', NEW k \in DOMAIN u.edges PROVE EdgeEnded(document, u, at', at', k)
    <3>1. CASE k \in 1 .. n - 1
      BY <1>12, <2>1, <3>1
    <3>2. CASE k = n
      <4>1. at' \in 1 .. at'
        BY <1>2
      <4> QED  BY <1>11, <2>1, <3>2, <4>1 DEF EdgeEnded, Ended
    <3>3. k \in 1 .. n
      BY <1>7, <1>9, <2>1
    <3> QED  BY <1>7, <3>1, <3>2, <3>3
  <2> HIDE DEF n
  <2>2. LastOK'
    BY <1>1, <1>4, <1>8, <1>10, <1>15, <2>1 DEF LastOK, Open
  <2> QED  BY <1>4, <2>2 DEF DrawnInv
<1> QED  BY <1>14, <1>15

\* What is passed is no label of the last edge.
LEMMA EdgeOfLabels ==
  ASSUME ReadingInv, DrawnInv, phase = "labels", ~errors
  PROVE  LET t == templates[Current]
             n == Len(t.edges)
         IN  /\ currentEdge = <<Current, n>> /\ ~dummy /\ n \in DOMAIN t.edges
             /\ EdgeFits(document, t, t.edges[n], at)
<1> DEFINE t == templates[Current]
           n == Len(t.edges)
<1>1. phase \in Reading
  BY DEF Reading
<1>2. templates # <<>> /\ TemplateOK(t)
  BY <1>1, LastTemplate
<1>3. /\ currentEdge = <<Current, n>> /\ ~dummy /\ t.edges # <<>>
      /\ EdgeFits(document, t, t.edges[n], at)
  BY <1>2 DEF DrawnInv, LastOK
<1>4. List(t.edges)
  BY <1>2 DEF TemplateOK
<1> HIDE DEF t
<1>5. n \in Nat /\ n # 0 /\ DOMAIN t.edges = 1 .. n
  BY <1>3, <1>4, ListDomain, EmptySeq DEF List
<1> QED  BY <1>3, <1>5 DEF t

\* Ignored labels and nails change nothing.
LEMMA PassingDrawn == ReadingInv /\ DrawnInv /\ (IgnoreLabel \/ EndTransition) => DrawnInv'
<1> SUFFICES ASSUME ReadingInv, DrawnInv, IgnoreLabel \/ EndTransition PROVE DrawnInv'
  OBVIOUS
<1>1. /\ phase = "labels" /\ phase' \in {"labels", "transitions"}
      /\ UNCHANGED <<document, names, templates, currentEdge, dummy, errors>>
  BY DEF IgnoreLabel, EndTransition
<1>2. at \in Nat /\ IsDocument(document) /\ at \in DOMAIN document
  BY DEF ReadingInv, PositionOK, IsDocument
<1>3. /\ at' \in Nat /\ at <= at' /\ \A q \in at .. at' - 1 : Tag(q) \in {"label", "nail"}
      /\ \A q \in at .. at' - 1 : Tag(q) = "label" => document[q].kind \notin LabelKinds \cup {"select"}
  <2>1. CASE IgnoreLabel
    <3>1. at' = at + 1 /\ Tag(at) = "label" /\ document[at].kind \notin LabelKinds \cup {"select"}
      BY <2>1 DEF IgnoreLabel, AtLabel, LabelKinds
    <3>2. at .. at' - 1 = {at}
      BY <1>2, <3>1
    <3> QED  BY <1>2, <3>1, <3>2
  <2>2. CASE EndTransition
    <3>1. at' = After({"nail"}, at)
      BY <2>2 DEF EndTransition
    <3>2. at' \in DOMAIN document /\ at <= at' /\ \A q \in at .. at' - 1 : Tag(q) \in {"nail"}
      BY <1>2, <3>1, AfterElements
    <3>3. at' \in Nat
      BY <1>2, <3>2 DEF IsDocument
    <3> QED  BY <3>2, <3>3
  <2> QED  BY <2>1, <2>2
<1> DEFINE t == templates[Current]
           n == Len(t.edges)
<1>4. templates # <<>> /\ templates'[Current] = t
  BY <1>1, LastTemplate DEF Reading
<1>5. OnlyLast
  BY <1>1, <1>4, NotReplaced
<1>6. ASSUME ~errors' PROVE EdgeFits(document, t, t.edges[n], at')
  <2>1. EdgeFits(document, t, t.edges[n], at)
    BY <1>1, <1>6, EdgeOfLabels
  <2> HIDE DEF t, n
  <2> QED  BY <1>2, <1>3, <2>1, EdgePasses DEF Tag
<1>7. SameNodes(t, t)
  BY DEF SameNodes
<1> QED  BY <1>1, <1>3, <1>4, <1>5, <1>6, <1>7, LabelsDrawn

\* Edge k of template i becomes e.
EdgeBecomes(i, k, e) ==
  templates' = [templates EXCEPT ![i] = [templates[i] EXCEPT !.edges = [templates[i].edges EXCEPT ![k] = e]]]

\* A label that goes to the current edge goes to the last one, unless an error
\* was reported, and the edge it makes of it is that of the label.
LEMMA LabelToEdge ==
  ASSUME ReadingInv, DrawnInv, phase = "labels", phase' = "labels",
         UNCHANGED <<document, names, currentEdge, dummy>>, errors => errors',
         at' = at + 1, Tag(at) = "label",
         NEW i, NEW k, NEW e, i = currentEdge[1], k = currentEdge[2],
         EdgeBecomes(i, k, e),
         ~errors' => e.at = templates[i].edges[k].at /\ EdgeFits(document, templates[i], e, at + 1)
  PROVE  DrawnInv'
<1> DEFINE t == templates[i]
           u == [t EXCEPT !.edges = [t.edges EXCEPT ![k] = e]]
<1>1. /\ templates # <<>> /\ at \in Nat /\ DOMAIN templates = 1 .. Current /\ Len(templates) = Current
      /\ Current \in DOMAIN templates /\ List(templates)
  BY LastTemplate, Positions DEF Reading, Current
<1>2. /\ List(templates') /\ Len(templates') = Current /\ DOMAIN templates' = 1 .. Current
      /\ \A j \in DOMAIN templates : templates'[j] = IF j = i THEN u ELSE templates[j]
  <2>1. templates' = [templates EXCEPT ![i] = u]
    BY DEF EdgeBecomes
  <2>2. List(templates) /\ Len(templates) = Current /\ DOMAIN templates = 1 .. Current
    BY <1>1
  <2> HIDE DEF u
  <2> USE DEF Current
  <2> QED  BY ONLY <2>1, <2>2, ListReplace
<1>3. i \in DOMAIN templates =>
        /\ u.at = t.at /\ u.symbols = t.symbols /\ u.states = t.states /\ u.init = t.init
        /\ u.edges = [t.edges EXCEPT ![k] = e]
  BY DEF ReadingInv, TemplatesOK, TemplateOK
<1> HIDE DEF u
<1>4. \A j \in DOMAIN templates : SameNodes(templates[j], templates'[j])
  BY <1>2, <1>3 DEF SameNodes
<1>5. ~errors' => ~errors /\ i = Current /\ k = Len(t.edges) /\ k \in DOMAIN t.edges
  BY EdgeOfLabels
<1>6. OnlyLast
  <2>1. \A j \in 1 .. Current - 1 : j \in DOMAIN templates /\ j # Current
    BY <1>1
  <2>2. ASSUME NEW j \in 1 .. Current - 1
        PROVE  templates'[j] = templates[j] \/ (errors' /\ SameNodes(templates[j], templates'[j]))
    <3>1. CASE errors'
      BY <1>4, <2>1, <3>1
    <3>2. CASE ~errors'
      BY <1>2, <1>5, <2>1, <3>2
    <3> QED  BY <3>1, <3>2
  <2>3. templates'[Current].at = templates[Current].at
    BY <1>1, <1>4 DEF SameNodes
  <2> QED  BY <1>1, <1>2, <2>2, <2>3 DEF OnlyLast
<1>7. \A q \in at .. at' - 1 : Tag(q) \in {"label", "nail"}
  <2>1. at .. at' - 1 = {at}
    BY <1>1
  <2> QED  BY <2>1
<1>8. ASSUME ~errors'
      PROVE  LET v == templates'[Current]
                 c == templates[Current]
                 n == Len(c.edges)
             IN  /\ v.init = c.init /\ DOMAIN v.edges = DOMAIN c.edges /\ Len(v.edges) = n
                 /\ \A j \in 1 .. n - 1 : v.edges[j] = c.edges[j]
                 /\ v.edges[n].at = c.edges[n].at
                 /\ EdgeFits(document, c, v.edges[n], at')
  <2>1. i = Current /\ i \in DOMAIN templates /\ k = Len(t.edges) /\ k \in DOMAIN t.edges /\ templates'[i] = u
    BY <1>1, <1>2, <1>5, <1>8
  <2> DEFINE edges == t.edges
  <2>2. List(edges)
    BY <2>1 DEF ReadingInv, TemplatesOK, TemplateOK
  <2>3. u.edges = [edges EXCEPT ![k] = e] /\ u.init = t.init /\ k = Len(edges) /\ k \in DOMAIN edges
    BY <1>3, <2>1
  <2>4. e.at = edges[k].at /\ EdgeFits(document, t, e, at')
    BY <1>8
  <2> HIDE DEF edges, t
  <2>5. /\ DOMAIN u.edges = DOMAIN edges /\ Len(u.edges) = Len(edges)
        /\ \A j \in DOMAIN edges : u.edges[j] = IF j = k THEN e ELSE edges[j]
    BY <2>2, <2>3, ListReplace
  <2>6. \A j \in 1 .. Len(edges) - 1 : j \in DOMAIN edges /\ j # k
    BY <2>2, <2>3, ListDomain
  <2> QED  BY <2>1, <2>3, <2>4, <2>5, <2>6 DEF edges, t
<1>9. SameNodes(templates[Current], templates'[Current])
  BY <1>1, <1>4
<1>10. at' \in Nat /\ at <= at'
  BY <1>1
<1> QED  BY <1>6, <1>7, <1>8, <1>9, <1>10, LabelsDrawn

\* The last of positions below another is below it, or 0.
LEMMA LastPartBelow ==
  ASSUME NEW z \in Nat, z # 0, NEW P, \A p \in P : p \in Nat /\ p # 0 /\ p < z
  PROVE  LastPart(P) \in Nat /\ LastPart(P) < z
<1>1. CASE P = {}
  BY <1>1 DEF LastPart
<1>2. CASE P # {}
  <2>1. P \subseteq 1 .. z - 1 /\ z - 1 \in Nat
    OBVIOUS
  <2>2. PICK m \in P : \A q \in P : q <= m
    BY <1>2, <2>1, LastPosition
  <2>3. LastPart(P) = m
    BY <2>2, LastPartIs
  <2> QED  BY <2>2, <2>3
<1> QED  BY <1>1, <1>2

\* What is found is the last symbol of a name.
LEMMA FindLast ==
  ASSUME NEW symbols, List(symbols), NEW name
  PROVE  LET I == {i \in DOMAIN symbols : symbols[i].name = name}
         IN  IF I = {} THEN Find(symbols, name) = 0
             ELSE Find(symbols, name) \in I /\ \A i \in I : i <= Find(symbols, name)
<1> DEFINE I == {i \in DOMAIN symbols : symbols[i].name = name}
<1>1. Len(symbols) \in Nat /\ I \subseteq 1 .. Len(symbols)
  BY ListDomain
<1>2. CASE I = {}
  BY <1>2 DEF Find
<1>3. CASE I # {}
  <2>1. Find(symbols, name) = LastOf(I)
    BY <1>3 DEF Find
  <2> HIDE DEF I
  <2>2. \E i \in I : \A j \in I : j <= i
    BY <1>1, <1>3, LastPosition
  <2>3. LastOf(I) \in I /\ \A j \in I : j <= LastOf(I)
    BY <2>2 DEF LastOf
  <2> QED  BY <1>3, <2>1, <2>3 DEF I
<1> QED  BY <1>2, <1>3

\* An iterator that is read is added to those of its edge.
LEMMA SelectAdded ==
  ASSUME NEW d, NEW t, NEW e, NEW z \in Nat, EdgeFits(d, t, e, z),
         d[z].tag = "label", d[z].kind = "select",
         NEW s, s.at = z, s.name = d[z].name, s.last = d[z].id,
         NEW f, f.at = e.at, f.src = e.src, f.dst = e.dst, f.labels = e.labels, f.select = Append(e.select, s)
  PROVE  EdgeFits(d, t, f, z + 1)
<1>1. e.at \in Nat /\ e.at + 2 < z /\ e.at < z
  BY DEF EdgeFits
<1> DEFINE m == Len(e.select)
           g == f.select
<1>2. /\ List(e.select) /\ m \in Nat /\ DOMAIN e.select = 1 .. m
      /\ List(g) /\ DOMAIN g = 1 .. m + 1 /\ (\A j \in 1 .. m : g[j] = e.select[j]) /\ g[m + 1] = s
  BY ListAppend, ListDomain DEF EdgeFits
<1> HIDE DEF m
<1>3. \A q \in e.at + 3 .. (z + 1) - 1 : d[q].tag \in {"label", "nail"}
  <2>1. \A q \in e.at + 3 .. (z + 1) - 1 : q \in e.at + 3 .. z - 1 \/ q = z
    BY <1>1
  <2> QED  BY <2>1 DEF EdgeFits
<1>4. /\ Kind(d, e.at + 1 .. (z + 1) - 1, "select") = Kind(d, e.at + 1 .. z - 1, "select") \cup {z}
      /\ \A p \in Kind(d, e.at + 1 .. z - 1, "select") : p < z /\ p \in Nat
  <2> DEFINE a == e.at
  <2>1. a \in Nat /\ a < z
    BY <1>1
  <2> HIDE DEF a
  <2>2. a + 1 .. (z + 1) - 1 = (a + 1 .. z - 1) \cup {z} /\ \A p \in a + 1 .. z - 1 : p < z /\ p \in Nat
    BY <2>1, SpanGrows
  <2> QED  BY <2>2 DEF a, Kind, Tagged
<1>5. SelectFits(d, f, z + 1)
  <2> DEFINE P == Kind(d, e.at + 1 .. z - 1, "select")
             old == [j \in DOMAIN e.select |-> e.select[j].at]
             new == [j \in DOMAIN g |-> g[j].at]
  <2>1. Lists(old, P)
    BY DEF EdgeFits, SelectFits
  <2>2. DOMAIN old = 1 .. m /\ DOMAIN new = 1 .. m + 1 /\ (\A j \in 1 .. m : new[j] = old[j]) /\ new[m + 1] = z
    <3>1. \A j \in 1 .. m : j \in 1 .. m + 1
      BY <1>2
    <3>2. m + 1 \in 1 .. m + 1
      BY <1>2
    <3> QED  BY <1>2, <3>1, <3>2
  <2>3. \A p \in P : p < z
    BY <1>4
  <2>4. Lists(new, P \cup {z})
    <3> HIDE DEF P, old, new
    <3> QED  BY <1>2, <2>1, <2>2, <2>3, ListsMore
  <2>5. \A j \in DOMAIN g : g[j].name = d[g[j].at].name /\ g[j].last = d[g[j].at].id
    <3>1. \A j \in 1 .. m + 1 : j \in 1 .. m \/ j = m + 1
      BY <1>2
    <3> QED  BY <1>2, <3>1 DEF EdgeFits, SelectFits
  <2> QED  BY <1>4, <2>4, <2>5 DEF SelectFits
<1>6. ASSUME NEW kind \in LabelKinds PROVE LabelFits(d, f, kind, z + 1)
  <2>1. LabelFits(d, e, kind, z)
    BY DEF EdgeFits
  <2> DEFINE l == e.labels[kind]
             Q == Kind(d, e.at + 1 .. z - 1, kind)
  <2>2. Kind(d, e.at + 1 .. (z + 1) - 1, kind) = Q
    <3>1. e.at + 1 .. (z + 1) - 1 = (e.at + 1 .. z - 1) \cup {z}
      <4> DEFINE a == e.at
      <4>1. a \in Nat /\ a < z
        BY <1>1
      <4> HIDE DEF a
      <4>2. a + 1 .. (z + 1) - 1 = (a + 1 .. z - 1) \cup {z}
        BY <4>1, SpanGrows
      <4> QED  BY <4>2 DEF a
    <3>2. kind # "select"
      BY DEF LabelKinds
    <3> QED  BY <3>1, <3>2 DEF Kind, Tagged
  <2>3. l.at = LastPart(Q)
    BY <2>1 DEF LabelFits
  <2>4. l.at \in Nat /\ l.at < z
    <3>1. \A p \in Q : p \in Nat /\ p # 0 /\ p < z
      BY <1>1 DEF Kind, Tagged
    <3>2. z # 0
      BY <1>1
    <3> HIDE DEF Q
    <3> QED  BY <2>3, <3>1, <3>2, LastPartBelow
  <2>5. {j \in DOMAIN g : g[j].at < l.at /\ g[j].name = d[l.at].name}
          = {j \in DOMAIN e.select : e.select[j].at < l.at /\ e.select[j].name = d[l.at].name}
    <3>1. \A j \in 1 .. m + 1 : j \in 1 .. m \/ j = m + 1
      BY <1>2
    <3>2. \A j \in 1 .. m : j \in 1 .. m + 1
      BY <1>2
    <3>3. ~ (g[m + 1].at < l.at)
      BY <1>2, <2>4
    <3> HIDE DEF l, g
    <3> QED  BY <1>2, <3>1, <3>2, <3>3
  <2>6. f.labels[kind] = l
    OBVIOUS
  <2> HIDE DEF l, Q, g
  <2> QED  BY <2>1, <2>2, <2>3, <2>5, <2>6 DEF LabelFits, l, g
<1>7. e.at + 2 < z + 1
  BY <1>1
<1> QED  BY <1>1, <1>2, <1>3, <1>5, <1>6, <1>7 DEF EdgeFits, Refers

\* A label that is read is the last one of its kind, and uses the last iterator
\* of its name.
LEMMA LabelAdded ==
  ASSUME NEW d, NEW t, NEW e, NEW z \in Nat, EdgeFits(d, t, e, z),
         NEW kind \in LabelKinds, d[z].tag = "label", d[z].kind = kind,
         NEW f, f.at = e.at, f.src = e.src, f.dst = e.dst, f.select = e.select,
         DOMAIN f.labels = LabelKinds, \A other \in LabelKinds : other # kind => f.labels[other] = e.labels[other],
         f.labels[kind].at = z, f.labels[kind].iterator = Find(e.select, d[z].name)
  PROVE  EdgeFits(d, t, f, z + 1)
<1>1. e.at \in Nat /\ e.at + 2 < z /\ e.at < z /\ e.at + 2 < z + 1
  BY DEF EdgeFits
<1>2. \A q \in e.at + 3 .. (z + 1) - 1 : d[q].tag \in {"label", "nail"}
  <2>1. \A q \in e.at + 3 .. (z + 1) - 1 : q \in e.at + 3 .. z - 1 \/ q = z
    BY <1>1
  <2> QED  BY <2>1 DEF EdgeFits
<1>3. /\ Kind(d, e.at + 1 .. (z + 1) - 1, kind) = Kind(d, e.at + 1 .. z - 1, kind) \cup {z}
      /\ \A p \in Kind(d, e.at + 1 .. z - 1, kind) : p < z /\ p \in Nat
  <2> DEFINE a == e.at
  <2>1. a \in Nat /\ a < z
    BY <1>1
  <2> HIDE DEF a
  <2>2. a + 1 .. (z + 1) - 1 = (a + 1 .. z - 1) \cup {z} /\ \A p \in a + 1 .. z - 1 : p < z /\ p \in Nat
    BY <2>1, SpanGrows
  <2> QED  BY <2>2 DEF a, Kind, Tagged
<1>4. ASSUME NEW other, other # kind
      PROVE  Kind(d, e.at + 1 .. (z + 1) - 1, other) = Kind(d, e.at + 1 .. z - 1, other)
  <2>1. e.at + 1 .. (z + 1) - 1 = (e.at + 1 .. z - 1) \cup {z}
    <3> DEFINE a == e.at
    <3>1. a \in Nat /\ a < z
      BY <1>1
    <3> HIDE DEF a
    <3>2. a + 1 .. (z + 1) - 1 = (a + 1 .. z - 1) \cup {z}
      BY <3>1, SpanGrows
    <3> QED  BY <3>2 DEF a
  <2> QED  BY <1>4, <2>1 DEF Kind, Tagged
<1>5. SelectFits(d, f, z + 1)
  <2>1. kind # "select"
    BY DEF LabelKinds
  <2> QED  BY <1>4, <2>1 DEF EdgeFits, SelectFits
<1>6. LabelFits(d, f, kind, z + 1)
  <2> DEFINE Q == Kind(d, e.at + 1 .. z - 1, kind)
             I == {j \in DOMAIN e.select : e.select[j].name = d[z].name}
             J == {j \in DOMAIN e.select : e.select[j].at < z /\ e.select[j].name = d[z].name}
  <2>1. LastPart(Q \cup {z}) = z
    <3>1. \A p \in Q \cup {z} : p \in Nat /\ p <= z
      BY <1>3
    <3> HIDE DEF Q
    <3> QED  BY <3>1, LastPartIs
  <2>2. \A j \in DOMAIN e.select : e.select[j].at < z
    <3> DEFINE s == [j \in DOMAIN e.select |-> e.select[j].at]
               P == Kind(d, e.at + 1 .. z - 1, "select")
    <3>1. {s[j] : j \in DOMAIN s} = P
      BY DEF EdgeFits, SelectFits, Lists
    <3>2. \A p \in P : p < z
      BY <1>1 DEF Kind, Tagged
    <3>3. \A j \in DOMAIN e.select : s[j] \in P
      <4> HIDE DEF P
      <4> QED  BY <3>1
    <3> HIDE DEF P
    <3> QED  BY <3>2, <3>3
  <2>3. I = J
    BY <2>2
  <2>4. IF I = {} THEN Find(e.select, d[z].name) = 0
        ELSE Find(e.select, d[z].name) \in I /\ \A i \in I : i <= Find(e.select, d[z].name)
    BY FindLast DEF EdgeFits
  <2>5. f.labels[kind].at = LastPart(Kind(d, f.at + 1 .. (z + 1) - 1, kind))
    BY <1>3, <2>1
  <2> HIDE DEF I
  <2>6. IF J = {} THEN f.labels[kind].iterator = 0
        ELSE f.labels[kind].iterator \in J /\ \A j \in J : j <= f.labels[kind].iterator
    BY <2>3, <2>4
  <2> QED  BY <2>5, <2>6 DEF LabelFits
<1>7. ASSUME NEW other \in LabelKinds PROVE LabelFits(d, f, other, z + 1)
  <2>1. CASE other = kind
    BY <1>6, <2>1
  <2>2. CASE other # kind
    <3>1. LabelFits(d, e, other, z)
      BY DEF EdgeFits
    <3> QED  BY <1>4, <2>2, <3>1 DEF LabelFits
  <2> QED  BY <2>1, <2>2
<1> QED  BY <1>1, <1>2, <1>5, <1>7 DEF EdgeFits, Refers

\* After an iterator or a label is read, it is drawn.
LEMMA LabelDrawn == ReadingInv /\ DrawnInv /\ (ReadSelect \/ ReadLabel) => DrawnInv'
<1> SUFFICES ASSUME ReadingInv, DrawnInv, ReadSelect \/ ReadLabel PROVE DrawnInv'
  OBVIOUS
<1>1. /\ phase = "labels" /\ Tag(at) = "label" /\ UNCHANGED <<document, names, currentEdge, dummy>>
      /\ errors => errors'
  BY Zenon DEF ReadSelect, ReadLabel, AtLabel
<1>2. CASE currentEdge = <<>>
  <2>1. phase' = "crashed" /\ UNCHANGED <<at, templates, errors>>
    BY <1>2 DEF ReadSelect, ReadLabel
  <2>2. errors'
    BY <1>1, <1>2, <2>1 DEF ReadingInv, CurrentOK
  <2> QED  BY <1>1, <2>1, <2>2, StayDrawn DEF Reading, Open
<1>3. CASE currentEdge # <<>>
  <2> DEFINE i == currentEdge[1]
             k == currentEdge[2]
             t == templates[i]
             old == t.edges[k]
  <2>1. phase' = "labels" /\ at' = at + 1
    BY <1>1, <1>3, Zenon DEF ReadSelect, ReadLabel
  <2>2. at \in Nat
    BY Positions
  <2>3. ~errors' => /\ ~dummy /\ DOMAIN old = {"at", "src", "dst", "action", "select", "labels"}
                    /\ EdgeFits(document, t, old, at)
    <3>1. SUFFICES ASSUME ~errors' PROVE /\ ~dummy /\ EdgeFits(document, t, old, at)
                                         /\ DOMAIN old = {"at", "src", "dst", "action", "select", "labels"}
      OBVIOUS
    <3>2. ~errors
      BY <1>1, <3>1
    <3>3. ~dummy /\ i = Current /\ k \in DOMAIN t.edges /\ EdgeFits(document, t, old, at)
      BY <1>1, <3>2, EdgeOfLabels
    <3>4. TemplateOK(templates[Current])
      BY <1>1, LastTemplate DEF Reading
    <3>5. DOMAIN old = {"at", "src", "dst", "action", "select", "labels"}
      BY <3>3, <3>4 DEF TemplateOK
    <3> QED  BY <3>3, <3>5
  <2>4. CASE ReadSelect
    <3> DEFINE s == [at |-> at, name |-> document[at].name, last |-> document[at].id]
               f == [old EXCEPT !.select = Append(@, s)]
    <3>1. templates' = [templates EXCEPT ![i].edges[k].select = Append(@, s)]
      BY <1>3, <2>4 DEF ReadSelect
    <3>2. EdgeBecomes(i, k, f)
      BY <3>1 DEF EdgeBecomes
    <3>3. ~errors' => f.at = old.at /\ EdgeFits(document, t, f, at + 1)
      <4>1. document[at].tag = "label" /\ document[at].kind = "select"
        BY <1>1, <2>4 DEF ReadSelect, Tag
      <4>2. s.at = at /\ s.name = document[at].name /\ s.last = document[at].id
        OBVIOUS
      <4>3. ~errors' => /\ f.at = old.at /\ f.src = old.src /\ f.dst = old.dst /\ f.labels = old.labels
                        /\ f.select = Append(old.select, s)
        BY <2>3
      <4> HIDE DEF f, s, old, t
      <4> QED  BY <2>2, <2>3, <4>1, <4>2, <4>3, SelectAdded
    <3> HIDE DEF f, i, k
    <3> QED  BY <1>1, <2>1, <3>2, <3>3, LabelToEdge DEF i, k
  <2>5. CASE ReadLabel
    <3> DEFINE kind == document[at].kind
               label == [at |-> at, iterator |-> IF dummy THEN 0 ELSE Find(Edge.select, document[at].name)]
               f == [old EXCEPT !.labels = [old.labels EXCEPT ![kind] = label]]
    <3>1. templates' = [templates EXCEPT ![i].edges[k].labels[kind] = label]
      BY <1>3, <2>5, Zenon DEF ReadLabel
    <3>2. EdgeBecomes(i, k, f)
      BY <3>1 DEF EdgeBecomes
    <3>3. ~errors' => f.at = old.at /\ EdgeFits(document, t, f, at + 1)
      <4>1. document[at].tag = "label" /\ kind \in LabelKinds
        BY <1>1, <2>5, Zenon DEF ReadLabel, Tag, LabelKinds
      <4>2. label.at = at /\ (~errors' => label.iterator = Find(old.select, document[at].name))
        BY <2>3 DEF Edge
      <4>3. ~errors' => /\ f.at = old.at /\ f.src = old.src /\ f.dst = old.dst /\ f.select = old.select
                        /\ f.labels = [old.labels EXCEPT ![kind] = label]
        BY <2>3
      <4>4. ~errors' => DOMAIN old.labels = LabelKinds
        BY <2>3 DEF EdgeFits
      <4> HIDE DEF f, label, old, t
      <4>5. ~errors' => /\ DOMAIN f.labels = LabelKinds
                        /\ \A other \in LabelKinds : other # kind => f.labels[other] = old.labels[other]
                        /\ f.labels[kind] = label
        BY <4>1, <4>3, <4>4
      <4> QED  BY <2>2, <2>3, <4>1, <4>2, <4>3, <4>5, LabelAdded
    <3> HIDE DEF f, i, k
    <3> QED  BY <1>1, <2>1, <3>2, <3>3, LabelToEdge DEF i, k
  <2> QED  BY <2>4, <2>5
<1> QED  BY <1>2, <1>3

-----------------------------------------------------------------------------
\* A node that is read is added to those of its template.
LEMMA NodeAdded ==
  ASSUME NEW d, NEW t, NEW z \in Nat, NEW y \in Nat, t.at \in Nat, t.at < z, z < y,
         List(t.symbols), List(t.states), StatesOK(t), NodesOK(d, t, z),
         d[z].tag \in NodeTags, \A q \in z + 1 .. y - 1 : d[q].tag \notin NodeTags,
         NEW s, s.at = z, s.kind = d[z].tag,
         NEW u, u.at = t.at, u.symbols = Append(t.symbols, s),
         \/ u.states = t.states
         \/ \E r : r.uid = Len(t.symbols) + 1 /\ u.states = Append(t.states, r)
  PROVE  NodesOK(d, u, y)
<1> DEFINE n == Len(t.symbols)
           m == Len(t.states)
           a == t.at
<1>1. /\ n \in Nat /\ DOMAIN t.symbols = 1 .. n /\ DOMAIN u.symbols = 1 .. n + 1
      /\ \A i \in 1 .. n : u.symbols[i] = t.symbols[i]
      /\ u.symbols[n + 1] = s
  BY ListAppend, ListDomain
<1>2. m \in Nat /\ DOMAIN t.states = 1 .. m
  BY ListDomain
<1>3. a \in Nat /\ a < z /\ u.at = a
  OBVIOUS
<1> HIDE DEF a, n, m
<1>4. /\ a + 1 .. y - 1 = (a + 1 .. z - 1) \cup {z} \cup (z + 1 .. y - 1)
      /\ \A p \in a + 1 .. z - 1 : p < z
  BY <1>3
<1>5. \A i \in 1 .. n + 1 : i \in 1 .. n \/ i = n + 1
  BY <1>1
<1>6. \A i \in 1 .. n : i \in 1 .. n + 1 /\ i # n + 1 /\ ~ (n + 1 < i)
  BY <1>1
<1>7. \A j \in DOMAIN u.symbols : SymbolPlaced(d, u, y, j)
  <2>1. \A j \in 1 .. n : SymbolPlaced(d, t, z, j)
    BY <1>1 DEF NodesOK
  <2>2. \A j \in 1 .. n : SymbolPlaced(d, u, y, j)
    BY <1>1, <1>3, <1>4, <1>6, <2>1 DEF SymbolPlaced, a
  <2>3. SymbolPlaced(d, u, y, n + 1)
    BY <1>1, <1>3, <1>4 DEF SymbolPlaced
  <2> QED  BY <1>1, <1>5, <2>2, <2>3
<1>8. ASSUME NEW j \in 1 .. n + 1, NEW k \in 1 .. n + 1, j < k
      PROVE  IF u.symbols[k].kind = "variable" THEN u.symbols[j].kind = "variable"
             ELSE u.symbols[j].at < u.symbols[k].at
  <2>1. j \in 1 .. n
    BY <1>1, <1>8
  <2>2. CASE k \in 1 .. n
    <3>1. u.symbols[j] = t.symbols[j] /\ u.symbols[k] = t.symbols[k] /\ j \in DOMAIN t.symbols /\ k \in DOMAIN t.symbols
      BY <1>1, <2>1, <2>2
    <3>2. IF t.symbols[k].kind = "variable" THEN t.symbols[j].kind = "variable"
          ELSE t.symbols[j].at < t.symbols[k].at
      BY <1>8, <3>1 DEF NodesOK
    <3> QED  BY <3>1, <3>2
  <2>3. CASE k = n + 1
    <3>1. SymbolPlaced(d, t, z, j)
      BY <1>1, <2>1 DEF NodesOK
    <3>2. t.symbols[j].at < z
      BY ONLY <1>3, <1>4, <3>1 DEF SymbolPlaced, a
    <3> QED  BY <1>1, <2>1, <2>3, <3>2 DEF NodeTags
  <2> QED  BY <1>5, <2>2, <2>3
<1>9. ASSUME NEW p \in a + 1 .. y - 1, d[p].tag \in NodeTags
      PROVE  \E j \in DOMAIN u.symbols : u.symbols[j].at = p
  <2>1. CASE p = z
    <3>1. n + 1 \in 1 .. n + 1
      BY <1>1
    <3> QED  BY <1>1, <2>1, <3>1
  <2>2. CASE p \in a + 1 .. z - 1
    <3>1. PICK j \in 1 .. n : t.symbols[j].at = p
      BY <1>1, <1>9, <2>2 DEF NodesOK, a
    <3> QED  BY <1>1, <1>6, <3>1
  <2> QED  BY <1>4, <1>9, <2>1, <2>2
<1>10. \A j, k \in DOMAIN u.states : j < k => u.states[j].uid < u.states[k].uid
  <2>1. CASE u.states = t.states
    BY <2>1 DEF NodesOK
  <2>2. CASE u.states # t.states
    <3>1. PICK r : r.uid = n + 1 /\ u.states = Append(t.states, r)
      BY <2>2 DEF n
    <3>2. DOMAIN u.states = 1 .. m + 1 /\ (\A j \in 1 .. m : u.states[j] = t.states[j]) /\ u.states[m + 1] = r
      BY <3>1, ListAppend DEF m
    <3>3. SUFFICES ASSUME NEW j \in 1 .. m + 1, NEW k \in 1 .. m + 1, j < k PROVE u.states[j].uid < u.states[k].uid
      BY <3>2
    <3>4. j \in 1 .. m
      BY <1>2, <3>3
    <3>5. CASE k \in 1 .. m
      BY <1>2, <3>2, <3>3, <3>4, <3>5 DEF NodesOK
    <3>6. CASE k = m + 1
      <4>1. t.states[j].uid \in 1 .. n
        BY <1>1, <1>2, <3>4 DEF StatesOK, IsLocation
      <4> QED  BY <1>1, <3>1, <3>2, <3>4, <3>6, <4>1
    <3> QED  BY <1>2, <3>5, <3>6
  <2> QED  BY <2>1, <2>2
<1> QED  BY <1>1, <1>3, <1>7, <1>8, <1>9, <1>10 DEF NodesOK

\* A location that is read is added to those of its template.
LEMMA LocationAdded ==
  ASSUME NEW d, NEW t, NEW z \in Nat, NEW y \in Nat, z < y, d[z].tag \in Parts,
         List(t.symbols), List(t.states), StatesOK(t), LocationsFit(d, t, z, z),
         NEW s, NEW u, u.symbols = Append(t.symbols, s),
         \/ u.states = t.states
         \/ \E r : /\ r.uid = Len(t.symbols) + 1 /\ u.states = Append(t.states, r)
                   /\ LocationFits(d, s, r, y)
  PROVE  LocationsFit(d, u, y, y)
<1> DEFINE n == Len(t.symbols)
           m == Len(t.states)
<1>1. /\ n \in Nat /\ DOMAIN t.symbols = 1 .. n /\ DOMAIN u.symbols = 1 .. n + 1
      /\ \A i \in 1 .. n : u.symbols[i] = t.symbols[i]
      /\ u.symbols[n + 1] = s
  BY ListAppend, ListDomain
<1>2. m \in Nat /\ DOMAIN t.states = 1 .. m
  BY ListDomain
<1>3. ASSUME NEW k \in 1 .. m, u.states[k] = t.states[k]
      PROVE  \E stop \in 1 .. y : Ended(d, stop, y) /\ LocationFits(d, u.symbols[u.states[k].uid], u.states[k], stop)
  <2>1. PICK stop \in 1 .. z : Ended(d, stop, z) /\ LocationFits(d, t.symbols[t.states[k].uid], t.states[k], stop)
    BY <1>2 DEF LocationsFit
  <2>2. t.states[k].uid \in 1 .. n
    BY <1>1, <1>2 DEF StatesOK, IsLocation
  <2>3. stop \in 1 .. y
    OBVIOUS
  <2>4. Ended(d, stop, y)
    BY <2>1 DEF Ended
  <2> QED  BY <1>1, <1>3, <2>1, <2>2, <2>3, <2>4
<1>4. CASE u.states = t.states
  BY <1>2, <1>3, <1>4 DEF LocationsFit
<1>5. CASE u.states # t.states
  <2>1. PICK r : /\ r.uid = n + 1 /\ u.states = Append(t.states, r)
                 /\ LocationFits(d, s, r, y)
    BY <1>5
  <2>2. DOMAIN u.states = 1 .. m + 1 /\ (\A j \in 1 .. m : u.states[j] = t.states[j]) /\ u.states[m + 1] = r
    BY <2>1, ListAppend
  <2>3. y \in 1 .. y /\ Ended(d, y, y) /\ LocationFits(d, u.symbols[u.states[m + 1].uid], u.states[m + 1], y)
    BY <1>1, <2>1, <2>2 DEF Ended
  <2>4. \A k \in 1 .. m + 1 : k \in 1 .. m \/ k = m + 1
    BY <1>2
  <2> HIDE DEF m, n
  <2> QED  BY <1>3, <2>2, <2>3, <2>4 DEF LocationsFit
<1> QED  BY <1>4, <1>5

\* The first of positions, and the others.
LEMMA FirstOrLater ==
  ASSUME NEW z \in Nat, NEW y \in Nat
  PROVE  \A q \in z .. y - 1 : q = z \/ q \in z + 1 .. y - 1
OBVIOUS

\* After a node is read, the template is drawn up to the next element.
LEMMA NodeDrawn ==
  ASSUME ReadingInv, DrawnInv, phase \in {"locations", "branchpoints"}, phase' = phase,
         document' = document, errors => errors',
         at' \in Nat, at < at', Tag(at) \in NodeTags, \A q \in at + 1 .. at' - 1 : Tag(q) \notin Parts,
         NEW s, s.at = at, s.kind = Tag(at), names' = Bind(document[at].id, s.name),
         NEW u, templates' = [templates EXCEPT ![Current] = u], u.at = templates[Current].at,
         u.init = templates[Current].init, u.edges = templates[Current].edges,
         u.symbols = Append(templates[Current].symbols, s),
         \/ u.states = templates[Current].states
         \/ \E r : /\ r.uid = Len(templates[Current].symbols) + 1 /\ u.states = Append(templates[Current].states, r)
                   /\ ~errors' => LocationFits(document, s, r, at')
  PROVE  DrawnInv'
<1> DEFINE t == templates[Current]
<1>1. phase \in Reading /\ phase \in Open /\ phase # "labels"
  BY DEF Reading, Open
<1>2. /\ templates # <<>> /\ at \in Nat \ {0} /\ t.at \in Nat /\ t.at < at
      /\ TemplateOK(t) /\ StatesOK(t) /\ NodesOK(document, t, at)
  BY <1>1, LastTemplate
<1>3. OnlyLast /\ templates'[Current] = u
  BY <1>1, Replaced
<1>4. \A q \in at .. at' - 1 : Tag(q) \in NodeTags \/ Tag(q) \notin Parts
  <2>1. at \in Nat /\ at' \in Nat
    BY <1>2
  <2>2. \A q \in at .. at' - 1 : q = at \/ q \in at + 1 .. at' - 1
    BY <2>1, FirstOrLater
  <2> QED  BY <2>2
<1>5. Passes
  <2>1. \A q \in at .. at' - 1 : Tag(q) \notin Tops
    BY <1>4 DEF NodeTags, Parts, Tops
  <2>2. at <= at'
    BY <1>2
  <2> QED  BY <2>1, <2>2 DEF Passes
<1>6. PlacesOK' /\ FinishedOK' /\ Current' = Current
  BY <1>3, <1>5, PlacesKept
<1>7. List(t.symbols) /\ List(t.states)
  BY <1>2 DEF TemplateOK
<1>8. u.at = t.at /\ u.init = t.init /\ u.edges = t.edges /\ u.symbols = Append(t.symbols, s)
  OBVIOUS
<1>9. NodesOK(document, u, at')
  <2>1. \A q \in at + 1 .. at' - 1 : document[q].tag \notin NodeTags
    BY DEF NodeTags, Parts, Tag
  <2>2. \/ u.states = t.states
        \/ \E r : r.uid = Len(t.symbols) + 1 /\ u.states = Append(t.states, r)
    OBVIOUS
  <2>3. document[at].tag \in NodeTags /\ s.kind = document[at].tag
    BY DEF Tag
  <2> HIDE DEF t
  <2> QED  BY <1>2, <1>7, <1>8, <2>1, <2>2, <2>3, NodeAdded
<1>10. t.edges = <<>> /\ u.edges = <<>>
  BY <1>1, <1>2 DEF DrawnInv, LastOK
<1>11. ASSUME ~errors'
       PROVE  /\ LocationsFit(document, u, at', at') /\ InitFits(document, u, at') /\ ~HasInit(document, u, at')
              /\ EdgesListed(document, u, at')
  <2>1. ~errors
    BY <1>11
  <2>2. LocationsFit(document, t, at, at) /\ ~HasInit(document, t, at) /\ EdgesListed(document, t, at)
    BY <1>1, <1>2, <2>1 DEF DrawnInv, LastOK
  <2>3. \/ u.states = t.states
        \/ \E r : /\ r.uid = Len(t.symbols) + 1 /\ u.states = Append(t.states, r)
                  /\ LocationFits(document, s, r, at')
    BY <1>11
  <2>4. document[at].tag \in Parts
    BY DEF Tag, NodeTags, Parts
  <2>5. \A q \in at .. at' - 1 : document[q].tag # "init" /\ document[q].tag # "transition"
    BY <1>4 DEF Tag, NodeTags, Parts
  <2> HIDE DEF t
  <2>6. LocationsFit(document, u, at', at')
    BY <1>2, <1>7, <1>8, <2>2, <2>3, <2>4, LocationAdded
  <2>7. ~HasInit(document, u, at')
    <3> DEFINE a == t.at
    <3>1. a \in Nat /\ a < at /\ at \in Nat /\ at <= at'
      BY <1>2
    <3> HIDE DEF a
    <3>2. a + 1 .. at' - 1 = (a + 1 .. at - 1) \cup (at .. at' - 1)
      BY <3>1, SpanGrows
    <3> QED  BY <1>8, <2>2, <2>5, <3>2 DEF a, HasInit, Tagged
  <2>8. InitFits(document, u, at')
    BY <2>7 DEF InitFits, HasInit
  <2>9. EdgesListed(document, u, at')
    <3>1. DOMAIN u.edges = DOMAIN t.edges /\ \A k \in DOMAIN t.edges : u.edges[k].at = t.edges[k].at
      BY <1>8
    <3>2. \A q \in at .. at' - 1 : document[q].tag # "transition"
      BY <2>5
    <3>3. at <= at' /\ t.at \in Nat /\ t.at < at /\ at \in Nat /\ u.at = t.at
      BY <1>2, <1>8
    <3> QED  BY <2>2, <3>1, <3>2, <3>3, EdgesListedGrow
  <2> QED  BY <2>6, <2>7, <2>8, <2>9
<1>12. LastOK'
  <2>1. DOMAIN u.edges = {}
    BY <1>10
  <2>2. u = templates'[Current'] /\ phase' \in Open /\ phase' # "labels" /\ document' = document
    BY <1>1, <1>3, <1>6
  <2> HIDE DEF t
  <2> QED  BY <1>9, <1>10, <1>11, <2>1, <2>2 DEF LastOK
<1>13. NamesOK'
  <2> DEFINE n == Len(t.symbols)
  <2>1. /\ n \in Nat /\ DOMAIN t.symbols = 1 .. n /\ DOMAIN u.symbols = 1 .. n + 1
        /\ \A i \in 1 .. n : u.symbols[i] = t.symbols[i]
        /\ u.symbols[n + 1] = s
    BY <1>7, <1>8, ListAppend, ListDomain
  <2>2. SUFFICES ASSUME Apart(document, t.at + 1 .. at' - 1), NEW j \in 1 .. n + 1,
                        u.symbols[j].kind \in NodeTags
                 PROVE  LET id == document[u.symbols[j].at].id
                        IN  id \in DOMAIN names' /\ names'[id] = u.symbols[j].name
    <3>1. templates'[Current'] = u /\ document' = document
      BY <1>3, <1>6
    <3> HIDE DEF t, n
    <3> QED  BY <1>8, <2>1, <3>1 DEF NamesOK
  <2>3. CASE j = n + 1
    BY <2>1, <2>3 DEF Bind
  <2>4. CASE j \in 1 .. n
    <3> DEFINE p == t.symbols[j].at
    <3>1. u.symbols[j] = t.symbols[j]
      BY <2>1, <2>4
    <3>2. p \in t.at + 1 .. at - 1 /\ document[p].tag \in NodeTags
      BY <2>1, <2>2, <2>4, <3>1, <1>2 DEF NodesOK, SymbolPlaced, NodeTags
    <3>3. /\ t.at + 1 .. at - 1 \subseteq t.at + 1 .. at' - 1 /\ at \in t.at + 1 .. at' - 1
          /\ p # at
      BY <1>2, <3>2
    <3>4. Apart(document, t.at + 1 .. at - 1)
      BY <2>2, <3>3, ApartShrinks
    <3>5. document[p].id \in DOMAIN names /\ names[document[p].id] = t.symbols[j].name
      BY <1>1, <2>1, <2>2, <2>4, <3>1, <3>4 DEF DrawnInv, NamesOK
    <3>6. document[p].id # document[at].id
      BY <2>2, <3>2, <3>3 DEF Apart, Tag
    <3> QED  BY <3>1, <3>5, <3>6 DEF Bind
  <2>5. j \in 1 .. n \/ j = n + 1
    BY <2>1
  <2> QED  BY <2>3, <2>4, <2>5
<1> QED  BY <1>6, <1>12, <1>13 DEF DrawnInv

\* After a branchpoint is read, it is drawn.
LEMMA ReadBranchpointDrawn == ReadingInv /\ DrawnInv /\ ReadBranchpoint => DrawnInv'
<1> SUFFICES ASSUME ReadingInv, DrawnInv, ReadBranchpoint PROVE DrawnInv'
  OBVIOUS
<1> DEFINE t == templates[Current]
           name == NameOf("", document[at].id)
           s == NewSymbol(name, "branchpoint", {}, at)
           u == [t EXCEPT !.symbols = Append(@, s)]
<1>1. /\ phase = "branchpoints" /\ phase' = phase /\ Tag(at) = "branchpoint" /\ document' = document
      /\ errors => errors'
      /\ at' = at + 1 /\ names' = Bind(document[at].id, name)
      /\ templates' = [templates EXCEPT ![Current].symbols = Append(@, s)]
  BY Zenon DEF ReadBranchpoint
<1>2. templates' = [templates EXCEPT ![Current] = u]
  BY <1>1, Zenon
<1>3. at \in Nat /\ TemplateOK(t)
  BY <1>1, LastTemplate, Zenon DEF Reading, Open
<1>4. /\ u.at = t.at /\ u.init = t.init /\ u.edges = t.edges /\ u.states = t.states
      /\ u.symbols = Append(t.symbols, s)
  BY <1>3, Zenon DEF TemplateOK
<1>5. s.at = at /\ s.kind = Tag(at) /\ s.name = name
  BY <1>1, Zenon DEF NewSymbol
<1>6. at' \in Nat /\ at < at' /\ at + 1 .. at' - 1 = {}
  <2>1. at' = at + 1 /\ at \in Nat
    BY <1>1, <1>3, Zenon
  <2> QED  BY ONLY <2>1
<1>7. Tag(at) \in NodeTags
  BY <1>1, Zenon DEF NodeTags
<1> HIDE DEF u, s, name
<1> QED  BY <1>1, <1>2, <1>4, <1>5, <1>6, <1>7, NodeDrawn

\* What belongs to a location, in the order that it is read in.
LEMMA LocationParts ==
  ASSUME IsDocument(document), at \in DOMAIN document, Tag(at) = "location",
         NEW n, n = Past("name", at + 1), NEW l, l = After({"label"}, n),
         NEW u, u = Past("urgent", l), NEW c, c = Past("committed", u)
  PROVE  /\ at \in Nat /\ n \in Nat /\ l \in Nat /\ u \in Nat /\ c \in Nat /\ Len(document) \in Nat
         /\ at + 1 <= n /\ n <= l /\ l <= u /\ u <= c /\ c <= Len(document)
         /\ \A p \in at + 1 .. n - 1 : Tag(p) = "name" /\ p = at + 1
         /\ \A p \in n .. l - 1 : Tag(p) = "label"
         /\ \A p \in l .. u - 1 : Tag(p) = "urgent"
         /\ \A p \in u .. c - 1 : Tag(p) = "committed"
         /\ \A p \in at + 1 .. c - 1 : p \in at + 1 .. n - 1 \/ p \in n .. l - 1 \/ p \in l .. u - 1 \/ p \in u .. c - 1
<1>1. DOMAIN document = 1 .. Len(document) /\ Len(document) \in Nat /\ at \in Nat
  BY DEF IsDocument
<1>2. at + 1 \in DOMAIN document
  BY NextElement
<1>3. n \in DOMAIN document
  BY <1>2, PastElement
<1>4. l \in DOMAIN document /\ n <= l /\ \A r \in n .. l - 1 : Tag(r) \in {"label"}
  BY <1>3, AfterElements
<1>5. u \in DOMAIN document
  BY <1>4, PastElement
<1>6. c \in DOMAIN document
  BY <1>5, PastElement
<1>7. n \in Nat /\ l \in Nat /\ u \in Nat /\ c \in Nat /\ c <= Len(document)
  BY <1>1, <1>3, <1>4, <1>5, <1>6
<1>8. ASSUME NEW q \in Nat, NEW r, NEW tag, r = Past(tag, q)
      PROVE  r \in Nat /\ q <= r /\ \A p \in q .. r - 1 : Tag(p) = tag /\ p = q
  <2>1. CASE Tag(q) = tag
    <3>1. r = q + 1
      BY <1>8, <2>1 DEF Past
    <3>2. \A p \in q .. r - 1 : p = q
      BY <1>8, <3>1
    <3> QED  BY <1>8, <2>1, <3>1, <3>2
  <2>2. CASE Tag(q) # tag
    <3>1. r = q
      BY <1>8, <2>2 DEF Past
    <3>2. q .. r - 1 = {}
      BY <1>8, <3>1
    <3> QED  BY <1>8, <3>1, <3>2
  <2> QED  BY <2>1, <2>2
<1>9. at + 1 <= n /\ \A p \in at + 1 .. n - 1 : Tag(p) = "name" /\ p = at + 1
  BY <1>1, <1>8
<1>10. l <= u /\ \A p \in l .. u - 1 : Tag(p) = "urgent"
  BY <1>7, <1>8
<1>11. u <= c /\ \A p \in u .. c - 1 : Tag(p) = "committed"
  BY <1>7, <1>8
<1>12. \A p \in at + 1 .. c - 1 : p \in at + 1 .. n - 1 \/ p \in n .. l - 1 \/ p \in l .. u - 1 \/ p \in u .. c - 1
  BY ONLY <1>1, <1>4, <1>7, <1>9, <1>10, <1>11
<1> QED  BY <1>1, <1>4, <1>7, <1>9, <1>10, <1>11, <1>12

\* The expressions that are parsed and not yet used make a stack.
LEMMA FragmentsStep == ReadingInv /\ List(fragments) /\ [Next]_vars => List(fragments)'
<1> SUFFICES ASSUME ReadingInv, List(fragments), [Next]_vars PROVE List(fragments)'
  OBVIOUS
<1>1. CASE UNCHANGED fragments
  BY <1>1 DEF List
<1>2. CASE IgnoreLabel
  <2>1. fragments' = fragments \/ fragments' = Append(fragments, at)
    BY <1>2 DEF IgnoreLabel
  <2>2. List(Append(fragments, at)) /\ List(fragments)
    BY ListAppend
  <2>3. List(fragments')
    BY <2>1, <2>2
  <2> QED  BY <2>3 DEF List
<1>3. CASE ReadLocation
  <2> DEFINE n == Past("name", at + 1)
             l == After({"label"}, n)
             u == Past("urgent", l)
             c == Past("committed", u)
             P == {p \in n .. l - 1 : document[p].kind \in {"invariant", "exponentialrate"}}
             pushed == fragments \o Listed(P)
             kinds == {document[p].kind : p \in n .. l - 1}
             below == IF "exponentialrate" \in kinds THEN Pop(pushed) ELSE pushed
  <2>1. fragments' = IF "invariant" \in kinds THEN Pop(below) ELSE below
    BY <1>3, Zenon DEF ReadLocation
  <2>2. IsDocument(document) /\ at \in DOMAIN document /\ Tag(at) = "location"
    BY <1>3, Zenon DEF ReadLocation, ReadingInv, PositionOK
  <2>3. /\ at \in Nat /\ n \in Nat /\ l \in Nat /\ u \in Nat /\ c \in Nat /\ Len(document) \in Nat
        /\ at + 1 <= n /\ n <= l /\ l <= u /\ u <= c /\ c <= Len(document)
    <3> HIDE DEF P, pushed, kinds, below
    <3> QED  BY <2>2, LocationParts
  <2>4. P \subseteq 1 .. Len(document)
    <3> HIDE DEF n, l, u, c
    <3> QED  BY <2>3
  <2> HIDE DEF P, kinds
  <2>5. List(Listed(P))
    BY <2>3, <2>4, ListedIsList
  <2>6. List(pushed)
    BY <2>5, ListConcat
  <2> HIDE DEF pushed
  <2>7. List(below)
    BY <2>6, PopIsList
  <2> HIDE DEF below
  <2>8. List(fragments')
    BY <2>1, <2>7, PopIsList
  <2> QED  BY <2>8 DEF List
<1> QED
  BY <1>1, <1>2, <1>3 DEF Next, vars, ReadTemplate, ReadBranchpoint, EndLoop, ReadInit, BeginTransition,
     ReadSelect, ReadLabel, EndTransition, EndTemplate, ReadSystem, TranslateTemplate

\* After a location is read, it is drawn.
LEMMA ReadLocationDrawn == ReadingInv /\ DrawnInv /\ List(fragments) /\ ReadLocation => DrawnInv'
<1> SUFFICES ASSUME ReadingInv, DrawnInv, List(fragments), ReadLocation PROVE DrawnInv'
  OBVIOUS
<1> DEFINE t == templates[Current]
           id == document[at].id
           n == Past("name", at + 1)
           l == After({"label"}, n)
           urge == Past("urgent", l)
           c == Past("committed", urge)
           given == IF n > at + 1 THEN document[at + 1].name ELSE ""
           name == NameOf(given, id)
           kinds == {document[p].kind : p \in n .. l - 1}
           Q == {p \in n .. l - 1 : document[p].kind \in {"invariant", "exponentialrate"}}
           pushed == fragments \o Listed(Q)
           below == IF "exponentialrate" \in kinds THEN Pop(pushed) ELSE pushed
           duplicate == Duplicate(name)
           committed == IF c > urge THEN {"committed"} ELSE {}
           urgent == IF urge > l /\ UrgentFits(committed) THEN {"urgent"} ELSE {}
           flags == IF duplicate THEN {} ELSE committed \cup urgent
           s == NewSymbol(name, "location", flags, at)
           r == [uid |-> Len(t.symbols) + 1,
                 invariant |-> IF "invariant" \in kinds THEN Top(below) ELSE 0,
                 rate |-> IF "exponentialrate" \in kinds THEN Top(pushed) ELSE 0]
           u == [[t EXCEPT !.symbols = Append(@, s)] EXCEPT !.states = Append(@, r)]
<1>1. /\ phase = "locations" /\ phase' = phase /\ Tag(at) = "location" /\ document' = document
      /\ errors' = (errors \/ duplicate \/ (urge > l /\ ~UrgentFits(committed)))
      /\ names' = Bind(id, name) /\ at' = c
  BY Zenon DEF ReadLocation
<1>2. templates' = [templates EXCEPT ![Current] = u]
  <2>1. templates' = [templates EXCEPT ![Current].symbols = Append(@, s), ![Current].states = Append(@, r)]
    BY Zenon DEF ReadLocation, Symbols
  <2>2. Current \in DOMAIN templates
    BY <1>1, LastTemplate, Zenon DEF Reading, Open
  <2> HIDE DEF s, r
  <2> QED  BY <2>1, <2>2
<1>3. IsDocument(document) /\ at \in DOMAIN document /\ TemplateOK(t)
  BY <1>1, LastTemplate, Zenon DEF ReadingInv, PositionOK, Reading, Open
<1>4. /\ u.at = t.at /\ u.init = t.init /\ u.edges = t.edges
      /\ u.symbols = Append(t.symbols, s) /\ u.states = Append(t.states, r)
  BY <1>3, Zenon DEF TemplateOK
<1>5. /\ s.at = at /\ s.kind = "location" /\ s.name = name /\ s.flags = flags
      /\ r.uid = Len(t.symbols) + 1 /\ r.invariant = IF "invariant" \in kinds THEN Top(below) ELSE 0
  BY DEF NewSymbol
<1>6. errors' <=> errors \/ duplicate \/ (urge > l /\ ~UrgentFits(committed))
  BY <1>1, Zenon
<1> HIDE DEF s, r, u, n, l, urge, c
<1>7. /\ at \in Nat /\ n \in Nat /\ l \in Nat /\ urge \in Nat /\ c \in Nat /\ Len(document) \in Nat
      /\ at + 1 <= n /\ n <= l /\ l <= urge /\ urge <= c /\ c <= Len(document)
      /\ \A p \in at + 1 .. n - 1 : Tag(p) = "name" /\ p = at + 1
      /\ \A p \in n .. l - 1 : Tag(p) = "label"
      /\ \A p \in l .. urge - 1 : Tag(p) = "urgent"
      /\ \A p \in urge .. c - 1 : Tag(p) = "committed"
      /\ \A p \in at + 1 .. c - 1 : p \in at + 1 .. n - 1 \/ p \in n .. l - 1 \/ p \in l .. urge - 1 \/ p \in urge .. c - 1
  <2>1. Tag(at) = "location"
    BY <1>1, Zenon
  <2>2. n = Past("name", at + 1) /\ l = After({"label"}, n) /\ urge = Past("urgent", l) /\ c = Past("committed", urge)
    BY DEF n, l, urge, c
  <2> QED  BY ONLY <1>3, <2>1, <2>2, LocationParts
<1>18. at < c /\ at' = c
  <2>1. at < c
    BY ONLY <1>7
  <2> QED  BY <1>1, <2>1, Zenon
<1> DEFINE P == at + 1 .. c - 1
<1>8. /\ at + 1 .. n - 1 \subseteq P /\ n .. l - 1 \subseteq P /\ l .. urge - 1 \subseteq P /\ urge .. c - 1 \subseteq P
  BY ONLY <1>7
<1>9. /\ Tagged(document, P, "name") = at + 1 .. n - 1
      /\ Tagged(document, P, "label") = n .. l - 1
      /\ Tagged(document, P, "urgent") = l .. urge - 1
      /\ Tagged(document, P, "committed") = urge .. c - 1
      /\ \A p \in P : document[p].tag \notin Parts
  <2> HIDE DEF P
  <2>1. \A p \in P : p \in at + 1 .. n - 1 \/ p \in n .. l - 1 \/ p \in l .. urge - 1 \/ p \in urge .. c - 1
    BY <1>7 DEF P
  <2>2. /\ \A p \in at + 1 .. n - 1 : p \in P /\ document[p].tag = "name"
        /\ \A p \in n .. l - 1 : p \in P /\ document[p].tag = "label"
        /\ \A p \in l .. urge - 1 : p \in P /\ document[p].tag = "urgent"
        /\ \A p \in urge .. c - 1 : p \in P /\ document[p].tag = "committed"
    BY <1>7, <1>8 DEF Tag
  <2>3. \A p \in P : document[p].tag \in {"name", "label", "urgent", "committed"}
    BY <2>1, <2>2
  <2>4. \A p \in P : document[p].tag \notin Parts
    BY <2>3 DEF Parts, Tops
  <2> DEFINE A == at + 1 .. n - 1
             B == n .. l - 1
             C == l .. urge - 1
             D == urge .. c - 1
  <2>5. /\ \A p \in P : p \in A \/ p \in B \/ p \in C \/ p \in D
        /\ \A p \in A : p \in P /\ document[p].tag = "name"
        /\ \A p \in B : p \in P /\ document[p].tag = "label"
        /\ \A p \in C : p \in P /\ document[p].tag = "urgent"
        /\ \A p \in D : p \in P /\ document[p].tag = "committed"
    BY <2>1, <2>2
  <2> HIDE DEF A, B, C, D
  <2>6. Tagged(document, P, "name") = A
    BY <2>5 DEF Tagged
  <2>7. Tagged(document, P, "label") = B
    BY <2>5 DEF Tagged
  <2>8. Tagged(document, P, "urgent") = C
    BY <2>5 DEF Tagged
  <2>9. Tagged(document, P, "committed") = D
    BY <2>5 DEF Tagged
  <2> QED  BY <2>4, <2>6, <2>7, <2>8, <2>9 DEF A, B, C, D
<1>10. name = NameOf(IF Tagged(document, P, "name") = {} THEN ""
                     ELSE document[CHOOSE q \in Tagged(document, P, "name") : TRUE].name, id)
  <2>1. CASE n > at + 1
    <3>1. at + 1 .. n - 1 = {at + 1}
      <4>1. at + 1 \in at + 1 .. n - 1
        BY <1>7, <2>1
      <4> QED  BY <1>7, <4>1
    <3>2. (CHOOSE q \in {at + 1} : TRUE) = at + 1
      OBVIOUS
    <3>3. Tagged(document, P, "name") = {at + 1} /\ {at + 1} # {}
      BY <1>9, <3>1
    <3>4. given = document[at + 1].name
      BY <2>1
    <3> HIDE DEF P, given
    <3> QED  BY <3>2, <3>3, <3>4, Zenon
  <2>2. CASE ~ (n > at + 1)
    <3>1. at + 1 .. n - 1 = {}
      BY <1>7, <2>2
    <3> QED  BY <1>9, <2>2, <3>1, Zenon
  <2> QED  BY <2>1, <2>2, Zenon
<1>11. ASSUME ~errors' PROVE flags = {tag \in {"urgent", "committed"} : Tagged(document, P, tag) # {}}
  <2>1. ~duplicate /\ ~ (urge > l /\ ~UrgentFits(committed))
    BY <1>6, <1>11, Zenon
  <2>2. flags = committed \cup urgent /\ urgent = IF urge > l THEN {"urgent"} ELSE {}
    BY <2>1, Zenon
  <2>3. (urge > l <=> Tagged(document, P, "urgent") # {}) /\ (c > urge <=> Tagged(document, P, "committed") # {})
    <3>1. (urge > l <=> l .. urge - 1 # {}) /\ (c > urge <=> urge .. c - 1 # {})
      <4>1. ASSUME NEW x \in Nat, NEW y \in Nat PROVE y > x <=> x .. y - 1 # {}
        <5>1. y > x => x \in x .. y - 1
          BY <4>1
        <5>2. ~ (y > x) => x .. y - 1 = {}
          BY <4>1
        <5> QED  BY <5>1, <5>2
      <4> QED  BY <1>7, <4>1
    <3> QED  BY <1>9, <3>1
  <2> HIDE DEF P, flags, urgent
  <2> QED  BY <2>2, <2>3
<1>12. Kind(document, P, "exponentialrate") = {} => r.invariant = LastPart(Kind(document, P, "invariant"))
  <2>1. SUFFICES ASSUME Kind(document, P, "exponentialrate") = {} PROVE r.invariant = LastPart(Kind(document, P, "invariant"))
    OBVIOUS
  <2>2. \A kind : Kind(document, P, kind) = {p \in n .. l - 1 : document[p].kind = kind}
    BY <1>9 DEF Kind
  <2>3. \A p \in n .. l - 1 : document[p].kind # "exponentialrate"
    BY <2>1, <2>2
  <2>4. Q = Kind(document, P, "invariant") /\ "exponentialrate" \notin kinds /\ ("invariant" \in kinds <=> Q # {})
    BY <2>2, <2>3
  <2>5. below = pushed
    BY <2>4
  <2>6. Q \subseteq 1 .. Len(document)
    BY <1>7
  <2> HIDE DEF Q, kinds, below
  <2>7. Q # {} => Top(pushed) = LastPart(Q)
    BY <1>7, <2>6, TopListed
  <2>8. Q = {} => LastPart(Q) = 0
    BY DEF LastPart
  <2> HIDE DEF pushed, P
  <2> QED  BY <1>5, <2>4, <2>5, <2>7, <2>8, Zenon
<1>13. ~errors' => LocationFits(document, s, r, at')
  <2>1. at < at' /\ at' = c
    BY <1>18
  <2>2. s.at = at /\ s.name = name /\ s.flags = flags
    BY <1>5, Zenon
  <2> HIDE DEF name, flags
  <2> QED  BY <1>9, <1>10, <1>11, <1>12, <2>1, <2>2, Zenon DEF LocationFits
<1>14. at' \in Nat /\ at < at' /\ \A q \in at + 1 .. at' - 1 : Tag(q) \notin Parts
  <2>1. c \in Nat /\ \A q \in P : Tag(q) \notin Parts
    BY <1>7, <1>9 DEF Tag
  <2>2. \A q \in at + 1 .. c - 1 : Tag(q) \notin Parts
    BY <2>1
  <2> QED  BY <1>18, <2>1, <2>2
<1>15. Tag(at) \in NodeTags /\ s.kind = Tag(at) /\ s.at = at /\ names' = Bind(document[at].id, s.name)
  BY <1>1, <1>5, Zenon DEF NodeTags
<1>16. (errors => errors') /\ phase \in {"locations", "branchpoints"} /\ phase' = phase /\ document' = document
  BY <1>1, Zenon
<1>17. \/ u.states = templates[Current].states
       \/ \E x : /\ x.uid = Len(templates[Current].symbols) + 1 /\ u.states = Append(templates[Current].states, x)
                 /\ ~errors' => LocationFits(document, s, x, at')
  BY <1>4, <1>5, <1>13, Zenon
<1> HIDE DEF name, flags, kinds, Q, pushed, below, duplicate, committed, urgent, given
<1> QED  BY <1>2, <1>4, <1>14, <1>15, <1>16, <1>17, NodeDrawn

\* After a new template is begun, nothing of it is drawn yet, and the one before
\* is finished.
LEMMA ReadTemplateDrawn == ReadingInv /\ DrawnInv /\ ReadTemplate => DrawnInv'
<1> SUFFICES ASSUME ReadingInv, DrawnInv, ReadTemplate PROVE DrawnInv'
  OBVIOUS
<1> DEFINE declared == Declared[document[at].name]
           u == [at |-> at, name |-> document[at].name,
                 symbols |-> [i \in DOMAIN declared |-> NewSymbol(declared[i], "variable", {}, 0)],
                 states |-> <<>>, init |-> 0, edges |-> <<>>]
           n == Len(templates)
           d == document
<1>1. /\ phase = "project" /\ phase' = "locations" /\ Tag(at) = "template" /\ document' = document
      /\ templates' = Append(templates, u)
      /\ errors => errors'
  BY DEF ReadTemplate
<1>2. at' = at + 1
  BY DEF ReadTemplate
<1>3. /\ at \in Nat \ {0} /\ List(templates) /\ DOMAIN templates = 1 .. n /\ n \in Nat
      /\ \A i \in DOMAIN templates : templates[i].at \in Nat /\ templates[i].at < at
  BY Positions
<1>4. /\ u.at = at /\ u.states = <<>> /\ u.edges = <<>>
      /\ \A j \in DOMAIN u.symbols : u.symbols[j].kind = "variable" /\ u.symbols[j].at = 0
  BY DEF NewSymbol
<1> HIDE DEF u
<1>5. /\ Len(templates') = n + 1 /\ DOMAIN templates' = 1 .. n + 1
      /\ \A i \in 1 .. n : templates'[i] = templates[i]
      /\ templates'[n + 1] = u
  <2>1. templates' = Append(templates, u) /\ List(templates)
    BY <1>1, <1>3
  <2> QED  BY ONLY <2>1, <1>3, ListAppend
<1>15. errors => errors'
  BY <1>1
<1> HIDE DEF n
<1>6. /\ \A i \in 1 .. n + 1 : i \in 1 .. n \/ i = n + 1
      /\ \A i \in 1 .. n : i \in 1 .. n + 1 /\ i < n + 1
      /\ n + 1 \in 1 .. n + 1
  BY <1>3
<1>7. 1 .. at' - 1 = (1 .. at - 1) \cup {at}
  BY <1>2, <1>3
<1>8. PlacesOK'
  <2>1. PlacesOK
    BY DEF DrawnInv
  <2>2. \A p \in 1 .. at' - 1 : d[p].tag # "system"
    BY <1>1, <1>7, <2>1 DEF PlacesOK, Tag
  <2>3. \A i \in 1 .. n + 1 : templates'[i].at \in 1 .. at' - 1 /\ d[templates'[i].at].tag = "template"
    <3>1. ASSUME NEW i \in 1 .. n + 1
          PROVE  templates'[i].at \in 1 .. at' - 1 /\ d[templates'[i].at].tag = "template"
      <4>1. CASE i \in 1 .. n
        <5>1. templates[i].at \in 1 .. at - 1 /\ d[templates[i].at].tag = "template"
          BY <1>3, <2>1, <4>1 DEF PlacesOK, Tag
        <5> QED  BY <1>5, <1>7, <4>1, <5>1
      <4>2. CASE i = n + 1
        BY <1>1, <1>4, <1>5, <1>7, <4>2 DEF Tag
      <4> QED  BY <1>6, <4>1, <4>2
    <3> QED  BY <3>1
  <2>4. ASSUME NEW i \in 1 .. n + 1, NEW j \in 1 .. n + 1, i < j PROVE templates'[i].at < templates'[j].at
    <3>1. i \in 1 .. n
      BY <1>3, <2>4
    <3>2. CASE j \in 1 .. n
      BY <1>3, <1>5, <2>1, <2>4, <3>1, <3>2 DEF PlacesOK
    <3>3. CASE j = n + 1
      BY <1>3, <1>4, <1>5, <3>1, <3>3
    <3> QED  BY <1>6, <3>2, <3>3
  <2>5. \A p \in 1 .. at' - 1 : d[p].tag = "template" => \E i \in 1 .. n + 1 : templates'[i].at = p
    <3>1. ASSUME NEW p \in 1 .. at' - 1, d[p].tag = "template" PROVE \E i \in 1 .. n + 1 : templates'[i].at = p
      <4>1. CASE p = at
        BY <1>4, <1>5, <1>6, <4>1
      <4>2. CASE p \in 1 .. at - 1
        <5>1. PICK i \in 1 .. n : templates[i].at = p
          BY <1>3, <2>1, <3>1, <4>2 DEF PlacesOK, Tag
        <5> QED  BY <1>5, <1>6, <5>1
      <4> QED  BY <1>7, <4>1, <4>2
    <3> QED  BY <3>1
  <2> QED  BY <1>1, <1>5, <2>2, <2>3, <2>4, <2>5 DEF PlacesOK, Tag
<1>9. FinishedOK'
  <2>1. ASSUME NEW i \in 1 .. n + 1, i < n + 1
        PROVE  Finished(d, templates'[i], templates'[i + 1].at, errors')
    <3>1. i \in 1 .. n /\ i + 1 \in 1 .. n + 1
      BY <1>3, <2>1
    <3> DEFINE t == templates[i]
    <3>2. templates'[i] = t
      BY <1>5, <3>1
    <3>3. CASE i + 1 \in 1 .. n
      <4> DEFINE z == templates[i + 1].at
      <4>1. Finished(d, t, z, errors)
        <5>1. i < n
          BY <1>3, <3>1, <3>3
        <5> QED  BY <1>3, <3>1, <5>1 DEF DrawnInv, FinishedOK, n
      <4>2. templates'[i + 1].at = z
        BY <1>5, <3>3
      <4> HIDE DEF t, z
      <4>3. Finished(d, t, z, errors')
        <5> HIDE DEF d
        <5> QED  BY ONLY <1>15, <4>1, FinishedKept
      <4> QED  BY <3>2, <4>2, <4>3
    <3>4. CASE i + 1 = n + 1
      <4>1. t = templates[Current] /\ templates # <<>>
        <5>1. i = n
          BY <1>3, <3>1, <3>4
        <5> QED  BY <1>3, <3>1, <5>1 DEF Current, n
      <4>2. phase \notin Open /\ phase # "labels"
        BY <1>1 DEF Open
      <4>3. /\ NodesOK(d, t, at)
            /\ ~errors => /\ LocationsFit(d, t, at, at) /\ InitFits(d, t, at) /\ HasInit(d, t, at)
                          /\ EdgesListed(d, t, at) /\ \A k \in DOMAIN t.edges : EdgeEnded(d, t, at, at, k)
        BY <4>1, <4>2 DEF DrawnInv, LastOK
      <4>4. d[at].tag \in Parts
        BY <1>1 DEF Parts, Tops, Tag
      <4> HIDE DEF t, d
      <4>5. ASSUME ~errors PROVE LocationsFit(d, t, at, 0) /\ EdgesFit(d, t, at, 0)
        <5>1. LocationsFit(d, t, at, 0)
          BY <1>3, <4>3, <4>4, <4>5, LocationsGrow
        <5>2. \A k \in DOMAIN t.edges : EdgeEnded(d, t, at, 0, k)
          BY <1>3, <4>3, <4>4, <4>5, EdgeGrows
        <5> QED  BY <4>3, <4>5, <5>1, <5>2 DEF EdgesFit
      <4>6. Finished(d, t, at, errors')
        BY <1>15, <4>3, <4>5 DEF Finished
      <4> QED  BY <1>4, <1>5, <3>2, <3>4, <4>6
    <3> QED  BY <1>6, <3>1, <3>3, <3>4
  <2> QED  BY <1>1, <1>5, <2>1 DEF FinishedOK
<1>10. u.at + 1 .. at' - 1 = {}
  BY <1>2, <1>3, <1>4
<1>11. templates'[Current'] = u
  BY <1>5 DEF Current
<1>12. \A tag : Tagged(d, u.at + 1 .. at' - 1, tag) = {}
  BY <1>10 DEF Tagged
<1>13. LastOK'
  <2>1. NodesOK(d, u, at')
    BY <1>4, <1>10 DEF NodesOK, SymbolPlaced
  <2>2. LocationsFit(d, u, at', at')
    BY <1>4 DEF LocationsFit
  <2>3. InitFits(d, u, at') /\ ~HasInit(d, u, at')
    BY <1>12 DEF InitFits, HasInit
  <2>4. EdgesListed(d, u, at')
    BY <1>4, <1>12 DEF EdgesListed, Lists
  <2>5. phase' \in Open /\ phase' # "labels" /\ DOMAIN u.edges = {}
    BY <1>1, <1>4 DEF Open
  <2> QED  BY <1>1, <1>4, <1>11, <2>1, <2>2, <2>3, <2>4, <2>5 DEF LastOK
<1>14. NamesOK'
  <2>1. \A j \in DOMAIN u.symbols : u.symbols[j].kind \notin NodeTags
    BY <1>4 DEF NodeTags
  <2> QED  BY <1>11, <2>1 DEF NamesOK
<1> QED  BY <1>8, <1>9, <1>13, <1>14 DEF DrawnInv

\* Every step keeps what is read drawn.
LEMMA DrawnStep == ReadingInv /\ List(fragments) /\ DrawnInv /\ [Next]_vars => DrawnInv'
<1> SUFFICES ASSUME ReadingInv, List(fragments), DrawnInv, [Next]_vars PROVE DrawnInv'
  OBVIOUS
<1>1. CASE EndLoop
  BY <1>1, StayDrawn DEF EndLoop, Reading, Open
<1>2. CASE EndTemplate
  BY <1>2, StayDrawn DEF EndTemplate, AtEnd, Reading, Open
<1>3. CASE ReadSystem
  <2>1. /\ UNCHANGED <<document, at, templates, names>> /\ phase = "project" /\ phase' \in {"translate", "refused"}
    BY <1>3 DEF ReadSystem
  <2>2. errors => errors'
    BY <1>3, Zenon DEF ReadSystem
  <2> QED  BY <2>1, <2>2, StayDrawn DEF Reading, Open
<1>4. CASE TranslateTemplate
  <2>1. /\ UNCHANGED <<document, at, templates, names, errors>> /\ phase = "translate"
        /\ phase' \in {"translate", "done", "crashed"}
    BY <1>4 DEF TranslateTemplate
  <2> QED  BY <2>1, StayDrawn DEF Reading, Open
<1>5. CASE UNCHANGED vars
  BY <1>5, StayDrawn DEF vars
<1> QED
  BY <1>1, <1>2, <1>3, <1>4, <1>5, ReadTemplateDrawn, ReadLocationDrawn, ReadBranchpointDrawn, ReadInitDrawn,
     BeginTransitionDrawn, LabelDrawn, PassingDrawn DEF Next

\* What is read is drawn in every state.
LEMMA DrawnInvariant == Spec => []DrawnInv
<1>1. Init => DrawnInv
  <2> SUFFICES ASSUME Init PROVE DrawnInv
    OBVIOUS
  <2>1. templates = <<>> /\ at = 1 /\ phase = "project" /\ DOMAIN templates = {} /\ 1 .. at - 1 = {}
    BY DEF Init
  <2> QED  BY <2>1 DEF DrawnInv, PlacesOK, FinishedOK, LastOK, NamesOK, Reading, Open
<1>2. Init => List(fragments)
  BY EmptyList DEF Init
<1> QED  BY <1>1, <1>2, FragmentsStep, DrawnStep, ReadingInvariant, PTL DEF Spec

-----------------------------------------------------------------------------
\* What is between an element and the next of some tags is part of it.
LEMMA InsideIs ==
  ASSUME NEW tags, NEW p \in Nat, NEW z \in Nat, Len(document) \in Nat, p < z, z <= Len(document), Tag(z) \in tags,
         \A q \in p + 1 .. z - 1 : Tag(q) \notin tags
  PROVE  Inside(p, tags) = p + 1 .. z - 1
<1> DEFINE Stops(q) == Tag(q) \in tags /\ \A r \in p + 1 .. q - 1 : Tag(r) \notin tags
<1>1. z \in p + 1 .. Len(document) /\ Stops(z)
  OBVIOUS
<1>2. ASSUME NEW q \in p + 1 .. Len(document), Stops(q) PROVE q = z
  <2>1. ~ (q < z)
    <3>1. q < z => q \in p + 1 .. z - 1
      OBVIOUS
    <3> QED  BY <1>2, <3>1
  <2>2. ~ (z < q)
    <3>1. z < q => z \in p + 1 .. q - 1
      OBVIOUS
    <3> QED  BY <1>2, <3>1
  <2> QED  BY <2>1, <2>2
<1>3. (CHOOSE q \in p + 1 .. Len(document) : Stops(q)) = z
  <2> HIDE DEF Stops
  <2> QED  BY <1>1, <1>2
<1> QED  BY <1>3 DEF Inside

\* What is written of the edges is of edges that can be written, after the whole
\* document was read.
EdgesWritten ==
  /\ phase \in {"translate", "done"} \/ written # <<>> => Tag(at) = "system"
  /\ \A i \in DOMAIN written :
       /\ written[i].edges = UNION {WrittenEdges(templates[i], k) : k \in DOMAIN templates[i].edges}
       /\ \A k \in DOMAIN templates[i].edges : ~Fatal(templates[i], k)

\* Every step keeps the edges that are written true to the templates.
LEMMA EdgesWrittenStep == ReadingInv /\ WrittenInv /\ EdgesWritten /\ [Next]_vars => EdgesWritten'
<1> SUFFICES ASSUME ReadingInv, WrittenInv, EdgesWritten, [Next]_vars PROVE EdgesWritten'
  OBVIOUS
<1>1. ASSUME phase \notin {"translate", "done", "crashed"}, written' = written,
             phase' \in {"translate", "done"} => (Tag(at) = "system")'
      PROVE  EdgesWritten'
  <2>1. written' = <<>>
    BY <1>1 DEF WrittenInv
  <2> QED  BY <1>1, <2>1, EmptyList DEF EdgesWritten
<1>2. CASE ReadTemplate \/ ReadLocation \/ ReadBranchpoint \/ EndLoop \/ ReadInit
  BY <1>1, <1>2, Zenon DEF ReadTemplate, ReadLocation, ReadBranchpoint, EndLoop, ReadInit
<1>3. CASE BeginTransition \/ IgnoreLabel \/ EndTransition \/ EndTemplate
  BY <1>1, <1>3 DEF BeginTransition, IgnoreLabel, EndTransition, EndTemplate, AtEnd
<1>4. CASE ReadSelect \/ ReadLabel
  BY <1>1, <1>4, Zenon DEF ReadSelect, ReadLabel
<1>5. CASE ReadSystem
  <2>1. phase = "project" /\ written' = written /\ document' = document /\ at' = at
    BY <1>5 DEF ReadSystem
  <2>2. phase' \in {"translate", "done"} => Tag(at) = "system"
    BY <1>5 DEF ReadSystem
  <2> QED  BY <1>1, <2>1, <2>2 DEF Tag
<1>6. CASE TranslateTemplate
  <2> DEFINE k == Len(written) + 1
             t == templates[k]
             E == UNION {WrittenEdges(t, j) : j \in DOMAIN t.edges}
             w == [name |-> t.name, locations |-> WrittenLocations(t), edges |-> E]
             crash == \E j \in DOMAIN t.edges : Fatal(t, j)
  <2>1. phase = "translate" /\ UNCHANGED <<document, at, templates>> /\ Tag(at) = "system"
    BY <1>6 DEF TranslateTemplate, EdgesWritten
  <2>2. CASE written' = written
    BY <2>1, <2>2 DEF EdgesWritten, Tag
  <2>3. CASE written' # written
    <3>1. written' = Append(written, w) /\ ~crash
      BY <1>6, <2>3 DEF TranslateTemplate
    <3>2. w.edges = E /\ t = templates[Len(written) + 1]
      OBVIOUS
    <3>3. \A j \in DOMAIN t.edges : ~Fatal(t, j)
      BY <3>1
    <3> HIDE DEF w, E, crash, t
    <3>4. /\ DOMAIN written' = 1 .. Len(written) + 1 /\ Len(written) \in Nat /\ DOMAIN written = 1 .. Len(written)
          /\ \A i \in 1 .. Len(written) : written'[i] = written[i]
          /\ written'[Len(written) + 1] = w
      BY <3>1, ListAppend, ListDomain DEF WrittenInv
    <3>5. ASSUME NEW i \in DOMAIN written'
          PROVE  /\ written'[i].edges = UNION {WrittenEdges(templates[i], j) : j \in DOMAIN templates[i].edges}
                 /\ \A j \in DOMAIN templates[i].edges : ~Fatal(templates[i], j)
      <4>1. CASE i = Len(written) + 1
        BY <3>2, <3>3, <3>4, <4>1 DEF E
      <4>2. CASE i \in DOMAIN written
        BY <3>4, <4>2 DEF EdgesWritten
      <4> QED  BY <3>4, <4>1, <4>2
    <3> QED  BY <2>1, <3>5 DEF EdgesWritten, Tag
  <2> QED  BY <2>2, <2>3
<1>7. CASE UNCHANGED vars
  BY <1>7 DEF vars, EdgesWritten, Tag
<1> QED  BY <1>2, <1>3, <1>4, <1>5, <1>6, <1>7 DEF Next

\* The edges that are written are so in every state.
LEMMA EdgesWrittenInvariant == Spec => []EdgesWritten
<1>1. Init => EdgesWritten
  BY EmptyList DEF Init, EdgesWritten
<1> QED  BY <1>1, EdgesWrittenStep, ReadingInvariant, WrittenInvariant, PTL DEF Spec

\* A template that is written is drawn up to the next one, or the system.
Whole(t, z) ==
  /\ z \in Nat /\ t.at \in Nat /\ t.at < z /\ z <= Len(document) /\ Tag(z) \in Tops
  /\ \A q \in t.at + 1 .. z - 1 : Tag(q) \notin Tops
  /\ TemplateOK(t) /\ StatesOK(t) /\ NodesOK(document, t, z) /\ LocationsFit(document, t, z, 0)
  /\ InitFits(document, t, z) /\ HasInit(document, t, z) /\ EdgesFit(document, t, z, 0)

LEMMA WholeTemplates ==
  ASSUME ReadingInv, DrawnInv, WrittenInv, EdgesWritten, NEW i \in DOMAIN written
  PROVE  i \in DOMAIN templates /\ \E z : Whole(templates[i], z)
<1> DEFINE t == templates[i]
           n == Len(templates)
           d == document
<1>1. ~errors /\ phase \notin Open /\ phase # "labels" /\ Tag(at) = "system"
  BY EmptyList DEF WrittenInv, EdgesWritten, Open
<1>2. /\ at \in Nat \ {0} /\ List(templates) /\ DOMAIN templates = 1 .. n /\ n \in Nat
      /\ \A j \in DOMAIN templates : templates[j].at \in Nat /\ templates[j].at < at
  BY Positions
<1>3. i \in 1 .. n
  BY <1>2, ListDomain DEF WrittenInv
<1>4. TemplateOK(t) /\ StatesOK(t)
  BY <1>2, <1>3 DEF ReadingInv, TemplatesOK
<1>5. at <= Len(document) /\ Len(document) \in Nat
  BY DEF ReadingInv, PositionOK, IsDocument
<1>6. PlacesOK
  BY DEF DrawnInv
<1>7. ASSUME NEW q \in 1 .. at - 1, NEW z \in Nat, z <= at, t.at < q, q < z,
             \A j \in 1 .. n : i < j => z <= templates[j].at
      PROVE  Tag(q) \notin Tops
  <2>1. Tag(q) # "system"
    BY <1>6 DEF PlacesOK
  <2>2. ASSUME Tag(q) = "template" PROVE FALSE
    <3>1. PICK j \in 1 .. n : templates[j].at = q
      BY <1>2, <1>6, <2>2 DEF PlacesOK
    <3>2. CASE j = i
      BY <1>2, <1>3, <1>7, <3>1, <3>2
    <3>3. CASE j < i
      <4>1. templates[j].at < t.at
        BY <1>2, <1>3, <1>6, <3>3 DEF PlacesOK
      <4> QED  BY <1>2, <1>3, <1>7, <3>1, <4>1
    <3>4. CASE i < j
      BY <1>2, <1>7, <3>1, <3>4
    <3>5. i \in Int /\ j \in Int
      BY <1>3
    <3> QED  BY <3>2, <3>3, <3>4, <3>5
  <2> QED  BY <2>1, <2>2 DEF Tops
<1>8. CASE i < n
  <2> DEFINE z == templates[i + 1].at
  <2>1. i + 1 \in 1 .. n
    BY <1>2, <1>3, <1>8
  <2>2. z \in Nat /\ z < at /\ Tag(z) \in Tops /\ t.at \in Nat /\ t.at < z
    BY <1>2, <1>3, <1>6, <2>1 DEF PlacesOK, Tops
  <2>3. \A j \in 1 .. n : i < j => z <= templates[j].at
    <3>1. ASSUME NEW j \in 1 .. n, i < j PROVE z <= templates[j].at
      <4>1. j = i + 1 \/ i + 1 < j
        BY <1>3, <3>1
      <4>2. i + 1 < j => z < templates[j].at
        BY <1>2, <1>6, <2>1 DEF PlacesOK
      <4>3. z \in Nat /\ templates[j].at \in Nat
        BY <1>2, <2>1
      <4> QED  BY <4>1, <4>2, <4>3
    <3> QED  BY <3>1
  <2>4. Finished(d, t, z, errors)
    BY <1>2, <1>3, <1>8 DEF DrawnInv, FinishedOK
  <2>5. \A q \in t.at + 1 .. z - 1 : q \in 1 .. at - 1 /\ t.at < q /\ q < z
    <3> DEFINE a == t.at
    <3>1. a \in Nat /\ z \in Nat /\ a < z /\ z < at
      BY <2>2
    <3> HIDE DEF a, z
    <3>2. \A q \in a + 1 .. z - 1 : q \in 1 .. at - 1 /\ a < q /\ q < z
      BY <1>2, <3>1
    <3> QED  BY <3>2 DEF a
  <2>6. z <= at /\ z <= Len(document)
    BY <1>2, <1>5, <2>2
  <2> HIDE DEF t, z
  <2>7. Whole(t, z)
    BY <1>1, <1>4, <1>7, <2>2, <2>3, <2>4, <2>5, <2>6 DEF Whole, Finished
  <2> QED  BY <1>2, <1>3, <2>7 DEF t
<1>9. CASE i = n
  <2>1. t.at \in Nat /\ t.at < at /\ Tag(at) \in Tops /\ document[at].tag \in Parts
    BY <1>1, <1>2, <1>3 DEF Tops, Parts, Tag
  <2>2. \A j \in 1 .. n : i < j => at <= templates[j].at
    BY <1>2, <1>9
  <2>3. \A q \in t.at + 1 .. at - 1 : q \in 1 .. at - 1 /\ t.at < q /\ q < at
    <3> DEFINE a == t.at
    <3>1. a \in Nat /\ a < at
      BY <2>1
    <3> HIDE DEF a
    <3>2. \A q \in a + 1 .. at - 1 : q \in 1 .. at - 1 /\ a < q /\ q < at
      BY <1>2, <3>1
    <3> QED  BY <3>2 DEF a
  <2>4. /\ NodesOK(d, t, at) /\ LocationsFit(d, t, at, at) /\ InitFits(d, t, at) /\ HasInit(d, t, at)
        /\ EdgesListed(d, t, at) /\ \A k \in DOMAIN t.edges : EdgeEnded(d, t, at, at, k)
    <3>1. templates # <<>> /\ t = templates[Current]
      BY <1>2, <1>3, <1>9 DEF Current
    <3> QED  BY <1>1, <3>1 DEF DrawnInv, LastOK
  <2>5. at \in Nat /\ at <= at
    BY <1>2
  <2> HIDE DEF t
  <2>6. LocationsFit(d, t, at, 0)
    BY <2>1, <2>4, <2>5, LocationsGrow
  <2>7. \A k \in DOMAIN t.edges : EdgeEnded(d, t, at, 0, k)
    BY <2>1, <2>4, <2>5, EdgeGrows
  <2>8. \A q \in t.at + 1 .. at - 1 : Tag(q) \notin Tops
    BY <1>7, <2>2, <2>3, <2>5
  <2>9. Whole(t, at)
    BY <1>4, <1>5, <2>1, <2>4, <2>5, <2>6, <2>7, <2>8 DEF Whole, EdgesFit
  <2> QED  BY <1>2, <1>3, <2>9 DEF t
<1> QED  BY <1>2, <1>3, <1>8, <1>9

-----------------------------------------------------------------------------
\* The nodes of a whole template are those of its elements.
LEMMA WholeNodes ==
  ASSUME IsDocument(document), NEW t, NEW z, Whole(t, z)
  PROVE  /\ Inside(t.at, Tops) = t.at + 1 .. z - 1
         /\ DrawnNodes(t.at) = {p \in t.at + 1 .. z - 1 : document[p].tag \in NodeTags}
         /\ \A j \in DOMAIN t.symbols :
              t.symbols[j].kind \in NodeTags =>
                t.symbols[j].at \in DrawnNodes(t.at) /\ document[t.symbols[j].at].tag = t.symbols[j].kind
         /\ \A p \in DrawnNodes(t.at) :
              \E j \in DOMAIN t.symbols : t.symbols[j].at = p /\ t.symbols[j].kind = document[p].tag
         /\ OwnIds(t.at) => Apart(document, t.at + 1 .. z - 1)
<1> DEFINE a == t.at
<1>1. /\ z \in Nat /\ a \in Nat /\ a < z /\ z <= Len(document) /\ Tag(z) \in Tops
      /\ \A q \in a + 1 .. z - 1 : Tag(q) \notin Tops
  BY DEF Whole
<1>2. Len(document) \in Nat
  BY DEF IsDocument
<1>3. Inside(a, Tops) = a + 1 .. z - 1
  <2> HIDE DEF a
  <2> QED  BY <1>1, <1>2, InsideIs
<1>4. DrawnNodes(a) = {p \in a + 1 .. z - 1 : document[p].tag \in NodeTags}
  <2> HIDE DEF a
  <2> QED  BY <1>3 DEF DrawnNodes, NodeTags, Tag
<1>5. NodesOK(document, t, z)
  BY DEF Whole
<1>6. ASSUME NEW j \in DOMAIN t.symbols, t.symbols[j].kind \in NodeTags
      PROVE  t.symbols[j].at \in DrawnNodes(a) /\ document[t.symbols[j].at].tag = t.symbols[j].kind
  <2>1. SymbolPlaced(document, t, z, j)
    BY <1>5 DEF NodesOK
  <2> QED  BY <1>4, <1>6, <2>1 DEF SymbolPlaced, NodeTags
<1>7. ASSUME NEW p \in DrawnNodes(a)
      PROVE  \E j \in DOMAIN t.symbols : t.symbols[j].at = p /\ t.symbols[j].kind = document[p].tag
  <2>1. p \in a + 1 .. z - 1 /\ document[p].tag \in NodeTags /\ p # 0
    BY <1>1, <1>4
  <2>2. PICK j \in DOMAIN t.symbols : t.symbols[j].at = p
    BY <1>5, <2>1 DEF NodesOK
  <2>3. SymbolPlaced(document, t, z, j)
    BY <1>5 DEF NodesOK
  <2> QED  BY <2>1, <2>2, <2>3 DEF SymbolPlaced
<1>8. OwnIds(a) => Apart(document, a + 1 .. z - 1)
  <2> HIDE DEF a
  <2> QED  BY <1>4 DEF OwnIds, Apart
<1> QED  BY <1>3, <1>4, <1>6, <1>7, <1>8

\* A location of a whole template is the one that is drawn.
LEMMA WholeLocation ==
  ASSUME IsDocument(document), NEW t, NEW z, Whole(t, z), NEW k \in DOMAIN t.states
  PROVE  LET s == t.symbols[t.states[k].uid]
             P == Inside(s.at, Parts)
         IN  /\ t.states[k].uid \in DOMAIN t.symbols /\ s.kind = "location" /\ s.at \in DrawnNodes(t.at)
             /\ document[s.at].tag = "location"
             /\ s.name = DrawnName(s.at)
             /\ s.flags = {tag \in {"urgent", "committed"} : WithTag(P, tag) # {}}
             /\ NoRates(s.at) => t.states[k].invariant = LastPart(OfKind(P, "invariant"))
<1> DEFINE s == t.symbols[t.states[k].uid]
           p == s.at
           P == Inside(p, Parts)
<1>1. t.states[k].uid \in DOMAIN t.symbols /\ s.kind = "location"
  BY DEF Whole, StatesOK, IsLocation
<1>2. p \in DrawnNodes(t.at) /\ document[p].tag = "location"
  BY <1>1, WholeNodes DEF NodeTags
<1>3. z \in Nat /\ z <= Len(document) /\ Len(document) \in Nat /\ t.at \in Nat
  BY DEF Whole, IsDocument
<1>4. p \in Nat
  <2>1. DrawnNodes(t.at) = {q \in t.at + 1 .. z - 1 : document[q].tag \in NodeTags}
    BY WholeNodes
  <2> QED  BY <1>2, <1>3, <2>1
<1>5. PICK stop \in 1 .. z : Ended(document, stop, 0) /\ LocationFits(document, s, t.states[k], stop)
  BY DEF Whole, LocationsFit
<1>6. Tag(stop) \in Parts
  BY <1>5 DEF Ended, Tag
<1>7. p < stop /\ \A q \in p + 1 .. stop - 1 : Tag(q) \notin Parts
  BY <1>5 DEF LocationFits, Tag
<1>8. P = p + 1 .. stop - 1
  <2> HIDE DEF p
  <2> QED  BY <1>3, <1>4, <1>6, <1>7, InsideIs
<1>9. /\ \A tag : WithTag(P, tag) = Tagged(document, P, tag)
      /\ \A kind : OfKind(P, kind) = Kind(document, P, kind)
  <2> HIDE DEF P
  <2>1. \A tag : WithTag(P, tag) = Tagged(document, P, tag)
    BY DEF WithTag, Tagged, Tag
  <2>2. \A kind : OfKind(P, kind) = Kind(document, P, kind)
    BY <2>1 DEF OfKind, Kind
  <2> QED  BY <2>1, <2>2
<1>10. /\ s.name = NameOf(IF Tagged(document, P, "name") = {} THEN ""
                          ELSE document[CHOOSE q \in Tagged(document, P, "name") : TRUE].name, document[p].id)
       /\ s.flags = {tag \in {"urgent", "committed"} : Tagged(document, P, tag) # {}}
       /\ Kind(document, P, "exponentialrate") = {} =>
            t.states[k].invariant = LastPart(Kind(document, P, "invariant"))
  BY <1>5, <1>8 DEF LocationFits
<1>11. s.name = DrawnName(p)
  BY <1>9, <1>10 DEF DrawnName
<1>12. NoRates(p) => t.states[k].invariant = LastPart(OfKind(P, "invariant"))
  BY <1>9, <1>10 DEF NoRates
<1>13. s.flags = {tag \in {"urgent", "committed"} : WithTag(P, tag) # {}}
  BY <1>9, <1>10
<1> QED  BY <1>1, <1>2, <1>11, <1>12, <1>13

\* It is initial if it is drawn so.
LEMMA WholeInit ==
  ASSUME IsDocument(document), NEW t, NEW z, Whole(t, z), NEW k \in DOMAIN t.states,
         OwnIds(t.at), Closed(t.at, {"init"})
  PROVE  t.states[k].uid = t.init
           <=> \E q \in WithTag(Inside(t.at, Tops), "init") : document[q].id = document[t.symbols[t.states[k].uid].at].id
<1> DEFINE i == t.states[k].uid
           S == WithTag(Inside(t.at, Tops), "init")
           N == DrawnNodes(t.at)
<1>1. S = Tagged(document, t.at + 1 .. z - 1, "init")
  BY WholeNodes DEF WithTag, Tagged, Tag
<1>2. S # {} /\ \A q \in S : Refers(document, t, z, q, t.init)
  <2> HIDE DEF S
  <2> QED  BY <1>1 DEF Whole, HasInit, InitFits
<1>3. Apart(document, t.at + 1 .. z - 1)
  BY WholeNodes
<1>4. \A q \in S : \A j \in DOMAIN t.symbols :
        t.symbols[j].kind \in NodeTags /\ document[t.symbols[j].at].id = document[q].id => t.init = j
  <2> HIDE DEF S
  <2> QED  BY <1>2, <1>3 DEF Refers
<1>5. i \in DOMAIN t.symbols /\ t.symbols[i].kind \in NodeTags
  BY WholeLocation DEF NodeTags
<1>6. ASSUME NEW q \in S PROVE \E j \in DOMAIN t.symbols :
                                 t.symbols[j].kind \in NodeTags /\ document[t.symbols[j].at].id = document[q].id
  <2>1. q \in Inside(t.at, Tops) /\ Tag(q) \in {"init"}
    BY <1>6 DEF WithTag
  <2>2. PICK r \in N : document[r].id = document[q].id
    BY <2>1 DEF Closed
  <2>3. PICK j \in DOMAIN t.symbols : t.symbols[j].at = r /\ t.symbols[j].kind = document[r].tag
    BY WholeNodes
  <2>4. document[r].tag \in NodeTags
    BY WholeNodes
  <2> QED  BY <2>2, <2>3, <2>4
<1> HIDE DEF S, i
<1>7. ASSUME i = t.init PROVE \E q \in S : document[q].id = document[t.symbols[i].at].id
  <2>1. PICK q \in S : TRUE
    BY <1>2
  <2>2. PICK j \in DOMAIN t.symbols : t.symbols[j].kind \in NodeTags /\ document[t.symbols[j].at].id = document[q].id
    BY <1>6
  <2>3. t.init = j
    BY <1>4, <2>2
  <2> QED  BY <1>7, <2>2, <2>3
<1>8. ASSUME NEW q \in S, document[q].id = document[t.symbols[i].at].id PROVE i = t.init
  BY <1>4, <1>5, <1>8
<1> QED  BY <1>7, <1>8 DEF S, i

\* The states of a whole template are in the order of the locations.
LEMMA WholeStates ==
  ASSUME IsDocument(document), NEW t, NEW z, Whole(t, z)
  PROVE  Lists([k \in DOMAIN t.states |-> t.symbols[t.states[k].uid].at], WithTag(Inside(t.at, Tops), "location"))
<1> DEFINE f == [k \in DOMAIN t.states |-> t.symbols[t.states[k].uid].at]
           L == WithTag(Inside(t.at, Tops), "location")
<1>1. ASSUME NEW k \in DOMAIN t.states PROVE f[k] \in L
  <2>1. /\ t.symbols[t.states[k].uid].at \in DrawnNodes(t.at)
        /\ document[t.symbols[t.states[k].uid].at].tag = "location"
    BY WholeLocation
  <2> QED  BY <2>1 DEF DrawnNodes, WithTag, Tag
<1>2. ASSUME NEW p \in L PROVE \E k \in DOMAIN t.states : f[k] = p
  <2>1. p \in DrawnNodes(t.at) /\ document[p].tag = "location"
    BY <1>2 DEF WithTag, DrawnNodes, Tag
  <2>2. PICK j \in DOMAIN t.symbols : t.symbols[j].at = p /\ t.symbols[j].kind = "location"
    BY <2>1, WholeNodes
  <2>3. PICK k \in DOMAIN t.states : t.states[k].uid = j
    BY <2>2 DEF Whole, StatesOK
  <2> QED  BY <2>2, <2>3
<1>3. ASSUME NEW j \in DOMAIN t.states, NEW k \in DOMAIN t.states, j < k PROVE f[j] < f[k]
  <2>1. NodesOK(document, t, z)
    BY DEF Whole
  <2>2. t.states[j].uid < t.states[k].uid
    BY <1>3, <2>1 DEF NodesOK
  <2>3. /\ t.states[j].uid \in DOMAIN t.symbols /\ t.states[k].uid \in DOMAIN t.symbols
        /\ t.symbols[t.states[k].uid].kind = "location"
    BY WholeLocation
  <2>4. t.symbols[t.states[j].uid].at < t.symbols[t.states[k].uid].at
    BY <2>1, <2>2, <2>3 DEF NodesOK
  <2> QED  BY <2>4
<1> HIDE DEF L
<1>4. {f[k] : k \in DOMAIN t.states} = L /\ DOMAIN f = DOMAIN t.states
  BY <1>1, <1>2
<1> HIDE DEF f
<1> QED  BY <1>3, <1>4 DEF Lists, f, L

\* Processes are written for the templates that are drawn.
LEMMA TemplatesDrawn ==
  ASSUME ReadingInv, DrawnInv, EdgesWritten, written # <<>>
  PROVE  TemplatesListed
<1>1. at \in Nat \ {0} /\ at <= Len(document) /\ Len(document) \in Nat
  BY DEF ReadingInv, PositionOK, IsDocument
<1>2. Tag(at) \in {"system"} /\ PlacesOK
  BY DEF EdgesWritten, DrawnInv
<1>3. 0 + 1 .. at - 1 = 1 .. at - 1
  OBVIOUS
<1>4. \A q \in 0 + 1 .. at - 1 : Tag(q) \notin {"system"}
  BY <1>2, <1>3 DEF PlacesOK
<1>5. Inside(0, {"system"}) = 1 .. at - 1
  <2>1. 0 \in Nat /\ 0 < at /\ at \in Nat
    BY <1>1
  <2>2. Inside(0, {"system"}) = 0 + 1 .. at - 1
    BY <1>1, <1>2, <1>4, <2>1, InsideIs
  <2> QED  BY <1>3, <2>2
<1> DEFINE f == [i \in DOMAIN templates |-> templates[i].at]
           T == WithTag(1 .. at - 1, "template")
<1>6. {f[i] : i \in DOMAIN f} = T
  <2>1. \A i \in DOMAIN templates : f[i] \in T
    BY <1>2 DEF PlacesOK, WithTag
  <2>2. \A p \in T : \E i \in DOMAIN templates : f[i] = p
    BY <1>2 DEF PlacesOK, WithTag
  <2> HIDE DEF T
  <2> QED  BY <2>1, <2>2
<1>7. \A i, j \in DOMAIN f : i < j => f[i] < f[j]
  BY <1>2 DEF PlacesOK
<1> QED  BY <1>5, <1>6, <1>7 DEF TemplatesListed, Lists

\* Processes are written with the locations that are drawn: the invariant says
\* of what is read which elements it was read from, and at the end of the
\* document these are all there are.
THEOREM LocationsDrawn == Spec => []LocationsAsDrawn
<1>1. ReadingInv /\ DrawnInv /\ WrittenInv /\ EdgesWritten => LocationsAsDrawn
  <2> SUFFICES ASSUME ReadingInv, DrawnInv, WrittenInv, EdgesWritten PROVE LocationsAsDrawn
    OBVIOUS
  <2>1. IsDocument(document)
    BY DEF ReadingInv, PositionOK
  <2>2. ASSUME NEW i \in DOMAIN written
        PROVE  LET t == templates[i]
                   drawn == [k \in DOMAIN t.states |-> t.symbols[t.states[k].uid].at]
               IN  /\ Lists(drawn, WithTag(Inside(t.at, Tops), "location"))
                   /\ DOMAIN written[i].locations = DOMAIN drawn
                   /\ \A k \in DOMAIN drawn :
                        LET d == DrawnLocation(t.at, drawn[k])
                            w == written[i].locations[k]
                        IN  /\ w.name = d.name /\ w.flags = d.flags
                            /\ NoRates(drawn[k]) => w.invariant = d.invariant
                            /\ OwnIds(t.at) /\ Closed(t.at, {"init"}) => w.initial = d.initial
    <3> DEFINE t == templates[i]
               drawn == [k \in DOMAIN t.states |-> t.symbols[t.states[k].uid].at]
               L == written[i].locations
    <3>1. PICK z : Whole(t, z)
      BY WholeTemplates
    <3>2. L = WrittenLocations(t)
      BY DEF WrittenInv
    <3> HIDE DEF t, L
    <3>3. Lists(drawn, WithTag(Inside(t.at, Tops), "location"))
      BY <2>1, <3>1, WholeStates
    <3>4. DOMAIN L = DOMAIN drawn
      BY <3>2 DEF WrittenLocations
    <3>5. ASSUME NEW k \in DOMAIN t.states
          PROVE  LET d == DrawnLocation(t.at, drawn[k])
                     w == L[k]
                 IN  /\ w.name = d.name /\ w.flags = d.flags
                     /\ NoRates(drawn[k]) => w.invariant = d.invariant
                     /\ OwnIds(t.at) /\ Closed(t.at, {"init"}) => w.initial = d.initial
      <4> DEFINE s == t.symbols[t.states[k].uid]
                 p == s.at
                 P == Inside(p, Parts)
                 isInit == t.states[k].uid = t.init
                 drawnInit == \E q \in WithTag(Inside(t.at, Tops), "init") : document[q].id = document[p].id
                 w == L[k]
                 d == DrawnLocation(t.at, p)
      <4>1. w = [name |-> s.name, invariant |-> t.states[k].invariant, flags |-> s.flags, initial |-> isInit]
        BY <3>2 DEF WrittenLocations
      <4>2. d = [name |-> DrawnName(p), invariant |-> LastPart(OfKind(P, "invariant")),
                 flags |-> {tag \in {"urgent", "committed"} : WithTag(P, tag) # {}}, initial |-> drawnInit]
        BY DEF DrawnLocation
      <4>3. /\ s.name = DrawnName(p)
            /\ s.flags = {tag \in {"urgent", "committed"} : WithTag(P, tag) # {}}
            /\ NoRates(p) => t.states[k].invariant = LastPart(OfKind(P, "invariant"))
        <5>1. Whole(t, z) /\ k \in DOMAIN t.states
          BY <3>1
        <5> HIDE DEF drawn, isInit, drawnInit, w, d
        <5>2. s.name = DrawnName(p)
          BY ONLY <2>1, <5>1, WholeLocation
        <5>3. s.flags = {tag \in {"urgent", "committed"} : WithTag(P, tag) # {}}
          BY ONLY <2>1, <5>1, WholeLocation
        <5>4. NoRates(p) => t.states[k].invariant = LastPart(OfKind(P, "invariant"))
          BY ONLY <2>1, <5>1, WholeLocation
        <5> QED  BY <5>2, <5>3, <5>4
      <4>4. OwnIds(t.at) /\ Closed(t.at, {"init"}) => (isInit <=> drawnInit)
        BY <2>1, <3>1, WholeInit
      <4>5. drawn[k] = p
        OBVIOUS
      <4>6. isInit \in BOOLEAN /\ drawnInit \in BOOLEAN
        OBVIOUS
      <4> DEFINE flags == {tag \in {"urgent", "committed"} : WithTag(P, tag) # {}}
      <4> HIDE DEF isInit, drawnInit, flags, w, d, P
      <4>7. w.name = s.name /\ w.flags = s.flags /\ w.invariant = t.states[k].invariant /\ w.initial = isInit
        BY <4>1
      <4>8. /\ d.name = DrawnName(p) /\ d.flags = flags /\ d.invariant = LastPart(OfKind(P, "invariant"))
            /\ d.initial = drawnInit
        BY <4>2 DEF flags
      <4>9. OwnIds(t.at) /\ Closed(t.at, {"init"}) => isInit = drawnInit
        BY <4>4, <4>6
      <4>10. w.name = d.name /\ w.flags = d.flags
        BY <4>3, <4>7, <4>8 DEF flags
      <4>11. NoRates(p) => w.invariant = d.invariant
        BY <4>3, <4>7, <4>8
      <4>12. OwnIds(t.at) /\ Closed(t.at, {"init"}) => w.initial = d.initial
        BY <4>7, <4>8, <4>9, Zenon
      <4> QED  BY <4>5, <4>10, <4>11, <4>12, Zenon DEF w, d
    <3>6. DOMAIN drawn = DOMAIN t.states
      OBVIOUS
    <3> HIDE DEF drawn
    <3> QED  BY <3>3, <3>4, <3>5, <3>6, Zenon DEF t, L, drawn
  <2> QED  BY <2>2, TemplatesDrawn DEF LocationsAsDrawn
<1> QED  BY <1>1, ReadingInvariant, DrawnInvariant, WrittenInvariant, EdgesWrittenInvariant, PTL

\* An edge of a whole template is read from the elements inside of its own.
LEMMA WholeEdge ==
  ASSUME IsDocument(document), NEW t, NEW z, Whole(t, z), NEW k \in DOMAIN t.edges
  PROVE  LET e == t.edges[k]
         IN  \E stop \in 1 .. z : EdgeFits(document, t, e, stop) /\ Inside(e.at, Parts) = e.at + 1 .. stop - 1
<1> DEFINE e == t.edges[k]
           a == e.at
<1>1. z \in Nat /\ z <= Len(document) /\ Tag(z) \in Parts
  BY DEF Whole, Parts
<1>2. Len(document) \in Nat
  BY DEF IsDocument
<1>3. EdgeEnded(document, t, z, 0, k)
  BY DEF Whole, EdgesFit
<1>4. PICK stop \in 1 .. z : Ended(document, stop, 0) /\ EdgeFits(document, t, e, stop)
  BY <1>3 DEF EdgeEnded
<1>5. stop \in Nat /\ stop <= z /\ stop # 0
  BY <1>1, <1>4
<1>6. Tag(stop) \in Parts
  BY <1>4, <1>5 DEF Ended, Tag
<1>7. /\ a \in Nat /\ a + 2 < stop
      /\ document[a + 1].tag = "source" /\ document[a + 2].tag = "target"
      /\ \A q \in a + 3 .. stop - 1 : document[q].tag \in {"label", "nail"}
  BY <1>4 DEF EdgeFits
<1>8. \A q \in a + 1 .. stop - 1 : Tag(q) \notin Parts
  <2> SUFFICES ASSUME NEW q \in a + 1 .. stop - 1 PROVE Tag(q) \notin Parts
    OBVIOUS
  <2> HIDE DEF a
  <2>1. q = a + 1 \/ q = a + 2 \/ q \in a + 3 .. stop - 1
    BY <1>5, <1>7
  <2>2. document[q].tag \in {"source", "target", "label", "nail"}
    BY <1>7, <2>1
  <2> QED  BY <2>2 DEF Tag, Parts, Tops
<1> HIDE DEF a
<1>9. a < stop /\ stop <= Len(document)
  BY <1>1, <1>2, <1>5, <1>7
<1>10. Inside(a, Parts) = a + 1 .. stop - 1
  BY ONLY <1>2, <1>5, <1>6, <1>7, <1>8, <1>9, InsideIs
<1> QED  BY <1>4, <1>10 DEF a

\* What an element refers to is the location drawn with its id.
LEMMA EndDrawn ==
  ASSUME IsDocument(document), NEW t, NEW z, Whole(t, z), OwnIds(t.at),
         NEW y \in Nat, y <= z, NEW p, NEW i, Refers(document, t, y, p, i), t.symbols[i].kind = "location",
         \E q \in DrawnNodes(t.at) : document[q].id = document[p].id
  PROVE  t.symbols[i].name = DrawnName(CHOOSE q \in DrawnNodes(t.at) : document[q].id = document[p].id)
<1> DEFINE q == CHOOSE q \in DrawnNodes(t.at) : document[q].id = document[p].id
<1>1. q \in DrawnNodes(t.at) /\ document[q].id = document[p].id
  OBVIOUS
<1> HIDE DEF q
<1>2. document[q].tag \in NodeTags
  BY <1>1 DEF DrawnNodes, NodeTags, Tag
<1>3. PICK j \in DOMAIN t.symbols : t.symbols[j].at = q /\ t.symbols[j].kind = document[q].tag
  BY ONLY <1>1, WholeNodes, IsDocument(document), Whole(t, z)
<1>4. Apart(document, t.at + 1 .. z - 1)
  BY WholeNodes
<1>5. t.at \in Nat /\ z \in Nat
  BY DEF Whole
<1>6. t.at + 1 .. y - 1 \subseteq t.at + 1 .. z - 1
  BY <1>5
<1>7. Apart(document, t.at + 1 .. y - 1)
  BY ONLY <1>4, <1>6, ApartShrinks
<1>8. i = j
  BY <1>1, <1>2, <1>3, <1>7 DEF Refers
<1>9. PICK k \in DOMAIN t.states : t.states[k].uid = j
  BY <1>3, <1>8 DEF Whole, StatesOK
<1>10. t.symbols[t.states[k].uid].name = DrawnName(t.symbols[t.states[k].uid].at)
  BY WholeLocation
<1> QED  BY <1>3, <1>8, <1>9, <1>10 DEF q

\* A label is written with the value that its iterator has as drawn.
LEMMA LabelSame ==
  ASSUME NEW e, NEW stop \in Nat, e.at \in Nat, List(e.select), SelectFits(document, e, stop),
         Inside(e.at, Parts) = e.at + 1 .. stop - 1,
         NEW kind, LabelFits(document, e, kind, stop),
         NEW val, NEW v, \A j \in DOMAIN e.select : v[e.select[j].at] = val[j]
  PROVE  Instantiated(e.labels[kind], val) = DrawnLabel(e.at, LastPart(OfKind(Inside(e.at, Parts), kind)), v)
<1> DEFINE P == e.at + 1 .. stop - 1
           l == e.labels[kind]
           p == l.at
           J == {j \in DOMAIN e.select : e.select[j].at < p /\ e.select[j].name = document[p].name}
           Q == {q \in DrawnIterators(e.at, p) : document[q].name = document[p].name}
           S == Kind(document, P, "select")
           f == [j \in DOMAIN e.select |-> e.select[j].at]
<1>0. DOMAIN e.select \subseteq Nat \ {0}
  <2>1. Len(e.select) \in Nat /\ DOMAIN e.select = 1 .. Len(e.select)
    BY ListDomain
  <2> QED  BY <2>1
<1>1. P \subseteq Nat \ {0}
  <2> DEFINE a == e.at
  <2>1. a \in Nat
    OBVIOUS
  <2> HIDE DEF a
  <2>2. \A q \in a + 1 .. stop - 1 : q \in Nat \ {0}
    BY <2>1
  <2> QED  BY <2>2 DEF a
<1>2. /\ p = LastPart(Kind(document, P, kind))
      /\ IF J = {} THEN l.iterator = 0 ELSE l.iterator \in J /\ \A j \in J : j <= l.iterator
  BY DEF LabelFits
<1>3. /\ {f[j] : j \in DOMAIN f} = S
      /\ \A j, k \in DOMAIN f : j < k => f[j] < f[k]
      /\ \A j \in DOMAIN e.select : e.select[j].name = document[e.select[j].at].name
  BY DEF SelectFits, Lists
<1>4. /\ OfKind(Inside(e.at, Parts), kind) = Kind(document, P, kind)
      /\ OfKind(Inside(e.at, Parts), "select") = S
  BY DEF OfKind, WithTag, Kind, Tagged, Tag
<1>5. DrawnLabel(e.at, p, v) = [at |-> p, value |-> IF p = 0 \/ Q = {} THEN -1 ELSE v[LastPart(Q)]]
  BY DEF DrawnLabel
<1>6. Instantiated(l, val) = [at |-> p, value |-> IF l.iterator = 0 THEN -1 ELSE val[l.iterator]]
  BY DEF Instantiated
<1>7. Q = {q \in S : q < p /\ document[q].name = document[p].name}
  BY <1>4 DEF DrawnIterators
<1>8. S \subseteq P
  BY DEF Kind, Tagged
<1> HIDE DEF P, S, p, Q, J, f
<1>9. \A j \in DOMAIN e.select : f[j] = e.select[j].at /\ f[j] \in S /\ j \in DOMAIN f
  BY <1>3 DEF f
<1>10. \A q \in Q : \E j \in J : e.select[j].at = q
  <2> SUFFICES ASSUME NEW q \in Q PROVE \E j \in J : e.select[j].at = q
    OBVIOUS
  <2>1. PICK j \in DOMAIN f : f[j] = q
    BY <1>3, <1>7
  <2>2. j \in DOMAIN e.select /\ e.select[j].at = q
    BY <2>1 DEF f
  <2> QED  BY <1>3, <1>7, <2>2 DEF J
<1>11. \A j \in J : e.select[j].at \in Q
  BY <1>3, <1>7, <1>9 DEF J
<1>12. CASE J = {}
  BY <1>2, <1>4, <1>5, <1>6, <1>10, <1>12
<1>13. CASE J # {}
  <2> DEFINE i == l.iterator
             m == e.select[i].at
  <2>1. i \in J /\ i \in DOMAIN e.select /\ m \in Q
    BY <1>2, <1>11, <1>13 DEF J
  <2>2. \A q \in Q : q <= m
    <3> SUFFICES ASSUME NEW q \in Q PROVE q <= m
      OBVIOUS
    <3>1. PICK j \in J : e.select[j].at = q
      BY <1>10
    <3>2. j <= i /\ j \in DOMAIN e.select
      BY <1>2, <1>13, <3>1 DEF J
    <3>3. q \in Nat /\ m \in Nat
      BY <1>1, <1>7, <1>8, <2>1
    <3>4. CASE j = i
      BY <3>1, <3>3, <3>4
    <3>5. CASE j # i
      <4>1. f[j] < f[i]
        <5>1. DOMAIN e.select \subseteq Int
          BY <1>0
        <5>2. j < i
          BY <3>2, <3>5, <5>1, <2>1
        <5> QED  BY <1>3, <1>9, <2>1, <3>2, <5>2
      <4> QED  BY <1>9, <2>1, <3>1, <3>2, <3>3, <4>1
    <3> QED  BY <3>4, <3>5
  <2>3. Q \subseteq Nat
    BY <1>1, <1>7, <1>8
  <2> HIDE DEF m
  <2>4. LastPart(Q) = m
    BY ONLY <2>1, <2>2, <2>3, LastPartIs
  <2>5. p # 0
    <3>1. m < p /\ m \in Nat /\ m # 0
      BY <1>1, <1>7, <1>8, <2>1
    <3> QED  BY <3>1
  <2>6. i # 0
    BY <1>0, <2>1
  <2>7. v[m] = val[i]
    BY <2>1 DEF m
  <2> QED  BY <1>2, <1>4, <1>5, <1>6, <2>1, <2>4, <2>5, <2>6, <2>7
<1> QED  BY <1>12, <1>13

\* The valuations of the iterators as they are drawn.
DrawnValuations(S) == {v \in [S -> 0 .. 2] : \A p \in S : v[p] <= document[p].id}

\* They are those of the iterators that are read, by their positions.
LEMMA ValuationsSame ==
  ASSUME NEW e, NEW stop, SelectFits(document, e, stop), DOMAIN e.select \subseteq Int,
         NEW S, S = Kind(document, e.at + 1 .. stop - 1, "select"), S \subseteq Nat
  PROVE  /\ \A val \in Valuations(e.select) :
              \E v \in DrawnValuations(S) : \A j \in DOMAIN e.select : v[e.select[j].at] = val[j]
         /\ \A v \in DrawnValuations(S) :
              \E val \in Valuations(e.select) : \A j \in DOMAIN e.select : v[e.select[j].at] = val[j]
<1> DEFINE D == DOMAIN e.select
           f == [j \in D |-> e.select[j].at]
<1>1. {f[j] : j \in D} = S /\ \A a, b \in D : a < b => f[a] < f[b]
  BY DEF SelectFits, Lists
<1>2. ASSUME NEW j \in D, NEW k \in D, f[j] = f[k] PROVE j = k
  <2>1. \A a, b \in D : a < b => f[a] < f[b]
    BY <1>1
  <2>2. f[j] \in Nat /\ j \in Int /\ k \in Int
    BY <1>1
  <2> HIDE DEF f
  <2>3. ~(j < k)
    BY <1>2, <2>1, <2>2
  <2>4. ~(k < j)
    BY <1>2, <2>1, <2>2
  <2> QED  BY <2>2, <2>3, <2>4
<1>3. \A j \in D : f[j] = e.select[j].at /\ e.select[j].last = document[e.select[j].at].id
  BY DEF SelectFits
<1> HIDE DEF f
<1>4. ASSUME NEW val \in Valuations(e.select)
      PROVE  \E v \in DrawnValuations(S) : \A j \in D : v[e.select[j].at] = val[j]
  <2>1. val \in [D -> 0 .. 2] /\ \A j \in D : val[j] <= e.select[j].last
    BY DEF Valuations
  <2> DEFINE g(p) == CHOOSE j \in D : f[j] = p
             v == [p \in S |-> val[g(p)]]
  <2>2. \A p \in S : g(p) \in D /\ f[g(p)] = p
    BY <1>1
  <2>3. \A j \in D : f[j] \in S /\ g(f[j]) = j
    BY <1>1, <1>2
  <2> HIDE DEF g
  <2>4. v \in [S -> 0 .. 2]
    BY <2>1, <2>2
  <2>5. \A p \in S : v[p] <= document[p].id
    BY <1>3, <2>1, <2>2
  <2>6. \A j \in D : v[e.select[j].at] = val[j]
    BY <1>3, <2>3
  <2> QED  BY <2>4, <2>5, <2>6 DEF DrawnValuations
<1>5. ASSUME NEW v \in DrawnValuations(S)
      PROVE  \E val \in Valuations(e.select) : \A j \in D : v[e.select[j].at] = val[j]
  <2> DEFINE val == [j \in D |-> v[f[j]]]
  <2>1. v \in [S -> 0 .. 2] /\ \A p \in S : v[p] <= document[p].id
    BY DEF DrawnValuations
  <2>2. \A j \in D : f[j] \in S
    BY <1>1
  <2>3. val \in [D -> 0 .. 2]
    BY <2>1, <2>2
  <2>4. \A j \in D : val[j] <= e.select[j].last
    BY <1>3, <2>1, <2>2
  <2>5. \A j \in D : v[e.select[j].at] = val[j]
    BY <1>3
  <2> QED  BY <2>3, <2>4, <2>5 DEF Valuations
<1> QED  BY <1>4, <1>5

\* An edge is written once for each valuation that is drawn, between the
\* locations and with the labels that are drawn.
LEMMA EdgeDrawn ==
  ASSUME IsDocument(document), NEW t, NEW z, Whole(t, z), NEW k \in DOMAIN t.edges, ~Fatal(t, k),
         OwnIds(t.at), Closed(t.at, {"source", "target"})
  PROVE  {[src |-> f.src, dst |-> f.dst, labels |-> f.labels] : f \in WrittenEdges(t, k)}
           = DrawnEdges(t.at, t.edges[k].at)
<1> DEFINE e == t.edges[k]
           P == Inside(e.at, Parts)
           S == OfKind(P, "select")
           Ref(tag) == CHOOSE p \in P : Tag(p) = tag
           EndOf(tag) == DrawnName(CHOOSE p \in DrawnNodes(t.at) : document[p].id = document[Ref(tag)].id)
           Labels(v) == [kind \in LabelKinds |-> DrawnLabel(e.at, LastPart(OfKind(P, kind)), v)]
           Record(val) == [src |-> t.symbols[e.src].name, dst |-> t.symbols[e.dst].name,
                           labels |-> [kind \in DOMAIN e.labels |-> Instantiated(e.labels[kind], val)]]
           Drawn(v) == [src |-> EndOf("source"), dst |-> EndOf("target"), labels |-> Labels(v)]
           V == Valuations(e.select)
<1>1. PICK stop \in 1 .. z : EdgeFits(document, t, e, stop) /\ P = e.at + 1 .. stop - 1
  BY WholeEdge
<1>2. {[src |-> f.src, dst |-> f.dst, labels |-> f.labels] : f \in WrittenEdges(t, k)} = {Record(val) : val \in V}
  <2> DEFINE Long(val) == [edge |-> k, src |-> t.symbols[e.src].name, dst |-> t.symbols[e.dst].name, val |-> val,
                           labels |-> [kind \in DOMAIN e.labels |-> Instantiated(e.labels[kind], val)]]
             Short(f) == [src |-> f.src, dst |-> f.dst, labels |-> f.labels]
  <2>1. WrittenEdges(t, k) = {Long(val) : val \in V}
    BY DEF WrittenEdges
  <2>2. \A val : Short(Long(val)) = Record(val)
    OBVIOUS
  <2> HIDE DEF Long, Record, V
  <2> QED  BY <2>1, <2>2
<1>3. DrawnEdges(t.at, e.at) = {Drawn(v) : v \in DrawnValuations(S)}
  BY DEF DrawnEdges, DrawnValuations, LabelKinds
<1>4. /\ e.at \in Nat /\ e.at + 2 < stop /\ stop \in Nat /\ stop <= z /\ z \in Nat
      /\ document[e.at + 1].tag = "source" /\ document[e.at + 2].tag = "target"
      /\ \A q \in e.at + 3 .. stop - 1 : document[q].tag \in {"label", "nail"}
      /\ Refers(document, t, e.at, e.at + 1, e.src) /\ Refers(document, t, e.at, e.at + 2, e.dst)
  BY <1>1 DEF EdgeFits, Whole
<1>5. /\ List(e.select) /\ SelectFits(document, e, stop)
      /\ DOMAIN e.labels = LabelKinds /\ \A kind \in LabelKinds : LabelFits(document, e, kind, stop)
  BY <1>1 DEF EdgeFits
<1>6. Ref("source") = e.at + 1 /\ Ref("target") = e.at + 2
  <2> DEFINE a == e.at
  <2> HIDE DEF a
  <2>1. \A q \in a + 1 .. stop - 1 : q = a + 1 \/ q = a + 2 \/ q \in a + 3 .. stop - 1
    BY <1>4 DEF a
  <2>2. a + 1 \in a + 1 .. stop - 1 /\ a + 2 \in a + 1 .. stop - 1
    BY <1>4 DEF a
  <2>3. P = a + 1 .. stop - 1 /\ Tag(a + 1) = "source" /\ Tag(a + 2) = "target"
    BY <1>1, <1>4 DEF a, Tag
  <2>4. \A q \in a + 3 .. stop - 1 : Tag(q) \in {"label", "nail"}
    BY <1>4 DEF a, Tag
  <2> HIDE DEF P
  <2>5. \A q \in P : (Tag(q) = "source" <=> q = a + 1) /\ (Tag(q) = "target" <=> q = a + 2)
    <3> SUFFICES ASSUME NEW q \in P
                 PROVE  (Tag(q) = "source" <=> q = a + 1) /\ (Tag(q) = "target" <=> q = a + 2)
      OBVIOUS
    <3>1. CASE q = a + 1
      <4>1. a + 1 # a + 2
        BY <1>4 DEF a
      <4> QED  BY <2>3, <3>1, <4>1
    <3>2. CASE q = a + 2
      <4>1. a + 1 # a + 2
        BY <1>4 DEF a
      <4> QED  BY <2>3, <3>2, <4>1
    <3>3. CASE q # a + 1 /\ q # a + 2
      <4>1. Tag(q) \in {"label", "nail"}
        BY <2>1, <2>3, <2>4, <3>3
      <4> QED  BY <3>3, <4>1
    <3> QED  BY <3>1, <3>2, <3>3
  <2>6. \E q \in P : Tag(q) = "source"
    BY <2>2, <2>3
  <2>7. \E q \in P : Tag(q) = "target"
    BY <2>2, <2>3
  <2>8. Ref("source") = a + 1
    BY <2>5, <2>6
  <2>9. Ref("target") = a + 2
    BY <2>5, <2>7
  <2> QED  BY <2>8, <2>9 DEF a
<1>7. ASSUME V # {} PROVE t.symbols[e.src].name = EndOf("source") /\ t.symbols[e.dst].name = EndOf("target")
  <2>1. t.symbols[e.src].kind = "location" /\ t.symbols[e.dst].kind = "location"
    BY <1>7 DEF Fatal
  <2>2. e.at + 1 \in Inside(t.at, Tops) /\ e.at + 2 \in Inside(t.at, Tops)
    <3> DEFINE a == e.at
               b == t.at
    <3>1. a \in Tagged(document, b + 1 .. z - 1, "transition")
      <4>1. EdgesListed(document, t, z)
        BY DEF Whole, EdgesFit
      <4> DEFINE f == [j \in DOMAIN t.edges |-> t.edges[j].at]
      <4>2. f[k] \in {f[j] : j \in DOMAIN f} /\ f[k] = a
        OBVIOUS
      <4> HIDE DEF f
      <4> QED  BY <4>1, <4>2 DEF EdgesListed, Lists, f
    <3>2. a \in b + 1 .. z - 1 /\ b \in Nat
      BY <3>1 DEF Tagged, Whole
    <3>3. Inside(b, Tops) = b + 1 .. z - 1
      BY WholeNodes
    <3>4. a \in Nat /\ a + 2 < stop
      BY <1>4
    <3> HIDE DEF a, b
    <3>5. a + 1 \in b + 1 .. z - 1 /\ a + 2 \in b + 1 .. z - 1
      BY <1>4, <3>2, <3>4
    <3> QED  BY <3>3, <3>5 DEF a, b
  <2>3. /\ \E q \in DrawnNodes(t.at) : document[q].id = document[e.at + 1].id
        /\ \E q \in DrawnNodes(t.at) : document[q].id = document[e.at + 2].id
    BY <1>4, <2>2 DEF Closed, Tag
  <2>4. e.at <= z
    <3> DEFINE a == e.at
    <3>1. a \in Nat /\ a + 2 < stop
      BY <1>4
    <3> HIDE DEF a
    <3>2. stop \in Nat /\ z \in Nat /\ stop <= z
      BY <1>4
    <3>3. a <= z
      BY ONLY <3>1, <3>2
    <3> QED  BY <3>3 DEF a
  <2>5. t.symbols[e.src].name = DrawnName(CHOOSE q \in DrawnNodes(t.at) : document[q].id = document[e.at + 1].id)
    BY <1>4, <2>1, <2>3, <2>4, EndDrawn
  <2>6. t.symbols[e.dst].name = DrawnName(CHOOSE q \in DrawnNodes(t.at) : document[q].id = document[e.at + 2].id)
    BY <1>4, <2>1, <2>3, <2>4, EndDrawn
  <2> HIDE DEF Ref
  <2> QED  BY <1>6, <2>5, <2>6
<1>8. ASSUME NEW val \in V, NEW v, \A j \in DOMAIN e.select : v[e.select[j].at] = val[j]
      PROVE  Record(val) = Drawn(v)
  <2>1. \A kind \in LabelKinds : Instantiated(e.labels[kind], val) = DrawnLabel(e.at, LastPart(OfKind(P, kind)), v)
    <3> SUFFICES ASSUME NEW kind \in LabelKinds
                 PROVE  Instantiated(e.labels[kind], val) = DrawnLabel(e.at, LastPart(OfKind(P, kind)), v)
      OBVIOUS
    <3>1. LabelFits(document, e, kind, stop)
      BY <1>5
    <3> HIDE DEF e
    <3> QED  BY ONLY <1>1, <1>4, <1>5, <1>8, <3>1, LabelSame
  <2>2. [kind \in DOMAIN e.labels |-> Instantiated(e.labels[kind], val)] = Labels(v)
    BY <1>5, <2>1
  <2> HIDE DEF Labels, EndOf, V
  <2> QED  BY <1>7, <2>2
<1>9. /\ \A val \in V : \E v \in DrawnValuations(S) : \A j \in DOMAIN e.select : v[e.select[j].at] = val[j]
      /\ \A v \in DrawnValuations(S) : \E val \in V : \A j \in DOMAIN e.select : v[e.select[j].at] = val[j]
  <2>1. S = Kind(document, e.at + 1 .. stop - 1, "select")
    BY <1>1 DEF OfKind, WithTag, Kind, Tagged, Tag
  <2>2. S \subseteq Nat
    <3> DEFINE a == e.at
    <3>1. a \in Nat
      BY <1>4
    <3> HIDE DEF a
    <3>2. \A q \in a + 1 .. stop - 1 : q \in Nat
      BY <1>4, <3>1
    <3> QED  BY <2>1, <3>2 DEF Kind, Tagged, a
  <2>3. DOMAIN e.select \subseteq Int
    <3>1. Len(e.select) \in Nat /\ DOMAIN e.select = 1 .. Len(e.select)
      BY <1>5, ListDomain
    <3> QED  BY <3>1
  <2>4. SelectFits(document, e, stop)
    BY <1>5
  <2> HIDE DEF S, e
  <2> QED  BY ONLY <2>1, <2>2, <2>3, <2>4, ValuationsSame
<1> HIDE DEF Record, Drawn, V, S
<1>10. {Record(val) : val \in V} = {Drawn(v) : v \in DrawnValuations(S)}
  BY <1>8, <1>9
<1> QED  BY <1>2, <1>3, <1>10

\* Processes are written with the transitions that are drawn.  Every edge that
\* is written is one of the template's, and these were read each from an element
\* of its own; that the elements end where the next ones start, and that a node
\* is the only one of its id, is what the invariant says of them.
THEOREM EdgesDrawn == Spec => []EdgesAsDrawn
<1>1. ReadingInv /\ DrawnInv /\ WrittenInv /\ EdgesWritten => EdgesAsDrawn
  <2> SUFFICES ASSUME ReadingInv, DrawnInv, WrittenInv, EdgesWritten, NEW i \in DOMAIN written
               PROVE  LET t == templates[i]
                          drawn == [k \in DOMAIN t.edges |-> t.edges[k].at]
                          Of(k) == {[src |-> e.src, dst |-> e.dst, labels |-> e.labels] :
                                      e \in {f \in written[i].edges : f.edge = k}}
                      IN  /\ Lists(drawn, WithTag(Inside(t.at, Tops), "transition"))
                          /\ {e.edge : e \in written[i].edges} \subseteq DOMAIN drawn
                          /\ OwnIds(t.at) /\ Closed(t.at, {"source", "target"}) =>
                               \A k \in DOMAIN drawn : Of(k) = DrawnEdges(t.at, drawn[k])
    BY DEF EdgesAsDrawn
  <2> DEFINE t == templates[i]
             drawn == [k \in DOMAIN t.edges |-> t.edges[k].at]
             W == written[i].edges
             Of(k) == {[src |-> e.src, dst |-> e.dst, labels |-> e.labels] : e \in {f \in W : f.edge = k}}
  <2>1. IsDocument(document)
    BY DEF ReadingInv, PositionOK
  <2>2. PICK z : Whole(t, z)
    BY WholeTemplates
  <2>3. W = UNION {WrittenEdges(t, k) : k \in DOMAIN t.edges} /\ \A k \in DOMAIN t.edges : ~Fatal(t, k)
    BY DEF EdgesWritten
  <2> HIDE DEF t, W
  <2>4. Lists(drawn, WithTag(Inside(t.at, Tops), "transition"))
    <3>1. Lists(drawn, Tagged(document, t.at + 1 .. z - 1, "transition"))
      BY <2>2 DEF Whole, EdgesFit, EdgesListed
    <3>2. Inside(t.at, Tops) = t.at + 1 .. z - 1
      BY <2>1, <2>2, WholeNodes
    <3> QED  BY <3>1, <3>2 DEF Tagged, WithTag, Tag
  <2>5. \A k : \A f \in WrittenEdges(t, k) : f.edge = k
    BY DEF WrittenEdges
  <2>6. {e.edge : e \in W} \subseteq DOMAIN drawn
    BY <2>3, <2>5
  <2>7. ASSUME OwnIds(t.at), Closed(t.at, {"source", "target"}), NEW k \in DOMAIN t.edges
        PROVE  Of(k) = DrawnEdges(t.at, drawn[k])
    <3>1. {f \in W : f.edge = k} = WrittenEdges(t, k)
      BY <2>3, <2>5
    <3>2. {[src |-> f.src, dst |-> f.dst, labels |-> f.labels] : f \in WrittenEdges(t, k)}
            = DrawnEdges(t.at, t.edges[k].at)
      BY <2>1, <2>2, <2>3, <2>7, EdgeDrawn
    <3> QED  BY <3>1, <3>2
  <2>8. DOMAIN drawn = DOMAIN t.edges
    OBVIOUS
  <2> HIDE DEF drawn, Of
  <2> QED  BY <2>4, <2>6, <2>7, <2>8, Zenon DEF t, W, drawn, Of
<1> QED  BY <1>1, ReadingInvariant, DrawnInvariant, WrittenInvariant, EdgesWrittenInvariant, PTL
=============================================================================
