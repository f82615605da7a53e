---------------------------- MODULE InstancesProofs ----------------------------
(***************************************************************************)
(* What the translation takes for granted of the systems it is given: each *)
(* process has an argument or a value for each of its parameters, and the  *)
(* edges and IO sections use one kind of synchronisation.  Both hold       *)
(* however many lines, processes, labels and sections there are.           *)
(***************************************************************************)
EXTENDS Instances, ListLemmas, FiniteSetTheorems

-----------------------------------------------------------------------------
(***************************************************************************)
(* Parameters and arguments.                                               *)
(***************************************************************************)
\* The parameters of an instance differ, those left free come first, and the
\* others have arguments.
InstanceOK(inst) ==
  /\ IsParameters(inst.params)
  /\ inst.unbound \in 0 .. Len(inst.params)
  /\ DOMAIN inst.mapping = {inst.params[k] : k \in inst.unbound + 1 .. Len(inst.params)}

\* A parameter is declared by the template or by a line, each once.
Declared(s) ==
  \/ s \in Elements(model.templ.params)
  \/ \E name \in DOMAIN Offered : /\ Named(name) # {}
                                  /\ \E params \in Offered[name].params : s \in Elements(params)

\* The strengthening: every symbol of the frame is such an instance, and its
\* parameters are declared, so that those of the next line differ from them.
FrameOK ==
  /\ List(frame)
  /\ \A i \in DOMAIN frame : /\ InstanceOK(frame[i].inst)
                             /\ \A s \in Elements(frame[i].inst.params) : Declared(s)

ProcessesOK == List(processes) /\ \A i \in DOMAIN processes : InstanceOK(processes[i])

ArgumentsInv == model \in Models /\ FrameOK /\ ProcessesOK

\* Parameters of a list.
LEMMA ParametersList == ASSUME NEW P, IsParameters(P) PROVE List(P) /\ Len(P) \in Nat /\ DOMAIN P = 1 .. Len(P)
<1>1. List(P)
  BY DEF IsParameters, Elements, List, Range
<1> QED  BY <1>1, ListDomain

\* A name that is in the frame is resolved to a symbol of the frame.
LEMMA ResolveFinds ==
  ASSUME FrameOK, NEW name, Named(name) # {}
  PROVE  \E i \in DOMAIN frame : Resolve(name) = frame[i] /\ frame[i].name = name
<1>1. Len(frame) \in Nat /\ Named(name) \subseteq 1 .. Len(frame)
  BY ListDomain DEF FrameOK, Named
<1>2. \E i \in Named(name) : \A j \in Named(name) : j <= i
  BY <1>1, LastPosition
<1> QED  BY <1>2 DEF Resolve, Named

\* The arguments of a line are a sequence.
LEMMA ArgumentList ==
  ASSUME NEW n \in Nat, NEW S, NEW list \in {<<>>, <<Lit(1), Lit(1), Lit(1)>>} \cup [1 .. n -> S]
  PROVE  DOMAIN list = 1 .. Len(list)
<1>1. CASE list \in [1 .. n -> S]
  <2>1. list \in Seq(S)
    BY <1>1
  <2> QED  BY <2>1
<1>2. CASE list \in {<<>>, <<Lit(1), Lit(1), Lit(1)>>}
  BY <1>2
<1> QED  BY <1>1, <1>2

\* An instantiation with an argument for each parameter left free has arguments
\* for all parameters of its target.
LEMMA InstanceAdded ==
  ASSUME NEW inst, InstanceOK(inst), NEW params, IsParameters(params),
         Elements(params) \cap Elements(inst.params) = {},
         NEW args, DOMAIN args = 1 .. inst.unbound, NEW name
  PROVE  /\ InstanceOK(AddInstance(name, inst, params, args))
         /\ Elements(AddInstance(name, inst, params, args).params) = Elements(params) \cup Elements(inst.params)
<1> DEFINE new == AddInstance(name, inst, params, args)
           P == params \o inst.params
           m == Len(params)
           n == Len(inst.params)
<1>1. new.params = P /\ new.unbound = m /\ new.mapping = MappingOf(inst, args)
  BY DEF AddInstance, ParametersOf
<1> HIDE DEF new
<1>2. /\ List(params) /\ m \in Nat /\ DOMAIN params = 1 .. m
      /\ List(inst.params) /\ n \in Nat /\ DOMAIN inst.params = 1 .. n
  BY ParametersList DEF InstanceOK
<1>3. /\ List(P) /\ Len(P) = m + n
      /\ \A i \in 1 .. m : P[i] = params[i]
      /\ \A i \in 1 .. n : P[m + i] = inst.params[i]
  BY <1>2, ListConcat
<1>4. DOMAIN P = 1 .. m + n
  BY <1>2, <1>3, ListDomain
<1> HIDE DEF P
<1>5. ASSUME NEW i \in m + 1 .. m + n PROVE i - m \in 1 .. n /\ P[i] = inst.params[i - m]
  <2>1. i - m \in 1 .. n /\ m + (i - m) = i
    BY <1>2
  <2> QED  BY <1>3, <2>1
<1>6. ASSUME NEW i \in DOMAIN P, NEW j \in DOMAIN P, P[i] = P[j] PROVE i = j
  <2>1. CASE i <= m /\ j <= m
    <3>1. i \in 1 .. m /\ j \in 1 .. m
      BY <1>2, <1>4, <2>1
    <3> QED  BY <1>2, <1>3, <1>6, <3>1 DEF IsParameters
  <2>2. CASE ~(i <= m) /\ ~(j <= m)
    <3>1. i \in m + 1 .. m + n /\ j \in m + 1 .. m + n
      BY <1>2, <1>4, <2>2
    <3>2. inst.params[i - m] = inst.params[j - m] /\ i - m \in DOMAIN inst.params /\ j - m \in DOMAIN inst.params
      BY <1>2, <1>5, <1>6, <3>1
    <3>3. i - m = j - m
      BY <3>2 DEF IsParameters, InstanceOK
    <3> QED  BY <1>2, <3>1, <3>3
  <2>3. ASSUME NEW k \in DOMAIN P, NEW l \in DOMAIN P, k <= m, ~(l <= m) PROVE P[k] # P[l]
    <3>1. k \in 1 .. m /\ l \in m + 1 .. m + n
      BY <1>2, <1>4, <2>3
    <3>2. P[k] \in Elements(params) /\ P[l] \in Elements(inst.params)
      BY <1>2, <1>3, <1>5, <3>1 DEF Elements
    <3> QED  BY <3>2
  <2> QED  BY <1>6, <2>1, <2>2, <2>3
<1>7. IsParameters(P)
  BY <1>3, <1>6 DEF IsParameters, Elements, List, Range
<1>8. ASSUME NEW s PROVE s \in Elements(inst.params) <=> \E i \in m + 1 .. m + n : P[i] = s
  <2>1. ASSUME NEW i \in 1 .. n PROVE m + i \in m + 1 .. m + n
    BY <1>2
  <2>2. s \in Elements(inst.params) => \E i \in m + 1 .. m + n : P[i] = s
    <3>1. s \in Elements(inst.params) => \E i \in 1 .. n : inst.params[i] = s
      BY <1>2 DEF Elements
    <3> QED  BY <1>3, <2>1, <3>1
  <2>3. ASSUME NEW i \in m + 1 .. m + n, P[i] = s PROVE s \in Elements(inst.params)
    BY <1>2, <1>5, <2>3 DEF Elements
  <2> QED  BY <2>2, <2>3
<1>9. Elements(P) = Elements(params) \cup Elements(inst.params)
  <2>1. ASSUME NEW s PROVE s \in Elements(P) <=> s \in Elements(params) \cup Elements(inst.params)
    <3>1. s \in Elements(params) <=> \E i \in 1 .. m : P[i] = s
      BY <1>2, <1>3 DEF Elements
    <3>2. 1 .. m + n = (1 .. m) \cup (m + 1 .. m + n)
      BY <1>2
    <3> QED  BY <1>4, <1>8, <3>1, <3>2 DEF Elements
  <2> QED  BY <2>1
<1>10. DOMAIN MappingOf(inst, args) = Elements(inst.params)
  <2>1. DOMAIN MappingOf(inst, args) = DOMAIN inst.mapping \cup {inst.params[i] : i \in DOMAIN args}
    BY DEF MappingOf
  <2>2. 1 .. n = (1 .. inst.unbound) \cup (inst.unbound + 1 .. n)
    BY <1>2 DEF InstanceOK
  <2> QED  BY <1>2, <2>1, <2>2 DEF InstanceOK, Elements
<1>11. Elements(inst.params) = {P[k] : k \in m + 1 .. m + n}
  BY <1>8
<1>12. m \in 0 .. m + n
  BY <1>2
<1> QED  BY <1>1, <1>3, <1>7, <1>9, <1>10, <1>11, <1>12 DEF InstanceOK, new

\* The parameters of a new line differ from those of the instances before it.
LEMMA ParametersNew ==
  ASSUME model \in Models, FrameOK, NEW name \in DOMAIN Offered, Named(name) = {},
         NEW params \in Offered[name].params, NEW i \in DOMAIN frame
  PROVE  IsParameters(params) /\ Elements(params) \cap Elements(frame[i].inst.params) = {}
<1>1. IsParameters(params) /\ Elements(params) \cap Elements(model.templ.params) = {}
  BY ModelsAssumption
<1>2. ASSUME NEW s \in Elements(params), s \in Elements(frame[i].inst.params) PROVE FALSE
  <2>1. Declared(s)
    BY <1>2 DEF FrameOK
  <2>2. PICK other \in DOMAIN Offered : /\ Named(other) # {}
                                        /\ \E others \in Offered[other].params : s \in Elements(others)
    BY <1>1, <1>2, <2>1 DEF Declared
  <2>3. other \in DOMAIN Offered \ {name}
    BY <2>2
  <2> QED  BY <1>2, <2>2, <2>3, ModelsAssumption
<1> QED  BY <1>1, <1>2

\* What is named or declared stays so when a symbol is added to the frame.
LEMMA StayNamed ==
  ASSUME FrameOK, NEW e, frame' = Append(frame, e), UNCHANGED model
  PROVE  /\ List(frame') /\ DOMAIN frame' = DOMAIN frame \cup {Len(frame) + 1}
         /\ \A i \in DOMAIN frame : frame'[i] = frame[i]
         /\ frame'[Len(frame) + 1] = e
         /\ \A name : Named(name) # {} => Named(name)' # {}
         /\ Named(e.name)' # {}
         /\ \A s : Declared(s) => Declared(s)'
<1>1. List(frame) /\ Len(frame) \in Nat /\ DOMAIN frame = 1 .. Len(frame)
  BY ListDomain DEF FrameOK
<1>2. /\ List(frame') /\ DOMAIN frame' = 1 .. Len(frame) + 1
      /\ \A i \in DOMAIN frame : frame'[i] = frame[i]
      /\ frame'[Len(frame) + 1] = e
  BY <1>1, ListAppend
<1>3. DOMAIN frame' = DOMAIN frame \cup {Len(frame) + 1}
  BY <1>1, <1>2
<1>4. ASSUME NEW name, Named(name) # {} PROVE Named(name)' # {}
  BY <1>2, <1>3, <1>4 DEF Named
<1>5. Named(e.name)' # {}
  BY <1>2, <1>3 DEF Named
<1>6. ASSUME NEW s, Declared(s) PROVE Declared(s)'
  BY <1>4, <1>6 DEF Declared
<1> QED  BY <1>2, <1>3, <1>4, <1>5, <1>6

\* A symbol that is added with the parameters of an instance.
LEMMA FrameExtended ==
  ASSUME FrameOK, NEW e, frame' = Append(frame, e), UNCHANGED model, InstanceOK(e.inst),
         \A s \in Elements(e.inst.params) : Declared(s)'
  PROVE  FrameOK'
<1>1. ASSUME NEW i \in DOMAIN frame'
      PROVE  InstanceOK(frame'[i].inst) /\ \A s \in Elements(frame'[i].inst.params) : Declared(s)'
  BY StayNamed DEF FrameOK
<1>2. List(frame')
  BY StayNamed
<1> QED  BY <1>1, <1>2 DEF FrameOK, InstanceOK

\* A line, whether it is refused or not, leaves such a frame.
LEMMA InstantiateKeeps ==
  ASSUME ArgumentsInv, NEW name \in DOMAIN Offered, NEW target, Named(target) # {},
         NEW params \in Offered[name].params, NEW args, NEW S,
         args \in {<<>>, <<Lit(1), Lit(1), Lit(1)>>} \cup [1 .. Resolve(target).inst.unbound -> S],
         Instantiate(name, target, params, args)
  PROVE  FrameOK'
<1> DEFINE t == Resolve(target)
           new == AddInstance(name, t.inst, params, args)
           e == [name |-> name, kind |-> "INSTANCE", inst |-> new]
           well == /\ Named(name) = {} /\ Named(target) # {}
                   /\ t.kind = "INSTANCE" /\ Len(args) = t.inst.unbound
<1>1. /\ UNCHANGED model
      /\ \/ frame' = frame
         \/ frame' = Append(frame, e) /\ Named(name) = {} /\ Len(args) = t.inst.unbound
  <2>1. UNCHANGED model /\ frame' = IF well THEN Append(frame, e) ELSE frame
    BY DEF Instantiate
  <2>2. well => Named(name) = {} /\ Len(args) = t.inst.unbound
    OBVIOUS
  <2> HIDE DEF e, t, well
  <2> QED  BY <2>1, <2>2
<1> HIDE DEF well
<1>2. CASE frame' = frame
  BY <1>1, <1>2 DEF ArgumentsInv, FrameOK, Declared, Named
<1>3. CASE frame' = Append(frame, e) /\ Named(name) = {} /\ Len(args) = t.inst.unbound
  <2>1. PICK i \in DOMAIN frame : t = frame[i]
    BY ResolveFinds DEF ArgumentsInv
  <2>2. InstanceOK(t.inst) /\ t.inst.unbound \in Nat
    BY <2>1, ParametersList DEF ArgumentsInv, FrameOK, InstanceOK
  <2>3. DOMAIN args = 1 .. t.inst.unbound
    BY <1>3, <2>2, ArgumentList
  <2>4. IsParameters(params) /\ Elements(params) \cap Elements(t.inst.params) = {}
    BY <1>3, <2>1, ParametersNew DEF ArgumentsInv
  <2> HIDE DEF t
  <2>5. InstanceOK(new) /\ Elements(new.params) = Elements(params) \cup Elements(t.inst.params)
    BY <2>2, <2>3, <2>4, InstanceAdded
  <2> HIDE DEF new
  <2>6. e.name = name /\ e.inst = new
    OBVIOUS
  <2> HIDE DEF e
  <2>7. ASSUME NEW s \in Elements(new.params) PROVE Declared(s)'
    <3>1. CASE s \in Elements(t.inst.params)
      <4>1. Declared(s)
        BY <2>1, <3>1 DEF ArgumentsInv, FrameOK
      <4> QED  BY <1>1, <1>3, <4>1, StayNamed DEF ArgumentsInv
    <3>2. CASE s \in Elements(params)
      <4>1. Named(name)' # {}
        BY <1>1, <1>3, <2>6, StayNamed DEF ArgumentsInv
      <4> QED  BY <3>2, <4>1 DEF Declared
    <3> QED  BY <2>5, <2>7, <3>1, <3>2
  <2> QED  BY <1>1, <1>3, <2>5, <2>6, <2>7, FrameExtended DEF ArgumentsInv
<1> QED  BY <1>1, <1>2, <1>3

\* A name of the system line leaves such a frame, and a process with all its arguments.
LEMMA ProcessKeeps ==
  ASSUME ArgumentsInv, NEW name, Process(name)
  PROVE  FrameOK' /\ ProcessesOK'
<1> DEFINE s == Resolve(name)
           e == [s EXCEPT !.kind = ProcessKind(s.inst)]
<1>1. /\ UNCHANGED model /\ Named(name) # {}
      /\ \/ frame' = frame /\ processes' = processes
         \/ frame' = Append(frame, e) /\ processes' = Append(processes, s.inst)
  BY DEF Process
<1>2. CASE frame' = frame /\ processes' = processes
  BY <1>1, <1>2 DEF ArgumentsInv, FrameOK, Declared, Named, ProcessesOK
<1>3. CASE frame' = Append(frame, e) /\ processes' = Append(processes, s.inst)
  <2>1. PICK i \in DOMAIN frame : s = frame[i]
    BY <1>1, ResolveFinds DEF ArgumentsInv
  <2> HIDE DEF s
  <2>2. InstanceOK(s.inst) /\ \A x \in Elements(s.inst.params) : Declared(x)
    BY <2>1 DEF ArgumentsInv, FrameOK
  <2>3. e.inst = s.inst
    OBVIOUS
  <2> HIDE DEF e
  <2>4. \A x \in Elements(e.inst.params) : Declared(x)'
    BY <1>1, <1>3, <2>2, <2>3, StayNamed DEF ArgumentsInv
  <2>5. FrameOK'
    BY <1>1, <1>3, <2>2, <2>3, <2>4, FrameExtended DEF ArgumentsInv
  <2>6. List(processes) /\ List(processes') /\ DOMAIN processes' = 1 .. Len(processes) + 1
    BY <1>3, ListAppend DEF ArgumentsInv, ProcessesOK
  <2>7. ASSUME NEW k \in DOMAIN processes' PROVE InstanceOK(processes'[k])
    BY <1>3, <2>2, <2>6, ListAppend, ListDomain DEF ArgumentsInv, ProcessesOK
  <2> QED  BY <2>5, <2>6, <2>7 DEF ProcessesOK, InstanceOK
<1> QED  BY <1>1, <1>2, <1>3

\* Every step keeps frame and processes so; those after the parser do not change them.
LEMMA ArgumentsStep == ArgumentsInv /\ [Next]_vars => ArgumentsInv'
<1> SUFFICES ASSUME ArgumentsInv, [Next]_vars PROVE ArgumentsInv'
  OBVIOUS
<1>1. ASSUME NEW name \in DOMAIN Offered, NEW target \in {model.templ.name} \cup DOMAIN Offered,
             NEW params \in Offered[name].params, Named(target) # {}, NEW S,
             NEW list \in {<<>>, <<Lit(1), Lit(1), Lit(1)>>} \cup [1 .. Resolve(target).inst.unbound -> S],
             Instantiate(name, target, params, list)
      PROVE  ArgumentsInv'
  <2>1. FrameOK'
    BY <1>1, InstantiateKeeps
  <2>2. model' = model /\ processes' = processes
    BY <1>1 DEF Instantiate
  <2> QED  BY <2>1, <2>2 DEF ArgumentsInv, ProcessesOK
<1>2. ASSUME NEW name, Process(name) PROVE ArgumentsInv'
  <2>1. model' = model
    BY <1>2 DEF Process
  <2> QED  BY <1>2, <2>1, ProcessKeeps DEF ArgumentsInv
<1>3. CASE UNCHANGED <<model, frame, processes>>
  BY <1>3 DEF ArgumentsInv, FrameOK, Declared, Named, ProcessesOK
<1>4. CASE EndParse \/ VisitEdge \/ VisitSymbol \/ VisitSection \/ EndCheck \/ TranslateProcess
  BY <1>3, <1>4 DEF EndParse, VisitEdge, VisitSymbol, VisitSection, EndCheck, TranslateProcess
<1>5. CASE UNCHANGED vars
  BY <1>3, <1>5 DEF vars
<1> QED  BY <1>1, <1>2, <1>4, <1>5 DEF Next

\* At first there is the template, which has no arguments.
LEMMA ArgumentsInit == Init => ArgumentsInv
<1> SUFFICES ASSUME Init PROVE ArgumentsInv
  OBVIOUS
<1> DEFINE P == model.templ.params
           inst == TemplateInstance(model.templ)
<1>1. model \in Models /\ IsParameters(P)
  BY ModelsAssumption DEF Init, IsModel
<1>2. inst.params = P /\ inst.unbound = Len(P) /\ DOMAIN inst.mapping = {}
  BY EmptyList DEF TemplateInstance
<1> DEFINE e == [name |-> model.templ.name, kind |-> "INSTANCE", inst |-> inst]
<1>3. frame = <<e>> /\ processes = <<>> /\ e.inst = inst
  BY DEF Init
<1> HIDE DEF inst, e
<1>4. List(frame) /\ DOMAIN frame = {1} /\ frame[1].inst = inst
  <2>1. <<e>> \in Seq({e}) /\ DOMAIN <<e>> = {1} /\ <<e>>[1] = e
    OBVIOUS
  <2> QED  BY <1>3, <2>1, SeqIsList
<1>5. Len(P) \in Nat
  BY <1>1, ParametersList
<1>6. Len(P) \in 0 .. Len(P) /\ Len(P) + 1 .. Len(P) = {}
  BY <1>5
<1>7. InstanceOK(inst)
  BY <1>1, <1>2, <1>6 DEF InstanceOK
<1> QED  BY <1>1, <1>2, <1>3, <1>4, <1>7, EmptyList DEF ArgumentsInv, FrameOK, ProcessesOK, Declared

\* Frame and processes are so in every state.
LEMMA ArgumentsInvariance == Spec => []ArgumentsInv
BY ArgumentsInit, ArgumentsStep, PTL DEF Spec

\* The arguments of the parameters that are not free are as many as these.
LEMMA ArgumentsCount ==
  ASSUME NEW inst, InstanceOK(inst)
  PROVE  /\ Cardinality(DOMAIN inst.mapping) + inst.unbound = Len(inst.params)
         /\ DOMAIN inst.mapping \cup {inst.params[k] : k \in 1 .. inst.unbound} = Elements(inst.params)
<1> DEFINE P == inst.params
           u == inst.unbound
           n == Len(P)
           S == u + 1 .. n
           T == {P[k] : k \in S}
           f == [k \in S |-> P[k]]
<1>1. n \in Nat /\ DOMAIN P = 1 .. n /\ u \in 0 .. n
  BY ParametersList DEF InstanceOK
<1>2. \A i, j \in DOMAIN P : P[i] = P[j] => i = j
  BY DEF InstanceOK, IsParameters
<1>3. DOMAIN inst.mapping = T
  BY DEF InstanceOK
<1>4. S \subseteq DOMAIN P /\ 1 .. n = S \cup (1 .. u)
  BY <1>1
<1>5. IsFiniteSet(S) /\ Cardinality(S) = n - u
  <2>1. u + 1 \in Int /\ n \in Int /\ (u + 1 > n => n - u = 0) /\ n - (u + 1) + 1 = n - u
    BY <1>1
  <2> QED  BY <2>1, FS_Interval
<1>6. Cardinality(T) = Cardinality(S)
  <2> HIDE DEF S, P
  <2>1. f \in Surjection(S, T) /\ f \in Injection(S, T)
    BY <1>2, <1>4 DEF Surjection, Injection, IsInjective
  <2> QED  BY <1>5, <2>1, FS_Surjection
<1>7. T \cup {P[k] : k \in 1 .. u} = Elements(P)
  BY <1>1, <1>4 DEF Elements
<1>8. Cardinality(T) + u = n
  BY <1>1, <1>5, <1>6
<1> QED  BY <1>3, <1>7, <1>8

\* What s_translate_process asserts: with values for the parameters left free,
\* a process has an argument for each of its parameters and for nothing else,
\* however long the chain of its instantiations (addInstance, addProcess).
THEOREM ArgumentsComplete == Spec => []MappingComplete
<1>1. ArgumentsInv => MappingComplete
  <2> SUFFICES ASSUME ArgumentsInv, NEW i \in DOMAIN processes
               PROVE  LET p == processes[i]
                          free == {p.params[k] : k \in 1 .. p.unbound}
                      IN  /\ Cardinality(DOMAIN p.mapping) + p.unbound = Len(p.params)
                          /\ DOMAIN p.mapping \cup free = {p.params[k] : k \in DOMAIN p.params}
    BY DEF MappingComplete
  <2>1. InstanceOK(processes[i])
    BY DEF ArgumentsInv, ProcessesOK
  <2> QED  BY <2>1, ArgumentsCount DEF Elements
<1> QED  BY <1>1, ArgumentsInvariance, PTL

-----------------------------------------------------------------------------
(***************************************************************************)
(* Kinds of synchronisation.                                               *)
(***************************************************************************)
\* The edges and the IO sections that were visited.
EdgesVisited ==
  IF phase = "parse" THEN {} ELSE IF phase = "edges" THEN 1 .. at - 1 ELSE DOMAIN model.templ.syncs

SectionsVisited ==
  IF phase \in {"parse", "edges", "symbols"} THEN {}
  ELSE IF phase = "sections" THEN 1 .. at - 1 ELSE DOMAIN model.sections

\* The cursor is at an edge or at a section, if there is any.
CursorOK ==
  /\ at \in Nat \ {0}
  /\ phase = "parse" => at = 1
  /\ phase = "edges" => at = 1 \/ at <= Len(model.templ.syncs)
  /\ phase = "sections" => at = 1 \/ at <= Len(model.sections)

\* The strengthening: unless an error was reported, syncUsed is the kind of all
\* labels and channels that were visited.
SyncOK ==
  /\ syncUsed \in {"unused", "io", "csp"}
  /\ syncError => errors
  /\ phase \in {"translate", "done", "failed"} => ~errors
  /\ ~errors => /\ \A i \in EdgesVisited : model.templ.syncs[i] = syncUsed
                /\ \A i \in SectionsVisited : /\ model.sections[i].io => syncUsed = "io"
                                              /\ model.sections[i].csp => syncUsed = "csp"

SyncInv == model \in Models /\ CursorOK /\ SyncOK

\* The cursor moves on, or the next phase begins with it.
LEMMA AdvanceMoves ==
  ASSUME NEW last \in Nat, NEW next, at \in Nat \ {0}, at = 1 \/ at <= last, Advance(last, next)
  PROVE  \/ phase' = phase /\ at' = at + 1 /\ at' <= last
         \/ phase' = next /\ at' = 1 /\ 1 .. last \subseteq 1 .. at
BY DEF Advance

\* The labels of a model and its sections.
LEMMA ModelLists ==
  ASSUME model \in Models
  PROVE  /\ Len(model.templ.syncs) \in Nat /\ DOMAIN model.templ.syncs = 1 .. Len(model.templ.syncs)
         /\ \A i \in DOMAIN model.templ.syncs : model.templ.syncs[i] \in {"io", "csp"}
         /\ Len(model.sections) \in Nat /\ DOMAIN model.sections = 1 .. Len(model.sections)
         /\ \A i \in DOMAIN model.sections : model.sections[i] \in [io : BOOLEAN, csp : BOOLEAN]
<1>1. model.templ.syncs \in Seq({"io", "csp"}) /\ model.sections \in Seq([io : BOOLEAN, csp : BOOLEAN])
  BY ModelsAssumption DEF IsModel
<1>2. ASSUME NEW S, NEW s \in Seq(S)
      PROVE  Len(s) \in Nat /\ DOMAIN s = 1 .. Len(s) /\ \A i \in DOMAIN s : s[i] \in S
  OBVIOUS
<1> DEFINE syncs == model.templ.syncs
           sections == model.sections
<1>3. syncs \in Seq({"io", "csp"}) /\ sections \in Seq([io : BOOLEAN, csp : BOOLEAN])
  BY <1>1
<1> HIDE DEF syncs, sections
<1>4. Len(syncs) \in Nat /\ DOMAIN syncs = 1 .. Len(syncs) /\ \A i \in DOMAIN syncs : syncs[i] \in {"io", "csp"}
  BY ONLY <1>2, <1>3
<1>5. /\ Len(sections) \in Nat /\ DOMAIN sections = 1 .. Len(sections)
      /\ \A i \in DOMAIN sections : sections[i] \in [io : BOOLEAN, csp : BOOLEAN]
  BY ONLY <1>2, <1>3
<1> QED  BY <1>4, <1>5 DEF syncs, sections

\* The label of an edge is of the kind met before, or an error is reported.
LEMMA VisitEdgeKeeps == SyncInv /\ VisitEdge => SyncInv'
<1> SUFFICES ASSUME SyncInv, VisitEdge PROVE SyncInv'
  OBVIOUS
<1> DEFINE syncs == model.templ.syncs
           L == Len(syncs)
           mixed == syncs # <<>> /\ syncUsed \notin {"unused", syncs[at]}
<1>1. /\ phase = "edges" /\ UNCHANGED model /\ Advance(L, "symbols")
      /\ syncUsed' = IF syncs = <<>> THEN syncUsed ELSE SyncUse(syncs[at])
      /\ syncError' = (syncError \/ mixed)
      /\ errors' = (errors \/ mixed \/ \E e \in model.templ.sizes : ~Computable(e))
  BY DEF VisitEdge
<1>2. /\ L \in Nat /\ DOMAIN syncs = 1 .. L
      /\ \A i \in DOMAIN syncs : syncs[i] \in {"io", "csp"}
  BY ModelLists DEF SyncInv
<1>3. at \in Nat \ {0} /\ (at = 1 \/ at <= L)
  BY <1>1 DEF SyncInv, CursorOK
<1>4. \/ phase' = phase /\ at' = at + 1 /\ at' <= L
      \/ phase' = "symbols" /\ at' = 1 /\ 1 .. L \subseteq 1 .. at
  BY <1>1, <1>2, <1>3, AdvanceMoves
<1>5. CursorOK'
  BY <1>1, <1>3, <1>4 DEF CursorOK
<1>6. syncs = <<>> => L = 0
  BY EmptyList
<1>7. syncs # <<>> => L # 0
  <2>1. syncs \in Seq({"io", "csp"})
    BY ModelsAssumption DEF SyncInv, IsModel
  <2> QED  BY <2>1
<1>8. EdgesVisited' = IF phase' = "edges" THEN 1 .. at' - 1 ELSE 1 .. L
  BY <1>1, <1>2, <1>4 DEF EdgesVisited
<1>9. ASSUME NEW i \in EdgesVisited' PROVE i \in 1 .. L /\ (i \in EdgesVisited \/ i = at)
  <2>1. EdgesVisited = 1 .. at - 1
    BY <1>1 DEF EdgesVisited
  <2> QED  BY <1>1, <1>2, <1>3, <1>4, <1>8, <2>1
<1>10. ASSUME ~errors', NEW i \in EdgesVisited' PROVE syncs[i] = syncUsed'
  <2>1. i \in DOMAIN syncs /\ syncs # <<>> /\ ~errors /\ syncUsed \in {"unused", syncs[at]}
    <3>1. i \in 1 .. L
      BY <1>9, <1>10
    <3>2. i \in DOMAIN syncs /\ syncs # <<>>
      BY <1>2, <1>6, <3>1
    <3>3. ~errors /\ ~mixed
      BY <1>1, <1>10
    <3> QED  BY <3>2, <3>3
  <2>2. syncUsed' = SyncUse(syncs[at])
    BY <1>1, <2>1
  <2>3. CASE i = at
    BY <1>2, <2>1, <2>2, <2>3 DEF SyncUse
  <2>4. CASE i \in EdgesVisited
    <3>1. syncs[i] = syncUsed
      BY <2>1, <2>4 DEF SyncInv, SyncOK
    <3> QED  BY <1>2, <2>1, <2>2, <3>1 DEF SyncUse
  <2> QED  BY <1>9, <1>10, <2>3, <2>4
<1>11. syncUsed' \in {"unused", "io", "csp"}
  BY <1>1, <1>2, <1>3, <1>7 DEF SyncInv, SyncOK, SyncUse
<1>12. phase' \in {"edges", "symbols"} /\ SectionsVisited' = {}
  BY <1>1, <1>4 DEF SectionsVisited
<1>13. syncError' => errors'
  BY <1>1 DEF SyncInv, SyncOK
<1> HIDE DEF mixed
<1> QED  BY <1>1, <1>5, <1>10, <1>11, <1>12, <1>13 DEF SyncInv, SyncOK

\* A step that neither visits nor accepts.
LEMMA SyncUntouched ==
  ASSUME SyncInv, UNCHANGED <<model, syncUsed, syncError>>, errors => errors',
         phase' \in {"translate", "done", "failed"} => ~errors', CursorOK',
         EdgesVisited' \subseteq EdgesVisited, SectionsVisited' \subseteq SectionsVisited
  PROVE  SyncInv'
BY DEF SyncInv, SyncOK

\* The channels of a section are of the kind met before, or an error is reported.
LEMMA VisitSectionKeeps == SyncInv /\ VisitSection => SyncInv'
<1> SUFFICES ASSUME SyncInv, VisitSection PROVE SyncInv'
  OBVIOUS
<1> DEFINE sections == model.sections
           L == Len(sections)
           d == sections[at]
           kind == IF d.io THEN "io" ELSE IF d.csp THEN "csp" ELSE syncUsed
           mixed == syncError \/ (syncUsed' = "io" /\ d.csp) \/ (syncUsed' = "csp" /\ d.io)
<1>1. /\ phase = "sections" /\ sections # <<>> /\ UNCHANGED model
      /\ syncUsed' = SyncUse(kind) /\ syncError' = mixed /\ errors' = (errors \/ mixed)
      /\ \/ Advance(L, "verdict")
         \/ mixed /\ phase' = "crashed" /\ at' = at
  BY DEF VisitSection
<1>2. /\ L \in Nat /\ DOMAIN sections = 1 .. L
      /\ \A i \in DOMAIN sections : sections[i] \in [io : BOOLEAN, csp : BOOLEAN]
  BY ModelLists DEF SyncInv
<1>3. L # 0
  <2>1. sections \in Seq([io : BOOLEAN, csp : BOOLEAN])
    BY ModelsAssumption DEF SyncInv, IsModel
  <2> QED  BY <1>1, <2>1
<1>4. at \in 1 .. L
  BY <1>1, <1>2, <1>3 DEF SyncInv, CursorOK
<1>5. \/ phase' = phase /\ at' = at + 1 /\ at' <= L
      \/ phase' = "verdict" /\ at' = 1 /\ 1 .. L \subseteq 1 .. at
      \/ phase' = "crashed" /\ at' = at /\ mixed
  <2>1. at \in Nat \ {0} /\ (at = 1 \/ at <= L)
    BY <1>2, <1>4
  <2> HIDE DEF mixed, L
  <2> QED  BY <1>1, <1>2, <2>1, AdvanceMoves
<1>6. CursorOK'
  BY <1>1, <1>2, <1>4, <1>5 DEF CursorOK
<1>7. syncUsed \in {"unused", "io", "csp"} /\ kind \in {"unused", "io", "csp"}
  BY DEF SyncInv, SyncOK
<1>8. syncUsed' \in {"unused", "io", "csp"} /\ (syncUsed # "unused" => syncUsed' = syncUsed)
  BY <1>1, <1>7 DEF SyncUse
<1>9. EdgesVisited' = DOMAIN model.templ.syncs /\ EdgesVisited = DOMAIN model.templ.syncs
  BY <1>1, <1>5 DEF EdgesVisited
<1>10. SectionsVisited = 1 .. at - 1
  BY <1>1 DEF SectionsVisited
<1>11. SectionsVisited' = IF phase' = "sections" THEN 1 .. at' - 1 ELSE 1 .. L
  BY <1>1, <1>2, <1>5 DEF SectionsVisited
<1>12. ASSUME ~errors' PROVE ~errors /\ ~mixed /\ phase' # "crashed"
  BY <1>1, <1>5, <1>12
<1>13. ASSUME ~errors', NEW i \in EdgesVisited' PROVE model.templ.syncs[i] = syncUsed'
  <2>1. model.templ.syncs[i] = syncUsed /\ model.templ.syncs[i] \in {"io", "csp"}
    BY <1>9, <1>12, <1>13, ModelLists DEF SyncInv, SyncOK
  <2> QED  BY <1>8, <2>1
<1>14. ASSUME ~errors', NEW i \in SectionsVisited'
       PROVE  (sections[i].io => syncUsed' = "io") /\ (sections[i].csp => syncUsed' = "csp")
  <2>1. i \in SectionsVisited \/ i = at
    BY <1>1, <1>4, <1>5, <1>10, <1>11, <1>12, <1>14
  <2>2. CASE i \in SectionsVisited
    <3>1. (sections[i].io => syncUsed = "io") /\ (sections[i].csp => syncUsed = "csp")
      BY <1>12, <1>14, <2>2 DEF SyncInv, SyncOK
    <3> QED  BY <1>8, <3>1
  <2>3. CASE i = at
    <3>1. ~(syncUsed' = "io" /\ d.csp) /\ ~(syncUsed' = "csp" /\ d.io)
      BY <1>12, <1>14
    <3>2. d.io \/ d.csp => syncUsed' \in {"io", "csp"}
      BY <1>1, <1>7 DEF SyncUse
    <3> QED  BY <2>3, <3>1, <3>2
  <2> QED  BY <2>1, <2>2, <2>3
<1>15. syncError' => errors'
  BY <1>1
<1>16. phase' \notin {"translate", "done", "failed"}
  BY <1>1, <1>5
<1> HIDE DEF mixed, kind
<1> QED  BY <1>1, <1>6, <1>8, <1>13, <1>14, <1>15, <1>16 DEF SyncInv, SyncOK

\* Every step keeps the kind of synchronisation.
LEMMA SyncStep == SyncInv /\ [Next]_vars => SyncInv'
<1> SUFFICES ASSUME SyncInv, [Next]_vars PROVE SyncInv'
  OBVIOUS
<1>1. ASSUME UNCHANGED <<model, phase, at, syncUsed, syncError>>, errors => errors', phase = "parse" \/ errors' = errors
      PROVE  SyncInv'
  <2>1. CursorOK' /\ EdgesVisited' = EdgesVisited /\ SectionsVisited' = SectionsVisited
    BY <1>1 DEF SyncInv, CursorOK, EdgesVisited, SectionsVisited
  <2>2. phase' \in {"translate", "done", "failed"} => ~errors'
    BY <1>1 DEF SyncInv, SyncOK
  <2> QED  BY <1>1, <2>1, <2>2, SyncUntouched
<1>2. ASSUME NEW name, NEW target, NEW params, NEW list, Instantiate(name, target, params, list)
      PROVE  SyncInv'
  <2>1. /\ phase = "parse" /\ ~errors /\ UNCHANGED <<model, phase, at, syncUsed, syncError>>
    BY <1>2 DEF Instantiate, LinesMayFollow
  <2> QED  BY <1>1, <2>1
<1>3. ASSUME NEW name, Process(name) PROVE SyncInv'
  <2>1. /\ phase = "parse" /\ ~errors /\ UNCHANGED <<model, phase, at, syncUsed, syncError>>
    BY <1>3 DEF Process
  <2> QED  BY <1>1, <2>1
<1>4. CASE EndParse
  <2>1. /\ UNCHANGED <<model, at, syncUsed, syncError, errors>> /\ at = 1
        /\ phase = "parse" /\ phase' = IF errors THEN "refused" ELSE "edges"
    BY <1>4 DEF EndParse, SyncInv, CursorOK
  <2>2. CASE errors
    BY <2>1, <2>2 DEF SyncInv, SyncOK, CursorOK
  <2>3. CASE ~errors
    <3>1. phase' = "edges" /\ at' = 1 /\ EdgesVisited' = {} /\ SectionsVisited' = {}
      BY <2>1, <2>3 DEF EdgesVisited, SectionsVisited
    <3>2. CursorOK'
      BY <2>1, <3>1 DEF CursorOK
    <3> QED  BY <2>1, <3>1, <3>2, SyncUntouched
  <2> QED  BY <2>2, <2>3
<1>5. CASE VisitSymbol
  <2>1. /\ UNCHANGED <<model, syncUsed, syncError>> /\ phase = "symbols" /\ (errors => errors')
        /\ Advance(Len(frame), "sections")
    BY <1>5 DEF VisitSymbol
  <2>2. at \in Nat \ {0} /\ at' \in Nat \ {0} /\ (phase' = phase \/ (phase' = "sections" /\ at' = 1))
    BY <2>1 DEF SyncInv, CursorOK, Advance
  <2>3. CursorOK'
    BY <2>1, <2>2 DEF CursorOK
  <2>4. EdgesVisited' = EdgesVisited /\ SectionsVisited' = {}
    BY <2>1, <2>2 DEF EdgesVisited, SectionsVisited
  <2> QED  BY <2>1, <2>2, <2>3, <2>4, SyncUntouched
<1>6. CASE EndCheck
  <2>1. /\ UNCHANGED <<model, at, syncUsed, syncError, errors>>
        /\ phase' = IF errors THEN "refused" ELSE "translate"
        /\ phase = "verdict" \/ (phase = "sections" /\ model.sections = <<>>)
    BY <1>6 DEF EndCheck
  <2>2. CursorOK'
    BY <2>1 DEF SyncInv, CursorOK
  <2>3. EdgesVisited' = EdgesVisited
    BY <2>1 DEF EdgesVisited
  <2>4. SectionsVisited' \subseteq SectionsVisited
    BY <2>1, EmptyList DEF SectionsVisited
  <2> QED  BY <2>1, <2>2, <2>3, <2>4, SyncUntouched
<1>7. CASE TranslateProcess
  <2>1. /\ UNCHANGED <<model, syncUsed, syncError, errors>> /\ phase = "translate"
        /\ Advance(Len(processes), "done") \/ (phase' = "failed" /\ at' = at)
    BY <1>7 DEF TranslateProcess
  <2>2. at' \in Nat \ {0} /\ phase' \in {"translate", "done", "failed"}
    BY <2>1 DEF SyncInv, CursorOK, Advance
  <2>3. CursorOK' /\ EdgesVisited' = EdgesVisited /\ SectionsVisited' = SectionsVisited
    BY <2>1, <2>2 DEF CursorOK, EdgesVisited, SectionsVisited
  <2>4. ~errors'
    BY <2>1 DEF SyncInv, SyncOK
  <2> QED  BY <2>1, <2>3, <2>4, SyncUntouched
<1>8. CASE UNCHANGED vars
  BY <1>1, <1>8 DEF vars
<1> QED  BY <1>2, <1>3, <1>4, <1>5, <1>6, <1>7, <1>8, VisitEdgeKeeps, VisitSectionKeeps DEF Next

\* The kind of synchronisation is so in every state.
LEMMA SyncInvariance == Spec => []SyncInv
<1>1. Init => SyncInv
  BY DEF Init, SyncInv, CursorOK, SyncOK, EdgesVisited, SectionsVisited
<1> QED  BY <1>1, SyncStep, PTL DEF Spec

\* A system that is accepted has one kind of synchronisation, however many
\* labels and IO sections it has and in whatever order they are visited
\* (visitEdge, visitIODecl): the tables of events may take it for granted.
THEOREM OneKindAccepted == Spec => []OneKindOfSync
<1>1. SyncInv => OneKindOfSync
  <2> DEFINE kinds == {model.templ.syncs[i] : i \in DOMAIN model.templ.syncs}
                      \cup {k \in {"io", "csp"} : \E i \in DOMAIN model.sections : model.sections[i][k]}
  <2> SUFFICES ASSUME SyncInv, phase \in {"translate", "done", "failed"} PROVE Cardinality(kinds) <= 1
    BY DEF OneKindOfSync
  <2>1. ~errors
    BY DEF SyncInv, SyncOK
  <2>2. EdgesVisited = DOMAIN model.templ.syncs /\ SectionsVisited = DOMAIN model.sections
    BY DEF EdgesVisited, SectionsVisited
  <2>3. ASSUME NEW k \in kinds PROVE k = syncUsed
    <3>1. CASE \E i \in DOMAIN model.templ.syncs : k = model.templ.syncs[i]
      BY <2>1, <2>2, <3>1 DEF SyncInv, SyncOK
    <3>2. CASE k \in {"io", "csp"} /\ \E i \in DOMAIN model.sections : model.sections[i][k]
      BY <2>1, <2>2, <3>2 DEF SyncInv, SyncOK
    <3> QED  BY <2>3, <3>1, <3>2
  <2> HIDE DEF kinds
  <2>4. kinds \in SUBSET {syncUsed}
    BY <2>3
  <2>5. IsFiniteSet({syncUsed}) /\ Cardinality({syncUsed}) = 1
    BY FS_Singleton
  <2>6. IsFiniteSet(kinds) /\ Cardinality(kinds) <= Cardinality({syncUsed})
    BY <2>4, <2>5, FS_Subset
  <2> QED  BY <2>5, <2>6
<1> QED  BY <1>1, SyncInvariance, PTL
=============================================================================
