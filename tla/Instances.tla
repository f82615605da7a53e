------------------------------- MODULE Instances -------------------------------
(***************************************************************************)
(* From templates to processes: the parser instantiates templates, partly  *)
(* or in a chain (systembuilder.cpp, system.cpp), the type checker visits  *)
(* the edges, the instances, the processes and the IO sections             *)
(* (typechecker.cpp), and the translation enumerates the parameters left   *)
(* free and puts arguments in the place of parameters (utot-translate.cc,  *)
(* utot-expr.cc).                                                          *)
(*                                                                         *)
(* A symbol is [name, mode, range, init]:                                  *)
(*   mode  : "variable", "array" or "constant"; for a parameter "value",   *)
(*           "const", "ref" or "constref"                                  *)
(*   range : <<lo, hi>>, or <<>> where the type has no range               *)
(*   init  : <<e>> for a constant                                          *)
(* An expression is [op, sym, val, sub]: "lit", "id", "+1" or "[]".        *)
(* A template is [name, params, sizes, syncs]: the sizes of its arrays, and*)
(* the kind of synchronisation of each edge, "io" or "csp".  An IO section *)
(* is [io, csp], whether it lists channels of each kind.                   *)
(***************************************************************************)
EXTENDS Integers, Sequences, FiniteSets
LOCAL INSTANCE TLC   \* ToString

CONSTANTS
  Models,   \* a template, the IO sections, and bounds on the number of
            \* instantiations and of processes, [templ, sections, lines, procs]
  Offered   \* the instances that may be written: their names, with
            \* [params, args], the lists of parameters and the arguments

Elements(P) == {P[i] : i \in DOMAIN P}
IsParameters(P) == P \in Seq(Elements(P)) /\ \A i, j \in DOMAIN P : P[i] = P[j] => i = j

IsModel(M) ==
  /\ IsParameters(M.templ.params)
  /\ M.templ.syncs \in Seq({"io", "csp"})
  /\ M.sections \in Seq([io : BOOLEAN, csp : BOOLEAN])

\* Each declaration makes parameters of its own, whatever their names
\* (declParameter adds a new symbol to the frame).
ASSUME ModelsAssumption ==
  /\ \A M \in Models : IsModel(M)
  /\ \A name \in DOMAIN Offered : \A params \in Offered[name].params :
       /\ IsParameters(params)
       /\ \A M \in Models : Elements(params) \cap Elements(M.templ.params) = {}
       /\ \A other \in DOMAIN Offered \ {name} : \A others \in Offered[other].params :
            Elements(params) \cap Elements(others) = {}

VARIABLES
  model,
  phase,      \* "parse", "edges", "symbols", "sections", "translate", then
              \* "done"; or "refused", "failed" or "crashed"
  lines,      \* history: the instantiations, [name, target, params, args]
  frame,      \* the global frame: [name, kind, inst]
  processes,  \* the processes of the system line
  errors,     \* an error was reported
  at,         \* the next edge, symbol, section or process to visit
  syncUsed,   \* "unused", "io" or "csp"
  syncError,
  output      \* the processes written, [pos, label, val, bindings, sizes]

vars == <<model, phase, lines, frame, processes, errors, at, syncUsed, syncError, output>>

Expr(op, sym, val, sub) == [op |-> op, sym |-> sym, val |-> val, sub |-> sub]
Lit(v) == Expr("lit", <<>>, v, <<>>)
Id(s) == Expr("id", <<s>>, 0, <<>>)
Inc(e) == Expr("+1", <<>>, 0, <<e>>)
Cell(a, e) == Expr("[]", <<>>, 0, <<Id(a), e>>)

IsConstant(s) == s.mode \in {"constant", "const", "constref"}
IsRef(s) == s.mode \in {"ref", "constref"}

\* The expressions one level below e: its operands; the initialisers of its
\* symbol; and its argument.
Operands(e) == Elements(e.sub)
Symbols(e) == Elements(e.sym)
Initialisers(e) == UNION {Elements(s.init) : s \in Symbols(e)}
Arguments(e, mapping) == {mapping[s] : s \in Symbols(e) \cap DOMAIN mapping}

\* All that is below e, on the MaxDepth levels that expressions have at most.
MaxDepth == 8
Closure(e, Below(_)) ==
  LET Level[n \in 0 .. MaxDepth] ==
        IF n = 0 THEN <<{e}, {}>>
        ELSE LET l == Level[n - 1] IN <<UNION {Below(x) : x \in l[1]}, l[1] \cup l[2]>>
  IN  Level[MaxDepth][2]

\* collectPossibleReads
Reads(e) == UNION {Symbols(x) : x \in Closure(e, Operands)}

\* collectDependencies: what is read, and what the initialisers of that read.
Defining(e) == Operands(e) \cup Initialisers(e)
Dependencies(e) == UNION {Symbols(x) : x \in Closure(e, Defining)}

-----------------------------------------------------------------------------
(***************************************************************************)
(* Parsing.                                                                *)
(***************************************************************************)
\* The instance that comes with a template (addTemplate); the sizes of arrays
\* restrict what they depend on (typeArrayOfType).
TemplateInstance(t) ==
  [name |-> t.name, params |-> t.params, unbound |-> Len(t.params), mapping |-> <<>>,
   arguments |-> 0, templ |-> t, restricted |-> UNION {Dependencies(e) : e \in t.sizes}]

Init ==
  /\ model \in Models
  /\ phase = "parse" /\ lines = <<>> /\ processes = <<>> /\ errors = FALSE
  /\ frame = <<[name |-> model.templ.name, kind |-> "INSTANCE", inst |-> TemplateInstance(model.templ)]>>
  /\ at = 1 /\ syncUsed = "unused" /\ syncError = FALSE /\ output = {}

\* The last symbol of a name in the frame, if any.
Named(name) == {i \in DOMAIN frame : frame[i].name = name}
Resolve(name) == frame[CHOOSE i \in Named(name) : \A j \in Named(name) : j <= i]

ParametersOf(params, inst) == params \o inst.params

\* Mutated form: the arguments given before are lost.
LastArguments(inst, args) ==
  [s \in {inst.params[i] : i \in DOMAIN args} |-> args[CHOOSE i \in DOMAIN args : inst.params[i] = s]]

\* The arguments given before, and those of the parameters that were left.
MappingOf(inst, args) ==
  [s \in DOMAIN inst.mapping \cup {inst.params[i] : i \in DOMAIN args} |->
     IF \E i \in DOMAIN args : inst.params[i] = s
     THEN args[CHOOSE i \in DOMAIN args : inst.params[i] = s]
     ELSE inst.mapping[s]]

\* Mutated form: nothing is propagated.
NothingRestricted(inst, args) == {}

\* What arguments of restricted parameters depend on is restricted.
RestrictedBy(inst, args) ==
  UNION {Dependencies(args[i]) : i \in {j \in DOMAIN args : inst.params[j] \in inst.restricted}}

AddInstance(name, inst, params, args) ==
  [name |-> name, params |-> ParametersOf(params, inst), unbound |-> Len(params),
   mapping |-> MappingOf(inst, args), arguments |-> Len(args), templ |-> inst.templ,
   restricted |-> RestrictedBy(inst, args)]

\* Instantiations come before the system line, as many as are bounded.
LinesMayFollow == phase = "parse" /\ ~errors /\ Len(lines) < model.lines /\ processes = <<>>

\* instantiationBegin and instantiationEnd of name(params) = target(args).
\* Nothing is said of a model after its first error.
Instantiate(name, target, params, args) ==
  LET t == Resolve(target)
      well == /\ Named(name) = {} /\ Named(target) # {}
              /\ t.kind = "INSTANCE" /\ Len(args) = t.inst.unbound
  IN  /\ LinesMayFollow
      /\ errors' = ~well
      /\ frame' = IF well THEN Append(frame, [name |-> name, kind |-> "INSTANCE",
                                              inst |-> AddInstance(name, t.inst, params, args)])
                  ELSE frame
      /\ lines' = Append(lines, [name |-> name, target |-> target, params |-> params, args |-> args])
      /\ UNCHANGED <<model, phase, processes, at, syncUsed, syncError, output>>

ProcessKind(inst) == IF inst.unbound = 0 THEN "PROCESS" ELSE "PROCESSSET"

\* process and addProcess: a name of the system line.  The process is a copy of
\* the instance, and takes its name.
Process(name) ==
  /\ phase = "parse" /\ ~errors /\ Named(name) # {} /\ Len(processes) < model.procs
  /\ LET s == Resolve(name)
     IN  IF s.kind = "INSTANCE"
         THEN /\ processes' = Append(processes, s.inst)
              /\ frame' = Append(frame, [s EXCEPT !.kind = ProcessKind(s.inst)])
              /\ UNCHANGED errors
         ELSE /\ errors' = TRUE
              /\ UNCHANGED <<processes, frame>>
  /\ UNCHANGED <<model, phase, lines, at, syncUsed, syncError, output>>

\* The system is checked when it was parsed without errors.
EndParse ==
  /\ phase = "parse" /\ (processes # <<>> \/ errors)
  /\ phase' = IF errors THEN "refused" ELSE "edges"
  /\ UNCHANGED <<model, lines, frame, processes, errors, at, syncUsed, syncError, output>>

-----------------------------------------------------------------------------
(***************************************************************************)
(* Type checking: accept visits the edges of the template, the global      *)
(* symbols and the IO sections.                                            *)
(***************************************************************************)
Advance(last, next) ==
  IF at < last THEN at' = at + 1 /\ UNCHANGED phase ELSE at' = 1 /\ phase' = next

\* CompileTimeComputableValues: constants and the constant parameters of
\* instances that are no references.
Computable(e) == \A s \in Reads(e) : s.mode \in {"constant", "const"}

\* Mutated form: the first label of the model does not settle its kind.
UnsettledUse(kind) == syncUsed

\* The kind of synchronisation is that of the first label.
SyncUse(kind) == IF syncUsed = "unused" THEN kind ELSE syncUsed

\* visitEdge, as far as the kind of its label is concerned; the sizes of arrays
\* are checked with the template.
VisitEdge ==
  LET t == model.templ
      mixed == t.syncs # <<>> /\ syncUsed \notin {"unused", t.syncs[at]}
  IN  /\ phase = "edges"
      /\ syncUsed' = IF t.syncs = <<>> THEN syncUsed ELSE SyncUse(t.syncs[at])
      /\ syncError' = (syncError \/ mixed)
      /\ errors' = (errors \/ mixed \/ \E e \in t.sizes : ~Computable(e))
      /\ Advance(Len(t.syncs), "symbols")
      /\ UNCHANGED <<model, lines, frame, processes, output>>

\* isModifiableLValue and isUniqueReference of an argument
Modifiable(e) ==
  \/ e.op = "id" /\ ~IsConstant(e.sym[1])
  \/ e.op = "[]" /\ ~IsConstant(e.sub[1].sym[1])
Unique(e) == e.op = "id" \/ (e.op = "[]" /\ Computable(e.sub[2]))

\* Mutated form: a value may be read when it is used.
AnyArgument(s, e) == ~IsRef(s) \/ Modifiable(e) \/ IsConstant(s)

\* A value that is known, a constant reference to one, or a reference to one
\* variable that may be modified.
ArgumentFits(s, e) ==
  IF IsRef(s) /\ ~IsConstant(s) THEN Unique(e) /\ Modifiable(e) ELSE Computable(e)

\* Mutated form: the ranges are not looked at.
AnyRange(params) == TRUE

\* checkType of the ranges of parameters
RangesComputable(params) ==
  \A i \in DOMAIN params : \A j \in DOMAIN params[i].range : Computable(params[i].range[j])

\* visitInstance: the arguments of the last instantiation.
InstanceFits(inst) ==
  /\ RangesComputable(SubSeq(inst.params, 1, inst.unbound))
  /\ \A i \in inst.unbound + 1 .. inst.unbound + inst.arguments :
       ArgumentFits(inst.params[i], inst.mapping[inst.params[i]])

\* visitProcess: the parameters left free.
ProcessFits(inst) ==
  \A i \in 1 .. inst.unbound :
    /\ inst.params[i].range # <<>> /\ ~IsRef(inst.params[i])
    /\ inst.params[i] \notin inst.restricted

VisitSymbol ==
  LET s == frame[at]
  IN  /\ phase = "symbols"
      /\ errors' = (errors \/ ~(IF s.kind = "INSTANCE" THEN InstanceFits(s.inst) ELSE ProcessFits(s.inst)))
      /\ Advance(Len(frame), "sections")
      /\ UNCHANGED <<model, lines, frame, processes, syncUsed, syncError, output>>

\* visitIODecl.  An error is reported at the first CSP channel of the section,
\* and the behaviour is undefined when there is none.
VisitSection ==
  LET d == model.sections[at]
      kind == IF d.io THEN "io" ELSE IF d.csp THEN "csp" ELSE syncUsed
      mixed == syncError \/ (syncUsed' = "io" /\ d.csp) \/ (syncUsed' = "csp" /\ d.io)
  IN  /\ phase = "sections" /\ model.sections # <<>>
      /\ syncUsed' = SyncUse(kind)
      /\ syncError' = mixed
      /\ errors' = (errors \/ mixed)
      /\ \/ Advance(Len(model.sections), "verdict")
         \/ mixed /\ ~d.csp /\ phase' = "crashed" /\ UNCHANGED at
      /\ UNCHANGED <<model, lines, frame, processes, output>>

EndCheck ==
  /\ phase = "verdict" \/ (phase = "sections" /\ model.sections = <<>>)
  /\ phase' = IF errors THEN "refused" ELSE "translate"
  /\ UNCHANGED <<model, lines, frame, processes, errors, at, syncUsed, syncError, output>>

-----------------------------------------------------------------------------
(***************************************************************************)
(* Translation.                                                            *)
(***************************************************************************)
Failed == -1

\* All that is read to evaluate or to write e.
Needed(e, mapping) ==
  LET Below(x) == Defining(x) \cup Arguments(x, mapping) IN Closure(e, Below)

\* eval_integer_constant
Evaluate(e, mapping) ==
  LET V[x \in Needed(e, mapping)] ==
        CASE x.op = "lit" -> x.val
          [] x.op = "+1" -> LET v == V[x.sub[1]] IN IF v = Failed THEN v ELSE v + 1
          [] x.op = "id" ->
               LET s == x.sym[1]
               IN  IF ~IsConstant(s) THEN Failed
                   ELSE IF s.init # <<>> THEN V[s.init[1]]
                   ELSE IF s \in DOMAIN mapping THEN V[mapping[s]] ELSE Failed
          [] OTHER -> Failed
  IN  V[e]

\* Parameters replaced by their arguments, wherever they are (translate_expression).
Substitute(e, mapping) ==
  LET W[x \in Needed(e, mapping)] ==
        IF x.op = "id" /\ x.sym[1] \in DOMAIN mapping THEN W[mapping[x.sym[1]]]
        ELSE [x EXCEPT !.sub = [i \in DOMAIN x.sub |-> W[x.sub[i]]]]
  IN  W[e]

\* The bounds of the parameters left free, with the arguments given so far; the
\* values chosen for other free parameters are not among them.  A type without
\* a range cannot be enumerated.
BoundOf(inst, i, k) ==
  LET range == inst.params[i].range IN IF range = <<>> THEN Failed ELSE Evaluate(range[k], inst.mapping)
ValuesOf(inst, i) == BoundOf(inst, i, 1) .. BoundOf(inst, i, 2)

\* The last free parameter is enumerated first, and the bounds of one are read
\* only when those enumerated before it have values.
Enumerable(inst) ==
  \A i \in 1 .. inst.unbound :
    (\A j \in i + 1 .. inst.unbound : ValuesOf(inst, j) # {}) =>
      \A k \in 1 .. 2 : BoundOf(inst, i, k) # Failed

Valuations(inst) ==
  {val \in [1 .. inst.unbound -> 0 .. 3] : \A i \in DOMAIN val : val[i] \in ValuesOf(inst, i)}

\* The mapping of a process for some values of its free parameters.
FullMapping(inst, val) ==
  [s \in DOMAIN inst.mapping \cup {inst.params[i] : i \in DOMAIN val} |->
     IF \E i \in DOMAIN val : inst.params[i] = s
     THEN Lit(val[CHOOSE i \in DOMAIN val : inst.params[i] = s])
     ELSE inst.mapping[s]]

\* The name, then the free parameters, the last one first.
LabelOf(inst, val) ==
  <<inst.name>> \o [k \in 1 .. 2 * inst.unbound |->
     LET i == inst.unbound - (k - 1) \div 2
     IN  IF k % 2 = 1 THEN inst.params[i].name ELSE ToString(val[i])]

Written(pos, inst, val) ==
  LET mapping == FullMapping(inst, val)
      P == inst.templ.params
  IN  [pos |-> pos, label |-> LabelOf(inst, val), val |-> val,
       bindings |-> [i \in DOMAIN P |-> Substitute(Id(P[i]), mapping)],
       sizes |-> {Evaluate(e, mapping) : e \in inst.templ.sizes}]

\* s_translate_process: every instance of the next process.
TranslateProcess ==
  /\ phase = "translate"
  /\ LET inst == processes[at]
     IN  IF Enumerable(inst)
         THEN /\ output' = output \cup {Written(at, inst, val) : val \in Valuations(inst)}
              /\ Advance(Len(processes), "done")
         ELSE phase' = "failed" /\ UNCHANGED <<at, output>>
  /\ UNCHANGED <<model, lines, frame, processes, errors, syncUsed, syncError>>

\* The arguments that can be written after some parameters: they name no other.
InScope(params, e) ==
  \A s \in Reads(e) :
    s.mode \in {"variable", "array", "constant"} \/ \E i \in DOMAIN params : params[i] = s

Next ==
  \/ \E name \in DOMAIN Offered, target \in {model.templ.name} \cup DOMAIN Offered :
       \E params \in Offered[name].params :
         /\ LinesMayFollow /\ Named(target) # {}
         /\ LET args == {e \in Offered[name].args : InScope(params, e)}
            IN  \E list \in {<<>>, <<Lit(1), Lit(1), Lit(1)>>}
                            \cup [1 .. Resolve(target).inst.unbound -> args] :
                  Instantiate(name, target, params, list)
  \/ \E name \in {model.templ.name} \cup DOMAIN Offered : Process(name)
  \/ EndParse \/ VisitEdge \/ VisitSymbol \/ VisitSection \/ EndCheck
  \/ TranslateProcess

Spec == Init /\ [][Next]_vars

-----------------------------------------------------------------------------
(***************************************************************************)
(* Properties.                                                             *)
(***************************************************************************)
\* What s_translate_process asserts: with the free parameters, the arguments
\* are those of all parameters, along the whole chain of instantiations.
MappingComplete ==
  \A i \in DOMAIN processes :
    LET p == processes[i]
        free == {p.params[k] : k \in 1 .. p.unbound}
    IN  /\ Cardinality(DOMAIN p.mapping) + p.unbound = Len(p.params)
        /\ DOMAIN p.mapping \cup free = {p.params[k] : k \in DOMAIN p.params}

\* Arguments in Uppaal: an integer, or the cell of a variable, found once for
\* each instantiation from the parameters of that instantiation alone.
IntValue(v) == [cell |-> "", val |-> v]
NoCell == [cell |-> "value of a variable", val |-> 0]
Value(e, env) ==
  LET V[x \in Closure(e, Defining)] ==
        CASE x.op = "lit" -> IntValue(x.val)
          [] x.op = "+1" -> LET v == V[x.sub[1]] IN IF v.cell = "" THEN IntValue(v.val + 1) ELSE NoCell
          [] x.op = "[]" -> LET v == V[x.sub[2]]
                            IN  IF v.cell = "" THEN [cell |-> x.sub[1].sym[1].name, val |-> v.val] ELSE NoCell
          [] x.op = "id" ->
               LET s == x.sym[1]
               IN  IF s \in DOMAIN env THEN env[s]
                   ELSE IF s.init # <<>> THEN V[s.init[1]] ELSE [cell |-> s.name, val |-> 0]
  IN  V[e]

LineOf(name) == lines[CHOOSE i \in DOMAIN lines : lines[i].name = name]
OwnParams(name) == IF name = model.templ.name THEN model.templ.params ELSE LineOf(name).params

\* The values of the parameters of the template, for those of the parameters of
\* name: each line of the chain passes its arguments to its target.
Passed(name, env) ==
  LET Pass[n \in 0 .. Len(lines)] ==
        IF n = 0 THEN [at |-> name, env |-> env]
        ELSE LET c == Pass[n - 1]
                 l == LineOf(c.at)
                 P == OwnParams(l.target)
             IN  IF c.at = model.templ.name THEN c
                 ELSE [at |-> l.target,
                       env |-> [s \in {P[i] : i \in DOMAIN P} |->
                                  Value(l.args[CHOOSE i \in DOMAIN P : P[i] = s], c.env)]]
  IN  Pass[Len(lines)].env

FreeValues(p, val) ==
  [s \in {p.params[i] : i \in DOMAIN val} |->
     IntValue(val[CHOOSE i \in DOMAIN val : p.params[i] = s])]

\* A parameter taken by value and not constant is a variable of the process.
HasValueParameter == \E i \in DOMAIN lines : \E k \in DOMAIN lines[i].params : lines[i].params[k].mode = "value"

\* Every parameter of a process that is written stands for what Uppaal passes:
\* a fixed integer, or for a reference one cell of a variable, though arguments
\* are put in the place of parameters and read again at every use
\* (visitInstance, translate_expression).  Left out: references to parameters
\* taken by value, which have no cell in what is written.
ArgumentsAsPassed ==
  \A o \in output :
    LET p == processes[o.pos]
        P == p.templ.params
        passed == Passed(p.name, FreeValues(p, o.val))
    IN  \A i \in DOMAIN P :
          LET v == Value(o.bindings[i], <<>>)
          IN  /\ v = passed[P[i]]
              /\ ~HasValueParameter => (v.cell = "") = (P[i].mode # "ref")

\* The arrays of a process have sizes that no free parameter changes, directly
\* or through constants and arguments (restricted, visitProcess).
SizesIndependent ==
  \A o, p \in output : o.pos = p.pos => o.sizes = p.sizes

\* A system that is accepted has one kind of synchronisation in its edges and
\* IO sections, which is what the tables of events take for granted.
OneKindOfSync ==
  LET kinds == {model.templ.syncs[i] : i \in DOMAIN model.templ.syncs}
               \cup {k \in {"io", "csp"} : \E i \in DOMAIN model.sections : model.sections[i][k]}
  IN  phase \in {"translate", "done", "failed"} => Cardinality(kinds) <= 1

\* The translation of a system that is accepted fails only on a free parameter
\* whose range depends on another one.
AcceptedTranslates ==
  phase = "failed" =>
    LET p == processes[at]
        free == {p.params[k] : k \in 1 .. p.unbound}
        bounds == UNION {{s.range[k] : k \in DOMAIN s.range} : s \in free}
    IN  \E e \in bounds :
          Reads(e) \cap free # {}
=============================================================================
