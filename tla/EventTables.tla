----------------------------- MODULE EventTables -----------------------------
(***************************************************************************)
(* The translation of the processes, as far as events are concerned: the   *)
(* enumeration of the parameters left unbound and of the selections, and   *)
(* s_build_edge_label, which names the event of an edge, declares it and   *)
(* records its process in the tables that s_generate_sync_vectors reads.   *)
(*                                                                         *)
(* A name is the sequence of what "_" separates in it, so that to join     *)
(* names with "_" is to concatenate them: the identifier b_1 and the cell  *)
(* b[1] have the same label <<"b", "1">>.                                  *)
(* A system is what the parser hands over (external to this code):         *)
(*   procs : the processes, each with its name, its unbound parameters and *)
(*           its edges; an edge has selections and a synchronisation       *)
(*   io    : the IO sections, [instance, csp] with references in csp       *)
(* A parameter or a selection is [var, lo, hi], an index [lit] or [var].   *)
(* An edge has [select, sync]; with no label sync = <<>>, otherwise it is  *)
(* <<r>> where r is a reference                                            *)
(*   [dir, chan, idx, bcast]                                               *)
(* to the channel chan, which may have been passed by reference, at the    *)
(* indices idx, with bcast the type of the symbol the edge names.  chan is *)
(* [name, local, bcast, dims], dims the bounds of its dimensions.          *)
(***************************************************************************)
EXTENDS Integers, Sequences, FiniteSets
LOCAL INSTANCE TLC   \* ToString

CONSTANT Systems    \* the systems that may be translated

VARIABLES
  system,      \* the system being translated
  phase,       \* "io", "processes", then "tables", or "failed"
  procsLeft,   \* the process instances still to translate
  proc,        \* the label of the process being translated
  edgesLeft,   \* the edges, with a valuation, still to translate for proc
  localEvents, \* the local channels proc has declared
  labels,      \* the events declared by s_build_edge_label
  broadcasts,  \* the channels known to be broadcast channels
  emits, recvs, csps, \* the tables, as sets of <<channel, process>>
  allowed,     \* allowed_csp, as a set of <<process, channel>>
  tau,         \* tau_generated: the event tau is declared
  processes,   \* output: the processes declared, in order
  events,      \* output: the events declared, in order
  edges        \* output: the edges written, as <<process, event>>

tables == <<labels, broadcasts, emits, recvs, csps, allowed>>
output == <<processes, events, edges>>
vars == <<system, phase, procsLeft, proc, edgesLeft, localEvents, tables, tau, output>>

-----------------------------------------------------------------------------
(***************************************************************************)
(* Valuations and names.                                                   *)
(***************************************************************************)
\* All the valuations of a sequence of parameters or selections.
Valuations(params) ==
  {val \in [{params[k].var : k \in DOMAIN params}
              -> UNION {params[k].lo .. params[k].hi : k \in DOMAIN params}] :
     \A k \in DOMAIN params : val[params[k].var] \in params[k].lo .. params[k].hi}

Extend(val1, val2) ==
  [x \in DOMAIN val1 \cup DOMAIN val2 |-> IF x \in DOMAIN val2 THEN val2[x] ELSE val1[x]]

\* An index is an integer, or a parameter or selection.
Value(e, val) == IF "var" \in DOMAIN e THEN val[e.var] ELSE e.lit

Values(r, val) == [k \in DOMAIN r.idx |-> Value(r.idx[k], val)]

InBounds(r, val) ==
  \A k \in DOMAIN r.idx :
    Value(r.idx[k], val) \in r.chan.dims[k].lo .. r.chan.dims[k].hi

\* An integer in a name.
Numeral(i) == ToString(i)

\* The label of an instance: the parameters left unbound follow the name, the
\* last one first.
ProcessLabel(p, val) ==
  LET n == Len(p.unbound)
  IN  p.name \o [k \in 1 .. 2 * n |->
        LET x == p.unbound[n - (k - 1) \div 2].var
        IN  IF k % 2 = 1 THEN x ELSE Numeral(val[x])]

\* Mutated form: the prefix of the process is forgotten.
UnprefixedLabel(P, chan, indices) ==
  chan.name \o [k \in DOMAIN indices |-> Numeral(indices[k])]

\* add_prefix; a context that is empty adds nothing.
AddPrefix(context, name) == context \o name

\* The name of a channel at some indices; one local to its process P takes the
\* label of P as a prefix.
ChannelLabel(P, chan, indices) ==
  AddPrefix(IF chan.local THEN P ELSE <<>>, chan.name)
    \o [k \in DOMAIN indices |-> Numeral(indices[k])]

EventLabel(dir, s) ==
  IF dir = "!" THEN s \o <<"emit">> ELSE IF dir = "?" THEN s \o <<"recv">> ELSE s

TauEvent == <<"tau">>

-----------------------------------------------------------------------------
(***************************************************************************)
(* What the parser and the type checker hand over: identifiers are not     *)
(* empty, CSP synchronisations are not mixed with emissions and            *)
(* receptions, neither in the edges nor in the IO sections, and the        *)
(* sections, which are global, name global channels.                       *)
(***************************************************************************)
IsReference(r) ==
  /\ r.dir \in {"!", "?", "csp"} /\ r.bcast \in BOOLEAN /\ r.chan.local \in BOOLEAN
  /\ r.chan.name \in Seq(STRING) \ {<<>>}
  /\ r.idx \in Seq([lit : Int] \cup [var : STRING])

References(p) == {p.edges[k].sync[1] : k \in {j \in DOMAIN p.edges : p.edges[j].sync # <<>>}}

IsProcess(p) ==
  /\ p.name \in Seq(STRING) \ {<<>>}
  /\ p.unbound \in Seq([var : STRING, lo : Int, hi : Int])
  /\ \A r \in References(p) : IsReference(r)

OneKind(S) ==
  \/ \A i \in DOMAIN S.procs : \A r \in References(S.procs[i]) : r.dir = "csp"
  \/ /\ \A i \in DOMAIN S.procs : \A r \in References(S.procs[i]) : r.dir # "csp"
     /\ \A d \in S.io : d.csp = {}

ASSUME SystemsAssumption ==
  \A S \in Systems :
    /\ OneKind(S)
    /\ \A i \in DOMAIN S.procs : IsProcess(S.procs[i])
    /\ \A d \in S.io : \A r \in d.csp : ~r.chan.local

-----------------------------------------------------------------------------
Init ==
  /\ system \in Systems
  /\ phase = "io"
  /\ procsLeft = UNION {{[pos |-> i, val |-> val] :
                           val \in Valuations(system.procs[i].unbound)} :
                        i \in DOMAIN system.procs}
  /\ proc = <<>> /\ edgesLeft = {} /\ localEvents = {}
  /\ labels = {} /\ broadcasts = {}
  /\ emits = {} /\ recvs = {} /\ csps = {} /\ allowed = {}
  /\ tau = FALSE
  /\ processes = <<>> /\ events = <<>> /\ edges = {}

\* Register the CSP channels of the IO sections (s_register_iodecl); a section
\* that has none registers nothing.
RegisterIO ==
  /\ phase = "io"
  /\ \A d \in system.io : \A r \in d.csp : InBounds(r, <<>>)
  /\ phase' = "processes"
  /\ allowed' = UNION {{<<d.instance, ChannelLabel(<<>>, r.chan, Values(r, <<>>))>> :
                          r \in d.csp} : d \in system.io}
  /\ UNCHANGED <<system, procsLeft, proc, edgesLeft, localEvents, labels, broadcasts,
                 emits, recvs, csps, tau, output>>

FailIO ==
  /\ phase = "io"
  /\ \E d \in system.io : \E r \in d.csp : ~InBounds(r, <<>>)
  /\ phase' = "failed"
  /\ UNCHANGED <<system, procsLeft, proc, edgesLeft, localEvents, tables, tau, output>>

\* Start an instance of the next process, for some value of its parameters.
BeginProcess(c) ==
  LET p == system.procs[c.pos]
  IN  /\ phase = "processes" /\ edgesLeft = {}
      /\ \A d \in procsLeft : c.pos <= d.pos
      /\ procsLeft' = procsLeft \ {c}
      /\ proc' = ProcessLabel(p, c.val)
      /\ localEvents' = {}
      /\ edgesLeft' = UNION {{[pos |-> k, edge |-> p.edges[k], val |-> Extend(c.val, val)] :
                                val \in Valuations(p.edges[k].select)} :
                             k \in DOMAIN p.edges}
      /\ processes' = Append(processes, proc')
      /\ UNCHANGED <<system, phase, tables, tau, events, edges>>

\* Mutated form: the edge is not consumed.
RepeatedEdge(w) ==
  /\ phase = "processes"
  /\ \A x \in edgesLeft : w.pos <= x.pos
  /\ UNCHANGED edgesLeft

\* Take the next edge of the process, for some value of its selections.
NextEdge(w) ==
  /\ phase = "processes"
  /\ \A x \in edgesLeft : w.pos <= x.pos
  /\ edgesLeft' = edgesLeft \ {w}

\* The outputter declares tau on the first edge that is on an event of this
\* name, which a channel may have.
TauDeclared(ev) == IF ev = TauEvent /\ ~tau THEN <<ev>> ELSE <<>>

\* An edge without label is on the event tau.
TranslateTauEdge(w) ==
  /\ NextEdge(w)
  /\ w.edge.sync = <<>>
  /\ tau' = TRUE
  /\ events' = events \o TauDeclared(TauEvent)
  /\ edges' = edges \cup {<<proc, TauEvent>>}
  /\ UNCHANGED <<system, phase, procsLeft, proc, localEvents, tables, processes>>

\* Mutated form: the event is not remembered in the set of labels.
ForgottenEvent(s, ev, local) ==
  LET bare == local /\ s \notin localEvents
  IN  /\ localEvents' = IF bare THEN localEvents \cup {s} ELSE localEvents
      /\ events' = events \o (IF bare THEN <<s>> ELSE <<>>) \o <<ev>> \o TauDeclared(ev)
      /\ UNCHANGED labels

\* A local channel declares an event of its own name once per process, besides
\* the event of the edge, declared once for all.
DeclareEvents(s, ev, local) ==
  LET bare == local /\ s \notin localEvents
      new  == ev \notin labels
  IN  /\ localEvents' = IF bare THEN localEvents \cup {s} ELSE localEvents
      /\ labels' = labels \cup {ev}
      /\ events' = events \o (IF bare THEN <<s>> ELSE <<>>)
                          \o (IF new THEN <<ev>> ELSE <<>>) \o TauDeclared(ev)

\* Mutated form: the event, not the channel, is inserted.
BroadcastByEvent(s, ev, r) ==
  broadcasts' = IF ev \notin labels /\ r.bcast THEN broadcasts \cup {ev} ELSE broadcasts

\* Only the declaration of an event looks at the type of the channel.
RecordBroadcast(s, ev, r) ==
  broadcasts' = IF ev \notin labels /\ r.bcast THEN broadcasts \cup {s} ELSE broadcasts

\* The process goes in the table of the direction.
RecordProcess(s, dir) ==
  /\ emits' = IF dir = "!" THEN emits \cup {<<s, proc>>} ELSE emits
  /\ recvs' = IF dir = "?" THEN recvs \cup {<<s, proc>>} ELSE recvs
  /\ csps'  = IF dir = "csp" THEN csps \cup {<<s, proc>>} ELSE csps

\* An edge with a label is written on the event that s_build_edge_label makes.
TranslateSyncEdge(w) ==
  /\ NextEdge(w)
  /\ w.edge.sync # <<>>
  /\ LET r  == w.edge.sync[1]
         s  == ChannelLabel(proc, r.chan, Values(r, w.val))
         ev == EventLabel(r.dir, s)
     IN  /\ InBounds(r, w.val)
         /\ DeclareEvents(s, ev, r.chan.local)
         /\ RecordBroadcast(s, ev, r)
         /\ RecordProcess(s, r.dir)
         /\ tau' = (tau \/ ev = TauEvent)
         /\ edges' = edges \cup {<<proc, ev>>}
  /\ UNCHANGED <<system, phase, procsLeft, proc, allowed, processes>>

\* An index out of the bounds of its array ends the translation (tr_err).
FailEdge(w) ==
  /\ NextEdge(w)
  /\ w.edge.sync # <<>>
  /\ ~InBounds(w.edge.sync[1], w.val)
  /\ phase' = "failed"
  /\ UNCHANGED <<system, procsLeft, proc, localEvents, tables, tau, output>>

\* All the processes are translated.
EndProcesses ==
  /\ phase = "processes" /\ procsLeft = {} /\ edgesLeft = {}
  /\ phase' = "tables"
  /\ UNCHANGED <<system, procsLeft, proc, edgesLeft, localEvents, tables, tau, output>>

Next ==
  \/ RegisterIO \/ FailIO
  \/ \E c \in procsLeft : BeginProcess(c)
  \/ \E w \in edgesLeft : TranslateTauEdge(w) \/ TranslateSyncEdge(w) \/ FailEdge(w)
  \/ EndProcesses

Spec == Init /\ [][Next]_vars /\ WF_vars(Next)
=============================================================================
