----------------------------- MODULE Translation -----------------------------
(***************************************************************************)
(* translate_model: the processes are translated by EventTables, then the  *)
(* synchronisation vectors are written by SyncVectors from the tables.     *)
(* The properties compare the model written with the Uppaal system itself, *)
(* by way of labels and not of the tables in between.                      *)
(***************************************************************************)
EXTENDS EventTables

CONSTANTS
  ProcessLabels,  \* the labels of the instances
  ChannelLabels,  \* the labels of the channels, at their indices
  StuckProcess,   \* STUCK_PROCESS
  Ints            \* the ints that systems use as indices

\* Process i of a system, for a value of its unbound parameters, has a label, and
\* so has the channel of each of its edges, for a value of the selections.
LabelsKnown(S, i) ==
  LET p == S.procs[i]
  IN  \A val \in Valuations(p.unbound) :
        /\ ProcessLabel(p, val) \in ProcessLabels
        /\ \A k \in {j \in DOMAIN p.edges : p.edges[j].sync # <<>>} :
             \A sel \in Valuations(p.edges[k].select) :
               LET r == p.edges[k].sync[1]
                   all == Extend(val, sel)
               IN  InBounds(r, all) =>
                     ChannelLabel(ProcessLabel(p, val), r.chan, Values(r, all)) \in ChannelLabels

ASSUME LabelsAssumption ==
  \A S \in Systems :
    /\ \A i \in DOMAIN S.procs : LabelsKnown(S, i)
    /\ \A d \in S.io : \A r \in d.csp :
         InBounds(r, <<>>) => ChannelLabel(<<>>, r.chan, Values(r, <<>>)) \in ChannelLabels

ASSUME StuckNotProcess == StuckProcess \notin ProcessLabels

\* An index is a literal, a parameter or a selection.
Variables(params) == {params[k].var : k \in DOMAIN params}

IndicesKnown(r, variables) ==
  \A k \in DOMAIN r.idx :
    IF "var" \in DOMAIN r.idx[k] THEN r.idx[k].var \in variables ELSE r.idx[k].lit \in Ints

InInts(params) == \A k \in DOMAIN params : params[k].lo .. params[k].hi \subseteq Ints

\* The parser finds what identifiers stand for, and reports those that are
\* declared twice in a scope: that of all processes and of the channels that are
\* not local, or that of a template.
ScopesOK(S) ==
  LET Local(i) == {r.chan : r \in {q \in References(S.procs[i]) : q.chan.local}}
      All == UNION ({References(S.procs[i]) : i \in DOMAIN S.procs} \cup {d.csp : d \in S.io})
      Global == {r.chan : r \in {q \in All : ~q.chan.local}}
  IN  /\ \A c, d \in Global : c.name = d.name => c = d
      /\ \A i \in DOMAIN S.procs :
           LET p == S.procs[i]
           IN  /\ \A j \in DOMAIN S.procs : S.procs[j].name = p.name => i = j
               /\ \A c \in Global : c.name # p.name
               /\ \A c, d \in Local(i) : c.name = d.name => c = d
               /\ InInts(p.unbound)
               /\ \A k \in DOMAIN p.edges :
                    /\ InInts(p.edges[k].select)
                    /\ p.edges[k].sync # <<>> =>
                         IndicesKnown(p.edges[k].sync[1], Variables(p.unbound) \cup Variables(p.edges[k].select))
      /\ \A d \in S.io : \A r \in d.csp : IsReference(r) /\ IndicesKnown(r, {})

ASSUME ScopesAssumption == \A S \in Systems : ScopesOK(S)

\* std::to_string
ASSUME NumeralsAssumption ==
  \A i \in Ints : /\ \A j \in Ints : Numeral(i) = Numeral(j) => i = j
                  /\ Numeral(i) \notin {"emit", "recv"}

VARIABLES erased, loop, todo, vectors, stuckDecls

syncVars == <<erased, loop, todo, vectors, stuckDecls>>
allVars == <<vars, syncVars>>

\* The tables as SyncVectors reads them.
Entries(table) == [s \in ChannelLabels |-> {P \in ProcessLabels : <<s, P>> \in table}]

Sync == INSTANCE SyncVectors WITH
  Process <- ProcessLabels, Channel <- ChannelLabels, Stuck <- StuckProcess,
  emitters <- Entries(emits), receivers <- Entries(recvs), csp <- Entries(csps),
  allowedCsp <- [P \in ProcessLabels |-> {s \in ChannelLabels : <<P, s>> \in allowed}]

TInit ==
  /\ Init
  /\ erased = {} /\ loop = "none" /\ todo = {} /\ vectors = {} /\ stuckDecls = 0

TranslateProcesses == Next /\ UNCHANGED syncVars

GenerateSyncVectors ==
  /\ phase = "tables" /\ loop = "none"
  /\ loop' = "emitters"
  /\ todo' = Sync!Keys(Entries(emits))
  /\ UNCHANGED <<vars, erased, vectors, stuckDecls>>

SyncStep == UNCHANGED vars /\ Sync!Next

TNext == TranslateProcesses \/ GenerateSyncVectors \/ SyncStep

TSpec == TInit /\ [][TNext]_allVars /\ WF_allVars(TNext)

-----------------------------------------------------------------------------
(***************************************************************************)
(* The Uppaal system: its processes and the events on their edges, each    *)
(* channel being itself and not its name.                                  *)
(***************************************************************************)
\* The instances, with the valuations of their unbound parameters.
Instances ==
  UNION {{[pos |-> i, val |-> val] : val \in Valuations(system.procs[i].unbound)} :
         i \in DOMAIN system.procs}

LabelOf(c) == ProcessLabel(system.procs[c.pos], c.val)

\* The events of the edges: instance c, direction and channel with indices.
Offer(c, r, val) ==
  [inst |-> c, dir |-> r.dir, chan |-> r.chan, owner |-> IF r.chan.local THEN {c} ELSE {},
   idx |-> Values(r, val)]

OffersOf(c) ==
  LET E == system.procs[c.pos].edges
  IN  UNION {{Offer(c, E[k].sync[1], Extend(c.val, val)) : val \in Valuations(E[k].select)} :
             k \in {j \in DOMAIN E : E[j].sync # <<>>}}

Offers == UNION {OffersOf(c) : c \in Instances}

SameChannel(o, p) == o.chan = p.chan /\ o.owner = p.owner /\ o.idx = p.idx

\* The CSP channels an IO section gives to an instance, and whether it has one.
HasIO(c) == \E d \in system.io : d.instance = LabelOf(c) /\ d.csp # {}
NamedByIO(o) ==
  \E d \in system.io : /\ d.instance = LabelOf(o.inst)
                       /\ \E r \in d.csp : r.chan = o.chan /\ Values(r, <<>>) = o.idx

\* The sets of offers that may move together when the processes offer O, by
\* the rules of Uppaal (external; see SyncSemantics).
UppaalMove(O, m) ==
  \/ \E o, p \in O : /\ o.dir = "!" /\ p.dir = "?" /\ SameChannel(o, p)
                     /\ o.inst # p.inst /\ ~o.chan.bcast
                     /\ m = {o, p}
  \/ \E o \in O : /\ o.dir = "!" /\ o.chan.bcast
                  /\ m = {o} \cup {p \in O : /\ p.dir = "?" /\ SameChannel(o, p)
                                             /\ p.inst # o.inst}
  \/ \E o \in O : /\ o.dir = "csp" /\ NamedByIO(o)
                  /\ m = {p \in Offers : SameChannel(o, p) /\ NamedByIO(p)}
                  /\ m \subseteq O
  \/ \E o \in O : o.dir = "csp" /\ ~NamedByIO(o) /\ HasIO(o.inst) /\ m = {o}

(***************************************************************************)
(* The TChecker model: processes, events and vectors are their labels.     *)
(***************************************************************************)
ChannelLabelOf(o) == ChannelLabel(LabelOf(o.inst), o.chan, o.idx)

Written(o) == <<LabelOf(o.inst), EventLabel(o.dir, ChannelLabelOf(o))>>

\* The elements P@e of a vector.
EventOf(e) ==
  IF e[1] = "emit" THEN EventLabel("!", e[2])
  ELSE IF e[1] = "recv" THEN EventLabel("?", e[2])
  ELSE IF e[1] = "csp" THEN EventLabel("csp", e[2])
  ELSE <<"nosync">>

Element(v, P) == <<P, EventOf(v[P].event)>>

TCheckerMove(L, m) ==
  \/ \E v \in vectors :
       /\ \A P \in DOMAIN v : v[P].weak \/ Element(v, P) \in L
       /\ m = {Element(v, P) : P \in DOMAIN v} \cap L
  \/ \E l \in L : /\ \A v \in vectors : \A P \in DOMAIN v : Element(v, P) # l
                  /\ m = {l}

-----------------------------------------------------------------------------
Done == loop = "done"

\* The offers that are the receptions of a process which is the only one to
\* emit on their channel, while others receive on it (see SyncSemantics).
SelfTrapped(o) ==
  LET Emitters  == {p.inst : p \in {q \in Offers : q.dir = "!" /\ SameChannel(o, q)}}
      Receivers == {p.inst : p \in {q \in Offers : q.dir = "?" /\ SameChannel(o, q)}}
  IN  o.dir = "?" /\ Emitters = {o.inst} /\ Receivers # {o.inst}

\* The channels that the IO sections name.
IOReferences == UNION {d.csp : d \in system.io}

\* No identifier has an underscore in it.
PlainNames ==
  /\ \A i \in DOMAIN system.procs : Len(system.procs[i].name) = 1
  /\ \A o \in Offers : Len(o.chan.name) = 1
  /\ \A r \in IOReferences : Len(r.chan.name) = 1

\* Every instance and every channel, at its indices, has a label of its own.
NamesApart ==
  /\ \A c, d \in Instances : LabelOf(c) = LabelOf(d) => c = d
  /\ \A o, p \in Offers : ChannelLabelOf(o) = ChannelLabelOf(p) => SameChannel(o, p)

\* The label of a channel is not that of an emission or a reception.
EventsApart ==
  \A o, p \in Offers : p.dir # "csp" => ChannelLabelOf(o) # Written(p)[2]

\* An IO section does not name a channel by the label of another.
IOApart ==
  \A o \in Offers : \A r \in IOReferences :
    ChannelLabelOf(o) = ChannelLabel(<<>>, r.chan, Values(r, <<>>)) =>
      r.chan = o.chan /\ Values(r, <<>>) = o.idx

\* The edges name channels by symbols of their types: no broadcast channel is
\* passed by reference as one that is not, or the other way round.
FlagsAgree ==
  \A i \in DOMAIN system.procs : \A r \in References(system.procs[i]) : r.bcast = r.chan.bcast

\* Labels clash only when an identifier has an underscore in it: instances,
\* channels at their indices and events are otherwise kept apart by their names
\* (s_translate_process_rec, add_prefix, s_build_edge_label).
LabelsApart == PlainNames => NamesApart /\ EventsApart /\ IOApart

\* Unless labels clash or types are lost in parameters, the model written moves
\* exactly as the Uppaal system does, whatever the processes offer, except for
\* the receptions of self-trapped processes: names, tables and vectors together
\* keep every channel apart from the others.
SameMoves ==
  Done /\ NamesApart /\ IOApart /\ FlagsAgree => \A O \in SUBSET Offers :
    LET L == {Written(o) : o \in O}
    IN  /\ \A m \in SUBSET O : UppaalMove(O, m) => TCheckerMove(L, {Written(o) : o \in m})
        /\ \A m \in SUBSET O :
             TCheckerMove(L, {Written(o) : o \in m}) =>
               UppaalMove(O, m) \/ \E o \in O : SelfTrapped(o) /\ m = {o}

\* An element P@e of a vector is about a process declared and an event declared
\* that labels one of its edges: the two passes build the same names.
ElementsHaveEdges ==
  \A v \in vectors : \A P \in DOMAIN v \ {StuckProcess} :
    /\ \E k \in DOMAIN processes : processes[k] = P
    /\ \E k \in DOMAIN events : events[k] = Element(v, P)[2]
    /\ Element(v, P) \in edges

\* Every edge is on an event already declared and, unless labels clash, no event
\* is declared twice, but for that of a local CSP channel: its bare name,
\* declared with the process, is the name of its event too; and for a CSP
\* channel named tau.  One table, kept for one process, and one kept for all,
\* decide it.
EventsDeclared ==
  /\ \A l \in edges : \E k \in DOMAIN events : events[k] = l[2]
  /\ NamesApart /\ EventsApart =>
       \A j, k \in DOMAIN events :
         j # k /\ events[j] = events[k] =>
           \E o \in Offers : /\ o.dir = "csp" /\ Written(o)[2] = events[j]
                             /\ o.chan.local \/ events[j] = TauEvent

\* The tables always satisfy what the second pass takes for granted of them.
TablesReady == loop # "none" => Sync!TypeOK

\* Unless an index is out of bounds, the translation ends with all its vectors.
Completes == <>(Done \/ phase = "failed")
=============================================================================
