--------------------------- MODULE TranslationProofs ---------------------------
(***************************************************************************)
(* Proofs about the whole translation, processes then synchronisation      *)
(* vectors, for any systems.  What is proved of the vectors alone holds of *)
(* the vectors written here, once the tables are shown to be as the second *)
(* pass takes them to be.                                                  *)
(***************************************************************************)
EXTENDS Translation, ListLemmas

SP == INSTANCE SyncProofs WITH
  Process <- ProcessLabels, Channel <- ChannelLabels, Stuck <- StuckProcess,
  emitters <- Entries(emits), receivers <- Entries(recvs), csp <- Entries(csps),
  allowedCsp <- [P \in ProcessLabels |-> {s \in ChannelLabels : <<P, s>> \in allowed}]

Declared(e) == Occurs(events, e)
Begun(P) == Occurs(processes, P)

\* The edges of instance c, with the values of their selections.
Work(c) ==
  LET p == system.procs[c.pos]
  IN  UNION {{[pos |-> k, edge |-> p.edges[k], val |-> Extend(c.val, val)] :
                val \in Valuations(p.edges[k].select)} :
             k \in DOMAIN p.edges}

\* The work left is that of an instance that has begun.
WorkOK ==
  /\ system \in Systems
  /\ procsLeft \subseteq Instances
  /\ edgesLeft # {} =>
       /\ \E c \in Instances \ procsLeft : proc = LabelOf(c) /\ edgesLeft \subseteq Work(c)
       /\ Begun(proc)
  /\ phase \in {"io", "processes", "tables", "failed"}
  /\ List(processes) /\ List(events)

\* What is written on edges is declared.
EdgesDeclared ==
  /\ \A l \in edges : Begun(l[1]) /\ Declared(l[2])
  /\ \A e \in labels : Declared(e)
  /\ tau => Declared(TauEvent)

\* The tables record the edges written.
TablesRecord ==
  /\ \A s, P : <<s, P>> \in emits => <<P, EventLabel("!", s)>> \in edges
  /\ \A s, P : <<s, P>> \in recvs => <<P, EventLabel("?", s)>> \in edges
  /\ \A s, P : <<s, P>> \in csps => <<P, EventLabel("csp", s)>> \in edges

\* A broadcast channel known has a process that emits, receives or joins on it.
BroadcastsRecorded ==
  /\ broadcasts \subseteq ChannelLabels
  /\ \A s \in broadcasts : \E P \in ProcessLabels : <<s, P>> \in emits \cup recvs \cup csps

\* The kinds of synchronisation in the tables are those of the system.
KindsOfSystem ==
  /\ emits \cup recvs # {} => \E i \in DOMAIN system.procs : \E r \in References(system.procs[i]) : r.dir # "csp"
  /\ csps # {} => \E i \in DOMAIN system.procs : \E r \in References(system.procs[i]) : r.dir = "csp"
  /\ allowed # {} => \E d \in system.io : d.csp # {}

TablesInv == TablesRecord /\ BroadcastsRecorded /\ KindsOfSystem

\* What an event declared twice may be.
Excused(x) ==
  \E o \in Offers : o.dir = "csp" /\ Written(o)[2] = x /\ (o.chan.local \/ x = TauEvent)

\* The name of a local channel, declared with its process.
Bare(x) ==
  \E o \in Offers : /\ o.chan.local /\ ChannelLabelOf(o) = x /\ o.inst \notin procsLeft
                    /\ LabelOf(o.inst) = proc => x \in localEvents

\* An event is declared as that of an edge, as tau, or as a bare name.
SourcesKnown ==
  /\ \A x \in labels : \E o \in Offers : Written(o)[2] = x
  /\ \A x : Declared(x) => x \in labels \/ (x = TauEvent /\ tau) \/ Bare(x)

RepeatsExcused == \A x : Repeats(events, x) => Excused(x)

OnceInv == NamesApart /\ EventsApart => SourcesKnown /\ RepeatsExcused

-----------------------------------------------------------------------------
\* The offer that an edge to translate makes.
IsOfferOf(o, w) ==
  LET r == w.edge.sync[1]
  IN  /\ o \in Offers /\ o.inst \notin procsLeft /\ proc = LabelOf(o.inst)
      /\ o.dir = r.dir /\ o.chan = r.chan /\ o.owner = (IF r.chan.local THEN {o.inst} ELSE {})
      /\ ChannelLabelOf(o) = ChannelLabel(proc, r.chan, Values(r, w.val))
      /\ Written(o) = <<proc, EventLabel(r.dir, ChannelLabel(proc, r.chan, Values(r, w.val)))>>

\* An edge to translate makes an offer, in a reference of the system whose labels
\* are known.
LEMMA EdgeOffer ==
  ASSUME WorkOK, NEW w \in edgesLeft, w.edge.sync # <<>>
  PROVE  LET r == w.edge.sync[1]
         IN  /\ \E o : IsOfferOf(o, w)
             /\ IsReference(r) /\ \E i \in DOMAIN system.procs : r \in References(system.procs[i])
             /\ proc \in ProcessLabels
             /\ InBounds(r, w.val) => ChannelLabel(proc, r.chan, Values(r, w.val)) \in ChannelLabels
<1> DEFINE r == w.edge.sync[1]
<1>1. PICK c \in Instances \ procsLeft : proc = LabelOf(c) /\ edgesLeft \subseteq Work(c)
  BY DEF WorkOK
<1> DEFINE p == system.procs[c.pos]
<1>2. c.pos \in DOMAIN system.procs /\ c.val \in Valuations(p.unbound)
  BY DEF Instances
<1>3. PICK k \in DOMAIN p.edges : \E val \in Valuations(p.edges[k].select) :
             w = [pos |-> k, edge |-> p.edges[k], val |-> Extend(c.val, val)]
  BY <1>1 DEF Work
<1>4. PICK val \in Valuations(p.edges[k].select) :
             w = [pos |-> k, edge |-> p.edges[k], val |-> Extend(c.val, val)]
  BY <1>3
<1>5. w.edge = p.edges[k] /\ w.val = Extend(c.val, val)
  BY <1>4
<1>6. r \in References(p) /\ IsProcess(p) /\ IsReference(r)
  BY <1>2, <1>5, SystemsAssumption DEF References, IsProcess, WorkOK
<1>7. LabelsKnown(system, c.pos)
  BY <1>2, LabelsAssumption DEF WorkOK
<1>8. /\ ProcessLabel(p, c.val) \in ProcessLabels
      /\ InBounds(r, w.val) => ChannelLabel(ProcessLabel(p, c.val), r.chan, Values(r, w.val)) \in ChannelLabels
  BY <1>2, <1>5, <1>7 DEF LabelsKnown
<1>9. LabelOf(c) = ProcessLabel(p, c.val)
  BY DEF LabelOf
<1> DEFINE o == Offer(c, r, w.val)
<1>10. o \in OffersOf(c)
  <2>1. k \in {j \in DOMAIN p.edges : p.edges[j].sync # <<>>} /\ o = Offer(c, p.edges[k].sync[1], Extend(c.val, val))
    BY <1>5
  <2> DEFINE E == p.edges
             made(j) == {Offer(c, E[j].sync[1], Extend(c.val, v)) : v \in Valuations(E[j].select)}
  <2>2. o \in made(k)
    BY ONLY <1>4, <2>1
  <2> HIDE DEF o
  <2>3. o \in UNION {made(j) : j \in {j \in DOMAIN E : E[j].sync # <<>>}}
    <3> HIDE DEF made
    <3> QED  BY ONLY <2>1, <2>2
  <2> QED  BY ONLY <2>3 DEF OffersOf
<1>11. /\ o.inst = c /\ o.dir = r.dir /\ o.chan = r.chan /\ o.idx = Values(r, w.val)
       /\ o.owner = IF r.chan.local THEN {c} ELSE {}
  BY DEF Offer
<1>12. o \in Offers
  BY <1>10 DEF Offers
<1> HIDE DEF o, r, p
<1>13. ChannelLabelOf(o) = ChannelLabel(proc, r.chan, Values(r, w.val))
  BY <1>1, <1>11 DEF ChannelLabelOf
<1>14. Written(o) = <<proc, EventLabel(r.dir, ChannelLabel(proc, r.chan, Values(r, w.val)))>>
  BY <1>1, <1>11, <1>13 DEF Written
<1>15. IsOfferOf(o, w)
  BY <1>1, <1>11, <1>12, <1>13, <1>14 DEF IsOfferOf, r
<1> QED  BY <1>1, <1>2, <1>6, <1>8, <1>9, <1>15 DEF r, p

-----------------------------------------------------------------------------
\* The system does not change, and neither do its instances, offers and labels.
LEMMA SystemFixed ==
  ASSUME [Next]_vars
  PROVE  /\ system' = system /\ Instances' = Instances /\ Offers' = Offers
         /\ \A c : LabelOf(c)' = LabelOf(c) /\ Work(c)' = Work(c)
         /\ \A o : ChannelLabelOf(o)' = ChannelLabelOf(o) /\ Written(o)' = Written(o)
<1>1. system' = system
  BY DEF Next, vars, RegisterIO, FailIO, BeginProcess, TranslateTauEdge, TranslateSyncEdge, FailEdge, EndProcesses
<1>2. Instances' = Instances /\ (\A c : LabelOf(c)' = LabelOf(c)) /\ (\A c : Work(c)' = Work(c))
  BY <1>1 DEF Instances, LabelOf, Work
<1>3. \A o : ChannelLabelOf(o)' = ChannelLabelOf(o)
  BY <1>2 DEF ChannelLabelOf
<1>4. \A o : Written(o)' = Written(o)
  BY <1>2, <1>3 DEF Written
<1>5. \A c : OffersOf(c)' = OffersOf(c)
  BY <1>1 DEF OffersOf
<1>6. Offers' = Offers
  BY <1>2, <1>5 DEF Offers
<1> QED  BY <1>1, <1>2, <1>3, <1>4, <1>6

\* What a step on an edge writes.
LEMMA SyncEdgeWrites ==
  ASSUME WorkOK, NEW w \in edgesLeft, TranslateSyncEdge(w)
  PROVE  LET r  == w.edge.sync[1]
             s  == ChannelLabel(proc, r.chan, Values(r, w.val))
             ev == EventLabel(r.dir, s)
         IN  /\ w.edge.sync # <<>> /\ phase = "processes" /\ InBounds(r, w.val)
             /\ edgesLeft' = edgesLeft \ {w} /\ phase' = phase
             /\ procsLeft' = procsLeft /\ proc' = proc /\ allowed' = allowed /\ processes' = processes
             /\ edges' = edges \cup {<<proc, ev>>}
             /\ tau' = (tau \/ ev = TauEvent)
             /\ labels' = labels \cup {ev}
             /\ DeclareEvents(s, ev, r.chan.local)
             /\ RecordBroadcast(s, ev, r) /\ RecordProcess(s, r.dir)
BY DEF TranslateSyncEdge, NextEdge, DeclareEvents

\* Every step keeps the work that is left part of the system.
LEMMA WorkStep == WorkOK /\ [Next]_vars => WorkOK'
<1> SUFFICES ASSUME WorkOK, [Next]_vars PROVE WorkOK'
  OBVIOUS
<1>1. /\ system' = system /\ Instances' = Instances
      /\ \A c : LabelOf(c)' = LabelOf(c) /\ Work(c)' = Work(c)
  BY SystemFixed
<1>2. ASSUME UNCHANGED <<processes, events, procsLeft, proc>>, edgesLeft' \subseteq edgesLeft,
             phase' \in {"io", "processes", "tables", "failed"}
      PROVE  WorkOK'
  <2>1. edgesLeft' # {} => Begun(proc)'
    BY <1>2 DEF WorkOK, Begun, Occurs
  <2>2. edgesLeft' # {} => \E c \in Instances \ procsLeft : proc = LabelOf(c) /\ edgesLeft' \subseteq Work(c)
    BY <1>2 DEF WorkOK
  <2>3. List(processes)' /\ List(events)'
    BY <1>2 DEF WorkOK, List
  <2> QED  BY <1>1, <1>2, <2>1, <2>2, <2>3 DEF WorkOK
<1>3. CASE RegisterIO \/ FailIO \/ EndProcesses \/ UNCHANGED vars
  BY <1>2, <1>3 DEF RegisterIO, FailIO, EndProcesses, vars, output, WorkOK
<1>4. ASSUME NEW c \in procsLeft, BeginProcess(c) PROVE WorkOK'
  <2>1. /\ procsLeft' = procsLeft \ {c} /\ proc' = LabelOf(c) /\ edgesLeft' = Work(c)
        /\ processes' = Append(processes, proc') /\ events' = events /\ phase' = phase
    BY <1>4 DEF BeginProcess, LabelOf, Work
  <2>2. List(processes)' /\ Begun(proc)'
    <3>1. List(processes') /\ Occurs(processes', proc')
      BY <2>1, OccursInAppend DEF WorkOK
    <3> QED  BY <3>1 DEF List, Begun, Occurs
  <2>3. List(events)'
    BY <2>1 DEF WorkOK, List
  <2>4. c \in Instances \ procsLeft'
    BY <2>1 DEF WorkOK
  <2> QED  BY <1>1, <2>1, <2>2, <2>3, <2>4 DEF WorkOK
<1>5. ASSUME NEW w \in edgesLeft, FailEdge(w) PROVE WorkOK'
  BY <1>2, <1>5 DEF FailEdge, NextEdge, output
<1>6. ASSUME UNCHANGED <<processes, procsLeft, proc, phase>>, edgesLeft' \subseteq edgesLeft, List(events')
      PROVE  WorkOK'
  <2>1. edgesLeft' # {} => Begun(proc)'
    BY <1>6 DEF WorkOK, Begun, Occurs
  <2>2. edgesLeft' # {} => \E c \in Instances \ procsLeft : proc = LabelOf(c) /\ edgesLeft' \subseteq Work(c)
    BY <1>6 DEF WorkOK
  <2>3. List(processes)' /\ List(events)'
    BY <1>6 DEF WorkOK, List
  <2> QED  BY <1>1, <1>6, <2>1, <2>2, <2>3 DEF WorkOK
<1>7. ASSUME NEW e PROVE List(<<e>>)
  BY SeqIsList, <<e>> \in Seq({e})
<1>8. ASSUME NEW w \in edgesLeft, TranslateTauEdge(w) PROVE WorkOK'
  <2>1. List(TauDeclared(TauEvent))
    BY <1>7, EmptyList DEF TauDeclared
  <2>2. List(events \o TauDeclared(TauEvent))
    BY <2>1, ListConcat DEF WorkOK
  <2> QED  BY <1>6, <1>8, <2>2 DEF TranslateTauEdge, NextEdge
<1>9. ASSUME NEW w \in edgesLeft, TranslateSyncEdge(w) PROVE WorkOK'
  <2> DEFINE r == w.edge.sync[1]
             s == ChannelLabel(proc, r.chan, Values(r, w.val))
             ev == EventLabel(r.dir, s)
             A == IF r.chan.local /\ s \notin localEvents THEN <<s>> ELSE <<>>
             B == IF ev \notin labels THEN <<ev>> ELSE <<>>
  <2>1. List(A) /\ List(B) /\ List(TauDeclared(ev))
    BY <1>7, EmptyList DEF TauDeclared
  <2>2. events' = events \o A \o B \o TauDeclared(ev)
    BY <1>9 DEF TranslateSyncEdge, DeclareEvents
  <2> HIDE DEF A, B, ev
  <2>3. List(events \o A \o B \o TauDeclared(ev))
    BY <2>1, ListConcat DEF WorkOK
  <2> QED  BY <1>6, <1>9, <2>2, <2>3, SyncEdgeWrites
<1> QED  BY <1>3, <1>4, <1>5, <1>8, <1>9 DEF Next

\* The events that a step on an edge declares.
LEMMA EventsDeclaredBy ==
  ASSUME List(events), NEW s, NEW ev, NEW local, DeclareEvents(s, ev, local)
  PROVE  LET bare == local /\ s \notin localEvents
             new  == ev \notin labels
             first == ev = TauEvent /\ ~tau
         IN  /\ \A x : Occurs(events', x) <=>
                        Occurs(events, x) \/ (bare /\ x = s) \/ (new /\ x = ev) \/ (first /\ x = ev)
             /\ \A x : Repeats(events', x) =>
                  \/ Repeats(events, x)
                  \/ bare /\ x = s /\ Occurs(events, x)
                  \/ new /\ x = ev /\ (Occurs(events, x) \/ (bare /\ x = s))
                  \/ first /\ x = ev
<1> DEFINE bare == local /\ s \notin localEvents
           new  == ev \notin labels
           first == ev = TauEvent /\ ~tau
           t1 == events \o (IF bare THEN <<s>> ELSE <<>>)
           t2 == t1 \o (IF new THEN <<ev>> ELSE <<>>)
           t3 == t2 \o (IF first THEN <<ev>> ELSE <<>>)
<1>1. events' = t3
  BY DEF DeclareEvents, TauDeclared
<1> HIDE DEF bare, new, first
<1>2a. t1 = events \o (IF bare THEN <<s>> ELSE <<>>)
  OBVIOUS
<1> HIDE DEF t1
<1>2. /\ List(t1)
      /\ \A x : Occurs(t1, x) <=> Occurs(events, x) \/ (bare /\ x = s)
      /\ \A x : Repeats(t1, x) => Repeats(events, x) \/ (bare /\ x = s /\ Occurs(events, x))
  BY <1>2a, ListExtended
<1>2b. List(t1)
  BY <1>2
<1>3a. t2 = t1 \o (IF new THEN <<ev>> ELSE <<>>)
  OBVIOUS
<1> HIDE DEF t2
<1>3. /\ List(t2)
      /\ \A x : Occurs(t2, x) <=> Occurs(t1, x) \/ (new /\ x = ev)
      /\ \A x : Repeats(t2, x) => Repeats(t1, x) \/ (new /\ x = ev /\ Occurs(t1, x))
  BY <1>2b, <1>3a, ListExtended
<1>3b. List(t2)
  BY <1>3
<1>4a. t3 = t2 \o (IF first THEN <<ev>> ELSE <<>>)
  OBVIOUS
<1> HIDE DEF t3
<1>4. /\ List(t3)
      /\ \A x : Occurs(t3, x) <=> Occurs(t2, x) \/ (first /\ x = ev)
      /\ \A x : Repeats(t3, x) => Repeats(t2, x) \/ (first /\ x = ev /\ Occurs(t2, x))
  BY <1>3b, <1>4a, ListExtended
<1>5. /\ \A x : Occurs(t3, x) <=>
                Occurs(events, x) \/ (bare /\ x = s) \/ (new /\ x = ev) \/ (first /\ x = ev)
      /\ \A x : Repeats(t3, x) =>
           \/ Repeats(events, x)
           \/ bare /\ x = s /\ Occurs(events, x)
           \/ new /\ x = ev /\ (Occurs(events, x) \/ (bare /\ x = s))
           \/ first /\ x = ev
  BY <1>2, <1>3, <1>4
<1> QED  BY <1>1, <1>5 DEF bare, new, first

\* The events and the processes declared stay declared.
LEMMA StayDeclared ==
  ASSUME WorkOK, [Next]_vars
  PROVE  /\ \A e : Declared(e) => Occurs(events', e)
         /\ \A P : Begun(P) => Occurs(processes', P)
<1>1. CASE UNCHANGED <<processes, events>>
  BY <1>1 DEF Declared, Begun
<1>2. ASSUME NEW c \in procsLeft, BeginProcess(c)
      PROVE  events' = events /\ \A P : Begun(P) => Occurs(processes', P)
  <2>1. events' = events /\ processes' = Append(processes, proc')
    BY <1>2 DEF BeginProcess
  <2> QED  BY <2>1, OccursInAppend DEF WorkOK, Begun
<1>3. ASSUME NEW w \in edgesLeft, TranslateTauEdge(w)
      PROVE  processes' = processes /\ \A e : Declared(e) => Occurs(events', e)
  <2>1. /\ processes' = processes
        /\ events' = events \o (IF TauEvent = TauEvent /\ ~tau THEN <<TauEvent>> ELSE <<>>)
    BY <1>3 DEF TranslateTauEdge, TauDeclared
  <2> QED  BY <2>1, ListExtended DEF WorkOK, Declared
<1>4. ASSUME NEW w \in edgesLeft, TranslateSyncEdge(w)
      PROVE  processes' = processes /\ \A e : Declared(e) => Occurs(events', e)
  BY <1>4, SyncEdgeWrites, EventsDeclaredBy DEF WorkOK, Declared
<1> QED  BY <1>1, <1>2, <1>3, <1>4 DEF Next, vars, RegisterIO, FailIO, FailEdge, EndProcesses, output, Begun, Declared

\* Every step keeps edges on events that are declared.
LEMMA EdgesStep == WorkOK /\ EdgesDeclared /\ [Next]_vars => EdgesDeclared'
<1> SUFFICES ASSUME WorkOK, EdgesDeclared, [Next]_vars PROVE EdgesDeclared'
  OBVIOUS
<1>1. ASSUME /\ \A l \in edges' : Occurs(processes', l[1]) /\ Occurs(events', l[2])
             /\ \A e \in labels' : Occurs(events', e)
             /\ tau' => Occurs(events', TauEvent)
      PROVE  EdgesDeclared'
  BY <1>1 DEF EdgesDeclared, Declared, Begun, Occurs
<1>2. /\ \A l \in edges : Occurs(processes', l[1]) /\ Occurs(events', l[2])
      /\ \A e \in labels : Occurs(events', e)
      /\ tau => Occurs(events', TauEvent)
  BY StayDeclared DEF EdgesDeclared
<1>3. CASE UNCHANGED <<edges, labels, tau>>
  BY <1>1, <1>2, <1>3
<1>4. edgesLeft # {} => Occurs(processes', proc)
  BY StayDeclared DEF WorkOK
<1>5. ASSUME NEW w \in edgesLeft, TranslateTauEdge(w) PROVE EdgesDeclared'
  <2>1. /\ tau' = TRUE /\ labels' = labels /\ edges' = edges \cup {<<proc, TauEvent>>}
        /\ events' = events \o (IF ~tau THEN <<TauEvent>> ELSE <<>>)
    BY <1>5 DEF TranslateTauEdge, TauDeclared, tables
  <2>2. List(events)
    BY DEF WorkOK
  <2>3. \A x : Occurs(events', x) <=> Occurs(events, x) \/ (~tau /\ x = TauEvent)
    BY <2>1, <2>2, ListExtended
  <2>4. Occurs(events', TauEvent)
    BY <1>2, <2>3
  <2> QED  BY <1>1, <1>2, <1>4, <2>1, <2>4
<1>6. ASSUME NEW w \in edgesLeft, TranslateSyncEdge(w) PROVE EdgesDeclared'
  <2> DEFINE r == w.edge.sync[1]
             s == ChannelLabel(proc, r.chan, Values(r, w.val))
             ev == EventLabel(r.dir, s)
  <2>1. /\ tau' = (tau \/ ev = TauEvent) /\ labels' = labels \cup {ev} /\ edges' = edges \cup {<<proc, ev>>}
        /\ DeclareEvents(s, ev, r.chan.local)
    BY <1>6, SyncEdgeWrites
  <2> HIDE DEF ev, s, r
  <2>2. ev \notin labels => Occurs(events', ev)
    BY <2>1, EventsDeclaredBy DEF WorkOK
  <2>3. Occurs(events', ev)
    BY <1>2, <2>2
  <2>4. tau' => Occurs(events', TauEvent)
    BY <1>2, <2>1, <2>3, Zenon
  <2>5. \A l \in edges' : Occurs(processes', l[1]) /\ Occurs(events', l[2])
    BY <1>2, <1>4, <2>1, <2>3
  <2>6. \A e \in labels' : Occurs(events', e)
    BY <1>2, <2>1, <2>3
  <2> QED  BY <1>1, <2>4, <2>5, <2>6
<1> QED
  BY <1>3, <1>5, <1>6 DEF Next, vars, RegisterIO, FailIO, BeginProcess, FailEdge, EndProcesses, output, tables

\* Every step keeps the tables in line with the edges written.
LEMMA TablesStep == WorkOK /\ TablesInv /\ [Next]_vars => TablesInv'
<1> SUFFICES ASSUME WorkOK, TablesInv, [Next]_vars PROVE TablesInv'
  OBVIOUS
<1>1. system' = system
  BY SystemFixed
<1>2. CASE UNCHANGED tables /\ edges \subseteq edges'
  BY <1>1, <1>2 DEF TablesInv, TablesRecord, BroadcastsRecorded, KindsOfSystem, tables
<1>3. CASE RegisterIO
  <2>1. /\ UNCHANGED <<emits, recvs, csps, broadcasts, edges>>
        /\ allowed' = UNION {{<<d.instance, ChannelLabel(<<>>, r.chan, Values(r, <<>>))>> :
                                r \in d.csp} : d \in system.io}
    BY <1>3 DEF RegisterIO, output
  <2>2. allowed' # {} => \E d \in system.io : d.csp # {}
    BY <2>1
  <2> QED  BY <1>1, <2>1, <2>2 DEF TablesInv, TablesRecord, BroadcastsRecorded, KindsOfSystem
<1>4. ASSUME NEW w \in edgesLeft, TranslateSyncEdge(w) PROVE TablesInv'
  <2> DEFINE r == w.edge.sync[1]
             s == ChannelLabel(proc, r.chan, Values(r, w.val))
             ev == EventLabel(r.dir, s)
  <2>1. /\ edges' = edges \cup {<<proc, ev>>} /\ allowed' = allowed
        /\ RecordBroadcast(s, ev, r) /\ RecordProcess(s, r.dir)
        /\ w.edge.sync # <<>> /\ InBounds(r, w.val)
    BY <1>4, SyncEdgeWrites
  <2>2. /\ s \in ChannelLabels /\ proc \in ProcessLabels
        /\ \E i \in DOMAIN system.procs : r \in References(system.procs[i])
        /\ r.dir \in {"!", "?", "csp"}
    BY <2>1, EdgeOffer DEF IsReference
  <2>3. /\ r.dir = "!" => ev = EventLabel("!", s)
        /\ r.dir = "?" => ev = EventLabel("?", s)
        /\ r.dir = "csp" => ev = EventLabel("csp", s)
    OBVIOUS
  <2> HIDE DEF ev, s, r
  <2>4. TablesRecord'
    BY <2>1, <2>3 DEF TablesInv, TablesRecord, RecordProcess
  <2>5. BroadcastsRecorded'
    <3>1. broadcasts' \subseteq broadcasts \cup {s}
      BY <2>1 DEF RecordBroadcast
    <3>2. <<s, proc>> \in emits' \cup recvs' \cup csps' /\ emits \cup recvs \cup csps \subseteq emits' \cup recvs' \cup csps'
      BY <2>1, <2>2 DEF RecordProcess
    <3> QED  BY <2>2, <3>1, <3>2 DEF TablesInv, BroadcastsRecorded
  <2>6. KindsOfSystem'
    BY <1>1, <2>1, <2>2 DEF TablesInv, KindsOfSystem, RecordProcess
  <2> QED  BY <2>4, <2>5, <2>6 DEF TablesInv
<1> QED
  BY <1>2, <1>3, <1>4 DEF Next, vars, FailIO, BeginProcess, TranslateTauEdge, FailEdge, EndProcesses, output

\* What the processes leave to the second pass.
ProcessesInv == WorkOK /\ EdgesDeclared /\ TablesInv

\* Every step of the first pass keeps its invariant.
LEMMA ProcessesStep == ProcessesInv /\ [Next]_vars => ProcessesInv'
BY WorkStep, EdgesStep, TablesStep DEF ProcessesInv

\* The invariant of the first pass holds at first.
LEMMA ProcessesInit == Init => ProcessesInv
<1> SUFFICES ASSUME Init PROVE ProcessesInv
  OBVIOUS
<1>1. WorkOK
  BY EmptyList DEF Init, WorkOK, Instances
<1>2. EdgesDeclared
  BY DEF Init, EdgesDeclared
<1>3. TablesInv
  BY DEF Init, TablesInv, TablesRecord, BroadcastsRecorded, KindsOfSystem
<1> QED  BY <1>1, <1>2, <1>3 DEF ProcessesInv

-----------------------------------------------------------------------------
(***************************************************************************)
(* The second pass.                                                        *)
(***************************************************************************)
\* The second pass is the one that SyncProofs is about.
LEMMA SamePass ==
  /\ Sync!Next => SP!Next
  /\ SP!TypeOK => Sync!TypeOK
<1>1. Sync!Next => SP!Next
  BY DEF SP!Next, Sync!Next, SP!Iterate, Sync!Iterate, SP!EmitUnreceived, Sync!EmitUnreceived,
       SP!EmitPairwise, Sync!EmitPairwise, SP!EmitBroadcast, Sync!EmitBroadcast, SP!BlockReceivers,
       Sync!BlockReceivers, SP!SyncCsp, Sync!SyncCsp, SP!EnterReceivers, Sync!EnterReceivers,
       SP!EnterCsp, Sync!EnterCsp, SP!Finish, Sync!Finish, SP!Visit, Sync!Visit, SP!Output,
       Sync!Output, SP!EraseReceivers, Sync!EraseReceivers, SP!Handshakes, Sync!Handshakes,
       SP!Matched, Sync!Matched, SP!Pair, Sync!Pair, SP!Broadcast, Sync!Broadcast, SP!Blocked,
       Sync!Blocked, SP!Strong, Sync!Strong, SP!Weak, Sync!Weak, SP!StrongSync, Sync!StrongSync,
       SP!CspJoined, Sync!CspJoined, SP!CspBlocked, Sync!CspBlocked, SP!Emission, Sync!Emission,
       SP!Reception, Sync!Reception, SP!CspEvent, Sync!CspEvent, SP!NoSync, Sync!NoSync, SP!Keys,
       Sync!Keys, SP!tables, Sync!tables
<1>2. SP!TypeOK => Sync!TypeOK
  BY DEF SP!TypeOK, Sync!TypeOK, SP!TablesOK, Sync!TablesOK, SP!CursorOK, Sync!CursorOK, SP!Keys, Sync!Keys,
       SP!Event, Sync!Event, SP!ChannelEvents, Sync!ChannelEvents, SP!Emission, Sync!Emission,
       SP!Reception, Sync!Reception, SP!CspEvent, Sync!CspEvent, SP!NoSync, Sync!NoSync
<1> QED  BY <1>1, <1>2

\* When the processes are translated the tables are as the second pass takes
\* them to be.
LEMMA TablesAsTaken == ProcessesInv => SP!TablesOK
<1> SUFFICES ASSUME ProcessesInv PROVE SP!TablesOK
  OBVIOUS
<1> DEFINE E == Entries(emits)
           R == Entries(recvs)
           C == Entries(csps)
           A == [P \in ProcessLabels |-> {s \in ChannelLabels : <<P, s>> \in allowed}]
<1>1. /\ E \in [ChannelLabels -> SUBSET ProcessLabels] /\ R \in [ChannelLabels -> SUBSET ProcessLabels]
      /\ C \in [ChannelLabels -> SUBSET ProcessLabels] /\ A \in [ProcessLabels -> SUBSET ChannelLabels]
  BY DEF Entries
<1>2. \A s \in ChannelLabels : /\ E[s] = {P \in ProcessLabels : <<s, P>> \in emits}
                               /\ R[s] = {P \in ProcessLabels : <<s, P>> \in recvs}
                               /\ C[s] = {P \in ProcessLabels : <<s, P>> \in csps}
  BY DEF Entries
<1>3. \A P \in ProcessLabels : A[P] = {s \in ChannelLabels : <<P, s>> \in allowed}
  OBVIOUS
<1>4. OneKind(system) /\ KindsOfSystem /\ BroadcastsRecorded
  BY SystemsAssumption DEF ProcessesInv, WorkOK, TablesInv
<1>5. emits \cup recvs = {} \/ (csps = {} /\ allowed = {})
  BY <1>4 DEF OneKind, KindsOfSystem
<1>6. \/ \A s \in ChannelLabels : E[s] \cup R[s] = {}
      \/ (\A s \in ChannelLabels : C[s] = {}) /\ \A P \in ProcessLabels : A[P] = {}
  <2>1. CASE emits \cup recvs = {}
    BY <1>2, <2>1
  <2>2. CASE csps = {} /\ allowed = {}
    BY <1>2, <1>3, <2>2
  <2> QED  BY <1>5, <2>1, <2>2
<1>7. broadcasts \in SUBSET ChannelLabels /\ \A s \in broadcasts : E[s] \cup R[s] \cup C[s] # {}
  <2>1. ASSUME NEW s \in broadcasts PROVE E[s] \cup R[s] \cup C[s] # {}
    <3>1. s \in ChannelLabels /\ \E P \in ProcessLabels : <<s, P>> \in emits \cup recvs \cup csps
      BY <1>4 DEF BroadcastsRecorded
    <3> QED  BY <1>2, <3>1
  <2> QED  BY <1>4, <2>1 DEF BroadcastsRecorded
<1> QED  BY <1>1, <1>6, <1>7 DEF SP!TablesOK

\* The second pass runs on the tables of all the processes, which do not change
\* any more.
SecondPass ==
  /\ loop = "none" => erased = {} /\ vectors = {} /\ stuckDecls = 0
  /\ loop # "none" => phase = "tables" /\ SP!IInv

TInv == ProcessesInv /\ SecondPass

\* The invariant of the translation holds at first.
LEMMA TInitInv == TInit => TInv
BY ProcessesInit DEF TInit, TInv, SecondPass

\* Every step of the translation keeps its invariant.
LEMMA TStepInv == TInv /\ [TNext]_allVars => TInv'
<1>1. ASSUME TInv, TranslateProcesses PROVE TInv'
  <2>1. loop = "none" /\ ProcessesInv'
    <3>1. phase \in {"io", "processes"} /\ Next
      BY <1>1 DEF TranslateProcesses, Next, RegisterIO, FailIO, BeginProcess, TranslateTauEdge, TranslateSyncEdge,
         FailEdge, NextEdge, EndProcesses
    <3> QED  BY <1>1, <3>1, ProcessesStep DEF TInv, SecondPass
  <2> QED  BY <1>1, <2>1 DEF TInv, SecondPass, TranslateProcesses, syncVars
<1>2. ASSUME ProcessesInv, UNCHANGED vars PROVE ProcessesInv'
  BY <1>2, ProcessesStep
<1>3. SP!Init => SP!IInv
  BY SP!InitInv, StuckNotProcess
<1>4. SP!Init' => SP!IInv'
  BY <1>3, PTL
<1>5. ASSUME TInv, GenerateSyncVectors PROVE TInv'
  <2>1. SP!TablesOK'
    <3>1. SP!TablesOK
      BY <1>5, TablesAsTaken DEF TInv
    <3>2. UNCHANGED <<emits, recvs, csps, allowed, broadcasts>>
      BY <1>5 DEF GenerateSyncVectors, vars, tables
    <3> QED  BY <3>1, <3>2 DEF SP!TablesOK, Entries
  <2>2. SP!Init'
    <3>1. /\ loop' = "emitters" /\ erased' = {} /\ vectors' = {} /\ stuckDecls' = 0
          /\ todo' = Sync!Keys(Entries(emits)) /\ emits' = emits
      BY <1>5 DEF GenerateSyncVectors, TInv, SecondPass, vars, tables
    <3> QED  BY <2>1, <3>1 DEF SP!Init, SP!Keys, Sync!Keys, Entries
  <2>3. phase' = "tables"
    BY <1>5 DEF GenerateSyncVectors, vars
  <2>4. ProcessesInv'
    BY <1>2, <1>5 DEF GenerateSyncVectors, TInv
  <2>5. loop' = "emitters"
    BY <1>5 DEF GenerateSyncVectors
  <2> QED  BY <1>4, <2>2, <2>3, <2>4, <2>5 DEF TInv, SecondPass
<1>6. ASSUME TInv, SyncStep PROVE TInv'
  <2>1. loop # "none" /\ loop' # "none"
    BY <1>6 DEF SyncStep, Sync!Next, Sync!Iterate, Sync!EmitUnreceived, Sync!EmitPairwise, Sync!EmitBroadcast,
       Sync!BlockReceivers, Sync!SyncCsp, Sync!Visit, Sync!EnterReceivers, Sync!EnterCsp, Sync!Finish
  <2>2. SP!IInv'
    <3>1. SP!IInv /\ SP!Next
      BY <1>6, <2>1, SamePass DEF TInv, SecondPass, SyncStep
    <3> QED  BY <3>1, SP!StepInv, StuckNotProcess
  <2>3. phase' = "tables" /\ ProcessesInv'
    BY <1>2, <1>6, <2>1 DEF SyncStep, TInv, SecondPass, vars
  <2> QED  BY <2>1, <2>2, <2>3 DEF TInv, SecondPass
<1>7. ASSUME TInv, UNCHANGED allVars PROVE TInv'
  <2>1. UNCHANGED vars /\ UNCHANGED syncVars
    BY <1>7 DEF allVars
  <2>2. loop # "none" => SP!IInv'
    <3>1. SP!IInv /\ UNCHANGED SP!vars => SP!IInv'
      BY SP!StepInv, StuckNotProcess
    <3>2. UNCHANGED SP!vars
      BY <2>1 DEF vars, syncVars, tables, SP!vars, SP!tables, Entries
    <3> QED  BY <1>7, <3>1, <3>2 DEF TInv, SecondPass
  <2>3. ProcessesInv'
    BY <1>2, <1>7, <2>1 DEF TInv
  <2>4. phase' = phase
    BY <2>1 DEF vars
  <2>5. UNCHANGED <<erased, loop, todo, vectors, stuckDecls>>
    BY <2>1 DEF syncVars
  <2> QED  BY <1>7, <2>2, <2>3, <2>4, <2>5 DEF TInv, SecondPass
<1> QED  BY <1>1, <1>5, <1>6, <1>7 DEF TNext

\* What holds of the processes translated, and of the vectors written from them.
THEOREM TInvariance == TSpec => []TInv
BY TInitInv, TStepInv, PTL DEF TSpec

\* The tables that the edges of the processes filled always satisfy what
\* s_generate_sync_vectors takes for granted of them, and its cursor and its
\* vectors what it keeps.
THEOREM TablesTaken == TSpec => []TablesReady
<1>1. TInv => TablesReady
  BY SamePass DEF TInv, SecondPass, TablesReady, SP!IInv
<1> QED  BY <1>1, TInvariance, PTL

\* The event of a vector for a process is one that the tables record for it.
LEMMA RecordedEvent ==
  ASSUME SP!IInv, NEW v \in vectors, NEW P \in DOMAIN v, P # StuckProcess
  PROVE  \E s : \/ v[P].event = <<"emit", s>> /\ <<s, P>> \in emits
                \/ v[P].event = <<"recv", s>> /\ <<s, P>> \in recvs
                \/ v[P].event = <<"csp", s>> /\ <<s, P>> \in csps
<1>1. \A s \in ChannelLabels :
        /\ \A Q \in Entries(emits)[s] : <<s, Q>> \in emits
        /\ \A Q \in Entries(recvs)[s] : <<s, Q>> \in recvs
        /\ \A Q \in Entries(csps)[s] : <<s, Q>> \in csps
  BY DEF Entries
<1>2. broadcasts \subseteq ChannelLabels
  BY DEF SP!IInv, SP!TypeOK, SP!TablesOK
<1>3. ASSUME NEW e, NEW R, v = SP!Blocked(R, e) PROVE P = R /\ v[P].event = e
  BY <1>3 DEF SP!Blocked, SP!Strong
<1>4. CASE SP!IsPair(v)
  <2>0. PICK s \in ChannelLabels : \E PE \in Entries(emits)[s] : \E PR \in Entries(recvs)[s] : v = SP!Pair(s, PE, PR)
    BY <1>4 DEF SP!IsPair
  <2>1. PICK PE \in Entries(emits)[s] : \E PR \in Entries(recvs)[s] : v = SP!Pair(s, PE, PR)
    BY <2>0
  <2>2. PICK PR \in Entries(recvs)[s] : v = SP!Pair(s, PE, PR)
    BY <2>1
  <2>3. \/ P = PE /\ v[P].event = <<"emit", s>>
        \/ P = PR /\ v[P].event = <<"recv", s>>
    BY <2>2 DEF SP!Pair, SP!Strong, SP!Emission, SP!Reception
  <2>4. <<s, PE>> \in emits /\ <<s, PR>> \in recvs
    BY <1>1
  <2> QED  BY <2>3, <2>4
<1>5. CASE SP!IsBroadcast(v)
  <2>1. PICK s \in broadcasts : \E PE \in Entries(emits)[s] : v = SP!Broadcast(s, PE, Entries(recvs)[s])
    BY <1>5 DEF SP!IsBroadcast, SP!Matched
  <2>2. PICK PE \in Entries(emits)[s] : v = SP!Broadcast(s, PE, Entries(recvs)[s])
    BY <2>1
  <2>3. \/ P = PE /\ v[P].event = <<"emit", s>>
        \/ P \in Entries(recvs)[s] /\ v[P].event = <<"recv", s>>
    BY <2>2 DEF SP!Broadcast, SP!Strong, SP!Weak, SP!Emission, SP!Reception
  <2>4. <<s, PE>> \in emits /\ (P \in Entries(recvs)[s] => <<s, P>> \in recvs)
    BY <1>1, <1>2
  <2> QED  BY <2>3, <2>4
<1>6. CASE SP!IsBlockedEmission(v)
  <2>0. PICK s \in ChannelLabels : \E PE \in Entries(emits)[s] : v = SP!Blocked(PE, SP!Emission(s))
    BY <1>6 DEF SP!IsBlockedEmission
  <2>1. PICK PE \in Entries(emits)[s] : v = SP!Blocked(PE, SP!Emission(s))
    BY <2>0
  <2>2. P = PE /\ v[P].event = <<"emit", s>>
    BY <1>3, <2>1 DEF SP!Emission
  <2>3. <<s, PE>> \in emits
    BY <1>1
  <2> QED  BY <2>2, <2>3
<1>7. CASE SP!IsBlockedReception(v)
  <2>0. PICK s \in ChannelLabels : \E PR \in Entries(recvs)[s] : v = SP!Blocked(PR, SP!Reception(s))
    BY <1>7 DEF SP!IsBlockedReception
  <2>1. PICK PR \in Entries(recvs)[s] : v = SP!Blocked(PR, SP!Reception(s))
    BY <2>0
  <2>2. P = PR /\ v[P].event = <<"recv", s>>
    BY <1>3, <2>1 DEF SP!Reception
  <2>3. <<s, PR>> \in recvs
    BY <1>1
  <2> QED  BY <2>2, <2>3
<1>8. CASE SP!IsStrongSync(v)
  <2>1. PICK s \in ChannelLabels : v = SP!StrongSync(s, SP!CspJoined(s))
    BY <1>8 DEF SP!IsStrongSync
  <2>2. P \in Entries(csps)[s] /\ v[P].event = <<"csp", s>>
    BY <2>1 DEF SP!StrongSync, SP!Strong, SP!CspEvent, SP!CspJoined
  <2>3. <<s, P>> \in csps
    BY <1>1, <2>2
  <2> QED  BY <2>2, <2>3
<1>9. CASE SP!IsBlockedCsp(v)
  <2>0. PICK s \in ChannelLabels : \E R \in Entries(csps)[s] : v = SP!Blocked(R, SP!CspEvent(s))
    BY <1>9 DEF SP!IsBlockedCsp, SP!CspBlocked
  <2>1. PICK R \in Entries(csps)[s] : v = SP!Blocked(R, SP!CspEvent(s))
    BY <2>0
  <2>2. P = R /\ v[P].event = <<"csp", s>>
    BY <1>3, <2>1 DEF SP!CspEvent
  <2>3. <<s, R>> \in csps
    BY <1>1
  <2> QED  BY <2>2, <2>3
<1>10. \/ SP!IsPair(v) \/ SP!IsBroadcast(v) \/ SP!IsBlockedEmission(v)
       \/ SP!IsBlockedReception(v) \/ SP!IsStrongSync(v) \/ SP!IsBlockedCsp(v)
  BY SP!VectorKinds, StuckNotProcess
<1> QED  BY <1>4, <1>5, <1>6, <1>7, <1>8, <1>9, <1>10

\* A vector is about processes declared and events declared that label their
\* edges: s_generate_sync_vectors and s_build_edge_label build the same names.
THEOREM VectorsHaveEdges == TSpec => []ElementsHaveEdges
<1>1. ASSUME TInv, NEW v \in vectors, NEW P \in DOMAIN v \ {StuckProcess}
      PROVE  Begun(P) /\ Declared(Element(v, P)[2]) /\ Element(v, P) \in edges
  <2>1. SP!IInv
    BY <1>1 DEF TInv, SecondPass
  <2>2. PICK s : \/ v[P].event = <<"emit", s>> /\ <<s, P>> \in emits
                 \/ v[P].event = <<"recv", s>> /\ <<s, P>> \in recvs
                 \/ v[P].event = <<"csp", s>> /\ <<s, P>> \in csps
    BY <1>1, <2>1, RecordedEvent
  <2>3. TablesRecord /\ EdgesDeclared
    BY <1>1 DEF TInv, ProcessesInv, TablesInv
  <2>4. Element(v, P) = <<P, EventOf(v[P].event)>>
    BY DEF Element
  <2>5. Element(v, P) \in edges
    <3>1. CASE v[P].event = <<"emit", s>> /\ <<s, P>> \in emits
      <4>1. EventOf(v[P].event) = EventLabel("!", s)
        BY <3>1 DEF EventOf
      <4> QED  BY <2>3, <2>4, <3>1, <4>1 DEF TablesRecord
    <3>2. CASE v[P].event = <<"recv", s>> /\ <<s, P>> \in recvs
      <4>1. EventOf(v[P].event) = EventLabel("?", s)
        BY <3>2 DEF EventOf
      <4> QED  BY <2>3, <2>4, <3>2, <4>1 DEF TablesRecord
    <3>3. CASE v[P].event = <<"csp", s>> /\ <<s, P>> \in csps
      <4>1. EventOf(v[P].event) = EventLabel("csp", s)
        BY <3>3 DEF EventOf
      <4> QED  BY <2>3, <2>4, <3>3, <4>1 DEF TablesRecord
    <3> QED  BY <2>2, <3>1, <3>2, <3>3
  <2>6. Element(v, P)[1] = P
    BY <2>4
  <2> QED  BY <2>3, <2>5, <2>6 DEF EdgesDeclared
<1>2. TInv => ElementsHaveEdges
  BY <1>1 DEF ElementsHaveEdges, Begun, Declared, Occurs
<1> QED  BY <1>2, TInvariance, PTL

-----------------------------------------------------------------------------
(***************************************************************************)
(* No event is declared twice.                                             *)
(***************************************************************************)
\* Identifiers are not empty: the label of a channel is not, that of a local
\* channel has its process and its name.
LEMMA OfferLabels ==
  ASSUME system \in Systems, NEW o \in Offers
  PROVE  /\ o.inst \in Instances /\ o.dir \in {"!", "?", "csp"}
         /\ o.owner = IF o.chan.local THEN {o.inst} ELSE {}
         /\ List(ChannelLabelOf(o)) /\ Len(ChannelLabelOf(o)) >= 1
         /\ o.chan.local => Len(ChannelLabelOf(o)) >= 2
<1>1. PICK c \in Instances : o \in OffersOf(c)
  BY DEF Offers
<1> DEFINE p == system.procs[c.pos]
<1>2. PICK k \in {j \in DOMAIN p.edges : p.edges[j].sync # <<>>} :
        \E val \in Valuations(p.edges[k].select) : o = Offer(c, p.edges[k].sync[1], Extend(c.val, val))
  BY <1>1 DEF OffersOf
<1>3. PICK val : o = Offer(c, p.edges[k].sync[1], Extend(c.val, val))
  BY <1>2
<1> DEFINE r == p.edges[k].sync[1]
<1>4. /\ o.inst = c /\ o.dir = r.dir /\ o.chan = r.chan /\ o.idx = Values(r, Extend(c.val, val))
      /\ o.owner = IF r.chan.local THEN {c} ELSE {}
  BY <1>3 DEF Offer
<1>5. c.pos \in DOMAIN system.procs /\ c.val \in Valuations(p.unbound)
  BY DEF Instances
<1>6. IsProcess(p) /\ IsReference(r)
  BY <1>5, SystemsAssumption DEF References, IsProcess
<1> HIDE DEF p, r
<1>7. ASSUME NEW n \in Seq(STRING) \ {<<>>} PROVE List(n) /\ Len(n) >= 1
  BY SeqIsList, EmptySeq, LenProperties
<1>8. ASSUME NEW m \in Nat, NEW f, DOMAIN f = 1 .. m, f = [j \in 1 .. m |-> f[j]] PROVE List(f)
  <2>1. f \in [1 .. m -> Range(f)]
    BY <1>8 DEF Range
  <2> QED  BY <2>1, SeqDef DEF List
<1>9. List(LabelOf(c)) /\ Len(LabelOf(c)) >= 1
  <2>1. Len(p.unbound) \in Nat /\ List(p.name) /\ Len(p.name) >= 1
    BY <1>6, <1>7, LenProperties DEF IsProcess
  <2> DEFINE n == Len(p.unbound)
             f == [i \in 1 .. 2 * n |->
                     LET x == p.unbound[n - (i - 1) \div 2].var
                     IN  IF i % 2 = 1 THEN x ELSE Numeral(c.val[x])]
  <2>2. LabelOf(c) = p.name \o f
    BY DEF LabelOf, ProcessLabel, p
  <2>3. List(f)
    <3>1. 2 * n \in Nat /\ DOMAIN f = 1 .. 2 * n /\ f = [j \in 1 .. 2 * n |-> f[j]]
      BY <2>1
    <3> HIDE DEF f, n
    <3> QED  BY <3>1, <1>8
  <2> HIDE DEF f
  <2>4. List(p.name \o f) /\ Len(p.name \o f) = Len(p.name) + Len(f) /\ Len(f) \in Nat /\ Len(p.name) \in Nat
    BY <2>1, <2>3, ListConcat, ListDomain
  <2> QED  BY <2>1, <2>2, <2>4
<1> DEFINE context == IF o.chan.local THEN LabelOf(c) ELSE <<>>
           g == [j \in DOMAIN o.idx |-> Numeral(o.idx[j])]
<1>10. ChannelLabelOf(o) = (context \o o.chan.name) \o g
  BY <1>4 DEF ChannelLabelOf, ChannelLabel, AddPrefix
<1>11. List(o.chan.name) /\ Len(o.chan.name) >= 1
  BY <1>4, <1>6, <1>7 DEF IsReference
<1>12. List(g)
  <2>1. Len(r.idx) \in Nat /\ DOMAIN r.idx = 1 .. Len(r.idx)
    BY <1>6, LenProperties DEF IsReference
  <2>2. DOMAIN o.idx = 1 .. Len(r.idx)
    BY <1>4, <2>1 DEF Values
  <2>3. DOMAIN g = 1 .. Len(r.idx) /\ g = [j \in 1 .. Len(r.idx) |-> g[j]]
    BY <2>2
  <2> HIDE DEF g
  <2> QED  BY <1>8, <2>1, <2>3
<1>13. List(context) /\ (o.chan.local => Len(context) >= 1)
  BY <1>9, EmptyList
<1> HIDE DEF context, g
<1>14. List(context \o o.chan.name) /\ Len(context \o o.chan.name) = Len(context) + Len(o.chan.name)
  BY <1>11, <1>13, ListConcat
<1>15. /\ List(ChannelLabelOf(o))
       /\ Len(ChannelLabelOf(o)) = Len(context \o o.chan.name) + Len(g)
  BY <1>10, <1>12, <1>14, ListConcat
<1>16. Len(g) \in Nat /\ Len(context) \in Nat /\ Len(o.chan.name) \in Nat
  BY <1>11, <1>12, <1>13, ListDomain
<1>17. Len(ChannelLabelOf(o)) >= 1 /\ (o.chan.local => Len(ChannelLabelOf(o)) >= 2)
  BY <1>11, <1>13, <1>14, <1>15, <1>16
<1> QED  BY <1>4, <1>6, <1>15, <1>17 DEF IsReference

\* Only a CSP synchronisation is on an event named tau, and on a channel that is
\* not local.
LEMMA TauOnlyCsp ==
  ASSUME system \in Systems, NEW o \in Offers
  PROVE  /\ Written(o)[2] = TauEvent => o.dir = "csp"
         /\ o.chan.local => ChannelLabelOf(o) # TauEvent
         /\ o.dir = "csp" => Written(o)[2] = ChannelLabelOf(o)
<1> DEFINE s == ChannelLabelOf(o)
<1>1. /\ o.dir \in {"!", "?", "csp"} /\ List(s) /\ Len(s) >= 1 /\ Len(s) \in Nat
      /\ o.chan.local => Len(s) >= 2
  BY OfferLabels, ListDomain
<1>2. Written(o)[2] = EventLabel(o.dir, s)
  BY DEF Written
<1> HIDE DEF s
<1>3. Len(TauEvent) = 1
  BY DEF TauEvent
<1>4. ASSUME NEW e PROVE Len(s \o <<e>>) >= 2
  <2>1. List(<<e>>) /\ Len(<<e>>) = 1
    BY SeqIsList, <<e>> \in Seq({e})
  <2>2. Len(s \o <<e>>) = Len(s) + Len(<<e>>)
    BY <1>1, <2>1, ListConcat
  <2> QED  BY <1>1, <2>1, <2>2
<1>5. o.dir # "csp" => EventLabel(o.dir, s) # TauEvent
  BY <1>1, <1>3, <1>4 DEF EventLabel
<1>6. o.chan.local => s # TauEvent
  <2> SUFFICES ASSUME o.chan.local, s = TauEvent PROVE FALSE
    OBVIOUS
  <2>1. Len(s) >= 2 /\ Len(s) = 1
    BY <1>1, <1>3
  <2> QED  BY <2>1
<1>7. o.dir = "csp" => Written(o)[2] = s
  BY <1>2 DEF EventLabel
<1> QED  BY <1>2, <1>5, <1>6, <1>7 DEF s

\* What has to be shown of a step: neither the offers nor their labels change.
LEMMA OnceNext ==
  ASSUME [Next]_vars,
         \A x \in labels' : \E o \in Offers : Written(o)[2] = x,
         \A x : Occurs(events', x) =>
           \/ x \in labels' \/ (x = TauEvent /\ tau')
           \/ \E o \in Offers : /\ o.chan.local /\ ChannelLabelOf(o) = x /\ o.inst \notin procsLeft'
                                /\ LabelOf(o.inst) = proc' => x \in localEvents',
         \A x : Repeats(events', x) => Excused(x)
  PROVE  SourcesKnown' /\ RepeatsExcused'
<1>1. /\ Offers' = Offers /\ (\A c : LabelOf(c)' = LabelOf(c))
      /\ \A o : ChannelLabelOf(o)' = ChannelLabelOf(o) /\ Written(o)' = Written(o)
  BY SystemFixed
<1>2. ASSUME NEW x, Declared(x)' PROVE x \in labels' \/ (x = TauEvent /\ tau') \/ Bare(x)'
  <2>1. Occurs(events', x)
    BY <1>2 DEF Declared, Occurs
  <2>2. ASSUME NEW o \in Offers, o.chan.local, ChannelLabelOf(o) = x, o.inst \notin procsLeft',
               LabelOf(o.inst) = proc' => x \in localEvents'
        PROVE  Bare(x)'
    BY <1>1, <2>2 DEF Bare
  <2> QED  BY <2>1, <2>2
<1>3. ASSUME NEW x, Repeats(events, x)' PROVE Excused(x)'
  <2>1. Repeats(events', x)
    BY <1>3 DEF Repeats
  <2>2. Excused(x)
    BY <2>1
  <2> QED  BY <1>1, <2>2 DEF Excused
<1>4. ASSUME NEW x \in labels' PROVE \E o \in Offers' : Written(o)'[2] = x
  BY <1>1
<1> QED  BY <1>2, <1>3, <1>4 DEF SourcesKnown, RepeatsExcused

\* A bare name declared with a process stays one.
LEMMA BareKept ==
  ASSUME NEW x, Bare(x), procsLeft' = procsLeft, proc' = proc, localEvents \subseteq localEvents'
  PROVE  \E o \in Offers : /\ o.chan.local /\ ChannelLabelOf(o) = x /\ o.inst \notin procsLeft'
                           /\ LabelOf(o.inst) = proc' => x \in localEvents'
BY DEF Bare

\* The event of an edge, and the bare name it may declare, are declared again only
\* when they are excused.
LEMMA SyncEdgeRepeats ==
  ASSUME WorkOK, NamesApart, EventsApart, SourcesKnown, RepeatsExcused,
         NEW p \in Offers, p.inst \notin procsLeft, proc = LabelOf(p.inst),
         NEW ev, Written(p)[2] = ev, NEW s, s = ChannelLabelOf(p)
  PROVE  /\ p.chan.local /\ s \notin localEvents /\ Occurs(events, s) => Excused(s)
         /\ ev \notin labels /\ Occurs(events, ev) => Excused(ev)
         /\ p.chan.local /\ s = ev => Excused(ev)
         /\ ev = TauEvent => Excused(ev)
<1>1. \A o \in Offers : /\ Written(o)[2] = TauEvent => o.dir = "csp"
                        /\ o.chan.local => ChannelLabelOf(o) # TauEvent
                        /\ o.dir = "csp" => Written(o)[2] = ChannelLabelOf(o)
                        /\ o.owner = IF o.chan.local THEN {o.inst} ELSE {}
  BY TauOnlyCsp, OfferLabels DEF WorkOK
<1>2. \A o, q \in Offers : ChannelLabelOf(o) = ChannelLabelOf(q) =>
        o.chan = q.chan /\ o.owner = q.owner
  BY DEF NamesApart, SameChannel
<1>3. \A o, q \in Offers : q.dir # "csp" => ChannelLabelOf(o) # Written(q)[2]
  BY DEF EventsApart
<1>4. \A x : Occurs(events, x) => x \in labels \/ (x = TauEvent /\ tau) \/ Bare(x)
  BY DEF SourcesKnown, Declared
<1>5. ev = TauEvent => Excused(ev)
  BY <1>1 DEF Excused
<1>6. p.chan.local /\ s = ev => Excused(ev)
  BY <1>3 DEF Excused
<1>7. ASSUME ev \notin labels, Occurs(events, ev) PROVE Excused(ev)
  <2>1. ASSUME Bare(ev) PROVE Excused(ev)
    <3>1. PICK o \in Offers : o.chan.local /\ ChannelLabelOf(o) = ev
      BY <2>1 DEF Bare
    <3>2. p.dir = "csp"
      BY <1>3, <3>1
    <3>3. ChannelLabelOf(p) = ChannelLabelOf(o)
      BY <1>1, <3>1, <3>2
    <3>4. p.chan = o.chan
      BY <1>2, <3>3
    <3> QED  BY <3>1, <3>2, <3>4 DEF Excused
  <2> QED  BY <1>4, <1>5, <1>7, <2>1
<1>8. ASSUME p.chan.local, s \notin localEvents, Occurs(events, s) PROVE Excused(s)
  <2>1. ASSUME s \in labels PROVE Excused(s)
    <3>1. PICK o \in Offers : Written(o)[2] = s
      BY <2>1 DEF SourcesKnown
    <3>2. o.dir = "csp"
      BY <1>3, <3>1
    <3>3. ChannelLabelOf(o) = ChannelLabelOf(p)
      BY <1>1, <3>1, <3>2
    <3>4. o.chan = p.chan
      BY <1>2, <3>3
    <3> QED  BY <1>8, <3>1, <3>2, <3>4 DEF Excused
  <2>2. s # TauEvent
    BY <1>1, <1>8
  <2>3. ~Bare(s)
    <3> SUFFICES ASSUME Bare(s) PROVE FALSE
      OBVIOUS
    <3>1. PICK o \in Offers : /\ o.chan.local /\ ChannelLabelOf(o) = s
                              /\ LabelOf(o.inst) = proc => s \in localEvents
      BY DEF Bare
    <3>2. o.owner = p.owner
      BY <1>2, <3>1
    <3>3. {o.inst} = {p.inst}
      BY <1>1, <1>8, <3>1, <3>2
    <3>4. o.inst = p.inst
      BY <3>3
    <3> QED  BY <1>8, <3>1, <3>4
  <2> QED  BY <1>4, <1>8, <2>1, <2>2, <2>3
<1> QED  BY <1>5, <1>6, <1>7, <1>8

\* Every step keeps the sources of events known and their repetitions excused.
LEMMA OnceStep == WorkOK /\ OnceInv /\ [Next]_vars => OnceInv'
<1> SUFFICES ASSUME WorkOK, OnceInv, [Next]_vars PROVE OnceInv'
  OBVIOUS
<1> SUFFICES ASSUME NamesApart, EventsApart PROVE SourcesKnown' /\ RepeatsExcused'
  <2>1. /\ Instances' = Instances /\ Offers' = Offers /\ (\A c : LabelOf(c)' = LabelOf(c))
        /\ \A o : ChannelLabelOf(o)' = ChannelLabelOf(o) /\ Written(o)' = Written(o)
    BY SystemFixed
  <2>2. NamesApart' => NamesApart
    BY <2>1 DEF NamesApart, SameChannel
  <2>3. EventsApart' => EventsApart
    BY <2>1 DEF EventsApart
  <2> QED  BY <2>2, <2>3 DEF OnceInv
<1> DEFINE NewBare(x) ==
      \E o \in Offers : /\ o.chan.local /\ ChannelLabelOf(o) = x /\ o.inst \notin procsLeft'
                        /\ LabelOf(o.inst) = proc' => x \in localEvents'
<1>1. SourcesKnown /\ RepeatsExcused
  BY DEF OnceInv
<1>2. /\ \A x \in labels : \E o \in Offers : Written(o)[2] = x
      /\ \A x : Occurs(events, x) => x \in labels \/ (x = TauEvent /\ tau) \/ Bare(x)
      /\ \A x : Repeats(events, x) => Excused(x)
  BY <1>1 DEF SourcesKnown, RepeatsExcused, Declared
<1>3. ASSUME UNCHANGED <<labels, tau, events>>, \A x : Bare(x) => NewBare(x)
      PROVE  SourcesKnown' /\ RepeatsExcused'
  <2>1. /\ \A x \in labels' : \E o \in Offers : Written(o)[2] = x
        /\ \A x : Occurs(events', x) => x \in labels' \/ (x = TauEvent /\ tau') \/ NewBare(x)
        /\ \A x : Repeats(events', x) => Excused(x)
    BY <1>2, <1>3
  <2> QED  BY <2>1, OnceNext
<1>4. ASSUME UNCHANGED <<procsLeft, proc>>, localEvents \subseteq localEvents'
      PROVE  \A x : Bare(x) => NewBare(x)
  BY <1>4, BareKept
<1>5. CASE UNCHANGED <<labels, tau, events, procsLeft, proc, localEvents>>
  BY <1>3, <1>4, <1>5
<1>6. ASSUME NEW c \in procsLeft, BeginProcess(c) PROVE SourcesKnown' /\ RepeatsExcused'
  <2>1. /\ procsLeft' = procsLeft \ {c} /\ proc' = LabelOf(c)
        /\ UNCHANGED <<labels, tau, events>>
    BY <1>6 DEF BeginProcess, LabelOf, tables
  <2>2. ASSUME NEW x, Bare(x) PROVE NewBare(x)
    <3>1. PICK o \in Offers : o.chan.local /\ ChannelLabelOf(o) = x /\ o.inst \notin procsLeft
      BY <2>2 DEF Bare
    <3>2. o.inst \in Instances /\ c \in Instances /\ o.inst # c
      BY <3>1, OfferLabels DEF WorkOK
    <3>3. LabelOf(o.inst) # LabelOf(c)
      BY <3>2 DEF NamesApart
    <3> QED  BY <2>1, <3>1, <3>3
  <2> QED  BY <1>3, <2>1, <2>2
<1>7. ASSUME NEW w \in edgesLeft, TranslateTauEdge(w) PROVE SourcesKnown' /\ RepeatsExcused'
  <2>1. /\ tau' = TRUE /\ UNCHANGED <<labels, procsLeft, proc, localEvents>>
        /\ events' = events \o (IF ~tau THEN <<TauEvent>> ELSE <<>>)
    BY <1>7 DEF TranslateTauEdge, TauDeclared, tables
  <2>2. List(events)
    BY DEF WorkOK
  <2>3. /\ \A x : Occurs(events', x) <=> Occurs(events, x) \/ (~tau /\ x = TauEvent)
        /\ \A x : Repeats(events', x) => Repeats(events, x) \/ (~tau /\ x = TauEvent /\ Occurs(events, x))
    BY <2>1, <2>2, ListExtended
  <2>4. \A x \in labels' : \E o \in Offers : Written(o)[2] = x
    BY <1>2, <2>1
  <2>5. \A x : Bare(x) => NewBare(x)
    BY <1>4, <2>1
  <2>6. ASSUME NEW x, Occurs(events', x) PROVE x \in labels' \/ (x = TauEvent /\ tau') \/ NewBare(x)
    BY <1>2, <2>1, <2>3, <2>5, <2>6
  <2>7. ASSUME ~tau, Occurs(events, TauEvent) PROVE Excused(TauEvent)
    <3>1. ~Bare(TauEvent)
      BY TauOnlyCsp DEF Bare, WorkOK
    <3>2. PICK o \in Offers : Written(o)[2] = TauEvent
      BY <1>2, <2>7, <3>1
    <3>3. o.dir = "csp"
      BY <3>2, TauOnlyCsp DEF WorkOK
    <3> QED  BY <3>2, <3>3 DEF Excused
  <2>8. ASSUME NEW x, Repeats(events', x) PROVE Excused(x)
    BY <1>2, <2>3, <2>7, <2>8
  <2> QED  BY <2>4, <2>6, <2>8, OnceNext
<1>8. ASSUME NEW w \in edgesLeft, TranslateSyncEdge(w) PROVE SourcesKnown' /\ RepeatsExcused'
  <2> DEFINE r == w.edge.sync[1]
             s == ChannelLabel(proc, r.chan, Values(r, w.val))
             ev == EventLabel(r.dir, s)
             bare == r.chan.local /\ s \notin localEvents
             new == ev \notin labels
             first == ev = TauEvent /\ ~tau
  <2>1. /\ w.edge.sync # <<>> /\ UNCHANGED <<procsLeft, proc>>
        /\ labels' = labels \cup {ev} /\ tau' = (tau \/ ev = TauEvent)
        /\ DeclareEvents(s, ev, r.chan.local)
    BY <1>8, SyncEdgeWrites
  <2>2. localEvents' = IF bare THEN localEvents \cup {s} ELSE localEvents
    BY <2>1 DEF DeclareEvents
  <2>3. PICK p : IsOfferOf(p, w)
    BY <2>1, EdgeOffer
  <2>4. /\ p \in Offers /\ p.inst \notin procsLeft /\ proc = LabelOf(p.inst) /\ p.chan = r.chan
        /\ ChannelLabelOf(p) = s /\ Written(p)[2] = ev
    BY <2>3 DEF IsOfferOf
  <2>5. /\ \A x : Occurs(events', x) <=>
                  Occurs(events, x) \/ (bare /\ x = s) \/ (new /\ x = ev) \/ (first /\ x = ev)
        /\ \A x : Repeats(events', x) =>
             \/ Repeats(events, x)
             \/ bare /\ x = s /\ Occurs(events, x)
             \/ new /\ x = ev /\ (Occurs(events, x) \/ (bare /\ x = s))
             \/ first /\ x = ev
    BY <2>1, EventsDeclaredBy DEF WorkOK
  <2> HIDE DEF ev, s, r
  <2>6. \A x \in labels' : \E o \in Offers : Written(o)[2] = x
    BY <1>2, <2>1, <2>4
  <2>7. \A x : Bare(x) => NewBare(x)
    BY <1>4, <2>1, <2>2
  <2>8. bare => NewBare(s)
    BY <2>1, <2>2, <2>4
  <2> HIDE DEF NewBare
  <2>9. ASSUME NEW x, Occurs(events', x) PROVE x \in labels' \/ (x = TauEvent /\ tau') \/ NewBare(x)
    BY <1>2, <2>1, <2>5, <2>7, <2>8, <2>9
  <2>10. /\ bare /\ Occurs(events, s) => Excused(s)
         /\ new /\ Occurs(events, ev) => Excused(ev)
         /\ bare /\ s = ev => Excused(ev)
         /\ ev = TauEvent => Excused(ev)
    BY <1>1, <2>4, SyncEdgeRepeats
  <2>11. ASSUME NEW x, Repeats(events', x) PROVE Excused(x)
    BY <1>2, <2>5, <2>10, <2>11
  <2> QED  BY <2>6, <2>9, <2>11, OnceNext DEF NewBare
<1> QED
  BY <1>5, <1>6, <1>7, <1>8 DEF Next, vars, RegisterIO, FailIO, FailEdge, EndProcesses, output, tables

\* At first no event is declared.
LEMMA OnceInit == Init => OnceInv
<1> SUFFICES ASSUME Init PROVE SourcesKnown /\ RepeatsExcused
  BY DEF OnceInv
<1>1. labels = {} /\ DOMAIN events = {}
  BY EmptyList DEF Init
<1> QED  BY <1>1 DEF SourcesKnown, RepeatsExcused, Declared, Occurs, Repeats

\* Events are declared once, or excused, in every state.
LEMMA OnceInvariance == TSpec => []OnceInv
<1>1. TInit => OnceInv
  BY OnceInit DEF TInit
<1>2. TInv /\ OnceInv /\ [TNext]_allVars => OnceInv'
  <2>1. [TNext]_allVars => [Next]_vars
    BY DEF TNext, TranslateProcesses, GenerateSyncVectors, SyncStep, allVars
  <2> QED  BY <2>1, OnceStep DEF TInv, ProcessesInv
<1> QED  BY <1>1, <1>2, TInvariance, PTL DEF TSpec

\* Every edge is on an event already declared; and unless labels clash no event
\* is declared twice, but for the bare name of a local CSP channel and tau: the
\* table s_build_edge_label keeps for one process and the one it keeps for all
\* agree.
THEOREM EventsOnce == TSpec => []EventsDeclared
<1>1. ASSUME TInv, OnceInv PROVE EventsDeclared
  <2>1. \A l \in edges : \E k \in DOMAIN events : events[k] = l[2]
    BY <1>1 DEF TInv, ProcessesInv, EdgesDeclared, Declared, Occurs
  <2>2. ASSUME NamesApart, EventsApart, NEW j \in DOMAIN events, NEW k \in DOMAIN events,
               j # k, events[j] = events[k]
        PROVE  \E o \in Offers : /\ o.dir = "csp" /\ Written(o)[2] = events[j]
                                 /\ o.chan.local \/ events[j] = TauEvent
    <3>1. Repeats(events, events[j])
      BY <2>2 DEF Repeats
    <3>2. Excused(events[j])
      BY <1>1, <2>2, <3>1 DEF OnceInv, RepeatsExcused
    <3> QED  BY <3>2 DEF Excused
  <2> QED  BY <2>1, <2>2 DEF EventsDeclared
<1> QED  BY <1>1, TInvariance, OnceInvariance, PTL

-----------------------------------------------------------------------------
(***************************************************************************)
(* Labels clash only where an identifier has an underscore.                *)
(***************************************************************************)
\* A function on the positions up to some length is a list.
LEMMA FunctionIsList == ASSUME NEW m \in Nat, NEW f, f = [j \in 1 .. m |-> f[j]] PROVE List(f) /\ Len(f) = m
<1>1. f \in [1 .. m -> Range(f)]
  BY DEF Range
<1>2. f \in Seq(Range(f))
  BY <1>1, SeqDef
<1> QED  BY <1>1, <1>2 DEF List

\* An identifier without an underscore is one part of a name.
LEMMA PlainName ==
  ASSUME NEW s \in Seq(STRING), NEW t \in Seq(STRING), Len(s) = 1, Len(t) = 1, s[1] = t[1]
  PROVE  s = t
OBVIOUS

\* The label of an instance: its name, then the values of its parameters.
LEMMA InstanceLabel ==
  ASSUME system \in Systems, PlainNames, NEW c \in Instances
  PROVE  LET p == system.procs[c.pos]
             n == Len(p.unbound)
         IN  /\ c.pos \in DOMAIN system.procs /\ n \in Nat /\ DOMAIN p.unbound = 1 .. n
             /\ List(LabelOf(c)) /\ Len(LabelOf(c)) = 1 + 2 * n
             /\ LabelOf(c)[1] = p.name[1]
             /\ \A m \in 1 .. n : LabelOf(c)[1 + (2 * (n - m) + 2)] = Numeral(c.val[p.unbound[m].var])
<1> DEFINE p == system.procs[c.pos]
           n == Len(p.unbound)
           f == [i \in 1 .. 2 * n |->
                   LET x == p.unbound[n - (i - 1) \div 2].var
                   IN  IF i % 2 = 1 THEN x ELSE Numeral(c.val[x])]
<1>1. c.pos \in DOMAIN system.procs
  BY DEF Instances
<1>2. IsProcess(p) /\ Len(p.name) = 1
  BY <1>1, SystemsAssumption DEF PlainNames
<1>3. n \in Nat /\ DOMAIN p.unbound = 1 .. n
  BY <1>2, LenProperties DEF IsProcess
<1>4. List(p.name)
  BY <1>2, SeqIsList DEF IsProcess
<1>5. LabelOf(c) = p.name \o f
  BY DEF LabelOf, ProcessLabel
<1> HIDE DEF p, n
<1>6. 2 * n \in Nat /\ f = [j \in 1 .. 2 * n |-> f[j]]
  BY <1>3
<1>7. ASSUME NEW m \in 1 .. n PROVE f[2 * (n - m) + 2] = Numeral(c.val[p.unbound[m].var])
  <2> DEFINE i == 2 * (n - m) + 2
  <2>1. i \in 1 .. 2 * n /\ i % 2 = 0 /\ (i - 1) \div 2 = n - m
    BY <1>3
  <2> HIDE DEF i
  <2>2. n - (i - 1) \div 2 = m
    BY <1>3, <2>1
  <2> QED  BY <2>1, <2>2 DEF i
<1>8. \A m \in 1 .. n : 2 * (n - m) + 2 \in 1 .. 2 * n
  BY <1>3
<1> HIDE DEF f
<1>9. List(f) /\ Len(f) = 2 * n
  BY <1>6, FunctionIsList
<1>10. /\ List(p.name \o f) /\ Len(p.name \o f) = Len(p.name) + 2 * n
       /\ \A i \in 1 .. Len(p.name) : (p.name \o f)[i] = p.name[i]
       /\ \A i \in 1 .. 2 * n : (p.name \o f)[Len(p.name) + i] = f[i]
  <2>1. /\ List(p.name \o f) /\ Len(p.name \o f) = Len(p.name) + Len(f)
        /\ \A i \in 1 .. Len(p.name) : (p.name \o f)[i] = p.name[i]
        /\ \A i \in 1 .. Len(f) : (p.name \o f)[Len(p.name) + i] = f[i]
    <3>1. List(p.name) /\ List(f)
      BY <1>4, <1>9
    <3> QED  BY ONLY <3>1, ListConcat
  <2> QED  BY <1>9, <2>1
<1>11. (p.name \o f)[1] = p.name[1]
  BY <1>2, <1>10
<1>12. ASSUME NEW m \in 1 .. n PROVE (p.name \o f)[1 + (2 * (n - m) + 2)] = Numeral(c.val[p.unbound[m].var])
  BY <1>2, <1>7, <1>8, <1>9, <1>10
<1> QED  BY <1>1, <1>2, <1>3, <1>5, <1>9, <1>10, <1>11, <1>12 DEF p, n

\* Instances are told apart by the first part of their labels and by the values
\* of their parameters.
LEMMA InstancesApart ==
  ASSUME system \in Systems, PlainNames, NEW c \in Instances, NEW d \in Instances
  PROVE  /\ LabelOf(c)[1] = LabelOf(d)[1] => c.pos = d.pos
         /\ LabelOf(c) = LabelOf(d) => c = d
<1> DEFINE p == system.procs[c.pos]
           q == system.procs[d.pos]
           n == Len(p.unbound)
<1>1. /\ c.pos \in DOMAIN system.procs /\ d.pos \in DOMAIN system.procs
      /\ c.val \in Valuations(p.unbound) /\ d.val \in Valuations(q.unbound)
      /\ c = [pos |-> c.pos, val |-> c.val] /\ d = [pos |-> d.pos, val |-> d.val]
  BY DEF Instances
<1>2. IsProcess(p) /\ IsProcess(q) /\ Len(p.name) = 1 /\ Len(q.name) = 1
  BY <1>1, SystemsAssumption DEF PlainNames
<1>3. ASSUME LabelOf(c)[1] = LabelOf(d)[1] PROVE c.pos = d.pos
  <2>1. p.name[1] = q.name[1]
    BY <1>3, InstanceLabel
  <2>2. p.name = q.name
    BY <1>2, <2>1, PlainName DEF IsProcess
  <2> QED  BY <1>1, <2>2, ScopesAssumption DEF ScopesOK
<1>4. ASSUME LabelOf(c) = LabelOf(d) PROVE c = d
  <2>1. c.pos = d.pos
    BY <1>3, <1>4
  <2>2. /\ n \in Nat /\ DOMAIN p.unbound = 1 .. n
        /\ \A m \in 1 .. n : LabelOf(c)[1 + (2 * (n - m) + 2)] = Numeral(c.val[p.unbound[m].var])
    BY InstanceLabel
  <2>3. \A m \in 1 .. n : LabelOf(d)[1 + (2 * (n - m) + 2)] = Numeral(d.val[p.unbound[m].var])
    BY <2>1, InstanceLabel
  <2>4. InInts(p.unbound)
    BY <1>1, ScopesAssumption DEF ScopesOK
  <2>5. \A m \in 1 .. n : c.val[p.unbound[m].var] \in Ints /\ d.val[p.unbound[m].var] \in Ints
    BY <1>1, <2>1, <2>2, <2>4 DEF Valuations, InInts
  <2>6. \A m \in 1 .. n : c.val[p.unbound[m].var] = d.val[p.unbound[m].var]
    <3> SUFFICES ASSUME NEW m \in 1 .. n PROVE c.val[p.unbound[m].var] = d.val[p.unbound[m].var]
      OBVIOUS
    <3> DEFINE x == c.val[p.unbound[m].var]
               y == d.val[p.unbound[m].var]
               j == 1 + (2 * (n - m) + 2)
    <3>1. LabelOf(c)[j] = Numeral(x) /\ LabelOf(d)[j] = Numeral(y) /\ x \in Ints /\ y \in Ints
      BY <2>2, <2>3, <2>5
    <3> HIDE DEF x, y, j
    <3>2. Numeral(x) = Numeral(y)
      BY <1>4, <3>1
    <3>3. x = y
      BY ONLY <3>1, <3>2, NumeralsAssumption
    <3> QED  BY <3>3 DEF x, y
  <2> DEFINE V == {p.unbound[k].var : k \in DOMAIN p.unbound}
             R == UNION {p.unbound[k].lo .. p.unbound[k].hi : k \in DOMAIN p.unbound}
  <2>7. c.val \in [V -> R] /\ d.val \in [V -> R]
    BY ONLY <1>1, <2>1 DEF Valuations
  <2>8. \A x \in V : c.val[x] = d.val[x]
    BY <2>2, <2>6
  <2> HIDE DEF V, R
  <2>9. c.val = d.val
    BY <2>7, <2>8
  <2> QED  BY <1>1, <2>1, <2>9
<1> QED  BY <1>3, <1>4

\* The label of a channel: its process if it is local, its name, its indices.
Context(P, chan) == IF chan.local THEN P ELSE <<>>

LEMMA ChannelParts ==
  ASSUME NEW P, List(P), NEW chan, List(chan.name), Len(chan.name) = 1,
         NEW idx, NEW n \in Nat, DOMAIN idx = 1 .. n
  PROVE  LET L == ChannelLabel(P, chan, idx)
             m == Len(Context(P, chan))
         IN  /\ m \in Nat /\ List(L) /\ Len(L) = m + 1 + n
             /\ \A j \in 1 .. m : L[j] = Context(P, chan)[j]
             /\ L[m + 1] = chan.name[1]
             /\ \A j \in 1 .. n : L[m + 1 + j] = Numeral(idx[j])
<1> DEFINE C == Context(P, chan)
           g == [k \in DOMAIN idx |-> Numeral(idx[k])]
           B == C \o chan.name
<1>1. ChannelLabel(P, chan, idx) = B \o g
  BY DEF ChannelLabel, AddPrefix, Context
<1>2. List(C) /\ Len(C) \in Nat
  BY EmptyList, ListDomain DEF Context
<1>3. g = [j \in 1 .. n |-> g[j]] /\ \A j \in 1 .. n : g[j] = Numeral(idx[j])
  OBVIOUS
<1> HIDE DEF C, g
<1>4. List(g) /\ Len(g) = n
  BY <1>3, FunctionIsList
<1>5. /\ List(B) /\ Len(B) = Len(C) + 1
      /\ \A j \in 1 .. Len(C) : B[j] = C[j]
      /\ B[Len(C) + 1] = chan.name[1]
  <2>1. /\ List(B) /\ Len(B) = Len(C) + Len(chan.name)
        /\ \A j \in 1 .. Len(C) : B[j] = C[j]
        /\ \A j \in 1 .. Len(chan.name) : B[Len(C) + j] = chan.name[j]
    BY ONLY <1>2, List(chan.name), ListConcat
  <2> QED  BY <1>2, <2>1
<1> HIDE DEF B
<1>6. /\ List(B \o g) /\ Len(B \o g) = Len(B) + n
      /\ \A j \in 1 .. Len(B) : (B \o g)[j] = B[j]
      /\ \A j \in 1 .. n : (B \o g)[Len(B) + j] = g[j]
  <2>1. /\ List(B \o g) /\ Len(B \o g) = Len(B) + Len(g)
        /\ \A j \in 1 .. Len(B) : (B \o g)[j] = B[j]
        /\ \A j \in 1 .. Len(g) : (B \o g)[Len(B) + j] = g[j]
    <3>1. List(B) /\ List(g)
      BY <1>4, <1>5
    <3> QED  BY ONLY <3>1, ListConcat
  <2> QED  BY <1>4, <2>1
<1>7. \A j \in 1 .. Len(C) : (B \o g)[j] = C[j]
  BY <1>2, <1>5, <1>6
<1>8. (B \o g)[Len(C) + 1] = chan.name[1]
  BY <1>2, <1>5, <1>6
<1>9. \A j \in 1 .. n : (B \o g)[Len(C) + 1 + j] = Numeral(idx[j])
  BY <1>3, <1>5, <1>6
<1> QED  BY <1>1, <1>2, <1>5, <1>6, <1>7, <1>8, <1>9 DEF C

\* An offer is made by a reference of its process.
LEMMA OfferReference ==
  ASSUME system \in Systems, PlainNames, NEW o \in Offers
  PROVE  LET p == system.procs[o.inst.pos]
         IN  /\ o.inst \in Instances /\ o.inst.pos \in DOMAIN system.procs
             /\ o.dir \in {"!", "?", "csp"} /\ o.owner = (IF o.chan.local THEN {o.inst} ELSE {})
             /\ \E r \in References(p) : r.chan = o.chan
             /\ o.chan.name \in Seq(STRING) /\ List(o.chan.name) /\ Len(o.chan.name) = 1
             /\ \E n \in Nat : o.idx = [k \in 1 .. n |-> o.idx[k]]
             /\ \A k \in DOMAIN o.idx : o.idx[k] \in Ints
<1>1. PICK c \in Instances : o \in OffersOf(c)
  BY DEF Offers
<1> DEFINE p == system.procs[c.pos]
<1>2. PICK k \in {j \in DOMAIN p.edges : p.edges[j].sync # <<>>} :
        \E sel \in Valuations(p.edges[k].select) : o = Offer(c, p.edges[k].sync[1], Extend(c.val, sel))
  BY <1>1 DEF OffersOf
<1>3. PICK sel \in Valuations(p.edges[k].select) : o = Offer(c, p.edges[k].sync[1], Extend(c.val, sel))
  BY <1>2
<1> DEFINE r == p.edges[k].sync[1]
           val == Extend(c.val, sel)
           U == p.unbound
           E == p.edges[k].select
<1>4. /\ o.inst = c /\ o.dir = r.dir /\ o.chan = r.chan /\ o.idx = Values(r, val)
      /\ o.owner = IF r.chan.local THEN {c} ELSE {}
  BY <1>3 DEF Offer
<1>5. c.pos \in DOMAIN system.procs /\ c.val \in Valuations(U)
  BY DEF Instances
<1>6. r \in References(p) /\ IsReference(r)
  BY <1>5, SystemsAssumption DEF References, IsProcess
<1>7. InInts(U) /\ InInts(E) /\ IndicesKnown(r, Variables(U) \cup Variables(E))
  BY <1>2, <1>5, ScopesAssumption DEF ScopesOK
<1>8. Len(o.chan.name) = 1
  BY DEF PlainNames
<1>9. /\ DOMAIN c.val = Variables(U) /\ \A x \in Variables(U) : c.val[x] \in Ints
      /\ DOMAIN sel = Variables(E) /\ \A x \in Variables(E) : sel[x] \in Ints
  BY <1>3, <1>5, <1>7 DEF Valuations, Variables, InInts
<1> HIDE DEF U, E
<1>10. \A x \in Variables(U) \cup Variables(E) : val[x] \in Ints
  BY <1>9 DEF Extend
<1> HIDE DEF p, r, val
<1>11. \A j \in DOMAIN r.idx : Value(r.idx[j], val) \in Ints
  BY <1>7, <1>10 DEF IndicesKnown, Value
<1>12. Len(r.idx) \in Nat /\ DOMAIN r.idx = 1 .. Len(r.idx)
  BY <1>6, LenProperties DEF IsReference
<1>13. o.idx = [j \in 1 .. Len(r.idx) |-> Value(r.idx[j], val)]
  BY <1>4, <1>12 DEF Values
<1>14. o.idx = [j \in 1 .. Len(r.idx) |-> o.idx[j]] /\ \A j \in DOMAIN o.idx : o.idx[j] \in Ints
  BY <1>11, <1>12, <1>13
<1>15. r.chan.name \in Seq(STRING) /\ r.dir \in {"!", "?", "csp"}
  BY <1>6 DEF IsReference
<1>16. List(r.chan.name)
  BY <1>15, SeqIsList
<1> QED  BY <1>4, <1>5, <1>6, <1>8, <1>12, <1>14, <1>15, <1>16 DEF p

\* Channels that are not local have names of their own, and no process has one
\* of these; local ones have names of their own in their process.
LEMMA ChannelsApart ==
  ASSUME system \in Systems, PlainNames, NEW o \in Offers, NEW p \in Offers
  PROVE  /\ o.chan.local \in BOOLEAN
         /\ o.chan.name[1] = p.chan.name[1] /\ o.chan.local = p.chan.local
              /\ (o.chan.local => o.inst.pos = p.inst.pos)
            => o.chan = p.chan
         /\ ~o.chan.local => o.chan.name[1] # LabelOf(p.inst)[1]
<1> DEFINE P == system.procs[o.inst.pos]
           Q == system.procs[p.inst.pos]
           All == UNION ({References(system.procs[i]) : i \in DOMAIN system.procs} \cup {d.csp : d \in system.io})
<1>1. /\ o.inst.pos \in DOMAIN system.procs /\ p.inst.pos \in DOMAIN system.procs
      /\ o.inst \in Instances /\ p.inst \in Instances
      /\ o.chan.name \in Seq(STRING) /\ Len(o.chan.name) = 1
      /\ p.chan.name \in Seq(STRING) /\ Len(p.chan.name) = 1
  BY OfferReference
<1>2. PICK r \in References(P) : r.chan = o.chan
  BY OfferReference
<1>3. PICK q \in References(Q) : q.chan = p.chan
  BY OfferReference
<1>4. r \in All /\ q \in All
  BY <1>1
<1>5. IsProcess(P) /\ IsProcess(Q) /\ IsReference(r) /\ IsReference(q)
  BY <1>1, SystemsAssumption DEF IsProcess
<1>6. ScopesOK(system)
  BY ScopesAssumption
<1>7. o.chan.local \in BOOLEAN /\ p.chan.local \in BOOLEAN
  BY <1>2, <1>3, <1>5 DEF IsReference
<1>8. ASSUME ~o.chan.local, ~p.chan.local, o.chan.name[1] = p.chan.name[1] PROVE o.chan = p.chan
  <2>1. o.chan.name = p.chan.name
    BY <1>1, <1>8, PlainName
  <2>2. o.chan \in {x.chan : x \in {y \in All : ~y.chan.local}} /\ p.chan \in {x.chan : x \in {y \in All : ~y.chan.local}}
    BY <1>2, <1>3, <1>4, <1>8
  <2> QED  BY <1>6, <2>1, <2>2 DEF ScopesOK
<1>9. ASSUME o.chan.local, p.chan.local, o.inst.pos = p.inst.pos, o.chan.name[1] = p.chan.name[1] PROVE o.chan = p.chan
  <2>1. o.chan.name = p.chan.name
    BY <1>1, <1>9, PlainName
  <2>2. o.chan \in {x.chan : x \in {y \in References(P) : y.chan.local}} /\ p.chan \in {x.chan : x \in {y \in References(P) : y.chan.local}}
    BY <1>2, <1>3, <1>9
  <2> QED  BY <1>1, <1>6, <2>1, <2>2 DEF ScopesOK
<1>10. ASSUME ~o.chan.local PROVE o.chan.name[1] # LabelOf(p.inst)[1]
  <2>1. o.chan.name # Q.name
    <3>1. o.chan \in {x.chan : x \in {y \in All : ~y.chan.local}}
      BY <1>2, <1>4, <1>10
    <3> QED  BY <1>1, <1>6, <3>1 DEF ScopesOK
  <2>2. LabelOf(p.inst)[1] = Q.name[1]
    BY <1>1, InstanceLabel
  <2>3. Q.name \in Seq(STRING) /\ Len(Q.name) = 1
    BY <1>1, <1>5 DEF IsProcess, PlainNames
  <2> QED  BY <1>1, <2>1, <2>2, <2>3, PlainName
<1> QED  BY <1>7, <1>8, <1>9, <1>10

\* What the label of the channel of an offer is made of.
LEMMA OfferParts ==
  ASSUME system \in Systems, PlainNames, NEW o \in Offers
  PROVE  LET L == ChannelLabelOf(o)
             C == Context(LabelOf(o.inst), o.chan)
             m == Len(C)
             n == Len(o.idx)
         IN  /\ m \in Nat /\ n \in Nat /\ DOMAIN o.idx = 1 .. n /\ List(L) /\ Len(L) = m + 1 + n
             /\ \A j \in 1 .. m : L[j] = C[j]
             /\ L[m + 1] = o.chan.name[1]
             /\ \A j \in 1 .. n : L[m + 1 + j] = Numeral(o.idx[j])
             /\ o.idx = [j \in 1 .. n |-> o.idx[j]] /\ \A j \in 1 .. n : o.idx[j] \in Ints
<1>1. /\ o.inst \in Instances /\ List(o.chan.name) /\ Len(o.chan.name) = 1
      /\ \A k \in DOMAIN o.idx : o.idx[k] \in Ints
  BY OfferReference
<1>2. PICK n \in Nat : o.idx = [j \in 1 .. n |-> o.idx[j]]
  BY OfferReference
<1>3. List(LabelOf(o.inst))
  BY <1>1, InstanceLabel
<1>4. Len(o.idx) = n /\ DOMAIN o.idx = 1 .. n
  <2>1. Len(o.idx) = n
    BY ONLY <1>2, FunctionIsList
  <2> QED  BY <1>2, <2>1
<1>5. LET L == ChannelLabelOf(o)
          C == Context(LabelOf(o.inst), o.chan)
          m == Len(C)
      IN  /\ m \in Nat /\ List(L) /\ Len(L) = m + 1 + n
          /\ \A j \in 1 .. m : L[j] = C[j]
          /\ L[m + 1] = o.chan.name[1]
          /\ \A j \in 1 .. n : L[m + 1 + j] = Numeral(o.idx[j])
  <2> DEFINE P == LabelOf(o.inst)
             c == o.chan
             b == o.idx
             L == ChannelLabel(P, c, b)
             C == Context(P, c)
             m == Len(C)
  <2>1. ChannelLabelOf(o) = L
    BY DEF ChannelLabelOf
  <2>2. List(P) /\ List(c.name) /\ Len(c.name) = 1 /\ DOMAIN b = 1 .. n
    BY <1>1, <1>3, <1>4
  <2> HIDE DEF P, c, b
  <2>3. n \in Nat
    OBVIOUS
  <2>4. m \in Nat /\ List(L) /\ Len(L) = m + 1 + n
    BY ONLY <2>2, <2>3, ChannelParts
  <2>5. \A j \in 1 .. m : L[j] = C[j]
    BY ONLY <2>2, <2>3, ChannelParts
  <2>6. L[m + 1] = c.name[1]
    BY ONLY <2>2, <2>3, ChannelParts
  <2>7. \A j \in 1 .. n : L[m + 1 + j] = Numeral(b[j])
    BY ONLY <2>2, <2>3, ChannelParts
  <2> HIDE DEF L, m, C
  <2>8. /\ m \in Nat /\ List(L) /\ Len(L) = m + 1 + n
        /\ \A j \in 1 .. m : L[j] = C[j]
        /\ L[m + 1] = c.name[1]
        /\ \A j \in 1 .. n : L[m + 1 + j] = Numeral(b[j])
    BY ONLY <2>4, <2>5, <2>6, <2>7
  <2> QED  BY <2>1, <2>8 DEF C, m, P, c, b
<1> QED  BY <1>1, <1>2, <1>4, <1>5

\* A local channel begins with its process.
LEMMA FirstPart ==
  ASSUME system \in Systems, PlainNames, NEW o \in Offers
  PROVE  ChannelLabelOf(o)[1] = IF o.chan.local THEN LabelOf(o.inst)[1] ELSE o.chan.name[1]
<1>1. o.inst \in Instances
  BY OfferReference
<1>2. CASE o.chan.local
  <2>1. Context(LabelOf(o.inst), o.chan) = LabelOf(o.inst)
    BY <1>2 DEF Context
  <2>2. \A j \in 1 .. Len(LabelOf(o.inst)) : ChannelLabelOf(o)[j] = LabelOf(o.inst)[j]
    BY <2>1, OfferParts
  <2>3. 1 \in 1 .. Len(LabelOf(o.inst))
    <3> DEFINE n == Len(system.procs[o.inst.pos].unbound)
    <3>1. Len(LabelOf(o.inst)) = 1 + 2 * n /\ n \in Nat
      BY <1>1, InstanceLabel
    <3> HIDE DEF n
    <3> QED  BY <3>1
  <2> QED  BY <1>2, <2>2, <2>3
<1>3. CASE ~o.chan.local
  <2>1. Len(Context(LabelOf(o.inst), o.chan)) = 0
    BY <1>3, EmptyList DEF Context
  <2> DEFINE m == Len(Context(LabelOf(o.inst), o.chan))
  <2>2. ChannelLabelOf(o)[m + 1] = o.chan.name[1]
    BY OfferParts
  <2> QED  BY <1>3, <2>1, <2>2
<1> QED  BY <1>2, <1>3

\* Labels that begin alike are of channels in the same scope, with prefixes of
\* the same length.
LEMMA SameScope ==
  ASSUME system \in Systems, PlainNames, NEW o \in Offers, NEW p \in Offers,
         ChannelLabelOf(o)[1] = ChannelLabelOf(p)[1]
  PROVE  /\ o.chan.local = p.chan.local
         /\ o.chan.local => o.inst.pos = p.inst.pos
         /\ Len(Context(LabelOf(o.inst), o.chan)) = Len(Context(LabelOf(p.inst), p.chan))
<1> DEFINE L == ChannelLabelOf(o)
           C == Context(LabelOf(o.inst), o.chan)
           D == Context(LabelOf(p.inst), p.chan)
<1>1. /\ o.inst \in Instances /\ p.inst \in Instances
      /\ o.owner = (IF o.chan.local THEN {o.inst} ELSE {}) /\ p.owner = (IF p.chan.local THEN {p.inst} ELSE {})
  BY OfferReference
<1>2. o.chan.local \in BOOLEAN /\ p.chan.local \in BOOLEAN
  BY ChannelsApart
<1>3. o.chan.local = p.chan.local /\ (o.chan.local => LabelOf(o.inst)[1] = LabelOf(p.inst)[1])
  <2>1. L[1] = (IF o.chan.local THEN LabelOf(o.inst)[1] ELSE o.chan.name[1])
    BY FirstPart
  <2>2. L[1] = (IF p.chan.local THEN LabelOf(p.inst)[1] ELSE p.chan.name[1])
    BY FirstPart
  <2>3. ~o.chan.local => o.chan.name[1] # LabelOf(p.inst)[1]
    BY ChannelsApart
  <2>4. ~p.chan.local => p.chan.name[1] # LabelOf(o.inst)[1]
    BY ChannelsApart
  <2> QED  BY <1>2, <2>1, <2>2, <2>3, <2>4
<1>4. o.chan.local => o.inst.pos = p.inst.pos
  BY <1>1, <1>3, InstancesApart
<1>5. Len(C) = Len(D)
  <2>1. CASE o.chan.local
    <3>1. o.inst.pos = p.inst.pos
      BY <1>4, <2>1
    <3>2. Len(LabelOf(o.inst)) = Len(LabelOf(p.inst))
      BY <1>1, <3>1, InstanceLabel
    <3> QED  BY <1>3, <2>1, <3>2 DEF Context
  <2>2. CASE ~o.chan.local
    BY <1>3, <2>2 DEF Context
  <2> QED  BY <2>1, <2>2
<1> QED  BY <1>3, <1>4, <1>5

\* The labels of two channels are the same only if the channels are.
LEMMA ChannelLabelsApart ==
  ASSUME system \in Systems, PlainNames, NEW o \in Offers, NEW p \in Offers, ChannelLabelOf(o) = ChannelLabelOf(p)
  PROVE  SameChannel(o, p)
<1> DEFINE L == ChannelLabelOf(o)
           C == Context(LabelOf(o.inst), o.chan)
           D == Context(LabelOf(p.inst), p.chan)
           a == o.idx
           b == p.idx
<1>1. /\ o.inst \in Instances /\ p.inst \in Instances
      /\ o.owner = (IF o.chan.local THEN {o.inst} ELSE {}) /\ p.owner = (IF p.chan.local THEN {p.inst} ELSE {})
  BY OfferReference
<1>3. o.chan.local = p.chan.local
  BY SameScope
<1>4. o.chan.local => o.inst.pos = p.inst.pos
  BY SameScope
<1>5. Len(C) = Len(D)
  BY SameScope
<1>6. /\ Len(C) \in Nat /\ Len(a) \in Nat /\ Len(L) = Len(C) + 1 + Len(a)
      /\ \A j \in 1 .. Len(C) : L[j] = C[j]
      /\ L[Len(C) + 1] = o.chan.name[1]
      /\ \A j \in 1 .. Len(a) : L[Len(C) + 1 + j] = Numeral(a[j])
      /\ a = [j \in 1 .. Len(a) |-> a[j]] /\ \A j \in 1 .. Len(a) : a[j] \in Ints
  BY OfferParts
<1>7. /\ Len(D) \in Nat /\ Len(b) \in Nat /\ Len(L) = Len(D) + 1 + Len(b)
      /\ \A j \in 1 .. Len(D) : L[j] = D[j]
      /\ L[Len(D) + 1] = p.chan.name[1]
      /\ \A j \in 1 .. Len(b) : L[Len(D) + 1 + j] = Numeral(b[j])
      /\ b = [j \in 1 .. Len(b) |-> b[j]] /\ \A j \in 1 .. Len(b) : b[j] \in Ints
  <2>1. ChannelLabelOf(p) = L
    OBVIOUS
  <2> HIDE DEF L
  <2> QED  BY <2>1, OfferParts
<1> HIDE DEF L, C, D, a, b
<1>8. o.chan.name[1] = p.chan.name[1]
  BY <1>5, <1>6, <1>7
<1>9. o.chan = p.chan
  BY <1>3, <1>4, <1>8, ChannelsApart
<1>10. a = b
  <2>1. Len(a) = Len(b)
    <3> DEFINE m == Len(C)
               k == Len(a)
               l == Len(b)
    <3>1. m \in Nat /\ k \in Nat /\ l \in Nat /\ m + 1 + k = m + 1 + l
      BY <1>5, <1>6, <1>7
    <3> HIDE DEF m, k, l
    <3>2. k = l
      BY <3>1
    <3> QED  BY <3>2 DEF k, l
  <2>2. ASSUME NEW j \in 1 .. Len(a) PROVE a[j] = b[j]
    <3>1. Numeral(a[j]) = Numeral(b[j]) /\ a[j] \in Ints /\ b[j] \in Ints
      BY <1>5, <1>6, <1>7, <2>1
    <3> QED  BY <3>1, NumeralsAssumption
  <2> QED  BY <1>6, <1>7, <2>1, <2>2
<1>11. o.chan.local => o.inst = p.inst
  <2> SUFFICES ASSUME o.chan.local PROVE o.inst = p.inst
    OBVIOUS
  <2>1. C = LabelOf(o.inst) /\ D = LabelOf(p.inst)
    BY <1>3 DEF Context, C, D
  <2>2. List(C) /\ List(D)
    BY <1>1, <2>1, InstanceLabel
  <2>3. \A j \in 1 .. Len(C) : C[j] = D[j]
    BY <1>5, <1>6, <1>7
  <2>4. C = D
    <3>1. C = [j \in 1 .. Len(C) |-> C[j]] /\ D = [j \in 1 .. Len(D) |-> D[j]]
      BY <2>2 DEF List
    <3> QED  BY <1>5, <2>3, <3>1
  <2> QED  BY <1>1, <2>1, <2>4, InstancesApart
<1> QED  BY <1>1, <1>3, <1>9, <1>10, <1>11 DEF SameChannel, a, b

\* The label of a channel is not that of an emission or a reception.
LEMMA NoLabelIsEvent ==
  ASSUME system \in Systems, PlainNames, NEW o \in Offers, NEW p \in Offers, p.dir # "csp"
  PROVE  ChannelLabelOf(o) # Written(p)[2]
<1> DEFINE L == ChannelLabelOf(o)
           M == ChannelLabelOf(p)
           m == Len(Context(LabelOf(o.inst), o.chan))
           a == o.idx
           b == p.idx
<1>1. PICK e \in {"emit", "recv"} : Written(p)[2] = M \o <<e>>
  <2>1. p.dir \in {"!", "?"}
    BY OfferReference
  <2> QED  BY <2>1 DEF Written, EventLabel
<1>2. SUFFICES ASSUME L = M \o <<e>> PROVE FALSE
  BY <1>1
<1>3. /\ m \in Nat /\ Len(a) \in Nat /\ Len(L) = m + 1 + Len(a)
      /\ \A j \in 1 .. Len(a) : L[m + 1 + j] = Numeral(a[j]) /\ a[j] \in Ints
  BY OfferParts
<1>4. List(M) /\ Len(M) \in Nat /\ Len(M) >= 1
  <2>1. List(M) /\ Len(M) >= 1
    BY OfferLabels
  <2> QED  BY <2>1, ListDomain
<1>5. /\ Len(M \o <<e>>) = Len(M) + 1
      /\ (M \o <<e>>)[1] = M[1] /\ (M \o <<e>>)[Len(M) + 1] = e
  <2>1. List(<<e>>) /\ Len(<<e>>) = 1 /\ <<e>>[1] = e
    BY SeqIsList, <<e>> \in Seq({e})
  <2> DEFINE x == <<e>>
  <2> HIDE DEF x, M
  <2>2. /\ Len(M \o x) = Len(M) + Len(x)
        /\ \A j \in 1 .. Len(M) : (M \o x)[j] = M[j]
        /\ \A j \in 1 .. Len(x) : (M \o x)[Len(M) + j] = x[j]
    <3>1. List(M) /\ List(x)
      BY <1>4, <2>1 DEF x
    <3> QED  BY ONLY <3>1, ListConcat
  <2>3. Len(x) = 1 /\ x[1] = e
    BY <2>1 DEF x
  <2>4. Len(M \o x) = Len(M) + 1 /\ (M \o x)[1] = M[1] /\ (M \o x)[Len(M) + 1] = e
    BY <1>4, <2>2, <2>3
  <2> QED  BY <2>4 DEF x
<1>6. L[1] = M[1] /\ Len(L) = Len(M) + 1 /\ L[Len(L)] = e
  BY <1>2, <1>5
<1>7. Len(M) = m + 1 + Len(b) /\ Len(b) \in Nat
  <2>1. m = Len(Context(LabelOf(p.inst), p.chan))
    BY <1>6, SameScope
  <2> QED  BY <2>1, OfferParts
<1> HIDE DEF L, M, m, a, b
<1>8. Len(a) = 0
  <2> SUFFICES ASSUME Len(a) # 0 PROVE FALSE
    OBVIOUS
  <2> DEFINE j == Len(a)
  <2>1. j \in 1 .. Len(a) /\ m + 1 + j = Len(L)
    BY <1>3
  <2>2. Numeral(a[j]) = e /\ a[j] \in Ints
    BY <1>3, <1>6, <2>1
  <2> QED  BY <2>2, NumeralsAssumption
<1> DEFINE k == Len(L)
           l == Len(M)
           n == Len(b)
<1>9. k = m + 1 /\ k = l + 1 /\ l = m + 1 + n /\ m \in Nat /\ n \in Nat
  BY <1>3, <1>6, <1>7, <1>8
<1> HIDE DEF k, l, n
<1> QED  BY <1>9

\* A label without a prefix begins with the name.
LEMMA PlainParts ==
  ASSUME NEW chan, List(chan.name), Len(chan.name) = 1,
         NEW idx, NEW n \in Nat, DOMAIN idx = 1 .. n
  PROVE  LET L == ChannelLabel(<<>>, chan, idx)
         IN  /\ Len(L) = 1 + n /\ L[1] = chan.name[1]
             /\ \A j \in 1 .. n : L[1 + j] = Numeral(idx[j])
<1> DEFINE E == <<>>
           L == ChannelLabel(E, chan, idx)
           m == Len(Context(E, chan))
<1>1. List(E)
  BY EmptyList
<1>2. m = 0
  BY EmptyList DEF Context
<1> HIDE DEF E
<1>3. /\ Len(L) = m + 1 + n /\ L[m + 1] = chan.name[1]
      /\ \A j \in 1 .. n : L[m + 1 + j] = Numeral(idx[j])
  <2>1. List(chan.name) /\ Len(chan.name) = 1 /\ n \in Nat /\ DOMAIN idx = 1 .. n
    OBVIOUS
  <2>2. Len(L) = m + 1 + n
    BY ONLY <1>1, <2>1, ChannelParts
  <2>3. L[m + 1] = chan.name[1]
    BY ONLY <1>1, <2>1, ChannelParts
  <2>4. \A j \in 1 .. n : L[m + 1 + j] = Numeral(idx[j])
    BY ONLY <1>1, <2>1, ChannelParts
  <2> QED  BY <2>2, <2>3, <2>4
<1> HIDE DEF m, L
<1>4. Len(L) = 1 + n /\ L[1] = chan.name[1] /\ \A j \in 1 .. n : L[1 + j] = Numeral(idx[j])
  BY <1>2, <1>3
<1> QED  BY <1>4 DEF E, L

\* An IO section names a channel by its own label.
LEMMA SectionNamesIt ==
  ASSUME system \in Systems, PlainNames, NEW o \in Offers, NEW r \in IOReferences,
         ChannelLabelOf(o) = ChannelLabel(<<>>, r.chan, Values(r, <<>>))
  PROVE  r.chan = o.chan /\ Values(r, <<>>) = o.idx
<1> DEFINE L == ChannelLabelOf(o)
           P == system.procs[o.inst.pos]
           All == UNION ({References(system.procs[i]) : i \in DOMAIN system.procs} \cup {d.csp : d \in system.io})
           Global == {x.chan : x \in {y \in All : ~y.chan.local}}
           a == o.idx
           b == Values(r, <<>>)
<1>1. PICK d \in system.io : r \in d.csp
  BY DEF IOReferences
<1>2. ScopesOK(system)
  BY ScopesAssumption
<1>3. IsReference(r) /\ IndicesKnown(r, {}) /\ ~r.chan.local
  <2>1. \A x \in system.io : \A y \in x.csp : IsReference(y) /\ IndicesKnown(y, {})
    BY <1>2 DEF ScopesOK
  <2> QED  BY <1>1, <2>1, SystemsAssumption
<1>4. r.chan.name \in Seq(STRING) /\ List(r.chan.name) /\ Len(r.chan.name) = 1
  <2>1. r.chan.name \in Seq(STRING)
    BY <1>3 DEF IsReference
  <2> QED  BY <2>1, SeqIsList DEF PlainNames
<1>5. PICK n \in Nat : /\ b = [j \in 1 .. n |-> b[j]] /\ DOMAIN b = 1 .. n
                       /\ \A j \in 1 .. n : b[j] \in Ints
  <2>1. Len(r.idx) \in Nat /\ DOMAIN r.idx = 1 .. Len(r.idx)
    BY <1>3, LenProperties DEF IsReference
  <2>2. b = [j \in 1 .. Len(r.idx) |-> Value(r.idx[j], <<>>)]
    BY <2>1 DEF Values
  <2>3. \A j \in DOMAIN r.idx : Value(r.idx[j], <<>>) \in Ints
    BY <1>3 DEF IndicesKnown, Value
  <2>4. /\ b = [j \in 1 .. Len(r.idx) |-> b[j]] /\ DOMAIN b = 1 .. Len(r.idx)
        /\ \A j \in 1 .. Len(r.idx) : b[j] \in Ints
    BY <2>1, <2>2, <2>3
  <2> HIDE DEF b
  <2> QED  BY <2>1, <2>4
<1> HIDE DEF a, b
<1>6. Context(<<>>, r.chan) = <<>> /\ Len(<<>>) = 0 /\ List(<<>>)
  BY EmptyList DEF Context
<1>7. /\ Len(L) = 0 + 1 + n /\ L[0 + 1] = r.chan.name[1]
      /\ \A j \in 1 .. n : L[0 + 1 + j] = Numeral(b[j])
  <2> DEFINE K == ChannelLabel(<<>>, r.chan, b)
  <2>1. L = K
    BY DEF b
  <2>2. /\ Len(K) = 1 + n /\ K[1] = r.chan.name[1]
        /\ \A j \in 1 .. n : K[1 + j] = Numeral(b[j])
    <3>1. List(r.chan.name) /\ Len(r.chan.name) = 1 /\ n \in Nat /\ DOMAIN b = 1 .. n
      BY <1>4, <1>5
    <3>2. Len(K) = 1 + n
      BY ONLY <3>1, PlainParts
    <3>3. K[1] = r.chan.name[1]
      BY ONLY <3>1, PlainParts
    <3>4. \A j \in 1 .. n : K[1 + j] = Numeral(b[j])
      <4> DEFINE c == r.chan
      <4>1. List(c.name) /\ Len(c.name) = 1 /\ n \in Nat /\ DOMAIN b = 1 .. n
        BY <3>1
      <4> HIDE DEF c
      <4>2. \A j \in 1 .. n : ChannelLabel(<<>>, c, b)[1 + j] = Numeral(b[j])
        BY ONLY <4>1, PlainParts
      <4> QED  BY ONLY <4>2 DEF c
    <3> QED  BY <3>2, <3>3, <3>4
  <2> HIDE DEF L, K
  <2> QED  BY <2>1, <2>2
<1>8. L[1] = r.chan.name[1]
  BY <1>7
<1>9. /\ o.inst \in Instances /\ o.inst.pos \in DOMAIN system.procs /\ o.chan.name \in Seq(STRING) /\ Len(o.chan.name) = 1
      /\ \E x \in References(P) : x.chan = o.chan
  BY OfferReference
<1>10. r.chan \in Global
  BY <1>1, <1>3
<1>11. ~o.chan.local
  <2> SUFFICES ASSUME o.chan.local PROVE FALSE
    OBVIOUS
  <2>1. r.chan.name[1] = P.name[1]
    <3>1. L[1] = LabelOf(o.inst)[1]
      BY FirstPart
    <3>2. LabelOf(o.inst)[1] = P.name[1]
      BY <1>9, InstanceLabel
    <3> QED  BY <1>8, <3>1, <3>2
  <2>2. P.name \in Seq(STRING) /\ Len(P.name) = 1
    BY <1>9, SystemsAssumption DEF IsProcess, PlainNames
  <2>3. r.chan.name = P.name
    BY <1>4, <2>1, <2>2, PlainName
  <2> QED  BY <1>2, <1>9, <1>10, <2>3 DEF ScopesOK
<1>12. r.chan = o.chan
  <2>1. L[1] = o.chan.name[1]
    BY <1>11, FirstPart
  <2>2. r.chan.name = o.chan.name
    BY <1>4, <1>8, <1>9, <2>1, PlainName
  <2>3. o.chan \in Global
    BY <1>9, <1>11
  <2> HIDE DEF Global
  <2>4. \A x, y \in Global : x.name = y.name => x = y
    BY <1>2 DEF ScopesOK, Global
  <2> QED  BY <1>10, <2>2, <2>3, <2>4
<1>13. a = b
  <2>1. Context(LabelOf(o.inst), o.chan) = <<>>
    BY <1>11 DEF Context
  <2>2. /\ Len(a) \in Nat /\ Len(L) = 0 + 1 + Len(a)
        /\ \A j \in 1 .. Len(a) : L[0 + 1 + j] = Numeral(a[j]) /\ a[j] \in Ints
        /\ a = [j \in 1 .. Len(a) |-> a[j]]
    <3> DEFINE m == Len(Context(LabelOf(o.inst), o.chan))
    <3>1. /\ Len(a) \in Nat /\ Len(L) = m + 1 + Len(a)
          /\ \A j \in 1 .. Len(a) : L[m + 1 + j] = Numeral(a[j]) /\ a[j] \in Ints
          /\ a = [j \in 1 .. Len(a) |-> a[j]]
      BY OfferParts DEF a
    <3>2. m = 0
      BY <1>6, <2>1
    <3> HIDE DEF m, L
    <3> QED  BY <3>1, <3>2
  <2> HIDE DEF L
  <2>3. Len(a) = n
    <3> DEFINE k == Len(a)
    <3>1. 0 + 1 + k = 0 + 1 + n /\ k \in Nat /\ n \in Nat
      BY <1>7, <2>2
    <3> HIDE DEF k
    <3>2. k = n
      BY <3>1
    <3> QED  BY <3>2 DEF k
  <2>4. ASSUME NEW j \in 1 .. n PROVE a[j] = b[j]
    <3>1. Numeral(a[j]) = Numeral(b[j]) /\ a[j] \in Ints /\ b[j] \in Ints
      BY <1>5, <1>7, <2>2, <2>3
    <3> QED  BY <3>1, NumeralsAssumption
  <2> QED  BY <1>5, <2>2, <2>3, <2>4
<1> QED  BY <1>12, <1>13 DEF a, b

\* Labels clash only where an identifier has an underscore: a label is read back
\* part by part, since its first part tells its scope, the scope how many parts
\* are the process's, the next the channel, and the rest are numerals.
THEOREM LabelsKeptApart == TSpec => []LabelsApart
<1>1. TInv => LabelsApart
  <2> SUFFICES ASSUME TInv, PlainNames PROVE NamesApart /\ EventsApart /\ IOApart
    BY DEF LabelsApart
  <2>1. system \in Systems
    BY DEF TInv, ProcessesInv, WorkOK
  <2>2. NamesApart
    BY <2>1, InstancesApart, ChannelLabelsApart DEF NamesApart
  <2>3. EventsApart
    BY <2>1, NoLabelIsEvent DEF EventsApart
  <2>4. IOApart
    BY <2>1, SectionNamesIt DEF IOApart
  <2> QED  BY <2>2, <2>3, <2>4
<1> QED  BY <1>1, TInvariance, PTL

-----------------------------------------------------------------------------
(***************************************************************************)
(* The model written moves as the Uppaal system does: the tables record    *)
(* the events of all the edges and nothing else, so that what the vectors  *)
(* mean for the events of the tables, they mean for the offers of the      *)
(* processes.                                                              *)
(***************************************************************************)
\* The channel and the process of an edge translated are in the tables.
EdgeRecorded(c, w) ==
  LET r == w.edge.sync[1]
      s == ChannelLabel(LabelOf(c), r.chan, Values(r, w.val))
  IN  /\ r.dir = "!" => <<s, LabelOf(c)>> \in emits
      /\ r.dir = "?" => <<s, LabelOf(c)>> \in recvs
      /\ r.dir = "csp" => <<s, LabelOf(c)>> \in csps
      /\ EventLabel(r.dir, s) \in labels
      /\ s \in ChannelLabels

\* Every edge of an instance that has begun is recorded, or left.
NoneForgotten ==
  phase # "failed" =>
    \A c \in Instances \ procsLeft : \A w \in Work(c) :
      w.edge.sync # <<>> => EdgeRecorded(c, w) \/ (proc = LabelOf(c) /\ w \in edgesLeft)

AllTranslated == phase = "tables" => procsLeft = {} /\ edgesLeft = {}

\* The tables record offers and nothing else.
Made(dir, s, P) == \E o \in Offers : o.dir = dir /\ ChannelLabelOf(o) = s /\ LabelOf(o.inst) = P

TablesOffered ==
  /\ \A s, P : <<s, P>> \in emits => Made("!", s, P)
  /\ \A s, P : <<s, P>> \in recvs => Made("?", s, P)
  /\ \A s, P : <<s, P>> \in csps => Made("csp", s, P)

\* The broadcast channels known are those that have an edge translated.
BroadcastsRight ==
  NamesApart /\ FlagsAgree =>
    /\ \A s \in broadcasts : \E o \in Offers : ChannelLabelOf(o) = s /\ o.chan.bcast
    /\ \A o \in Offers : Written(o)[2] \in labels /\ o.chan.bcast => ChannelLabelOf(o) \in broadcasts

\* A channel is allowed to a process that has it in its IO section.
IOLabel(r) == ChannelLabel(<<>>, r.chan, Values(r, <<>>))

AllowedRight ==
  phase \in {"processes", "tables"} =>
    /\ \A r \in IOReferences : IOLabel(r) \in ChannelLabels
    /\ \A P, s : <<P, s>> \in allowed <=> \E d \in system.io : d.instance = P /\ \E r \in d.csp : IOLabel(r) = s

FullInv == NoneForgotten /\ AllTranslated /\ TablesOffered /\ BroadcastsRight /\ AllowedRight
-----------------------------------------------------------------------------
(***************************************************************************)
(* Offers and the edges that make them.                                    *)
(***************************************************************************)
\* An offer is made by an edge of its instance.
LEMMA OfferWork ==
  ASSUME NEW o \in Offers
  PROVE  /\ o.inst \in Instances
         /\ o = [inst |-> o.inst, dir |-> o.dir, chan |-> o.chan, owner |-> o.owner, idx |-> o.idx]
         /\ \E w \in Work(o.inst) :
              LET r == w.edge.sync[1]
              IN  /\ w.edge.sync # <<>>
                  /\ \E i \in DOMAIN system.procs : r \in References(system.procs[i])
                  /\ o.dir = r.dir /\ o.chan = r.chan /\ o.idx = Values(r, w.val)
<1>1. PICK c \in Instances : o \in OffersOf(c)
  BY DEF Offers
<1> DEFINE p == system.procs[c.pos]
<1>2. PICK k \in {j \in DOMAIN p.edges : p.edges[j].sync # <<>>} :
        \E val \in Valuations(p.edges[k].select) : o = Offer(c, p.edges[k].sync[1], Extend(c.val, val))
  BY <1>1 DEF OffersOf
<1>3. PICK val \in Valuations(p.edges[k].select) : o = Offer(c, p.edges[k].sync[1], Extend(c.val, val))
  BY <1>2
<1> DEFINE w == [pos |-> k, edge |-> p.edges[k], val |-> Extend(c.val, val)]
           r == p.edges[k].sync[1]
<1>4. w \in Work(c) /\ w.edge = p.edges[k] /\ w.val = Extend(c.val, val)
  <2>1. k \in DOMAIN p.edges
    OBVIOUS
  <2>2. w \in {[pos |-> k, edge |-> p.edges[k], val |-> Extend(c.val, v)] : v \in Valuations(p.edges[k].select)}
    OBVIOUS
  <2>3. Work(c) = UNION {{[pos |-> j, edge |-> p.edges[j], val |-> Extend(c.val, v)] :
                            v \in Valuations(p.edges[j].select)} : j \in DOMAIN p.edges}
    BY DEF Work
  <2>4. w \in Work(c)
    BY <2>1, <2>2, <2>3, Zenon
  <2> QED  BY <2>4
<1>5. o = [inst |-> c, dir |-> r.dir, chan |-> r.chan, owner |-> IF r.chan.local THEN {c} ELSE {},
           idx |-> Values(r, Extend(c.val, val))]
  BY <1>3 DEF Offer
<1>6. c.pos \in DOMAIN system.procs /\ r \in References(p)
  <2>1. c.pos \in DOMAIN system.procs
    BY DEF Instances
  <2>2. r \in References(p)
    BY Zenon DEF References
  <2> QED  BY <2>1, <2>2
<1> HIDE DEF w, r
<1>7. /\ o.inst = c /\ o.dir = r.dir /\ o.chan = r.chan /\ o.idx = Values(r, Extend(c.val, val))
      /\ o = [inst |-> o.inst, dir |-> o.dir, chan |-> o.chan, owner |-> o.owner, idx |-> o.idx]
  BY <1>5
<1> QED  BY <1>1, <1>2, <1>4, <1>6, <1>7 DEF r

\* Emissions and receptions, or CSP synchronisations.
LEMMA OffersOfOneKind ==
  ASSUME system \in Systems
  PROVE  \/ \A o \in Offers : o.dir = "csp"
         \/ \A o \in Offers : o.dir # "csp"
<1>1. OneKind(system)
  BY SystemsAssumption
<1>2. \A o \in Offers : \E i \in DOMAIN system.procs : \E r \in References(system.procs[i]) : o.dir = r.dir
  BY OfferWork
<1> QED  BY <1>1, <1>2 DEF OneKind

\* The event on an edge tells its direction and the label of its channel.
LEMMA LabelsTell ==
  ASSUME system \in Systems, NEW o \in Offers, NEW p \in Offers, Written(o)[2] = Written(p)[2]
  PROVE  o.dir = p.dir /\ ChannelLabelOf(o) = ChannelLabelOf(p)
<1> DEFINE s == ChannelLabelOf(o)
           t == ChannelLabelOf(p)
<1>1. /\ List(s) /\ List(t) /\ o.dir \in {"!", "?", "csp"} /\ p.dir \in {"!", "?", "csp"}
      /\ o.dir = "csp" <=> p.dir = "csp"
  BY OfferLabels, OffersOfOneKind
<1>2. EventLabel(o.dir, s) = EventLabel(p.dir, t)
  BY DEF Written
<1> HIDE DEF s, t
<1>3. CASE o.dir = "csp"
  BY <1>1, <1>2, <1>3 DEF EventLabel, s, t
<1>4. CASE o.dir # "csp"
  <2>1. /\ EventLabel(o.dir, s) = s \o <<IF o.dir = "!" THEN "emit" ELSE "recv">>
        /\ EventLabel(p.dir, t) = t \o <<IF p.dir = "!" THEN "emit" ELSE "recv">>
    BY <1>1, <1>4 DEF EventLabel
  <2>2. PICK x : x = IF o.dir = "!" THEN "emit" ELSE "recv"
    OBVIOUS
  <2>3. PICK y : y = IF p.dir = "!" THEN "emit" ELSE "recv"
    OBVIOUS
  <2>4. OneMore(s \o <<x>>, s, x) /\ OneMore(t \o <<y>>, t, y)
    BY <1>1, OneMoreConcat, Zenon
  <2>5. OneMore(EventLabel(o.dir, s), s, x) /\ OneMore(EventLabel(p.dir, t), t, y)
    BY <2>1, <2>2, <2>3, <2>4, Zenon
  <2>6. s = t /\ x = y
    <3>1. List(s) /\ List(t) /\ OneMore(EventLabel(o.dir, s), s, x) /\ OneMore(EventLabel(o.dir, s), t, y)
      BY <1>1, <1>2, <2>5
    <3> QED  BY <3>1, OneMoreApart
  <2> QED  BY <1>1, <1>4, <2>2, <2>3, <2>6 DEF s, t
<1> QED  BY <1>3, <1>4

-----------------------------------------------------------------------------
(***************************************************************************)
(* The first pass records everything.                                      *)
(***************************************************************************)
\* What is recorded stays recorded.
LEMMA StayRecorded ==
  ASSUME [Next]_vars, NEW c, NEW w, EdgeRecorded(c, w),
         emits \subseteq emits', recvs \subseteq recvs', csps \subseteq csps', labels \subseteq labels'
  PROVE  EdgeRecorded(c, w)'
BY SystemFixed DEF EdgeRecorded

\* The instances and edges left become fewer, but for an instance that begins.
LEMMA NoneForgottenStep == WorkOK /\ NoneForgotten /\ [Next]_vars => NoneForgotten'
<1> SUFFICES ASSUME WorkOK, NoneForgotten, [Next]_vars, phase' # "failed" PROVE NoneForgotten'
  BY DEF NoneForgotten
<1>1. /\ Instances' = Instances /\ \A c : LabelOf(c)' = LabelOf(c) /\ Work(c)' = Work(c)
  BY SystemFixed
<1>2. ASSUME \A c \in Instances \ procsLeft' : \A w \in Work(c) :
               w.edge.sync # <<>> => EdgeRecorded(c, w)' \/ (proc' = LabelOf(c) /\ w \in edgesLeft')
      PROVE  NoneForgotten'
  BY <1>1, <1>2 DEF NoneForgotten
<1>3. CASE phase = "failed"
  BY <1>3 DEF Next, vars, RegisterIO, FailIO, BeginProcess, TranslateTauEdge, TranslateSyncEdge,
     FailEdge, NextEdge, EndProcesses
<1>4. ASSUME phase # "failed", NEW c \in Instances \ procsLeft, NEW w \in Work(c), w.edge.sync # <<>>
      PROVE  EdgeRecorded(c, w) \/ (proc = LabelOf(c) /\ w \in edgesLeft)
  BY <1>4 DEF NoneForgotten
<1>5. CASE phase # "failed" /\ UNCHANGED <<procsLeft, proc, edgesLeft, emits, recvs, csps, labels>>
  <2>1. ASSUME NEW c \in Instances \ procsLeft', NEW w \in Work(c), w.edge.sync # <<>>
        PROVE  EdgeRecorded(c, w)' \/ (proc' = LabelOf(c) /\ w \in edgesLeft')
    BY <1>4, <1>5, <2>1, StayRecorded
  <2> QED  BY <1>2, <2>1
<1>6. ASSUME NEW c0 \in procsLeft, BeginProcess(c0) PROVE NoneForgotten'
  <2>1. /\ phase # "failed" /\ edgesLeft = {} /\ procsLeft' = procsLeft \ {c0} /\ proc' = LabelOf(c0)
        /\ edgesLeft' = Work(c0) /\ UNCHANGED <<emits, recvs, csps, labels>>
    BY <1>6 DEF BeginProcess, LabelOf, Work, tables
  <2>2. ASSUME NEW c \in Instances \ procsLeft', NEW w \in Work(c), w.edge.sync # <<>>
        PROVE  EdgeRecorded(c, w)' \/ (proc' = LabelOf(c) /\ w \in edgesLeft')
    <3>1. CASE c = c0
      BY <2>1, <3>1
    <3>2. CASE c # c0
      <4>1. EdgeRecorded(c, w)
        BY <1>4, <2>1, <2>2, <3>2
      <4> QED  BY <2>1, <4>1, StayRecorded
    <3> QED  BY <3>1, <3>2
  <2> QED  BY <1>2, <2>2
<1>7. ASSUME NEW w0 \in edgesLeft, TranslateTauEdge(w0) PROVE NoneForgotten'
  <2>1. /\ phase # "failed" /\ w0.edge.sync = <<>> /\ edgesLeft' = edgesLeft \ {w0}
        /\ UNCHANGED <<procsLeft, proc, emits, recvs, csps, labels>>
    BY <1>7 DEF TranslateTauEdge, NextEdge, tables
  <2>2. ASSUME NEW c \in Instances \ procsLeft', NEW w \in Work(c), w.edge.sync # <<>>
        PROVE  EdgeRecorded(c, w)' \/ (proc' = LabelOf(c) /\ w \in edgesLeft')
    BY <1>4, <2>1, <2>2, StayRecorded
  <2> QED  BY <1>2, <2>2
<1>8. ASSUME NEW w0 \in edgesLeft, TranslateSyncEdge(w0) PROVE NoneForgotten'
  <2> DEFINE r == w0.edge.sync[1]
             s == ChannelLabel(proc, r.chan, Values(r, w0.val))
  <2>1. /\ phase = "processes" /\ w0.edge.sync # <<>> /\ InBounds(r, w0.val)
        /\ edgesLeft' = edgesLeft \ {w0} /\ procsLeft' = procsLeft /\ proc' = proc
        /\ labels' = labels \cup {EventLabel(r.dir, s)} /\ RecordProcess(s, r.dir)
    BY <1>8, SyncEdgeWrites
  <2>2. s \in ChannelLabels
    BY <2>1, EdgeOffer
  <2>3. /\ emits \subseteq emits' /\ recvs \subseteq recvs' /\ csps \subseteq csps' /\ labels \subseteq labels'
        /\ r.dir = "!" => <<s, proc>> \in emits'
        /\ r.dir = "?" => <<s, proc>> \in recvs'
        /\ r.dir = "csp" => <<s, proc>> \in csps'
    BY <2>1 DEF RecordProcess
  <2>4. ASSUME NEW c, proc = LabelOf(c) PROVE EdgeRecorded(c, w0)'
    BY <1>1, <2>1, <2>2, <2>3, <2>4 DEF EdgeRecorded
  <2>5. ASSUME NEW c \in Instances \ procsLeft', NEW w \in Work(c), w.edge.sync # <<>>
        PROVE  EdgeRecorded(c, w)' \/ (proc' = LabelOf(c) /\ w \in edgesLeft')
    <3>1. CASE EdgeRecorded(c, w)
      BY <2>3, <3>1, StayRecorded
    <3>2. CASE proc = LabelOf(c) /\ w \in edgesLeft
      BY <2>1, <2>4, <3>2
    <3> QED  BY <1>4, <2>1, <2>5, <3>1, <3>2
  <2> QED  BY <1>2, <2>5
<1> QED  BY <1>3, <1>5, <1>6, <1>7, <1>8
         DEF Next, vars, tables, RegisterIO, FailIO, FailEdge, EndProcesses

\* The tables are handed over when no edge is left.
LEMMA AllTranslatedStep == AllTranslated /\ [Next]_vars => AllTranslated'
BY DEF AllTranslated, Next, vars, RegisterIO, FailIO, BeginProcess, TranslateTauEdge, TranslateSyncEdge,
       FailEdge, NextEdge, EndProcesses

\* An edge is recorded as the offer it makes.
LEMMA TablesOfferedStep == WorkOK /\ TablesOffered /\ [Next]_vars => TablesOffered'
<1> SUFFICES ASSUME WorkOK, TablesOffered, [Next]_vars PROVE TablesOffered'
  OBVIOUS
<1>1. ASSUME NEW dir, NEW s, NEW P, Made(dir, s, P) PROVE Made(dir, s, P)'
  BY <1>1, SystemFixed DEF Made
<1>2. CASE UNCHANGED <<emits, recvs, csps>>
  BY <1>1, <1>2 DEF TablesOffered
<1>3. ASSUME NEW w \in edgesLeft, TranslateSyncEdge(w) PROVE TablesOffered'
  <2> DEFINE r == w.edge.sync[1]
             s == ChannelLabel(proc, r.chan, Values(r, w.val))
  <2>1. RecordProcess(s, r.dir) /\ w.edge.sync # <<>>
    BY <1>3, SyncEdgeWrites
  <2>2. PICK o : IsOfferOf(o, w)
    BY <2>1, EdgeOffer
  <2>3. Made(r.dir, s, proc)
    BY <2>2 DEF IsOfferOf, Made
  <2> HIDE DEF s, r
  <2>4. \A t, P : <<t, P>> \in emits' => Made("!", t, P)'
    BY <1>1, <2>1, <2>3 DEF RecordProcess, TablesOffered
  <2>5. \A t, P : <<t, P>> \in recvs' => Made("?", t, P)'
    BY <1>1, <2>1, <2>3 DEF RecordProcess, TablesOffered
  <2>6. \A t, P : <<t, P>> \in csps' => Made("csp", t, P)'
    BY <1>1, <2>1, <2>3 DEF RecordProcess, TablesOffered
  <2> QED  BY <2>4, <2>5, <2>6 DEF TablesOffered
<1> QED
  BY <1>2, <1>3 DEF Next, vars, tables, RegisterIO, FailIO, BeginProcess, TranslateTauEdge, FailEdge, EndProcesses

\* Only the declaration of an event looks at the type of its channel; the
\* declaration is the first edge's, but all the edges on it agree.
LEMMA BroadcastsStep == WorkOK /\ BroadcastsRight /\ [Next]_vars => BroadcastsRight'
<1> SUFFICES ASSUME WorkOK, BroadcastsRight, [Next]_vars PROVE BroadcastsRight'
  OBVIOUS
<1>0. /\ NamesApart' <=> NamesApart
      /\ FlagsAgree' <=> FlagsAgree
  BY SystemFixed DEF NamesApart, FlagsAgree, SameChannel
<1> SUFFICES ASSUME NamesApart, FlagsAgree
             PROVE  /\ \A s \in broadcasts' : \E o \in Offers : ChannelLabelOf(o) = s /\ o.chan.bcast
                    /\ \A o \in Offers :
                         Written(o)[2] \in labels' /\ o.chan.bcast => ChannelLabelOf(o) \in broadcasts'
  BY <1>0, SystemFixed DEF BroadcastsRight
<1>1. /\ \A s \in broadcasts : \E o \in Offers : ChannelLabelOf(o) = s /\ o.chan.bcast
      /\ \A o \in Offers : Written(o)[2] \in labels /\ o.chan.bcast => ChannelLabelOf(o) \in broadcasts
  BY DEF BroadcastsRight
<1>2. CASE UNCHANGED <<broadcasts, labels>>
  BY <1>1, <1>2
<1>3. ASSUME NEW w \in edgesLeft, TranslateSyncEdge(w)
      PROVE  /\ \A s \in broadcasts' : \E o \in Offers : ChannelLabelOf(o) = s /\ o.chan.bcast
             /\ \A o \in Offers :
                  Written(o)[2] \in labels' /\ o.chan.bcast => ChannelLabelOf(o) \in broadcasts'
  <2> DEFINE r == w.edge.sync[1]
             s == ChannelLabel(proc, r.chan, Values(r, w.val))
             ev == EventLabel(r.dir, s)
  <2>1. RecordBroadcast(s, ev, r) /\ w.edge.sync # <<>> /\ labels' = labels \cup {ev}
    BY <1>3, SyncEdgeWrites
  <2>2. PICK o : IsOfferOf(o, w)
    BY <2>1, EdgeOffer
  <2>3. o \in Offers /\ o.chan = r.chan /\ ChannelLabelOf(o) = s /\ Written(o)[2] = ev
    BY <2>2 DEF IsOfferOf
  <2>4. r.bcast = o.chan.bcast
    BY <2>1, <2>3, EdgeOffer DEF FlagsAgree
  <2> HIDE DEF s, r, ev
  <2>5. \A t \in broadcasts' : \E p \in Offers : ChannelLabelOf(p) = t /\ p.chan.bcast
    BY <1>1, <2>1, <2>3, <2>4 DEF RecordBroadcast
  <2>6. ASSUME NEW p \in Offers, Written(p)[2] \in labels', p.chan.bcast
        PROVE  ChannelLabelOf(p) \in broadcasts'
    <3>1. CASE Written(p)[2] \in labels
      BY <1>1, <2>1, <2>6, <3>1 DEF RecordBroadcast
    <3>2. CASE Written(p)[2] \notin labels
      <4>1. Written(p)[2] = ev
        BY <2>1, <2>6, <3>2
      <4>2. ChannelLabelOf(p) = s
        BY <2>3, <4>1, LabelsTell DEF WorkOK
      <4>3. p.chan = o.chan
        BY <2>3, <4>2 DEF NamesApart, SameChannel
      <4> QED  BY <2>1, <2>4, <2>6, <3>2, <4>1, <4>2, <4>3 DEF RecordBroadcast
    <3> QED  BY <3>1, <3>2
  <2> QED  BY <2>5, <2>6
<1> QED
  BY <1>2, <1>3 DEF Next, vars, tables, RegisterIO, FailIO, BeginProcess, TranslateTauEdge, FailEdge, EndProcesses

\* The IO sections are registered once, before the processes.
LEMMA AllowedStep == WorkOK /\ AllowedRight /\ [Next]_vars => AllowedRight'
<1> SUFFICES ASSUME WorkOK, AllowedRight, [Next]_vars PROVE AllowedRight'
  OBVIOUS
<1>1. system' = system /\ IOReferences' = IOReferences
  BY SystemFixed DEF IOReferences
<1>2. CASE phase \in {"processes", "tables"} /\ allowed' = allowed
  BY <1>1, <1>2 DEF AllowedRight
<1>3. CASE phase' \notin {"processes", "tables"}
  BY <1>3 DEF AllowedRight
<1>4. CASE RegisterIO
  <2>1. /\ \A d \in system.io : \A r \in d.csp : InBounds(r, <<>>)
        /\ allowed' = UNION {{<<d.instance, IOLabel(r)>> : r \in d.csp} : d \in system.io}
    BY <1>4 DEF RegisterIO, IOLabel
  <2>2. \A r \in IOReferences : IOLabel(r) \in ChannelLabels
    BY <2>1, LabelsAssumption DEF WorkOK, IOLabel, IOReferences
  <2>3. ASSUME NEW P, NEW s
        PROVE  <<P, s>> \in allowed' <=>
                 \E d \in system.io : d.instance = P /\ \E r \in d.csp : IOLabel(r) = s
    <3>1. <<P, s>> \in allowed' <=> \E d \in system.io : <<P, s>> \in {<<d.instance, IOLabel(r)>> : r \in d.csp}
      BY <2>1, Zenon
    <3>2. ASSUME NEW d
          PROVE  <<P, s>> \in {<<d.instance, IOLabel(r)>> : r \in d.csp}
                   <=> d.instance = P /\ \E r \in d.csp : IOLabel(r) = s
      OBVIOUS
    <3> QED  BY <3>1, <3>2
  <2> QED  BY <1>1, <2>2, <2>3 DEF AllowedRight, IOLabel
<1> QED
  BY <1>2, <1>3, <1>4 DEF Next, vars, tables, FailIO, BeginProcess, TranslateTauEdge, TranslateSyncEdge,
     FailEdge, NextEdge, EndProcesses

\* Every step keeps the tables full.
LEMMA FullStep == WorkOK /\ FullInv /\ [Next]_vars => FullInv'
BY NoneForgottenStep, AllTranslatedStep, TablesOfferedStep, BroadcastsStep, AllowedStep DEF FullInv

\* At first all is still to be translated.
LEMMA FullInit == Init => FullInv
<1> SUFFICES ASSUME Init PROVE FullInv
  OBVIOUS
<1>1. procsLeft = Instances
  BY DEF Init, Instances
<1>2. NoneForgotten
  BY <1>1 DEF NoneForgotten
<1> QED
  BY <1>2 DEF Init, FullInv, AllTranslated, TablesOffered, BroadcastsRight, AllowedRight

\* When the vectors are written, the tables record the events of all the edges
\* and nothing else (s_build_edge_label, s_register_iodecl).
LEMMA FullInvariance == TSpec => []FullInv
<1>1. TInit => FullInv
  BY FullInit DEF TInit
<1>2. TInv /\ FullInv /\ [TNext]_allVars => FullInv'
  <2>1. [TNext]_allVars => [Next]_vars
    BY DEF TNext, TranslateProcesses, GenerateSyncVectors, SyncStep, allVars
  <2> QED  BY <2>1, FullStep DEF TInv, ProcessesInv
<1> QED  BY <1>1, <1>2, TInvariance, PTL DEF TSpec

-----------------------------------------------------------------------------
(***************************************************************************)
(* At the end the offers of the processes and the events of the tables are *)
(* the same thing, under different names.                                  *)
(***************************************************************************)
AtEnd == TInv /\ FullInv /\ Done /\ NamesApart /\ IOApart /\ FlagsAgree

\* An offer as SyncSemantics names it.
EventSeen(dir, s) == IF dir = "!" THEN <<"emit", s>> ELSE IF dir = "?" THEN <<"recv", s>> ELSE <<"csp", s>>
Seen(o) == <<LabelOf(o.inst), EventSeen(o.dir, ChannelLabelOf(o))>>

\* All the processes are translated when the vectors are written.
LEMMA EndTables ==
  ASSUME AtEnd
  PROVE  /\ phase = "tables" /\ procsLeft = {} /\ edgesLeft = {} /\ system \in Systems
         /\ SP!IInv /\ SP!TablesOK /\ loop = "done"
BY DEF AtEnd, Done, TInv, SecondPass, ProcessesInv, WorkOK, FullInv, AllTranslated, SP!IInv, SP!TypeOK

\* Every offer is in the tables.
LEMMA OfferRecorded ==
  ASSUME AtEnd, NEW o \in Offers
  PROVE  LET s == ChannelLabelOf(o)
             P == LabelOf(o.inst)
         IN  /\ P \in ProcessLabels /\ s \in ChannelLabels /\ o.dir \in {"!", "?", "csp"}
             /\ o.dir = "!" => <<s, P>> \in emits
             /\ o.dir = "?" => <<s, P>> \in recvs
             /\ o.dir = "csp" => <<s, P>> \in csps
             /\ Written(o)[2] \in labels
<1> DEFINE c == o.inst
<1>1. c \in Instances \ procsLeft /\ edgesLeft = {} /\ phase = "tables" /\ system \in Systems
  BY OfferWork, EndTables
<1>2. PICK w \in Work(c) :
        LET r == w.edge.sync[1]
        IN  w.edge.sync # <<>> /\ o.dir = r.dir /\ o.chan = r.chan /\ o.idx = Values(r, w.val)
  BY OfferWork
<1>3. EdgeRecorded(c, w)
  BY <1>1, <1>2 DEF AtEnd, FullInv, NoneForgotten
<1>4. LabelOf(c) \in ProcessLabels
  <2>1. LabelsKnown(system, c.pos) /\ c.val \in Valuations(system.procs[c.pos].unbound)
    BY <1>1, LabelsAssumption DEF Instances
  <2> QED  BY <2>1 DEF LabelsKnown, LabelOf
<1>5. ChannelLabelOf(o) = ChannelLabel(LabelOf(c), w.edge.sync[1].chan, Values(w.edge.sync[1], w.val))
  BY <1>2 DEF ChannelLabelOf
<1>6. Written(o)[2] = EventLabel(o.dir, ChannelLabelOf(o))
  BY DEF Written
<1>7. o.dir \in {"!", "?", "csp"}
  BY <1>1, OfferLabels
<1> QED  BY <1>2, <1>3, <1>4, <1>5, <1>6, <1>7 DEF EdgeRecorded

\* An offer is told by its instance, its direction and the label of its channel.
LEMMA OfferTold ==
  ASSUME AtEnd, NEW o \in Offers, NEW p \in Offers, LabelOf(o.inst) = LabelOf(p.inst),
         o.dir = p.dir, ChannelLabelOf(o) = ChannelLabelOf(p)
  PROVE  o = p
<1>1. o.inst = p.inst /\ o.chan = p.chan /\ o.owner = p.owner /\ o.idx = p.idx
  BY OfferWork DEF AtEnd, NamesApart, SameChannel
<1>2. /\ o = [inst |-> o.inst, dir |-> o.dir, chan |-> o.chan, owner |-> o.owner, idx |-> o.idx]
      /\ p = [inst |-> p.inst, dir |-> p.dir, chan |-> p.chan, owner |-> p.owner, idx |-> p.idx]
  BY OfferWork
<1>3. p = [inst |-> o.inst, dir |-> o.dir, chan |-> o.chan, owner |-> o.owner, idx |-> o.idx]
  BY <1>1, <1>2, Zenon
<1> QED  BY <1>2, <1>3

\* What the event of an offer says.
LEMMA SeenTells ==
  ASSUME AtEnd, NEW o \in Offers, NEW P, NEW s
  PROVE  /\ Seen(o) = <<P, <<"emit", s>>>> <=> o.dir = "!" /\ LabelOf(o.inst) = P /\ ChannelLabelOf(o) = s
         /\ Seen(o) = <<P, <<"recv", s>>>> <=> o.dir = "?" /\ LabelOf(o.inst) = P /\ ChannelLabelOf(o) = s
         /\ Seen(o) = <<P, <<"csp", s>>>> <=> o.dir = "csp" /\ LabelOf(o.inst) = P /\ ChannelLabelOf(o) = s
<1>1. o.dir \in {"!", "?", "csp"}
  BY OfferRecorded
<1>2. /\ o.dir = "!" => Seen(o) = <<LabelOf(o.inst), <<"emit", ChannelLabelOf(o)>>>>
      /\ o.dir = "?" => Seen(o) = <<LabelOf(o.inst), <<"recv", ChannelLabelOf(o)>>>>
      /\ o.dir = "csp" => Seen(o) = <<LabelOf(o.inst), <<"csp", ChannelLabelOf(o)>>>>
  BY DEF Seen, EventSeen
<1> QED  BY <1>1, <1>2

\* Different offers are seen, and written, differently.
LEMMA SeenApart == ASSUME AtEnd, NEW o \in Offers, NEW p \in Offers, Seen(o) = Seen(p) PROVE o = p
<1>1. o.dir \in {"!", "?", "csp"} /\ p.dir \in {"!", "?", "csp"}
  BY OfferRecorded
<1>2. o.dir = p.dir /\ LabelOf(o.inst) = LabelOf(p.inst) /\ ChannelLabelOf(o) = ChannelLabelOf(p)
  BY <1>1 DEF Seen, EventSeen
<1> QED  BY <1>2, OfferTold

\* Different offers are written as different edges.
LEMMA WrittenApart == ASSUME AtEnd, NEW o \in Offers, NEW p \in Offers, Written(o) = Written(p) PROVE o = p
<1>1. LabelOf(o.inst) = LabelOf(p.inst) /\ Written(o)[2] = Written(p)[2]
  BY DEF Written
<1>2. o.dir = p.dir /\ ChannelLabelOf(o) = ChannelLabelOf(p)
  BY <1>1, LabelsTell, EndTables
<1> QED  BY <1>1, <1>2, OfferTold

\* The entries of the tables are the offers.
LEMMA EntriesMade ==
  ASSUME AtEnd, NEW s \in ChannelLabels, NEW P
  PROVE  /\ P \in Entries(emits)[s] <=> Made("!", s, P)
         /\ P \in Entries(recvs)[s] <=> Made("?", s, P)
         /\ P \in Entries(csps)[s] <=> Made("csp", s, P)
<1>1. TablesOffered
  BY DEF AtEnd, FullInv
<1>2. /\ P \in Entries(emits)[s] <=> P \in ProcessLabels /\ <<s, P>> \in emits
      /\ P \in Entries(recvs)[s] <=> P \in ProcessLabels /\ <<s, P>> \in recvs
      /\ P \in Entries(csps)[s] <=> P \in ProcessLabels /\ <<s, P>> \in csps
  BY DEF Entries
<1>3. /\ Made("!", s, P) => P \in ProcessLabels /\ <<s, P>> \in emits
      /\ Made("?", s, P) => P \in ProcessLabels /\ <<s, P>> \in recvs
      /\ Made("csp", s, P) => P \in ProcessLabels /\ <<s, P>> \in csps
  BY OfferRecorded DEF Made
<1> QED  BY <1>1, <1>2, <1>3 DEF TablesOffered

\* Two offers are on one channel when their channels have one label.
LEMMA ChannelTold ==
  ASSUME AtEnd, NEW o \in Offers, NEW p \in Offers
  PROVE  SameChannel(o, p) <=> ChannelLabelOf(o) = ChannelLabelOf(p)
<1>1. ASSUME SameChannel(o, p) PROVE ChannelLabelOf(o) = ChannelLabelOf(p)
  <2>1. o.owner = (IF o.chan.local THEN {o.inst} ELSE {}) /\ p.owner = (IF p.chan.local THEN {p.inst} ELSE {})
    BY OfferLabels, EndTables
  <2>2. o.chan = p.chan /\ o.idx = p.idx /\ o.owner = p.owner
    BY <1>1 DEF SameChannel
  <2>5. o.chan.local => {o.inst} = {p.inst}
    BY <2>1, <2>2, Zenon
  <2>3. CASE o.chan.local
    <3>1. o.inst = p.inst
      BY <2>5, <2>3
    <3> QED  BY <2>2, <3>1 DEF ChannelLabelOf
  <2>4. CASE ~o.chan.local
    BY <2>2, <2>4 DEF ChannelLabelOf, ChannelLabel
  <2> QED  BY <2>3, <2>4
<1> QED  BY <1>1 DEF AtEnd, NamesApart

\* The second pass knows which channels are broadcast channels.
LEMMA BroadcastTold ==
  ASSUME AtEnd, NEW o \in Offers
  PROVE  ChannelLabelOf(o) \in broadcasts <=> o.chan.bcast
<1>1. Written(o)[2] \in labels
  BY OfferRecorded
<1>2. BroadcastsRight
  BY DEF AtEnd, FullInv
<1>3. ASSUME ChannelLabelOf(o) \in broadcasts PROVE o.chan.bcast
  <2>1. PICK p \in Offers : ChannelLabelOf(p) = ChannelLabelOf(o) /\ p.chan.bcast
    BY <1>2, <1>3 DEF BroadcastsRight, AtEnd
  <2>2. o.chan = p.chan
    BY <2>1 DEF AtEnd, NamesApart, SameChannel
  <2> QED  BY <2>1, <2>2
<1> QED  BY <1>1, <1>2, <1>3 DEF BroadcastsRight, AtEnd

\* The channels allowed to a process, as the second pass reads them.
Allowed == [P \in ProcessLabels |-> {s \in ChannelLabels : <<P, s>> \in allowed}]

\* The second pass knows which channels an IO section names.
LEMMA AllowedTold ==
  ASSUME AtEnd, NEW o \in Offers
  PROVE  /\ ChannelLabelOf(o) \in Allowed[LabelOf(o.inst)] <=> NamedByIO(o)
         /\ Allowed[LabelOf(o.inst)] # {} <=> HasIO(o.inst)
<1> DEFINE P == LabelOf(o.inst)
           s == ChannelLabelOf(o)
<1>1. P \in ProcessLabels /\ s \in ChannelLabels /\ system \in Systems /\ phase = "tables"
  BY OfferRecorded, EndTables
<1>2. /\ \A r \in IOReferences : IOLabel(r) \in ChannelLabels
      /\ \A t : <<P, t>> \in allowed <=> \E d \in system.io : d.instance = P /\ \E r \in d.csp : IOLabel(r) = t
  BY <1>1 DEF AtEnd, FullInv, AllowedRight
<1>3. Allowed[P] = {t \in ChannelLabels : <<P, t>> \in allowed}
  BY <1>1 DEF Allowed
<1>4. \A d \in system.io : \A r \in d.csp : r \in IOReferences /\ ~r.chan.local
  BY <1>1, SystemsAssumption DEF IOReferences
<1> HIDE DEF P, s
<1>5. ASSUME NEW d \in system.io, NEW r \in d.csp
      PROVE  IOLabel(r) = s <=> r.chan = o.chan /\ Values(r, <<>>) = o.idx
  <2>1. ASSUME IOLabel(r) = s PROVE r.chan = o.chan /\ Values(r, <<>>) = o.idx
    BY <1>4, <1>5, <2>1 DEF AtEnd, IOApart, IOLabel, s
  <2>2. ASSUME r.chan = o.chan, Values(r, <<>>) = o.idx PROVE IOLabel(r) = s
    BY <1>4, <1>5, <2>2 DEF IOLabel, s, ChannelLabelOf, ChannelLabel
  <2> QED  BY <2>1, <2>2
<1>6. s \in Allowed[P] <=> NamedByIO(o)
  <2>1. s \in Allowed[P] <=> \E d \in system.io : d.instance = P /\ \E r \in d.csp : IOLabel(r) = s
    BY <1>1, <1>2, <1>3 DEF s
  <2> QED  BY <1>5, <2>1 DEF NamedByIO, P
<1>7. Allowed[P] # {} <=> HasIO(o.inst)
  <2>1. ASSUME HasIO(o.inst) PROVE Allowed[P] # {}
    <3>1. PICK d \in system.io : d.instance = P /\ d.csp # {}
      BY <2>1 DEF HasIO, P
    <3>2. PICK r \in d.csp : TRUE
      BY <3>1
    <3>3. IOLabel(r) \in ChannelLabels /\ <<P, IOLabel(r)>> \in allowed
      BY <1>2, <1>4, <3>1
    <3> QED  BY <1>3, <3>3
  <2>2. ASSUME Allowed[P] # {} PROVE HasIO(o.inst)
    <3>1. PICK t : <<P, t>> \in allowed
      BY <1>3, <2>2
    <3> QED  BY <1>2, <3>1 DEF HasIO, P
  <2> QED  BY <2>1, <2>2
<1> QED  BY <1>6, <1>7 DEF P, s

\* The processes that the second pass joins, or blocks, on a CSP channel.
LEMMA CspTold ==
  ASSUME AtEnd, NEW s \in ChannelLabels, NEW P
  PROVE  /\ P \in SP!CspJoined(s) <=>
              \E o \in Offers : /\ o.dir = "csp" /\ ChannelLabelOf(o) = s /\ LabelOf(o.inst) = P
                                /\ NamedByIO(o)
         /\ P \in SP!CspBlocked(s) <=>
              \E o \in Offers : /\ o.dir = "csp" /\ ChannelLabelOf(o) = s /\ LabelOf(o.inst) = P
                                /\ ~HasIO(o.inst)
<1>1. /\ P \in SP!CspJoined(s) <=> P \in Entries(csps)[s] /\ s \in Allowed[P]
      /\ P \in SP!CspBlocked(s) <=> P \in Entries(csps)[s] /\ Allowed[P] = {}
  BY DEF SP!CspJoined, SP!CspBlocked, Allowed
<1>2. P \in Entries(csps)[s] <=> \E o \in Offers : o.dir = "csp" /\ ChannelLabelOf(o) = s /\ LabelOf(o.inst) = P
  BY EntriesMade DEF Made
<1>3. \A o \in Offers : /\ ChannelLabelOf(o) \in Allowed[LabelOf(o.inst)] <=> NamedByIO(o)
                        /\ Allowed[LabelOf(o.inst)] # {} <=> HasIO(o.inst)
  BY AllowedTold
<1> QED  BY <1>1, <1>2, <1>3

-----------------------------------------------------------------------------
(***************************************************************************)
(* The moves of the Uppaal system are those that SyncSemantics describes.  *)
(***************************************************************************)
Sight(O) == {Seen(o) : o \in O}
Writing(O) == {Written(o) : o \in O}

\* An offer is in a set just when its event and its edge are.
LEMMA SightTells ==
  ASSUME AtEnd, NEW O \in SUBSET Offers, NEW o \in Offers
  PROVE  /\ Seen(o) \in Sight(O) <=> o \in O
         /\ Written(o) \in Writing(O) <=> o \in O
BY SeenApart, WrittenApart DEF Sight, Writing

\* Sets of offers are told apart by their events and by their edges.
LEMMA SightApart ==
  ASSUME AtEnd, NEW O \in SUBSET Offers, NEW m \in SUBSET Offers
  PROVE  /\ Sight(O) = Sight(m) <=> O = m
         /\ Writing(O) = Writing(m) <=> O = m
<1>1. \A o \in Offers : /\ Seen(o) \in Sight(O) <=> o \in O
                        /\ Seen(o) \in Sight(m) <=> o \in m
                        /\ Written(o) \in Writing(O) <=> o \in O
                        /\ Written(o) \in Writing(m) <=> o \in m
  BY SightTells
<1>2. Sight(O) = Sight(m) => O = m
  BY <1>1
<1>3. Writing(O) = Writing(m) => O = m
  BY <1>1
<1> QED  BY <1>2, <1>3

\* What is seen of the offers is in the tables.
LEMMA SightRecorded ==
  ASSUME AtEnd, NEW O \in SUBSET Offers
  PROVE  Sight(O) \in SUBSET SP!Recorded
<1> SUFFICES ASSUME NEW o \in Offers PROVE Seen(o) \in SP!Recorded
  BY DEF Sight
<1> DEFINE s == ChannelLabelOf(o)
           P == LabelOf(o.inst)
<1>1. P \in ProcessLabels /\ s \in ChannelLabels /\ o.dir \in {"!", "?", "csp"}
  BY OfferRecorded
<1>2. /\ o.dir = "!" => P \in Entries(emits)[s]
      /\ o.dir = "?" => P \in Entries(recvs)[s]
      /\ o.dir = "csp" => P \in Entries(csps)[s]
  BY <1>1, EntriesMade DEF Made
<1>3. /\ o.dir = "!" => Seen(o) = <<P, SP!Emission(s)>>
      /\ o.dir = "?" => Seen(o) = <<P, SP!Reception(s)>>
      /\ o.dir = "csp" => Seen(o) = <<P, SP!CspEvent(s)>>
  BY DEF Seen, EventSeen, SP!Emission, SP!Reception, SP!CspEvent
<1>4. SP!Emission(s) \in SP!ChannelEvents /\ SP!Reception(s) \in SP!ChannelEvents /\ SP!CspEvent(s) \in SP!ChannelEvents
  BY <1>1 DEF SP!ChannelEvents
<1> HIDE DEF s, P
<1> QED  BY <1>1, <1>2, <1>3, <1>4 DEF SP!Recorded

\* A channel synchronises one emitter with one receiver.
HandshakeOf(O, m) ==
  \E o, p \in O : /\ o.dir = "!" /\ p.dir = "?" /\ SameChannel(o, p)
                  /\ o.inst # p.inst /\ ~o.chan.bcast
                  /\ m = {o, p}

\* Handshakes of the system are handshakes of the events.
LEMMA HandshakeTold ==
  ASSUME AtEnd, NEW O \in SUBSET Offers, NEW m \in SUBSET O
  PROVE  HandshakeOf(O, m) <=> SP!HandshakeMove(Sight(O), Sight(m))
<1>1. ASSUME HandshakeOf(O, m) PROVE SP!HandshakeMove(Sight(O), Sight(m))
  <2>1. PICK o \in O, p \in O : /\ o.dir = "!" /\ p.dir = "?" /\ SameChannel(o, p)
                                /\ o.inst # p.inst /\ ~o.chan.bcast
                                /\ m = {o, p}
    BY <1>1 DEF HandshakeOf
  <2> DEFINE s == ChannelLabelOf(o)
  <2>2. s \in ChannelLabels \ broadcasts /\ s = ChannelLabelOf(p)
    BY <2>1, OfferRecorded, ChannelTold, BroadcastTold
  <2>3. LabelOf(o.inst) \in ProcessLabels /\ LabelOf(p.inst) \in ProcessLabels
    BY OfferRecorded
  <2>4. LabelOf(o.inst) # LabelOf(p.inst)
    BY <2>1, OfferWork DEF AtEnd, NamesApart
  <2>5. Seen(o) = <<LabelOf(o.inst), SP!Emission(s)>> /\ Seen(p) = <<LabelOf(p.inst), SP!Reception(s)>>
    BY <2>1, <2>2 DEF Seen, EventSeen, SP!Emission, SP!Reception
  <2>6. Sight(m) = {Seen(o), Seen(p)} /\ Sight(m) \subseteq Sight(O)
    BY <2>1 DEF Sight
  <2> HIDE DEF s
  <2> QED  BY <2>2, <2>3, <2>4, <2>5, <2>6 DEF SP!HandshakeMove
<1>2. ASSUME SP!HandshakeMove(Sight(O), Sight(m)) PROVE HandshakeOf(O, m)
  <2>1. PICK s \in ChannelLabels \ broadcasts, PE \in ProcessLabels, PR \in ProcessLabels :
          /\ PE # PR
          /\ Sight(m) = {<<PE, SP!Emission(s)>>, <<PR, SP!Reception(s)>>}
          /\ Sight(m) \subseteq Sight(O)
    BY <1>2 DEF SP!HandshakeMove
  <2>2. PICK o \in O : Seen(o) = <<PE, <<"emit", s>>>>
    BY <2>1 DEF Sight, SP!Emission
  <2>3. PICK p \in O : Seen(p) = <<PR, <<"recv", s>>>>
    BY <2>1 DEF Sight, SP!Reception
  <2>4. /\ o.dir = "!" /\ LabelOf(o.inst) = PE /\ ChannelLabelOf(o) = s
        /\ p.dir = "?" /\ LabelOf(p.inst) = PR /\ ChannelLabelOf(p) = s
    BY <2>2, <2>3, SeenTells
  <2>5. SameChannel(o, p) /\ ~o.chan.bcast /\ o.inst # p.inst
    BY <2>1, <2>4, ChannelTold, BroadcastTold
  <2>6. Sight(m) = Sight({o, p})
    BY <2>1, <2>2, <2>3 DEF Sight, SP!Emission, SP!Reception
  <2>7. m = {o, p}
    BY <2>6, SightApart
  <2> QED  BY <2>4, <2>5, <2>7 DEF HandshakeOf
<1> QED  BY <1>1, <1>2

\* A broadcast takes along every receiver that is ready.
TakenAlong(O, o) == {o} \cup {p \in O : p.dir = "?" /\ SameChannel(o, p) /\ p.inst # o.inst}
BroadcastOf(O, m) == \E o \in O : o.dir = "!" /\ o.chan.bcast /\ m = TakenAlong(O, o)

\* The receivers that a broadcast takes along are those whose events are offered.
LEMMA BroadcastSight ==
  ASSUME AtEnd, NEW O \in SUBSET Offers, NEW o \in O, o.dir = "!"
  PROVE  LET PE == LabelOf(o.inst)
             s  == ChannelLabelOf(o)
         IN  Sight(TakenAlong(O, o)) = {<<PE, SP!Emission(s)>>}
               \cup ({<<PR, SP!Reception(s)>> : PR \in ProcessLabels \ {PE}} \cap Sight(O))
<1> DEFINE PE == LabelOf(o.inst)
           s  == ChannelLabelOf(o)
<1>1. Seen(o) = <<PE, SP!Emission(s)>>
  BY DEF Seen, EventSeen, SP!Emission
<1>2. ASSUME NEW p \in O
      PROVE  p.dir = "?" /\ SameChannel(o, p) /\ p.inst # o.inst
               <=> \E PR \in ProcessLabels \ {PE} : Seen(p) = <<PR, SP!Reception(s)>>
  <2>1. LabelOf(p.inst) \in ProcessLabels
    BY OfferRecorded
  <2>2. SameChannel(o, p) <=> ChannelLabelOf(p) = s
    BY ChannelTold
  <2>3. p.inst # o.inst <=> LabelOf(p.inst) # PE
    BY OfferWork DEF AtEnd, NamesApart
  <2>4. \A PR : Seen(p) = <<PR, SP!Reception(s)>> <=>
                  p.dir = "?" /\ LabelOf(p.inst) = PR /\ ChannelLabelOf(p) = s
    BY SeenTells DEF SP!Reception
  <2> HIDE DEF PE, s
  <2> QED  BY <2>1, <2>2, <2>3, <2>4
<1> HIDE DEF PE, s
<1>3. Sight(TakenAlong(O, o)) = {Seen(o)} \cup
        {Seen(p) : p \in {q \in O : q.dir = "?" /\ SameChannel(o, q) /\ q.inst # o.inst}}
  BY DEF Sight, TakenAlong
<1>4. {Seen(p) : p \in {q \in O : q.dir = "?" /\ SameChannel(o, q) /\ q.inst # o.inst}}
        = {<<PR, SP!Reception(s)>> : PR \in ProcessLabels \ {PE}} \cap Sight(O)
  BY <1>2 DEF Sight
<1> QED  BY <1>1, <1>3, <1>4 DEF PE, s

\* Broadcasts of the system are broadcasts of the events.
LEMMA BroadcastMoveTold ==
  ASSUME AtEnd, NEW O \in SUBSET Offers, NEW m \in SUBSET O
  PROVE  BroadcastOf(O, m) <=> SP!BroadcastMove(Sight(O), Sight(m))
<1>1. ASSUME NEW o \in O PROVE TakenAlong(O, o) \in SUBSET Offers
  BY DEF TakenAlong
<1>2. ASSUME BroadcastOf(O, m) PROVE SP!BroadcastMove(Sight(O), Sight(m))
  <2>1. PICK o \in O : o.dir = "!" /\ o.chan.bcast /\ m = TakenAlong(O, o)
    BY <1>2 DEF BroadcastOf
  <2> DEFINE PE == LabelOf(o.inst)
             s  == ChannelLabelOf(o)
  <2>2. PE \in ProcessLabels /\ s \in broadcasts
    BY <2>1, OfferRecorded, BroadcastTold
  <2>3. <<PE, SP!Emission(s)>> \in Sight(O)
    BY <2>1 DEF Sight, Seen, EventSeen, SP!Emission
  <2>4. Sight(m) = {<<PE, SP!Emission(s)>>}
          \cup ({<<PR, SP!Reception(s)>> : PR \in ProcessLabels \ {PE}} \cap Sight(O))
    BY <2>1, BroadcastSight
  <2> HIDE DEF PE, s
  <2> QED  BY <2>2, <2>3, <2>4 DEF SP!BroadcastMove
<1>3. ASSUME SP!BroadcastMove(Sight(O), Sight(m)) PROVE BroadcastOf(O, m)
  <2>1. PICK s \in broadcasts, PE \in ProcessLabels :
          /\ <<PE, SP!Emission(s)>> \in Sight(O)
          /\ Sight(m) = {<<PE, SP!Emission(s)>>}
               \cup ({<<PR, SP!Reception(s)>> : PR \in ProcessLabels \ {PE}} \cap Sight(O))
    BY <1>3 DEF SP!BroadcastMove
  <2>2. PICK o \in O : Seen(o) = <<PE, <<"emit", s>>>>
    BY <2>1 DEF Sight, SP!Emission
  <2>3. o.dir = "!" /\ LabelOf(o.inst) = PE /\ ChannelLabelOf(o) = s
    BY <2>2, SeenTells
  <2>4. o.chan.bcast
    BY <2>1, <2>3, BroadcastTold
  <2>5. Sight(m) = Sight(TakenAlong(O, o))
    BY <2>1, <2>3, BroadcastSight
  <2>6. m = TakenAlong(O, o)
    BY <1>1, <2>5, SightApart
  <2> QED  BY <2>3, <2>4, <2>6 DEF BroadcastOf
<1> QED  BY <1>2, <1>3

\* The processes that have a CSP channel in their IO sections move together on
\* it, and those that have others alone.
Together(o) == {p \in Offers : SameChannel(o, p) /\ NamedByIO(p)}
CspOf(O, m) ==
  \/ \E o \in O : o.dir = "csp" /\ NamedByIO(o) /\ m = Together(o) /\ m \subseteq O
  \/ \E o \in O : o.dir = "csp" /\ ~NamedByIO(o) /\ HasIO(o.inst) /\ m = {o}

\* The offers that join in on a CSP channel are the events of those that joined it.
LEMMA CspSight ==
  ASSUME AtEnd, NEW o \in Offers, o.dir = "csp"
  PROVE  LET s == ChannelLabelOf(o)
         IN  Sight(Together(o)) = {<<P, SP!CspEvent(s)>> : P \in SP!CspJoined(s)}
<1> DEFINE s == ChannelLabelOf(o)
<1>1. s \in ChannelLabels
  BY OfferRecorded
<1>2. \A P : P \in SP!CspJoined(s) <=>
               \E p \in Offers : p.dir = "csp" /\ ChannelLabelOf(p) = s /\ LabelOf(p.inst) = P /\ NamedByIO(p)
  BY <1>1, CspTold
<1>3. \A p \in Offers : p.dir = "csp"
  BY OffersOfOneKind, EndTables
<1>4. \A p \in Offers : SameChannel(o, p) <=> ChannelLabelOf(p) = s
  BY ChannelTold
<1>5. \A p \in Offers : \A P : Seen(p) = <<P, SP!CspEvent(s)>> <=> LabelOf(p.inst) = P /\ ChannelLabelOf(p) = s
  BY <1>3, SeenTells DEF SP!CspEvent
<1> HIDE DEF s
<1>6. ASSUME NEW x \in Sight(Together(o)) PROVE x \in {<<P, SP!CspEvent(s)>> : P \in SP!CspJoined(s)}
  <2>1. PICK p \in Offers : SameChannel(o, p) /\ NamedByIO(p) /\ x = Seen(p)
    BY <1>6 DEF Sight, Together
  <2>2. x = <<LabelOf(p.inst), SP!CspEvent(s)>> /\ LabelOf(p.inst) \in SP!CspJoined(s)
    BY <1>2, <1>3, <1>4, <1>5, <2>1
  <2> QED  BY <2>2
<1>7. ASSUME NEW P \in SP!CspJoined(s) PROVE <<P, SP!CspEvent(s)>> \in Sight(Together(o))
  <2>1. PICK p \in Offers : ChannelLabelOf(p) = s /\ LabelOf(p.inst) = P /\ NamedByIO(p)
    BY <1>2, <1>7
  <2>2. Seen(p) = <<P, SP!CspEvent(s)>> /\ p \in Together(o)
    BY <1>4, <1>5, <2>1 DEF Together
  <2> QED  BY <2>2 DEF Sight
<1>8. Sight(Together(o)) = {<<P, SP!CspEvent(s)>> : P \in SP!CspJoined(s)}
  BY <1>6, <1>7
<1> QED  BY <1>8 DEF s

\* CSP synchronisations of the system are those of the events.
LEMMA CspMoveTold ==
  ASSUME AtEnd, NEW O \in SUBSET Offers, NEW m \in SUBSET O
  PROVE  CspOf(O, m) <=> SP!CspMove(Sight(O), Sight(m))
<1>1. \A o \in Offers : Together(o) \in SUBSET Offers
  BY DEF Together
<1>2. Sight(m) \subseteq Sight(O)
  BY DEF Sight
<1>3. ASSUME NEW o \in O, o.dir = "csp", NamedByIO(o), m = Together(o)
      PROVE  SP!CspMove(Sight(O), Sight(m))
  <2>1. ChannelLabelOf(o) \in ChannelLabels
    BY OfferRecorded
  <2>2. LabelOf(o.inst) \in SP!CspJoined(ChannelLabelOf(o))
    BY <1>3, <2>1, CspTold
  <2>3. Sight(m) = {<<P, SP!CspEvent(ChannelLabelOf(o))>> : P \in SP!CspJoined(ChannelLabelOf(o))}
    BY <1>3, CspSight
  <2> QED  BY <1>2, <2>1, <2>2, <2>3 DEF SP!CspMove
<1>4. ASSUME NEW o \in O, o.dir = "csp", ~NamedByIO(o), HasIO(o.inst), m = {o}
      PROVE  SP!CspMove(Sight(O), Sight(m))
  <2> DEFINE s == ChannelLabelOf(o)
             P == LabelOf(o.inst)
  <2>1. s \in ChannelLabels /\ P \in ProcessLabels
    BY OfferRecorded
  <2>2. P \in Entries(csps)[s]
    BY <1>4, <2>1, EntriesMade DEF Made
  <2>3. ASSUME NEW p \in Offers, p.dir = "csp", ChannelLabelOf(p) = s, LabelOf(p.inst) = P PROVE p = o
    BY <1>4, <2>3, OfferTold
  <2>4. P \notin SP!CspJoined(s) /\ P \notin SP!CspBlocked(s)
    BY <1>4, <2>1, <2>3, CspTold
  <2>5. Sight(m) = {<<P, SP!CspEvent(s)>>}
    BY <1>4 DEF Sight, Seen, EventSeen, SP!CspEvent
  <2> HIDE DEF s, P
  <2> QED  BY <1>2, <2>1, <2>2, <2>4, <2>5 DEF SP!CspMove
<1>5. ASSUME NEW s \in ChannelLabels, SP!CspJoined(s) # {},
             Sight(m) = {<<P, SP!CspEvent(s)>> : P \in SP!CspJoined(s)}
      PROVE  CspOf(O, m)
  <2>1. PICK P : P \in SP!CspJoined(s)
    BY <1>5
  <2>2. PICK o \in O : Seen(o) = <<P, <<"csp", s>>>>
    <3>1. <<P, SP!CspEvent(s)>> \in Sight(O)
      BY <1>2, <1>5, <2>1
    <3> QED  BY <3>1 DEF Sight, SP!CspEvent
  <2>3. o.dir = "csp" /\ LabelOf(o.inst) = P /\ ChannelLabelOf(o) = s
    BY <2>2, SeenTells
  <2>4. NamedByIO(o)
    <3>1. PICK p \in Offers : p.dir = "csp" /\ ChannelLabelOf(p) = s /\ LabelOf(p.inst) = P /\ NamedByIO(p)
      BY <2>1, CspTold
    <3>2. p = o
      BY <2>3, <3>1, OfferTold
    <3> QED  BY <3>1, <3>2
  <2>5. Sight(m) = Sight(Together(o))
    BY <1>5, <2>3, CspSight
  <2>6. m = Together(o)
    BY <1>1, <2>5, SightApart
  <2> QED  BY <2>3, <2>4, <2>6 DEF CspOf
<1>6. ASSUME NEW s \in ChannelLabels, NEW P \in Entries(csps)[s] \ (SP!CspJoined(s) \cup SP!CspBlocked(s)),
             Sight(m) = {<<P, SP!CspEvent(s)>>}
      PROVE  CspOf(O, m)
  <2>1. PICK o \in m : Seen(o) = <<P, <<"csp", s>>>>
    BY <1>6 DEF Sight, SP!CspEvent
  <2>2. o.dir = "csp" /\ LabelOf(o.inst) = P /\ ChannelLabelOf(o) = s
    BY <2>1, SeenTells
  <2>3. ~NamedByIO(o) /\ HasIO(o.inst)
    BY <1>6, <2>2, CspTold
  <2>4. Sight(m) = Sight({o})
    BY <1>6, <2>1 DEF Sight, SP!CspEvent
  <2>5. m = {o}
    BY <2>4, SightApart
  <2> QED  BY <2>2, <2>3, <2>5 DEF CspOf
<1> QED  BY <1>3, <1>4, <1>5, <1>6 DEF CspOf, SP!CspMove

\* The moves of the Uppaal system are those of the tables.
LEMMA UppaalMoveTold ==
  ASSUME AtEnd, NEW O \in SUBSET Offers, NEW m \in SUBSET O
  PROVE  UppaalMove(O, m) <=> SP!UppaalMove(Sight(O), Sight(m))
<1>1. UppaalMove(O, m) <=> HandshakeOf(O, m) \/ BroadcastOf(O, m) \/ CspOf(O, m)
  BY DEF UppaalMove, HandshakeOf, BroadcastOf, TakenAlong, CspOf, Together
<1> QED  BY <1>1, HandshakeTold, BroadcastMoveTold, CspMoveTold DEF SP!UppaalMove

-----------------------------------------------------------------------------
(***************************************************************************)
(* The moves of the model written are those that SyncSemantics describes.  *)
(***************************************************************************)
\* A participant of a vector is an offer, by its event and as it is written.
LEMMA ParticipantMade ==
  ASSUME AtEnd, NEW v \in vectors, NEW P \in DOMAIN v, P # StuckProcess
  PROVE  \E o \in Offers : Seen(o) = <<P, v[P].event>> /\ Written(o) = Element(v, P)
<1>1. SP!IInv /\ TablesOffered
  BY EndTables DEF AtEnd, FullInv
<1>2. PICK s : \/ v[P].event = <<"emit", s>> /\ <<s, P>> \in emits
               \/ v[P].event = <<"recv", s>> /\ <<s, P>> \in recvs
               \/ v[P].event = <<"csp", s>> /\ <<s, P>> \in csps
  BY <1>1, RecordedEvent
<1>3. CASE v[P].event = <<"emit", s>> /\ <<s, P>> \in emits
  <2>1. PICK o \in Offers : o.dir = "!" /\ ChannelLabelOf(o) = s /\ LabelOf(o.inst) = P
    BY <1>1, <1>3 DEF TablesOffered, Made
  <2>2. Element(v, P) = <<P, EventLabel("!", s)>>
    BY <1>3 DEF Element, EventOf
  <2> QED  BY <1>3, <2>1, <2>2 DEF Seen, EventSeen, Written
<1>4. CASE v[P].event = <<"recv", s>> /\ <<s, P>> \in recvs
  <2>1. PICK o \in Offers : o.dir = "?" /\ ChannelLabelOf(o) = s /\ LabelOf(o.inst) = P
    BY <1>1, <1>4 DEF TablesOffered, Made
  <2>2. Element(v, P) = <<P, EventLabel("?", s)>>
    BY <1>4 DEF Element, EventOf
  <2> QED  BY <1>4, <2>1, <2>2 DEF Seen, EventSeen, Written
<1>5. CASE v[P].event = <<"csp", s>> /\ <<s, P>> \in csps
  <2>1. PICK o \in Offers : o.dir = "csp" /\ ChannelLabelOf(o) = s /\ LabelOf(o.inst) = P
    BY <1>1, <1>5 DEF TablesOffered, Made
  <2>2. Element(v, P) = <<P, EventLabel("csp", s)>>
    BY <1>5 DEF Element, EventOf
  <2> QED  BY <1>5, <2>1, <2>2 DEF Seen, EventSeen, Written
<1> QED  BY <1>2, <1>3, <1>4, <1>5

\* A participant is written as an offer when it has its event.
LEMMA ParticipantTold ==
  ASSUME AtEnd, NEW v \in vectors, NEW P \in DOMAIN v, NEW o \in Offers
  PROVE  Element(v, P) = Written(o) <=> <<P, v[P].event>> = Seen(o)
<1>1. CASE P = StuckProcess
  <2>1. LabelOf(o.inst) # P
    BY <1>1, OfferRecorded, StuckNotProcess
  <2> QED  BY <2>1 DEF Element, Written, Seen
<1>2. CASE P # StuckProcess
  <2>1. PICK p \in Offers : Seen(p) = <<P, v[P].event>> /\ Written(p) = Element(v, P)
    BY <1>2, ParticipantMade
  <2>2. Written(p) = Written(o) <=> Seen(p) = Seen(o)
    BY SeenApart, WrittenApart
  <2> QED  BY <2>1, <2>2
<1> QED  BY <1>1, <1>2

\* A vector takes part in a move, or not, whatever the names.
LEMMA VectorTold ==
  ASSUME AtEnd, NEW O \in SUBSET Offers, NEW m \in SUBSET O, NEW v \in vectors
  PROVE  /\ \A P \in DOMAIN v : Element(v, P) \in Writing(O) <=> <<P, v[P].event>> \in Sight(O)
         /\ Writing(m) = {Element(v, P) : P \in DOMAIN v} \cap Writing(O)
              <=> Sight(m) = {<<P, v[P].event>> : P \in DOMAIN v} \cap Sight(O)
<1>1. \A P \in DOMAIN v : \A o \in Offers : Element(v, P) = Written(o) <=> <<P, v[P].event>> = Seen(o)
  BY ParticipantTold
<1>2. \A P \in DOMAIN v : Element(v, P) \in Writing(O) <=> <<P, v[P].event>> \in Sight(O)
  BY <1>1 DEF Writing, Sight
<1> DEFINE n == {o \in O : \E P \in DOMAIN v : <<P, v[P].event>> = Seen(o)}
<1>3. Writing(n) = {Element(v, P) : P \in DOMAIN v} \cap Writing(O)
  BY <1>1 DEF Writing
<1>4. Sight(n) = {<<P, v[P].event>> : P \in DOMAIN v} \cap Sight(O)
  BY DEF Sight
<1>5. n \in SUBSET Offers /\ m \in SUBSET Offers
  OBVIOUS
<1> HIDE DEF n
<1>6. /\ Writing(m) = Writing(n) <=> m = n
      /\ Sight(m) = Sight(n) <=> m = n
  BY <1>5, SightApart
<1>7. Writing(m) = {Element(v, P) : P \in DOMAIN v} \cap Writing(O)
        <=> Sight(m) = {<<P, v[P].event>> : P \in DOMAIN v} \cap Sight(O)
  BY <1>3, <1>4, <1>6
<1> QED  BY <1>2, <1>7

\* The moves of the model written are those of the tables.
LEMMA TCheckerMoveTold ==
  ASSUME AtEnd, NEW O \in SUBSET Offers, NEW m \in SUBSET O
  PROVE  TCheckerMove(Writing(O), Writing(m)) <=> SP!TCheckerMove(Sight(O), Sight(m))
<1> DEFINE Fires(v) == /\ \A P \in DOMAIN v : v[P].weak \/ Element(v, P) \in Writing(O)
                       /\ Writing(m) = {Element(v, P) : P \in DOMAIN v} \cap Writing(O)
           FiresSeen(v) == /\ \A P \in DOMAIN v : v[P].weak \/ <<P, v[P].event>> \in Sight(O)
                           /\ Sight(m) = {<<P, v[P].event>> : P \in DOMAIN v} \cap Sight(O)
<1>1. ASSUME NEW v \in vectors PROVE Fires(v) <=> FiresSeen(v)
  <2>1. /\ \A P \in DOMAIN v : Element(v, P) \in Writing(O) <=> <<P, v[P].event>> \in Sight(O)
        /\ Writing(m) = {Element(v, P) : P \in DOMAIN v} \cap Writing(O)
             <=> Sight(m) = {<<P, v[P].event>> : P \in DOMAIN v} \cap Sight(O)
    BY VectorTold
  <2> QED  BY <2>1
<1>2. SP!VectorMove(Sight(O), Sight(m)) <=> \E v \in vectors : FiresSeen(v)
  BY DEF SP!VectorMove
<1> DEFINE Free(o) == \A v \in vectors : \A P \in DOMAIN v : Element(v, P) # Written(o)
<1>3. ASSUME NEW o \in O
      PROVE  /\ Free(o) <=> ~SP!Constrained(Seen(o)[1], Seen(o)[2])
             /\ Writing(m) = {Written(o)} <=> m = {o}
             /\ Sight(m) = {Seen(o)} <=> m = {o}
  <2>1. \A v \in vectors : \A P \in DOMAIN v : Element(v, P) = Written(o) <=> <<P, v[P].event>> = Seen(o)
    BY ParticipantTold
  <2>2. Seen(o) = <<Seen(o)[1], Seen(o)[2]>>
    BY DEF Seen
  <2>3. Free(o) <=> ~SP!Constrained(Seen(o)[1], Seen(o)[2])
    BY <2>1, <2>2 DEF SP!Constrained
  <2>4. Writing({o}) = {Written(o)} /\ Sight({o}) = {Seen(o)}
    BY DEF Writing, Sight
  <2>5. {o} \in SUBSET Offers /\ m \in SUBSET Offers
    OBVIOUS
  <2>6. /\ Writing(m) = Writing({o}) <=> m = {o}
        /\ Sight(m) = Sight({o}) <=> m = {o}
    BY <2>5, SightApart
  <2> QED  BY <2>3, <2>4, <2>6
<1>4. (\E l \in Writing(O) : /\ \A v \in vectors : \A P \in DOMAIN v : Element(v, P) # l
                             /\ Writing(m) = {l})
        <=> \E o \in O : Free(o) /\ m = {o}
  <2>1. (\E l \in Writing(O) : /\ \A v \in vectors : \A P \in DOMAIN v : Element(v, P) # l
                               /\ Writing(m) = {l})
          <=> \E o \in O : Free(o) /\ Writing(m) = {Written(o)}
    BY DEF Writing
  <2> HIDE DEF Free
  <2> QED  BY <1>3, <2>1
<1>5. SP!AsynchronousMove(Sight(O), Sight(m)) <=> \E o \in O : Free(o) /\ m = {o}
  <2>1. SP!AsynchronousMove(Sight(O), Sight(m)) <=>
          \E o \in O : ~SP!Constrained(Seen(o)[1], Seen(o)[2]) /\ Sight(m) = {Seen(o)}
    BY DEF SP!AsynchronousMove, Sight
  <2> HIDE DEF Free
  <2> QED  BY <1>3, <2>1
<1>6. TCheckerMove(Writing(O), Writing(m)) <=>
        \/ \E v \in vectors : Fires(v)
        \/ \E l \in Writing(O) : /\ \A v \in vectors : \A P \in DOMAIN v : Element(v, P) # l
                                 /\ Writing(m) = {l}
  BY DEF TCheckerMove
<1> HIDE DEF Fires, FiresSeen, Free
<1> QED  BY <1>1, <1>2, <1>4, <1>5, <1>6 DEF SP!TCheckerMove

\* A process that SyncSemantics finds self-trapped is one of the system.
LEMMA SelfTrappedTold ==
  ASSUME AtEnd, NEW o \in Offers, o.dir = "?", SP!SelfTrapped(LabelOf(o.inst), ChannelLabelOf(o))
  PROVE  SelfTrapped(o)
<1> DEFINE s == ChannelLabelOf(o)
           Q == LabelOf(o.inst)
<1>1. s \in ChannelLabels /\ Q \in ProcessLabels
  BY OfferRecorded
<1>2. Entries(emits)[s] = {Q} /\ Q \in Entries(recvs)[s] /\ Entries(recvs)[s] # {Q}
  BY DEF SP!SelfTrapped
<1>3. \A p \in Offers : SameChannel(o, p) <=> ChannelLabelOf(p) = s
  BY ChannelTold
<1>4. \A p \in Offers : LabelOf(p.inst) = Q => p.inst = o.inst
  BY OfferWork DEF AtEnd, NamesApart
<1>5. \A P : /\ P \in Entries(emits)[s] <=> \E p \in Offers : p.dir = "!" /\ ChannelLabelOf(p) = s /\ LabelOf(p.inst) = P
             /\ P \in Entries(recvs)[s] <=> \E p \in Offers : p.dir = "?" /\ ChannelLabelOf(p) = s /\ LabelOf(p.inst) = P
  BY <1>1, EntriesMade DEF Made
<1> HIDE DEF s, Q
<1>6. {p.inst : p \in {q \in Offers : q.dir = "!" /\ SameChannel(o, q)}} = {o.inst}
  <2>1. ASSUME NEW p \in Offers, p.dir = "!", SameChannel(o, p) PROVE p.inst = o.inst
    BY <1>2, <1>3, <1>4, <1>5, <2>1
  <2>2. PICK p \in Offers : p.dir = "!" /\ ChannelLabelOf(p) = s /\ LabelOf(p.inst) = Q
    BY <1>2, <1>5
  <2>3. SameChannel(o, p) /\ p.inst = o.inst
    BY <1>3, <1>4, <2>2
  <2> QED  BY <2>1, <2>2, <2>3
<1>7. {p.inst : p \in {q \in Offers : q.dir = "?" /\ SameChannel(o, q)}} # {o.inst}
  <2>1. PICK P \in Entries(recvs)[s] : P # Q
    BY <1>2
  <2>2. PICK p \in Offers : p.dir = "?" /\ ChannelLabelOf(p) = s /\ LabelOf(p.inst) = P
    BY <1>5, <2>1
  <2>3. SameChannel(o, p) /\ p.inst # o.inst
    BY <1>3, <2>1, <2>2 DEF Q
  <2>4. p.inst \in {t.inst : t \in {q \in Offers : q.dir = "?" /\ SameChannel(o, q)}}
    BY <2>2, <2>3
  <2> QED  BY <2>3, <2>4
<1> QED  BY <1>6, <1>7 DEF SelfTrapped

-----------------------------------------------------------------------------
\* Unless labels clash or types are lost in parameters, the model written moves
\* exactly as the Uppaal system does, whatever the processes offer, except for
\* the receptions of self-trapped processes: names, tables and vectors together
\* keep every channel apart from the others.
THEOREM ModelMovesTheSame == TSpec => []SameMoves
<1>1. ASSUME AtEnd, NEW O \in SUBSET Offers, NEW m \in SUBSET O
      PROVE  /\ UppaalMove(O, m) => TCheckerMove(Writing(O), Writing(m))
             /\ TCheckerMove(Writing(O), Writing(m)) =>
                  UppaalMove(O, m) \/ \E o \in O : SelfTrapped(o) /\ m = {o}
  <2>1. /\ Sight(O) \in SUBSET SP!Recorded /\ Sight(m) \in SUBSET Sight(O)
        /\ UppaalMove(O, m) <=> SP!UppaalMove(Sight(O), Sight(m))
        /\ TCheckerMove(Writing(O), Writing(m)) <=> SP!TCheckerMove(Sight(O), Sight(m))
    BY <1>1, SightRecorded, UppaalMoveTold, TCheckerMoveTold DEF Sight
  <2>2. SP!NoMoveLost /\ SP!NoMoveInvented /\ loop = "done"
    BY <1>1, EndTables, SP!MovesKept, SP!MovesMeant, StuckNotProcess
  <2>3. UppaalMove(O, m) => TCheckerMove(Writing(O), Writing(m))
    BY <2>1, <2>2 DEF SP!NoMoveLost
  <2>4. ASSUME TCheckerMove(Writing(O), Writing(m)), ~UppaalMove(O, m)
        PROVE  \E o \in O : SelfTrapped(o) /\ m = {o}
    <3>1. PICK s \in ChannelLabels, P \in ProcessLabels :
            SP!SelfTrapped(P, s) /\ Sight(m) = {<<P, SP!Reception(s)>>}
      BY <2>1, <2>2, <2>4 DEF SP!NoMoveInvented
    <3>2. PICK o \in m : Seen(o) = <<P, <<"recv", s>>>>
      BY <3>1 DEF Sight, SP!Reception
    <3>3. o.dir = "?" /\ LabelOf(o.inst) = P /\ ChannelLabelOf(o) = s
      BY <1>1, <3>2, SeenTells
    <3>4. SelfTrapped(o)
      BY <1>1, <3>1, <3>3, SelfTrappedTold
    <3>5. Sight(m) = Sight({o})
      BY <3>1, <3>2 DEF Sight, SP!Reception
    <3>6. m = {o}
      BY <1>1, <3>5, SightApart
    <3> QED  BY <3>4, <3>6
  <2> QED  BY <2>3, <2>4
<1>2. ASSUME TInv, FullInv PROVE SameMoves
  <2>1. Done /\ NamesApart /\ IOApart /\ FlagsAgree => AtEnd
    BY <1>2 DEF AtEnd
  <2> QED  BY <1>1, <2>1 DEF SameMoves, Writing
<1> QED  BY <1>2, TInvariance, FullInvariance, PTL
=============================================================================
