----------------------------- MODULE SyncVectors -----------------------------
(***************************************************************************)
(* The last pass of a translation: s_generate_sync_vectors turns the       *)
(* tables of events that the edges of the processes filled into the "sync" *)
(* lines of the TChecker model.  One action is one iteration of one of its *)
(* three loops, over the emitted, the received and the CSP channels.       *)
(*                                                                         *)
(* The tables are std::maps visited in the order of their labels; here a   *)
(* loop takes its channels in any order, so what is shown holds of that    *)
(* order too.  A label that is not a key of a table is mapped to {}: the   *)
(* code never leaves an empty set in a table.  The pass erases entries of  *)
(* the table of receivers: "erased" says which, and the table itself keeps *)
(* what the edges recorded.                                                *)
(***************************************************************************)
EXTENDS Naturals, FiniteSets

CONSTANTS
  Process,    \* the labels of the process instances
  Channel,    \* the labels under which the tables know the channels
  Stuck       \* STUCK_PROCESS, the label of the process that blocks events

VARIABLES
  emitters,   \* for each channel, the processes with an edge labelled s!
  receivers,  \* the same for s?
  csp,        \* the same for a CSP synchronisation, labelled s
  broadcasts, \* the channels known to be broadcast channels
  allowedCsp, \* the channels each process names in an IO section
  erased,     \* the channels whose receivers were erased
  loop,       \* the loop being run
  todo,       \* the keys this loop has still to visit
  vectors,    \* the synchronisation vectors written so far
  stuckDecls  \* how many times the process Stuck has been declared

tables == <<emitters, receivers, csp, broadcasts, allowedCsp>>
vars == <<tables, erased, loop, todo, vectors, stuckDecls>>

-----------------------------------------------------------------------------
(***************************************************************************)
(* Events and synchronisation vectors.  A vector maps each process it      *)
(* constrains to an event and to whether this event is weak (marked "?").  *)
(* It is built with std::map::emplace, which keeps the first entry of a    *)
(* process.                                                                *)
(***************************************************************************)
Emission(s)  == <<"emit", s>>
Reception(s) == <<"recv", s>>
CspEvent(s)  == <<"csp", s>>
NoSync       == <<"nosync">>

ChannelEvents == {Emission(s) : s \in Channel} \cup {Reception(s) : s \in Channel}
                 \cup {CspEvent(s) : s \in Channel}
Event == ChannelEvents \cup {NoSync}

Strong(e) == [event |-> e, weak |-> FALSE]
Weak(e)   == [event |-> e, weak |-> TRUE]

\* Mutated form: emitter and receiver swapped.
SwappedPair(s, PE, PR) ==
  [P \in {PE, PR} |-> Strong(IF P = PE THEN Reception(s) ELSE Emission(s))]

Pair(s, PE, PR) ==
  [P \in {PE, PR} |-> Strong(IF P = PE THEN Emission(s) ELSE Reception(s))]

\* Mutated form: the receivers are not marked as weak.
StrongBroadcast(s, PE, R) ==
  [P \in {PE} \cup R |-> Strong(IF P = PE THEN Emission(s) ELSE Reception(s))]

Broadcast(s, PE, R) ==
  [P \in {PE} \cup R |-> IF P = PE THEN Strong(Emission(s)) ELSE Weak(Reception(s))]

Blocked(P, e) ==
  [Q \in {P, Stuck} |-> Strong(IF Q = P THEN e ELSE NoSync)]

StrongSync(s, S) == [P \in S |-> Strong(CspEvent(s))]

-----------------------------------------------------------------------------
\* The channels a table has an entry for.
Keys(table) == {s \in Channel : table[s] # {}}

\* Mutated form: a process may synchronise with itself.
MatchedWithItself(s) == {PE \in emitters[s] : \E PR \in receivers[s] : PR \in Process}

\* The emitters of s that have another process to synchronise with.
Matched(s) == {PE \in emitters[s] : \E PR \in receivers[s] : PR # PE}

\* The vectors that a process PE receives for its emissions on s.
Handshakes(s, PE) == {Pair(s, PE, PR) : PR \in receivers[s] \ {PE}}

\* A process without any IO section is blocked on its CSP synchronisations.
\* One with such a section synchronises on the channels the section names.
CspBlocked(s) == {P \in csp[s] : allowedCsp[P] = {}}
CspJoined(s)  == {P \in csp[s] : s \in allowedCsp[P]}

\* The states in which the pass is called.  The type checker of UTAP refuses
\* a model that mixes CSP synchronisations with emissions and receptions.
TablesOK ==
  /\ emitters \in [Channel -> SUBSET Process]
  /\ receivers \in [Channel -> SUBSET Process]
  /\ csp \in [Channel -> SUBSET Process]
  /\ broadcasts \in SUBSET Channel
  /\ allowedCsp \in [Process -> SUBSET Channel]
  /\ \/ \A s \in Channel : emitters[s] \cup receivers[s] = {}
     \/ /\ \A s \in Channel : csp[s] = {}
        /\ \A P \in Process : allowedCsp[P] = {}
  /\ \A s \in broadcasts : emitters[s] \cup receivers[s] \cup csp[s] # {}

Init ==
  /\ TablesOK
  /\ erased = {}
  /\ loop = "emitters"
  /\ todo = Keys(emitters)
  /\ vectors = {}
  /\ stuckDecls = 0

Visit(l, s) ==
  /\ loop = l
  /\ s \in todo
  /\ todo' = todo \ {s}
  /\ UNCHANGED <<tables, loop>>

\* Mutated form: each blocked channel declares the process Stuck.
OutputWithStuck(V, PB, e) ==
  /\ vectors' = vectors \cup V \cup {Blocked(P, e) : P \in PB}
  /\ stuckDecls' = IF PB # {} THEN stuckDecls + 1 ELSE stuckDecls

\* Write the vectors V and block, for each P in PB, its event e.  The process
\* Stuck is declared before the first vector that needs it (add_stuck_process).
Output(V, PB, e) ==
  /\ vectors' = vectors \cup V \cup {Blocked(P, e) : P \in PB}
  /\ stuckDecls' = IF PB # {} /\ stuckDecls = 0 THEN 1 ELSE stuckDecls

\* Mutated form: the receivers of s are not erased.
KeepReceivers(s) == UNCHANGED erased

\* As soon as one of its emitters is synchronised, all the receivers of s are
\* taken for synchronised.
EraseReceivers(s) == erased' = IF Matched(s) # {} THEN erased \cup {s} ELSE erased

\* Nobody receives on s: its emitters are blocked, unless s is a broadcast.
EmitUnreceived(s) ==
  /\ Visit("emitters", s)
  /\ receivers[s] = {}
  /\ Output({}, IF s \in broadcasts THEN {} ELSE emitters[s], Emission(s))
  /\ UNCHANGED erased

\* CCS-like synchronisation: one vector per pair of distinct processes; an
\* emitter without any partner is blocked.
EmitPairwise(s) ==
  /\ Visit("emitters", s)
  /\ receivers[s] # {}
  /\ s \notin broadcasts
  /\ Output(UNION {Handshakes(s, PE) : PE \in emitters[s]},
            emitters[s] \ Matched(s), Emission(s))
  /\ EraseReceivers(s)

\* Broadcast: one vector per emitter, with all the other receivers.
EmitBroadcast(s) ==
  /\ Visit("emitters", s)
  /\ receivers[s] # {}
  /\ s \in broadcasts
  /\ Output({Broadcast(s, PE, receivers[s]) : PE \in Matched(s)}, {}, Emission(s))
  /\ EraseReceivers(s)

\* The receivers left were not synchronised with an emitter.
BlockReceivers(s) ==
  /\ Visit("receivers", s)
  /\ Output({}, receivers[s], Reception(s))
  /\ UNCHANGED erased

\* CSP: the processes that name s in their IO section synchronise together.
SyncCsp(s) ==
  /\ Visit("csp", s)
  /\ Output(IF \E P, Q \in CspJoined(s) : P # Q
              THEN {StrongSync(s, CspJoined(s))} ELSE {},
            CspBlocked(s), CspEvent(s))
  /\ UNCHANGED erased

\* A loop ends when it has visited all its keys.
EnterReceivers ==
  /\ loop = "emitters" /\ todo = {}
  /\ loop' = "receivers" /\ todo' = Keys(receivers) \ erased
  /\ UNCHANGED <<tables, erased, vectors, stuckDecls>>

EnterCsp ==
  /\ loop = "receivers" /\ todo = {}
  /\ loop' = "csp" /\ todo' = Keys(csp)
  /\ UNCHANGED <<tables, erased, vectors, stuckDecls>>

Finish ==
  /\ loop = "csp" /\ todo = {}
  /\ loop' = "done"
  /\ UNCHANGED <<tables, erased, todo, vectors, stuckDecls>>

Iterate(s) ==
  \/ EmitUnreceived(s) \/ EmitPairwise(s) \/ EmitBroadcast(s)
  \/ BlockReceivers(s) \/ SyncCsp(s)

Next ==
  \/ \E s \in Channel : Iterate(s)
  \/ EnterReceivers \/ EnterCsp \/ Finish

Spec == Init /\ [][Next]_vars

-----------------------------------------------------------------------------
\* A loop visits keys of its own table.
CursorOK ==
  /\ loop = "emitters"  => todo \subseteq Keys(emitters)
  /\ loop = "receivers" => todo \subseteq Keys(receivers) \ erased
  /\ loop = "csp"       => todo \subseteq Keys(csp)
  /\ loop = "done"      => todo = {}

\* The type invariant of the pass: the tables, its cursor and its output.
TypeOK ==
  /\ TablesOK
  /\ erased \subseteq Channel
  /\ loop \in {"emitters", "receivers", "csp", "done"}
  /\ todo \subseteq Channel
  /\ CursorOK
  /\ \A v \in vectors :
       /\ DOMAIN v \subseteq Process \cup {Stuck}
       /\ \A P \in DOMAIN v : v[P] \in [event : Event, weak : BOOLEAN]
  /\ stuckDecls \in {0, 1}

\* What tchecker::outputter::sync asserts of every vector it writes: a
\* synchronisation constrains at least two processes.
AtLeastTwo == \A v \in vectors : \E P, Q \in DOMAIN v : P # Q

\* A vector is written that names the process Stuck if and only if the model
\* declares this process, and no more than once (add_stuck_process, shared by
\* the three loops).
StuckDeclared ==
  stuckDecls = IF \E v \in vectors : Stuck \in DOMAIN v THEN 1 ELSE 0

\* An event of a process is never blocked by one vector and synchronised by
\* another: what the first loop synchronises, the second must not visit.
NotBlockedAndSynchronised ==
  \A v, w \in vectors : \A P \in Process :
    /\ P \in DOMAIN v /\ P \in DOMAIN w
    /\ Stuck \in DOMAIN v
    /\ v[P].event = w[P].event
    => Stuck \in DOMAIN w

-----------------------------------------------------------------------------
(***************************************************************************)
(* The inductive invariant: at every moment the vectors written are those  *)
(* of the keys visited, and the erased entries those of the emitted        *)
(* channels visited that found a synchronisation.                          *)
(***************************************************************************)
EmitVectors(s) ==
  IF s \in broadcasts
    THEN {Broadcast(s, PE, receivers[s]) : PE \in Matched(s)}
    ELSE (UNION {Handshakes(s, PE) : PE \in emitters[s]})
         \cup {Blocked(PE, Emission(s)) : PE \in emitters[s] \ Matched(s)}

RecvVectors(s) == {Blocked(PR, Reception(s)) : PR \in receivers[s]}

CspVectors(s) ==
  (IF \E P, Q \in CspJoined(s) : P # Q THEN {StrongSync(s, CspJoined(s))} ELSE {})
  \cup {Blocked(P, CspEvent(s)) : P \in CspBlocked(s)}

EmittersVisited ==
  IF loop = "emitters" THEN Keys(emitters) \ todo ELSE Keys(emitters)

ReceiversVisited ==
  IF loop = "emitters" THEN {}
  ELSE Keys(receivers) \ (IF loop = "receivers" THEN erased \cup todo ELSE erased)

CspVisited ==
  IF loop \in {"emitters", "receivers"} THEN {}
  ELSE Keys(csp) \ (IF loop = "csp" THEN todo ELSE {})

\* The vectors written are those of the channels visited, with the receivers
\* erased for exactly the visited channels that have a synchronisation: no
\* iteration undoes, repeats or omits what another one wrote.
WrittenSoFar ==
  /\ erased = {s \in EmittersVisited : Matched(s) # {}}
  /\ vectors = (UNION {EmitVectors(s) : s \in EmittersVisited})
               \cup (UNION {RecvVectors(s) : s \in ReceiversVisited})
               \cup (UNION {CspVectors(s) : s \in CspVisited})
=============================================================================
