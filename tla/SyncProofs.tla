------------------------------ MODULE SyncProofs ------------------------------
(***************************************************************************)
(* Proofs about the generation of the synchronisation vectors, for every   *)
(* set of processes and channels.                                          *)
(***************************************************************************)
EXTENDS SyncSemantics, TLAPS

\* The events of different channels or directions are different.
LEMMA EventsDiffer ==
  ASSUME NEW s \in Channel, NEW t \in Channel
  PROVE  /\ Emission(s) # Reception(t) /\ Emission(s) # CspEvent(t)
         /\ Reception(s) # CspEvent(t)
         /\ Emission(s) = Emission(t) => s = t
         /\ Reception(s) = Reception(t) => s = t
         /\ CspEvent(s) = CspEvent(t) => s = t
         /\ NoSync \notin {Emission(s), Reception(s), CspEvent(s)}
BY DEF Emission, Reception, CspEvent, NoSync

\* The events of the channels are events.
LEMMA EventTypes ==
  ASSUME NEW s \in Channel
  PROVE  /\ Emission(s) \in ChannelEvents
         /\ Reception(s) \in ChannelEvents
         /\ CspEvent(s) \in ChannelEvents
BY DEF ChannelEvents

\* A well-formed vector, as the type invariant requires of each one.
VectorOK(v) ==
  /\ DOMAIN v \subseteq Process \cup {Stuck}
  /\ \A P \in DOMAIN v : v[P] \in [event : Event, weak : BOOLEAN]

\* The vectors of each form are well-formed: those that block an event,
LEMMA BlockedOK ==
  ASSUME NEW P \in Process, NEW e \in Event
  PROVE  VectorOK(Blocked(P, e))
BY DEF VectorOK, Blocked, Strong, Event

\* those of a handshake,
LEMMA PairOK ==
  ASSUME NEW s \in Channel, NEW PE \in Process, NEW PR \in Process
  PROVE  VectorOK(Pair(s, PE, PR))
BY EventTypes DEF VectorOK, Pair, Strong, Event

\* those of a broadcast,
LEMMA BroadcastOK ==
  ASSUME NEW s \in Channel, NEW PE \in Process, NEW R \in SUBSET Process
  PROVE  VectorOK(Broadcast(s, PE, R))
BY EventTypes DEF VectorOK, Broadcast, Strong, Weak, Event

\* and those of a CSP channel.
LEMMA StrongSyncOK ==
  ASSUME NEW s \in Channel, NEW S \in SUBSET Process
  PROVE  VectorOK(StrongSync(s, S))
BY EventTypes DEF VectorOK, StrongSync, Strong, Event

-----------------------------------------------------------------------------
(***************************************************************************)
(* The inductive invariant.                                                *)
(***************************************************************************)
IInv == TypeOK /\ WrittenSoFar /\ StuckDeclared

\* The first two loops never run together with the third: what a channel
\* writes depends on the tables only.
LEMMA TablesFixed ==
  ASSUME UNCHANGED tables
  PROVE  /\ TablesOK' <=> TablesOK
         /\ Keys(emitters)' = Keys(emitters)
         /\ Keys(receivers)' = Keys(receivers)
         /\ Keys(csp)' = Keys(csp)
         /\ \A s : Matched(s)' = Matched(s)
         /\ \A s : EmitVectors(s)' = EmitVectors(s)
         /\ \A s : RecvVectors(s)' = RecvVectors(s)
         /\ \A s : CspVectors(s)' = CspVectors(s)
BY DEF tables, TablesOK, Keys, Matched, EmitVectors, RecvVectors, CspVectors,
       Handshakes, CspJoined, CspBlocked

\* The invariant holds of the tables that the pass is called with.
THEOREM InitInv == Init => IInv
<1> SUFFICES ASSUME Init PROVE IInv
  OBVIOUS
<1>1. TypeOK
  BY DEF Init, TypeOK, CursorOK, Keys
<1>2. WrittenSoFar
  <2>1. EmittersVisited = {} /\ ReceiversVisited = {} /\ CspVisited = {}
    BY DEF Init, EmittersVisited, ReceiversVisited, CspVisited
  <2> QED  BY <2>1 DEF Init, WrittenSoFar
<1>3. StuckDeclared
  BY DEF Init, StuckDeclared
<1> QED  BY <1>1, <1>2, <1>3 DEF IInv

\* Writing vectors keeps them well-formed, and declares Stuck when one of them
\* needs it.
LEMMA OutputStep ==
  ASSUME TypeOK, StuckDeclared,
         NEW V, NEW PB \in SUBSET Process, NEW e \in Event, Output(V, PB, e),
         \A v \in V : VectorOK(v) /\ Stuck \notin DOMAIN v
  PROVE  /\ \A v \in vectors' : VectorOK(v)
         /\ stuckDecls' \in {0, 1}
         /\ StuckDeclared'
<1>1. \A v \in vectors' : VectorOK(v)
  BY BlockedOK DEF Output, TypeOK, VectorOK
<1>2. stuckDecls' \in {0, 1}
  BY DEF Output, TypeOK
<1>3. StuckDeclared'
  <2>1. (\E v \in vectors' : Stuck \in DOMAIN v)
          <=> (\E v \in vectors : Stuck \in DOMAIN v) \/ PB # {}
    <3>1. \A P \in PB : Stuck \in DOMAIN Blocked(P, e)
      BY DEF Blocked
    <3> QED  BY <3>1 DEF Output
  <2> QED  BY <2>1 DEF Output, StuckDeclared, TypeOK
<1> QED  BY <1>1, <1>2, <1>3

\* An iteration of the first loop.
LEMMA EmitterStep ==
  ASSUME IInv, NEW s \in Channel, Visit("emitters", s), EraseReceivers(s),
         NEW V, NEW PB \in SUBSET Process, Output(V, PB, Emission(s)),
         V \cup {Blocked(P, Emission(s)) : P \in PB} = EmitVectors(s),
         \A v \in V : VectorOK(v) /\ Stuck \notin DOMAIN v
  PROVE  IInv'
<1> USE EventTypes DEF IInv
<1>1. UNCHANGED tables /\ loop = "emitters" /\ loop' = loop /\ s \in todo
      /\ todo' = todo \ {s}
  BY DEF Visit
<1>2. TypeOK' /\ StuckDeclared'
  <2>1. /\ \A v \in vectors' : VectorOK(v)
        /\ stuckDecls' \in {0, 1}
        /\ StuckDeclared'
    BY OutputStep DEF Event
  <2>2. TablesOK' /\ CursorOK'
    BY <1>1, TablesFixed DEF TypeOK, CursorOK
  <2> QED  BY <1>1, <2>1, <2>2 DEF TypeOK, VectorOK, EraseReceivers
<1>3. WrittenSoFar'
  <2>1. s \in Keys(emitters)
    BY <1>1 DEF TypeOK, CursorOK
  <2>2. EmittersVisited' = EmittersVisited \cup {s}
    BY <1>1, <2>1, TablesFixed DEF EmittersVisited
  <2>3. ReceiversVisited' = {} /\ CspVisited' = {}
        /\ ReceiversVisited = {} /\ CspVisited = {}
    BY <1>1 DEF ReceiversVisited, CspVisited
  <2>4. erased' = {t \in EmittersVisited' : Matched(t)' # {}}
    BY <1>1, <2>2, TablesFixed DEF WrittenSoFar, EraseReceivers
  <2>5. vectors' = vectors \cup EmitVectors(s)
    BY DEF Output
  <2>6. UNION {EmitVectors(t)' : t \in EmittersVisited'}
        = (UNION {EmitVectors(t) : t \in EmittersVisited}) \cup EmitVectors(s)
    BY <1>1, <2>2, TablesFixed
  <2> QED  BY <2>3, <2>4, <2>5, <2>6 DEF WrittenSoFar
<1> QED  BY <1>2, <1>3

\* The three actions of the first loop write what the channel calls for.
LEMMA EmitUnreceivedStep ==
  ASSUME IInv, NEW s \in Channel, EmitUnreceived(s) PROVE IInv'
<1> DEFINE PB == IF s \in broadcasts THEN {} ELSE emitters[s]
<1>1. Visit("emitters", s) /\ Output({}, PB, Emission(s))
  BY DEF EmitUnreceived
<1>2. PB \in SUBSET Process
  BY DEF IInv, TypeOK, TablesOK
<1>3. Matched(s) = {}
  BY DEF EmitUnreceived, Matched
<1>4. EraseReceivers(s)
  BY <1>3 DEF EmitUnreceived, EraseReceivers
<1>5. {} \cup {Blocked(P, Emission(s)) : P \in PB} = EmitVectors(s)
  BY <1>3 DEF EmitUnreceived, EmitVectors, Handshakes
<1> HIDE DEF PB
<1> QED  BY <1>1, <1>2, <1>4, <1>5, EmitterStep

\* One iteration on a channel with receivers that is not a broadcast.
LEMMA EmitPairwiseStep ==
  ASSUME IInv, NEW s \in Channel, EmitPairwise(s) PROVE IInv'
<1> DEFINE V == UNION {Handshakes(s, PE) : PE \in emitters[s]}
           PB == emitters[s] \ Matched(s)
<1>1. /\ Visit("emitters", s) /\ Output(V, PB, Emission(s))
      /\ EraseReceivers(s)
  BY DEF EmitPairwise
<1>2. PB \in SUBSET Process
  BY DEF IInv, TypeOK, TablesOK
<1>3. V \cup {Blocked(P, Emission(s)) : P \in PB} = EmitVectors(s)
  BY DEF EmitPairwise, EmitVectors
<1>4. ASSUME NEW v \in V PROVE VectorOK(v) /\ Stuck \notin DOMAIN v
  <2>1. PICK PE \in emitters[s], PR \in receivers[s] : v = Pair(s, PE, PR)
    BY <1>4 DEF Handshakes
  <2>2. PE \in Process /\ PR \in Process
    BY DEF IInv, TypeOK, TablesOK
  <2> QED  BY <2>1, <2>2, PairOK, StuckNotProcess DEF Pair
<1> HIDE DEF V, PB
<1> QED  BY <1>1, <1>2, <1>3, <1>4, EmitterStep

\* One iteration on a broadcast channel.
LEMMA EmitBroadcastStep ==
  ASSUME IInv, NEW s \in Channel, EmitBroadcast(s) PROVE IInv'
<1> DEFINE V == {Broadcast(s, PE, receivers[s]) : PE \in Matched(s)}
<1>1. /\ Visit("emitters", s) /\ Output(V, {}, Emission(s))
      /\ EraseReceivers(s)
  BY DEF EmitBroadcast
<1>2. V \cup {Blocked(P, Emission(s)) : P \in {}} = EmitVectors(s)
  BY DEF EmitBroadcast, EmitVectors
<1>3. ASSUME NEW v \in V PROVE VectorOK(v) /\ Stuck \notin DOMAIN v
  <2>1. PICK PE \in Matched(s) : v = Broadcast(s, PE, receivers[s])
    BY <1>3
  <2>2. PE \in Process /\ receivers[s] \in SUBSET Process
    BY DEF IInv, TypeOK, TablesOK, Matched
  <2> QED  BY <2>1, <2>2, BroadcastOK, StuckNotProcess DEF Broadcast
<1>4. {} \in SUBSET Process
  OBVIOUS
<1> HIDE DEF V
<1> QED  BY <1>1, <1>2, <1>3, <1>4, EmitterStep

\* An iteration of the second loop.
LEMMA BlockReceiversStep ==
  ASSUME IInv, NEW s \in Channel, BlockReceivers(s) PROVE IInv'
<1> USE DEF IInv
<1>1. /\ UNCHANGED tables /\ loop = "receivers" /\ loop' = loop /\ s \in todo
      /\ todo' = todo \ {s} /\ erased' = erased
      /\ Output({}, receivers[s], Reception(s))
  BY DEF BlockReceivers, Visit
<1>2. TypeOK' /\ StuckDeclared'
  <2>1. /\ \A v \in vectors' : VectorOK(v)
        /\ stuckDecls' \in {0, 1}
        /\ StuckDeclared'
    <3>1. receivers[s] \in SUBSET Process
      BY DEF TypeOK, TablesOK
    <3> QED  BY <1>1, <3>1, OutputStep, EventTypes DEF Event
  <2>2. TablesOK' /\ CursorOK'
    BY <1>1, TablesFixed DEF TypeOK, CursorOK
  <2> QED  BY <1>1, <2>1, <2>2 DEF TypeOK, VectorOK
<1>3. WrittenSoFar'
  <2>1. s \in Keys(receivers) \ erased
    BY <1>1 DEF TypeOK, CursorOK
  <2>2. EmittersVisited' = EmittersVisited /\ CspVisited' = {} /\ CspVisited = {}
    BY <1>1, TablesFixed DEF EmittersVisited, CspVisited
  <2>3. ReceiversVisited' = ReceiversVisited \cup {s}
    BY <1>1, <2>1, TablesFixed DEF ReceiversVisited
  <2>4. vectors' = vectors \cup RecvVectors(s)
    BY <1>1 DEF Output, RecvVectors
  <2>5. (UNION {RecvVectors(t)' : t \in ReceiversVisited'})
        = (UNION {RecvVectors(t) : t \in ReceiversVisited}) \cup RecvVectors(s)
    BY <1>1, <2>3, TablesFixed
  <2> QED  BY <1>1, <2>2, <2>4, <2>5, TablesFixed DEF WrittenSoFar
<1> QED  BY <1>2, <1>3

\* An iteration of the third loop.
LEMMA SyncCspStep ==
  ASSUME IInv, NEW s \in Channel, SyncCsp(s) PROVE IInv'
<1> DEFINE V == IF \E P, Q \in CspJoined(s) : P # Q
                  THEN {StrongSync(s, CspJoined(s))} ELSE {}
<1> USE DEF IInv
<1>1. /\ UNCHANGED tables /\ loop = "csp" /\ loop' = loop /\ s \in todo
      /\ todo' = todo \ {s} /\ erased' = erased
      /\ Output(V, CspBlocked(s), CspEvent(s))
  BY DEF SyncCsp, Visit
<1>2. CspJoined(s) \in SUBSET Process /\ CspBlocked(s) \in SUBSET Process
  BY DEF TypeOK, TablesOK, CspJoined, CspBlocked
<1>3. ASSUME NEW v \in V PROVE VectorOK(v) /\ Stuck \notin DOMAIN v
  <2>1. v = StrongSync(s, CspJoined(s))
    BY <1>3
  <2> QED  BY <1>2, <2>1, StrongSyncOK, StuckNotProcess DEF StrongSync
<1>4. TypeOK' /\ StuckDeclared'
  <2>1. /\ \A v \in vectors' : VectorOK(v)
        /\ stuckDecls' \in {0, 1}
        /\ StuckDeclared'
    <3> HIDE DEF V
    <3> QED  BY <1>1, <1>2, <1>3, OutputStep, EventTypes DEF Event
  <2>2. TablesOK' /\ CursorOK'
    BY <1>1, TablesFixed DEF TypeOK, CursorOK
  <2> QED  BY <1>1, <2>1, <2>2 DEF TypeOK, VectorOK
<1>5. WrittenSoFar'
  <2>1. s \in Keys(csp)
    BY <1>1 DEF TypeOK, CursorOK
  <2>2. EmittersVisited' = EmittersVisited /\ ReceiversVisited' = ReceiversVisited
    BY <1>1, TablesFixed DEF EmittersVisited, ReceiversVisited
  <2>3. CspVisited' = CspVisited \cup {s}
    BY <1>1, <2>1, TablesFixed DEF CspVisited
  <2>4. vectors' = vectors \cup CspVectors(s)
    BY <1>1 DEF Output, CspVectors
  <2>5. (UNION {CspVectors(t)' : t \in CspVisited'})
        = (UNION {CspVectors(t) : t \in CspVisited}) \cup CspVectors(s)
    BY <1>1, <2>3, TablesFixed
  <2> QED  BY <1>1, <2>2, <2>4, <2>5, TablesFixed DEF WrittenSoFar
<1> QED  BY <1>4, <1>5

\* A change of loop neither writes nor forgets anything.
LEMMA EnterStep ==
  ASSUME IInv, EnterReceivers \/ EnterCsp \/ Finish PROVE IInv'
<1> USE DEF IInv
<1>1. UNCHANGED <<tables, erased, vectors, stuckDecls>> /\ todo = {}
  BY DEF EnterReceivers, EnterCsp, Finish
<1>2. TypeOK'
  BY <1>1, TablesFixed DEF TypeOK, CursorOK, EnterReceivers, EnterCsp, Finish, Keys
<1>3. StuckDeclared'
  BY <1>1 DEF StuckDeclared
<1>4. EmittersVisited' = EmittersVisited
  BY <1>1, TablesFixed DEF EnterReceivers, EnterCsp, Finish, EmittersVisited
<1>5. ReceiversVisited' = ReceiversVisited
  BY <1>1, TablesFixed DEF EnterReceivers, EnterCsp, Finish, ReceiversVisited
<1>6. CspVisited' = CspVisited
  BY <1>1, TablesFixed DEF EnterReceivers, EnterCsp, Finish, CspVisited
<1>7. WrittenSoFar'
  BY <1>1, <1>4, <1>5, <1>6, TablesFixed DEF WrittenSoFar
<1> QED  BY <1>2, <1>3, <1>7

\* Every step of the pass preserves the invariant.
THEOREM StepInv == IInv /\ [Next]_vars => IInv'
<1> SUFFICES ASSUME IInv, [Next]_vars PROVE IInv'
  OBVIOUS
<1>1. ASSUME NEW s \in Channel, Iterate(s) PROVE IInv'
  BY <1>1, EmitUnreceivedStep, EmitPairwiseStep, EmitBroadcastStep,
     BlockReceiversStep, SyncCspStep DEF Iterate
<1>2. CASE UNCHANGED vars
  <2>1. UNCHANGED <<tables, erased, loop, todo, vectors, stuckDecls>>
    BY <1>2 DEF vars
  <2>2. TypeOK' /\ StuckDeclared'
    BY <2>1, TablesFixed DEF IInv, TypeOK, CursorOK, StuckDeclared
  <2>3. EmittersVisited' = EmittersVisited /\ ReceiversVisited' = ReceiversVisited
        /\ CspVisited' = CspVisited
    BY <2>1, TablesFixed DEF EmittersVisited, ReceiversVisited, CspVisited
  <2> QED  BY <2>1, <2>2, <2>3, TablesFixed DEF IInv, WrittenSoFar
<1> QED  BY <1>1, <1>2, EnterStep DEF Next

\* At every moment the vectors written are those of the channels visited, they
\* are well-formed, and Stuck is declared if and only if one of them needs it.
THEOREM Invariance == Spec => []IInv
BY InitInv, StepInv, PTL DEF Spec

\* The tables, the cursor and the vectors keep their types.
THEOREM TypeCorrect == Spec => []TypeOK
<1>1. IInv => TypeOK
  BY DEF IInv
<1> QED  BY <1>1, Invariance, PTL

\* The pass writes the vectors of each channel it visits once and for all.
THEOREM WrittenOnce == Spec => []WrittenSoFar
<1>1. IInv => WrittenSoFar
  BY DEF IInv
<1> QED  BY <1>1, Invariance, PTL

\* Stuck is declared once if some vector names it, and not at all otherwise.
THEOREM StuckIsDeclared == Spec => []StuckDeclared
<1>1. IInv => StuckDeclared
  BY DEF IInv
<1> QED  BY <1>1, Invariance, PTL

-----------------------------------------------------------------------------
(***************************************************************************)
(* What is written when the pass ends.                                     *)
(***************************************************************************)
\* The six kinds of vectors.
IsPair(v) == \E s \in Channel \ broadcasts : \E PE \in emitters[s], PR \in receivers[s] :
               PE # PR /\ v = Pair(s, PE, PR)
IsBroadcast(v) == \E s \in broadcasts : \E PE \in Matched(s) :
                    v = Broadcast(s, PE, receivers[s])
IsBlockedEmission(v) == \E s \in Channel \ broadcasts : \E PE \in emitters[s] \ Matched(s) :
                          v = Blocked(PE, Emission(s))
IsBlockedReception(v) == \E s \in Channel : \E PR \in receivers[s] :
                           Matched(s) = {} /\ v = Blocked(PR, Reception(s))
IsStrongSync(v) == \E s \in Channel : \E P, Q \in CspJoined(s) :
                     P # Q /\ v = StrongSync(s, CspJoined(s))
IsBlockedCsp(v) == \E s \in Channel : \E P \in CspBlocked(s) : v = Blocked(P, CspEvent(s))

\* At any moment a vector is of one of these kinds, a blocked reception
\* belonging to a channel of which no emitter is matched.
LEMMA VectorKinds ==
  ASSUME IInv, NEW v \in vectors
  PROVE  \/ IsPair(v) \/ IsBroadcast(v) \/ IsBlockedEmission(v)
         \/ IsBlockedReception(v) \/ IsStrongSync(v) \/ IsBlockedCsp(v)
<1> USE DEF IInv
<1>1. CASE \E s \in EmittersVisited : v \in EmitVectors(s)
  <2>1. PICK s \in Keys(emitters) : v \in EmitVectors(s)
    BY <1>1 DEF EmittersVisited
  <2>2. CASE s \in broadcasts
    BY <2>1, <2>2 DEF EmitVectors, IsBroadcast
  <2>3. CASE s \notin broadcasts
    <3>1. CASE \E PE \in emitters[s] : v \in Handshakes(s, PE)
      BY <2>1, <2>3, <3>1 DEF Handshakes, IsPair, Keys
    <3>2. CASE \E PE \in emitters[s] \ Matched(s) : v = Blocked(PE, Emission(s))
      BY <2>1, <2>3, <3>2 DEF IsBlockedEmission, Keys
    <3> QED  BY <2>1, <2>3, <3>1, <3>2 DEF EmitVectors
  <2> QED  BY <2>2, <2>3
<1>2. CASE \E s \in ReceiversVisited : v \in RecvVectors(s)
  <2>1. PICK s \in ReceiversVisited : v \in RecvVectors(s)
    BY <1>2
  <2>2. s \in Channel /\ s \notin erased /\ loop # "emitters"
    BY <2>1 DEF ReceiversVisited, Keys
  <2>3. Matched(s) = {}
    BY <2>2 DEF WrittenSoFar, EmittersVisited, Keys, Matched
  <2> QED  BY <2>1, <2>2, <2>3 DEF RecvVectors, IsBlockedReception
<1>3. CASE \E s \in CspVisited : v \in CspVectors(s)
  <2>1. PICK s \in Channel : v \in CspVectors(s)
    BY <1>3 DEF CspVisited, Keys
  <2> QED  BY <2>1 DEF CspVectors, IsStrongSync, IsBlockedCsp
<1> QED  BY <1>1, <1>2, <1>3 DEF WrittenSoFar

\* When the pass is over, every vector of these kinds is written.
LEMMA AllWritten ==
  ASSUME IInv, loop = "done", NEW v,
         \/ IsPair(v) \/ IsBroadcast(v) \/ IsBlockedEmission(v)
         \/ IsBlockedReception(v) \/ IsStrongSync(v) \/ IsBlockedCsp(v)
  PROVE  v \in vectors
<1> USE DEF IInv
<1>1. /\ EmittersVisited = Keys(emitters)
      /\ ReceiversVisited = Keys(receivers) \ erased
      /\ CspVisited = Keys(csp)
  BY DEF EmittersVisited, ReceiversVisited, CspVisited
<1>2. CASE IsPair(v)
  <2>1. PICK s \in Channel \ broadcasts :
          \E PE \in emitters[s], PR \in receivers[s] : PE # PR /\ v = Pair(s, PE, PR)
    BY <1>2 DEF IsPair
  <2>2. s \in Keys(emitters) /\ v \in EmitVectors(s)
    BY <2>1 DEF Keys, EmitVectors, Handshakes
  <2> QED  BY <1>1, <2>2 DEF WrittenSoFar
<1>3. CASE IsBroadcast(v)
  <2>1. PICK s \in broadcasts : \E PE \in Matched(s) : v = Broadcast(s, PE, receivers[s])
    BY <1>3 DEF IsBroadcast
  <2>2. s \in Keys(emitters) /\ v \in EmitVectors(s)
    BY <2>1 DEF Keys, EmitVectors, Matched, TypeOK, TablesOK
  <2> QED  BY <1>1, <2>2 DEF WrittenSoFar
<1>4. CASE IsBlockedEmission(v)
  <2>1. PICK s \in Channel \ broadcasts : \E PE \in emitters[s] \ Matched(s) :
          v = Blocked(PE, Emission(s))
    BY <1>4 DEF IsBlockedEmission
  <2>2. s \in Keys(emitters) /\ v \in EmitVectors(s)
    BY <2>1 DEF Keys, EmitVectors
  <2> QED  BY <1>1, <2>2 DEF WrittenSoFar
<1>5. CASE IsBlockedReception(v)
  <2>1. PICK s \in Channel : Matched(s) = {} /\ \E PR \in receivers[s] :
          v = Blocked(PR, Reception(s))
    BY <1>5 DEF IsBlockedReception
  <2>2. s \in Keys(receivers) \ erased /\ v \in RecvVectors(s)
    BY <2>1 DEF Keys, RecvVectors, WrittenSoFar
  <2> QED  BY <1>1, <2>2 DEF WrittenSoFar
<1>6. CASE IsStrongSync(v) \/ IsBlockedCsp(v)
  <2>1. PICK s \in Channel : v \in CspVectors(s) /\ csp[s] # {}
    BY <1>6 DEF IsStrongSync, IsBlockedCsp, CspVectors, CspJoined, CspBlocked
  <2> QED  BY <1>1, <2>1 DEF WrittenSoFar, Keys
<1> QED  BY <1>2, <1>3, <1>4, <1>5, <1>6

\* outputter::sync never fails its assertion: every vector constrains two
\* processes, because no process of the model is named Stuck.
THEOREM VectorsSynchronise == Spec => []AtLeastTwo
<1>1. ASSUME IInv, NEW v \in vectors PROVE \E P, Q \in DOMAIN v : P # Q
  <2>1. TablesOK
    BY <1>1 DEF IInv, TypeOK
  <2>2. CASE IsPair(v)
    BY <2>2 DEF IsPair, Pair
  <2>3. CASE IsBroadcast(v)
    <3>1. PICK s, PE : s \in broadcasts /\ PE \in Matched(s) /\ v = Broadcast(s, PE, receivers[s])
      BY <2>3 DEF IsBroadcast
    <3>2. PICK PR \in receivers[s] : PR # PE
      BY <3>1 DEF Matched
    <3>3. DOMAIN v = {PE} \cup receivers[s]
      BY <3>1 DEF Broadcast
    <3> QED  BY <3>2, <3>3
  <2>4. ASSUME NEW P \in Process, NEW e, v = Blocked(P, e)
        PROVE  \E R, Q \in DOMAIN v : R # Q
    <3>1. DOMAIN v = {P, Stuck}
      BY <2>4 DEF Blocked
    <3> QED  BY <3>1, StuckNotProcess
  <2>5. CASE IsBlockedEmission(v)
    BY <2>1, <2>4, <2>5 DEF IsBlockedEmission, TablesOK
  <2>6. CASE IsBlockedReception(v)
    BY <2>1, <2>4, <2>6 DEF IsBlockedReception, TablesOK
  <2>7. CASE IsStrongSync(v)
    BY <2>7 DEF IsStrongSync, StrongSync
  <2>8. CASE IsBlockedCsp(v)
    BY <2>1, <2>4, <2>8 DEF IsBlockedCsp, CspBlocked, TablesOK
  <2> QED  BY <1>1, <2>2, <2>3, <2>5, <2>6, <2>7, <2>8, VectorKinds
<1>2. IInv => AtLeastTwo
  BY <1>1 DEF AtLeastTwo
<1> QED  BY <1>2, Invariance, PTL

-----------------------------------------------------------------------------
(***************************************************************************)
(* What the vectors mean.                                                  *)
(***************************************************************************)
\* The events a vector names, with the processes that perform them.
Named(v) == {<<P, v[P].event>> : P \in DOMAIN v}

\* The events and the weak participants of a handshake,
LEMMA PairNames ==
  ASSUME NEW s, NEW PE, NEW PR, PE # PR
  PROVE  /\ Named(Pair(s, PE, PR)) = {<<PE, Emission(s)>>, <<PR, Reception(s)>>}
         /\ \A P \in DOMAIN Pair(s, PE, PR) : ~Pair(s, PE, PR)[P].weak
BY DEF Named, Pair, Strong

\* of a broadcast,
LEMMA BroadcastNames ==
  ASSUME NEW s, NEW PE, NEW R
  PROVE  /\ Named(Broadcast(s, PE, R))
            = {<<PE, Emission(s)>>} \cup {<<PR, Reception(s)>> : PR \in R \ {PE}}
         /\ \A P \in DOMAIN Broadcast(s, PE, R) : Broadcast(s, PE, R)[P].weak <=> P # PE
BY DEF Named, Broadcast, Strong, Weak

\* of a vector that blocks an event,
LEMMA BlockedNames ==
  ASSUME NEW P \in Process, NEW e
  PROVE  /\ Named(Blocked(P, e)) = {<<P, e>>, <<Stuck, NoSync>>}
         /\ \A Q \in DOMAIN Blocked(P, e) : ~Blocked(P, e)[Q].weak
BY StuckNotProcess DEF Named, Blocked, Strong

\* and of a CSP synchronisation.
LEMMA StrongSyncNames ==
  ASSUME NEW s, NEW S
  PROVE  /\ Named(StrongSync(s, S)) = {<<P, CspEvent(s)>> : P \in S}
         /\ \A P \in DOMAIN StrongSync(s, S) : ~StrongSync(s, S)[P].weak
BY DEF Named, StrongSync, Strong

\* The processes only offer what the tables recorded.
LEMMA Offers ==
  ASSUME TablesOK, NEW c \in Recorded
  PROVE  /\ c[1] \in Process /\ c[2] \in ChannelEvents /\ c = <<c[1], c[2]>>
         /\ \A s \in Channel : /\ c[2] = Emission(s) => c[1] \in emitters[s]
                               /\ c[2] = Reception(s) => c[1] \in receivers[s]
                               /\ c[2] = CspEvent(s) => c[1] \in csp[s]
BY EventsDiffer DEF Recorded

\* An event that a process offers puts this process in a table.
LEMMA OfferOf ==
  ASSUME TablesOK, NEW s \in Channel, NEW P
  PROVE  /\ <<P, Emission(s)>> \in Recorded => P \in emitters[s]
         /\ <<P, Reception(s)>> \in Recorded => P \in receivers[s]
         /\ <<P, CspEvent(s)>> \in Recorded => P \in csp[s]
BY EventsDiffer DEF Recorded

\* A broadcast leaves alone the emitters that have no other process to reach.
LEMMA ConstrainedEmission ==
  ASSUME IInv, NEW s \in broadcasts, NEW P \in Process, Constrained(P, Emission(s))
  PROVE  P \in Matched(s)
<1>1. TablesOK
  BY DEF IInv, TypeOK
<1>2. PICK v \in vectors : <<P, Emission(s)>> \in Named(v)
  BY DEF Constrained, Named
<1>3. s \in Channel /\ P # Stuck
  BY <1>1, StuckNotProcess DEF TablesOK
<1>4. ~IsPair(v)
  BY <1>2, <1>3, PairNames, EventsDiffer DEF IsPair
<1>5. CASE IsBroadcast(v)
  <2>1. PICK t, PE : t \in broadcasts /\ PE \in Matched(t) /\ v = Broadcast(t, PE, receivers[t])
    BY <1>5 DEF IsBroadcast
  <2>2. <<P, Emission(s)>> \in {<<PE, Emission(t)>>}
                              \cup {<<PR, Reception(t)>> : PR \in receivers[t] \ {PE}}
    BY <1>2, <2>1, BroadcastNames
  <2>3. P = PE /\ Emission(s) = Emission(t)
    BY <1>1, <1>3, <2>1, <2>2, EventsDiffer DEF TablesOK
  <2> QED  BY <1>1, <1>3, <2>1, <2>3, EventsDiffer DEF TablesOK
<1>6. ASSUME NEW Q \in Process, NEW e, v = Blocked(Q, e) PROVE e = Emission(s)
  BY <1>2, <1>3, <1>6, BlockedNames
<1>7. ~IsBlockedEmission(v)
  BY <1>1, <1>3, <1>6, EventsDiffer DEF IsBlockedEmission, TablesOK
<1>8. ~IsBlockedReception(v)
  BY <1>1, <1>3, <1>6, EventsDiffer DEF IsBlockedReception, TablesOK
<1>9. ~IsStrongSync(v)
  BY <1>2, <1>3, StrongSyncNames, EventsDiffer DEF IsStrongSync
<1>10. ~IsBlockedCsp(v)
  BY <1>1, <1>3, <1>6, EventsDiffer DEF IsBlockedCsp, CspBlocked, TablesOK
<1> QED  BY <1>4, <1>5, <1>7, <1>8, <1>9, <1>10, VectorKinds

\* A CSP synchronisation is constrained if it is blocked or has partners.
LEMMA ConstrainedCsp ==
  ASSUME IInv, NEW s \in Channel, NEW P \in Process, Constrained(P, CspEvent(s))
  PROVE  \/ P \in CspBlocked(s)
         \/ \E Q, R \in CspJoined(s) : Q # R /\ P \in CspJoined(s)
<1>1. TablesOK
  BY DEF IInv, TypeOK
<1>2. PICK v \in vectors : <<P, CspEvent(s)>> \in Named(v)
  BY DEF Constrained, Named
<1>3. P # Stuck
  BY StuckNotProcess
<1>4. ~IsPair(v)
  BY <1>2, PairNames, EventsDiffer DEF IsPair
<1>5. ~IsBroadcast(v)
  BY <1>1, <1>2, BroadcastNames, EventsDiffer DEF IsBroadcast, TablesOK
<1>6. ASSUME NEW Q \in Process, NEW e, v = Blocked(Q, e) PROVE P = Q /\ e = CspEvent(s)
  BY <1>2, <1>3, <1>6, BlockedNames
<1>7. ~IsBlockedEmission(v)
  BY <1>1, <1>6, EventsDiffer DEF IsBlockedEmission, TablesOK
<1>8. ~IsBlockedReception(v)
  BY <1>1, <1>6, EventsDiffer DEF IsBlockedReception, TablesOK
<1>9. CASE IsStrongSync(v)
  <2>1. PICK t \in Channel : /\ v = StrongSync(t, CspJoined(t))
                             /\ \E Q, R \in CspJoined(t) : Q # R
    BY <1>9 DEF IsStrongSync
  <2>2. t = s /\ P \in CspJoined(t)
    BY <1>2, <2>1, StrongSyncNames, EventsDiffer
  <2> QED  BY <2>1, <2>2
<1>10. CASE IsBlockedCsp(v)
  BY <1>1, <1>6, <1>10, EventsDiffer DEF IsBlockedCsp, CspBlocked, TablesOK
<1> QED  BY <1>4, <1>5, <1>7, <1>8, <1>9, <1>10, VectorKinds

\* A vector all the strong participants of which are ready is a move.
LEMMA VectorFires ==
  ASSUME NEW v \in vectors, NEW O, NEW m, m = Named(v) \cap O,
         \A P \in DOMAIN v : v[P].weak \/ <<P, v[P].event>> \in O
  PROVE  TCheckerMove(O, m)
BY DEF TCheckerMove, VectorMove, Named

\* A move of the Uppaal network is a move of its translation.
LEMMA MovesKept == IInv => NoMoveLost
<1>1. ASSUME IInv, loop = "done", NEW O \in SUBSET Recorded, NEW m \in SUBSET O,
             UppaalMove(O, m)
      PROVE  TCheckerMove(O, m)
  <2>1. TablesOK
    BY <1>1 DEF IInv, TypeOK
  <2>2. CASE HandshakeMove(O, m)
    <3>1. PICK s \in Channel \ broadcasts, PE \in Process, PR \in Process :
            PE # PR /\ m = {<<PE, Emission(s)>>, <<PR, Reception(s)>>}
      BY <2>2 DEF HandshakeMove
    <3>2. PE \in emitters[s] /\ PR \in receivers[s]
      <4>1. <<PE, Emission(s)>> \in Recorded /\ <<PR, Reception(s)>> \in Recorded
        BY <3>1
      <4> QED  BY <2>1, <3>1, <4>1, OfferOf
    <3> DEFINE v == Pair(s, PE, PR)
    <3>3. v \in vectors
      BY <1>1, <3>1, <3>2, AllWritten DEF IsPair
    <3>4. Named(v) = m /\ \A P \in DOMAIN v : <<P, v[P].event>> \in O
      BY <3>1, PairNames DEF Named
    <3> HIDE DEF v
    <3> QED  BY <3>3, <3>4, VectorFires
  <2>3. CASE BroadcastMove(O, m)
    <3>1. PICK s \in broadcasts, PE \in Process :
            /\ <<PE, Emission(s)>> \in O
            /\ m = {<<PE, Emission(s)>>}
                   \cup ({<<PR, Reception(s)>> : PR \in Process \ {PE}} \cap O)
      BY <2>3 DEF BroadcastMove
    <3>2. s \in Channel
      BY <2>1 DEF TablesOK
    <3>3. \A PR \in Process : <<PR, Reception(s)>> \in O => PR \in receivers[s]
      <4>1. TAKE PR \in Process
      <4>2. HAVE <<PR, Reception(s)>> \in O
      <4>3. <<PR, Reception(s)>> \in Recorded
        BY <4>2
      <4> QED  BY <2>1, <3>2, <4>3, OfferOf
    <3>4. PE \in emitters[s]
      <4>1. <<PE, Emission(s)>> \in Recorded
        BY <3>1
      <4> QED  BY <2>1, <3>2, <4>1, OfferOf
    <3>5. CASE PE \in Matched(s)
      <4> DEFINE v == Broadcast(s, PE, receivers[s])
      <4>1. v \in vectors
        BY <1>1, <3>5, AllWritten DEF IsBroadcast
      <4>2. receivers[s] \subseteq Process
        BY <2>1, <3>2 DEF TablesOK
      <4>3. m = Named(v) \cap O
        BY <3>1, <3>3, <4>2, BroadcastNames
      <4>4. \A P \in DOMAIN v : v[P].weak \/ <<P, v[P].event>> \in O
        BY <3>1, BroadcastNames DEF Broadcast, Strong
      <4> HIDE DEF v
      <4> QED  BY <4>1, <4>3, <4>4, VectorFires
    <3>6. CASE PE \notin Matched(s)
      <4>1. ~Constrained(PE, Emission(s))
        BY <1>1, <3>6, ConstrainedEmission
      <4>2. m = {<<PE, Emission(s)>>}
        BY <3>1, <3>3, <3>4, <3>6 DEF Matched
      <4> QED  BY <3>1, <4>1, <4>2 DEF TCheckerMove, AsynchronousMove
    <3> QED  BY <3>5, <3>6
  <2>4. CASE CspMove(O, m)
    <3>1. PICK s \in Channel :
            \/ /\ CspJoined(s) # {}
               /\ m = {<<P, CspEvent(s)>> : P \in CspJoined(s)}
            \/ \E P \in csp[s] \ (CspJoined(s) \cup CspBlocked(s)) : m = {<<P, CspEvent(s)>>}
      BY <2>4 DEF CspMove
    <3>2. CspJoined(s) \subseteq Process /\ csp[s] \subseteq Process
          /\ CspJoined(s) \cap CspBlocked(s) = {}
      BY <2>1 DEF TablesOK, CspJoined, CspBlocked
    <3>3. ASSUME NEW P \in csp[s], P \notin CspBlocked(s), m = {<<P, CspEvent(s)>>},
                 \A Q, R \in CspJoined(s) : Q = R \/ P \notin CspJoined(s)
          PROVE  TCheckerMove(O, m)
      <4>1. ~Constrained(P, CspEvent(s))
        BY <1>1, <3>2, <3>3, ConstrainedCsp
      <4> QED  BY <3>3, <4>1 DEF TCheckerMove, AsynchronousMove
    <3>4. CASE m = {<<P, CspEvent(s)>> : P \in CspJoined(s)}
               /\ \E Q, R \in CspJoined(s) : Q # R
      <4> DEFINE v == StrongSync(s, CspJoined(s))
      <4>1. v \in vectors
        BY <1>1, <3>4, AllWritten DEF IsStrongSync
      <4>2. Named(v) = m
        BY <3>4, StrongSyncNames
      <4>3. \A P \in DOMAIN v : <<P, v[P].event>> \in O
        BY <4>2 DEF Named
      <4> HIDE DEF v
      <4> QED  BY <4>1, <4>2, <4>3, VectorFires
    <3>5. CASE m = {<<P, CspEvent(s)>> : P \in CspJoined(s)} /\ CspJoined(s) # {}
               /\ \A Q, R \in CspJoined(s) : Q = R
      <4>1. PICK P \in CspJoined(s) : TRUE
        BY <3>5
      <4>2. CspJoined(s) = {P}
        BY <3>5, <4>1
      <4>3. P \in csp[s] /\ m = {<<P, CspEvent(s)>>}
        BY <3>5, <4>2 DEF CspJoined
      <4> QED  BY <3>2, <3>3, <3>5, <4>2, <4>3
    <3> QED  BY <3>1, <3>3, <3>4, <3>5
  <2> QED  BY <1>1, <2>2, <2>3, <2>4 DEF UppaalMove
<1> QED  BY <1>1 DEF NoMoveLost

\* The vectors block nothing that may happen in the Uppaal network.
THEOREM NothingLost == Spec => []NoMoveLost
BY MovesKept, Invariance, PTL

\* An emission that no vector constrains is a broadcast that reaches nobody.
LEMMA FreeEmission ==
  ASSUME IInv, loop = "done", NEW s \in Channel, NEW P \in emitters[s],
         ~Constrained(P, Emission(s))
  PROVE  s \in broadcasts /\ P \notin Matched(s)
<1>1. P \in Process
  BY DEF IInv, TypeOK, TablesOK
<1>2. ASSUME NEW v \in vectors, <<P, Emission(s)>> \in Named(v) PROVE FALSE
  BY <1>2 DEF Constrained, Named
<1>3. ASSUME s \notin broadcasts, P \notin Matched(s) PROVE FALSE
  <2>1. Blocked(P, Emission(s)) \in vectors
    BY <1>3, AllWritten DEF IsBlockedEmission
  <2> QED  BY <1>1, <1>2, <2>1, BlockedNames
<1>4. ASSUME s \notin broadcasts, P \in Matched(s) PROVE FALSE
  <2>1. PICK PR \in receivers[s] : PR # P
    BY <1>4 DEF Matched
  <2>2. Pair(s, P, PR) \in vectors
    BY <1>4, <2>1, AllWritten DEF IsPair
  <2> QED  BY <1>2, <2>1, <2>2, PairNames
<1>5. ASSUME s \in broadcasts, P \in Matched(s) PROVE FALSE
  <2>1. Broadcast(s, P, receivers[s]) \in vectors
    BY <1>5, AllWritten DEF IsBroadcast
  <2> QED  BY <1>2, <2>1, BroadcastNames
<1> QED  BY <1>3, <1>4, <1>5

\* A reception that no vector constrains is that of a self-trapped process.
LEMMA FreeReception ==
  ASSUME IInv, loop = "done", NEW s \in Channel, NEW P \in receivers[s],
         ~Constrained(P, Reception(s))
  PROVE  SelfTrapped(P, s)
<1>1. P \in Process
  BY DEF IInv, TypeOK, TablesOK
<1>2. ASSUME NEW v \in vectors, <<P, Reception(s)>> \in Named(v) PROVE FALSE
  BY <1>2 DEF Constrained, Named
<1>3. Matched(s) # {}
  <2> SUFFICES ASSUME Matched(s) = {} PROVE FALSE
    OBVIOUS
  <2>1. Blocked(P, Reception(s)) \in vectors
    BY AllWritten DEF IsBlockedReception
  <2> QED  BY <1>1, <1>2, <2>1, BlockedNames
<1>4. ASSUME NEW PE \in emitters[s] PROVE PE = P
  <2> SUFFICES ASSUME PE # P PROVE FALSE
    OBVIOUS
  <2>1. CASE s \notin broadcasts
    <3>1. Pair(s, PE, P) \in vectors
      BY <2>1, AllWritten DEF IsPair
    <3> QED  BY <1>2, <3>1, PairNames
  <2>2. CASE s \in broadcasts
    <3>1. PE \in Matched(s)
      BY DEF Matched
    <3>2. Broadcast(s, PE, receivers[s]) \in vectors
      BY <2>2, <3>1, AllWritten DEF IsBroadcast
    <3> QED  BY <1>2, <3>2, BroadcastNames
  <2> QED  BY <2>1, <2>2
<1>5. emitters[s] = {P} /\ P \in Matched(s)
  BY <1>3, <1>4 DEF Matched
<1> QED  BY <1>5 DEF SelfTrapped, Matched

\* A CSP synchronisation that no vector constrains is alone on its channel, or
\* left out of it by the IO section of its process.
LEMMA FreeCsp ==
  ASSUME IInv, loop = "done", NEW s \in Channel, NEW P \in csp[s],
         ~Constrained(P, CspEvent(s))
  PROVE  P \notin CspBlocked(s) /\ (P \in CspJoined(s) => CspJoined(s) = {P})
<1>1. P \in Process
  BY DEF IInv, TypeOK, TablesOK
<1>2. ASSUME NEW v \in vectors, <<P, CspEvent(s)>> \in Named(v) PROVE FALSE
  BY <1>2 DEF Constrained, Named
<1>3. P \notin CspBlocked(s)
  <2> SUFFICES ASSUME P \in CspBlocked(s) PROVE FALSE
    OBVIOUS
  <2>1. Blocked(P, CspEvent(s)) \in vectors
    BY AllWritten DEF IsBlockedCsp
  <2> QED  BY <1>1, <1>2, <2>1, BlockedNames
<1>4. ASSUME P \in CspJoined(s), NEW Q \in CspJoined(s), Q # P PROVE FALSE
  <2>1. StrongSync(s, CspJoined(s)) \in vectors
    BY <1>4, AllWritten DEF IsStrongSync
  <2> QED  BY <1>2, <1>4, <2>1, StrongSyncNames
<1> QED  BY <1>3, <1>4

\* A move of the translation is a move of the Uppaal network, or the reception of
\* a self-trapped process.
LEMMA MovesMeant == IInv => NoMoveInvented
<1>1. ASSUME IInv, loop = "done", NEW O \in SUBSET Recorded, NEW m \in SUBSET O,
             TCheckerMove(O, m)
      PROVE  \/ UppaalMove(O, m)
             \/ \E s \in Channel, P \in Process :
                  SelfTrapped(P, s) /\ m = {<<P, Reception(s)>>}
  <2>1. TablesOK
    BY <1>1 DEF IInv, TypeOK
  <2>2. CASE VectorMove(O, m)
    <3>1. PICK v \in vectors : /\ \A P \in DOMAIN v : v[P].weak \/ <<P, v[P].event>> \in O
                               /\ m = Named(v) \cap O
      BY <2>2 DEF VectorMove, Named
    <3>2. ASSUME \A P \in DOMAIN v : ~v[P].weak
          PROVE  m = Named(v)
      BY <3>1, <3>2 DEF Named
    <3>3. CASE IsPair(v)
      <4>1. PICK s \in Channel \ broadcasts : \E PE \in emitters[s], PR \in receivers[s] :
              PE # PR /\ v = Pair(s, PE, PR)
        BY <3>3 DEF IsPair
      <4>2. PICK PE \in emitters[s], PR \in receivers[s] : PE # PR /\ v = Pair(s, PE, PR)
        BY <4>1
      <4>3. m = {<<PE, Emission(s)>>, <<PR, Reception(s)>>}
        BY <3>2, <4>2, PairNames
      <4>4. PE \in Process /\ PR \in Process
        BY <2>1 DEF TablesOK
      <4> QED  BY <4>2, <4>3, <4>4 DEF UppaalMove, HandshakeMove
    <3>4. CASE IsBroadcast(v)
      <4>1. PICK s, PE : s \in broadcasts /\ PE \in Matched(s) /\ v = Broadcast(s, PE, receivers[s])
        BY <3>4 DEF IsBroadcast
      <4>2. s \in Channel
        BY <2>1, <4>1 DEF TablesOK
      <4>3. PE \in Process /\ receivers[s] \subseteq Process
        BY <2>1, <4>1, <4>2 DEF TablesOK, Matched
      <4>4. <<PE, Emission(s)>> \in O
        BY <3>1, <4>1 DEF Broadcast, Strong
      <4>5. \A PR \in Process : <<PR, Reception(s)>> \in O => PR \in receivers[s]
        <5>1. TAKE PR \in Process
        <5>2. HAVE <<PR, Reception(s)>> \in O
        <5>3. <<PR, Reception(s)>> \in Recorded
          BY <5>2
        <5> QED  BY <2>1, <4>2, <5>3, OfferOf
      <4>6. m = ({<<PE, Emission(s)>>}
                  \cup {<<PR, Reception(s)>> : PR \in receivers[s] \ {PE}}) \cap O
        BY <3>1, <4>1, BroadcastNames
      <4>7. m = {<<PE, Emission(s)>>}
                \cup ({<<PR, Reception(s)>> : PR \in Process \ {PE}} \cap O)
        BY <4>1, <4>3, <4>4, <4>5, <4>6
      <4> QED  BY <4>1, <4>2, <4>3, <4>4, <4>7 DEF UppaalMove, BroadcastMove
    <3>5. ASSUME NEW P \in Process, NEW e, v = Blocked(P, e) PROVE FALSE
      <4>1. <<Stuck, NoSync>> \in O
        BY <3>1, <3>5, BlockedNames DEF Named
      <4>2. <<Stuck, NoSync>> \in Recorded
        BY <4>1
      <4> QED  BY <4>2, StuckNotProcess DEF Recorded
    <3>6. ~IsBlockedEmission(v) /\ ~IsBlockedReception(v) /\ ~IsBlockedCsp(v)
      BY <2>1, <3>5 DEF IsBlockedEmission, IsBlockedReception, IsBlockedCsp,
                        CspBlocked, TablesOK
    <3>7. CASE IsStrongSync(v)
      <4>1. PICK s \in Channel : CspJoined(s) # {} /\ v = StrongSync(s, CspJoined(s))
        BY <3>7 DEF IsStrongSync
      <4>2. m = {<<P, CspEvent(s)>> : P \in CspJoined(s)}
        BY <3>2, <4>1, StrongSyncNames
      <4> QED  BY <4>1, <4>2 DEF UppaalMove, CspMove
    <3> QED  BY <1>1, <3>3, <3>4, <3>6, <3>7, VectorKinds
  <2>3. CASE AsynchronousMove(O, m)
    <3>1. PICK P, e : <<P, e>> \in O /\ ~Constrained(P, e) /\ m = {<<P, e>>}
      <4>1. PICK c \in O : ~Constrained(c[1], c[2]) /\ m = {c}
        BY <2>3 DEF AsynchronousMove
      <4>2. c = <<c[1], c[2]>>
        BY <2>1, Offers
      <4> QED  BY <4>1, <4>2
    <3>2. P \in Process /\ <<P, e>> \in Recorded
      BY <3>1 DEF Recorded
    <3>3. PICK s \in Channel : \/ e = Emission(s) /\ P \in emitters[s]
                               \/ e = Reception(s) /\ P \in receivers[s]
                               \/ e = CspEvent(s) /\ P \in csp[s]
      BY <3>2 DEF Recorded
    <3>4. CASE e = Emission(s) /\ P \in emitters[s]
      <4>1. s \in broadcasts /\ P \notin Matched(s)
        BY <1>1, <3>1, <3>4, FreeEmission
      <4>2. \A PR \in Process : <<PR, Reception(s)>> \in O => PR \in receivers[s]
        <5>1. TAKE PR \in Process
        <5>2. HAVE <<PR, Reception(s)>> \in O
        <5>3. <<PR, Reception(s)>> \in Recorded
          BY <5>2
        <5> QED  BY <2>1, <5>3, OfferOf
      <4>3. m = {<<P, Emission(s)>>}
                \cup ({<<PR, Reception(s)>> : PR \in Process \ {P}} \cap O)
        BY <3>1, <3>4, <4>1, <4>2 DEF Matched
      <4> QED  BY <3>1, <3>2, <3>4, <4>1, <4>3 DEF UppaalMove, BroadcastMove
    <3>5. CASE e = Reception(s) /\ P \in receivers[s]
      BY <1>1, <3>1, <3>2, <3>5, FreeReception
    <3>6. CASE e = CspEvent(s) /\ P \in csp[s]
      <4>1. P \notin CspBlocked(s) /\ (P \in CspJoined(s) => CspJoined(s) = {P})
        BY <1>1, <3>1, <3>6, FreeCsp
      <4>2. CASE P \in CspJoined(s)
        <5>1. m = {<<Q, CspEvent(s)>> : Q \in CspJoined(s)}
          BY <3>1, <3>6, <4>1, <4>2
        <5> QED  BY <4>2, <5>1 DEF UppaalMove, CspMove
      <4>3. CASE P \notin CspJoined(s)
        BY <3>1, <3>6, <4>1, <4>3 DEF UppaalMove, CspMove
      <4> QED  BY <4>2, <4>3
    <3> QED  BY <3>3, <3>4, <3>5, <3>6
  <2> QED  BY <1>1, <2>2, <2>3 DEF TCheckerMove
<1> QED  BY <1>1 DEF NoMoveInvented

\* The translation adds no move, except the receptions of self-trapped processes.
THEOREM NothingInvented == Spec => []NoMoveInvented
BY MovesMeant, Invariance, PTL

\* No event of a process is both blocked and synchronised.
THEOREM BlockedOrSynchronised == Spec => []NotBlockedAndSynchronised
<1>1. ASSUME IInv, NEW v \in vectors, NEW w \in vectors, NEW P \in Process, NEW e,
             <<P, e>> \in Named(v), <<P, e>> \in Named(w), Stuck \in DOMAIN v,
             Stuck \notin DOMAIN w
      PROVE  FALSE
  <2>1. TablesOK
    BY <1>1 DEF IInv, TypeOK
  <2>2. ASSUME NEW Q \in Process, NEW f, v = Blocked(Q, f) PROVE P = Q /\ e = f
    BY <1>1, <2>2, BlockedNames, StuckNotProcess
  <2>3. ~IsBlockedEmission(w) /\ ~IsBlockedReception(w) /\ ~IsBlockedCsp(w)
    <3>1. \A Q, f : w # Blocked(Q, f)
      BY <1>1 DEF Blocked
    <3> QED  BY <3>1 DEF IsBlockedEmission, IsBlockedReception, IsBlockedCsp
  <2>4. ~IsPair(v) /\ ~IsBroadcast(v) /\ ~IsStrongSync(v)
    <3>1. ~IsPair(v)
      <4> SUFFICES ASSUME NEW s \in Channel, NEW PE \in emitters[s], NEW PR \in receivers[s],
                          v = Pair(s, PE, PR)
                   PROVE  FALSE
        BY DEF IsPair
      <4>1. DOMAIN v = {PE, PR}
        BY DEF Pair
      <4> QED  BY <1>1, <2>1, <4>1, StuckNotProcess DEF TablesOK
    <3>2. ~IsBroadcast(v)
      <4> SUFFICES ASSUME NEW s \in broadcasts, NEW PE \in Matched(s),
                          v = Broadcast(s, PE, receivers[s])
                   PROVE  FALSE
        BY DEF IsBroadcast
      <4>1. DOMAIN v = {PE} \cup receivers[s]
        BY DEF Broadcast
      <4>2. s \in Channel
        BY <2>1 DEF TablesOK
      <4> QED  BY <1>1, <2>1, <4>1, <4>2, StuckNotProcess DEF Matched, TablesOK
    <3>3. ~IsStrongSync(v)
      BY <1>1, <2>1, StuckNotProcess DEF IsStrongSync, StrongSync, CspJoined, TablesOK
    <3> QED  BY <3>1, <3>2, <3>3
  <2>5. CASE IsPair(w)
    <3>1. PICK s \in Channel \ broadcasts : \E PE \in emitters[s], PR \in receivers[s] :
            PE # PR /\ w = Pair(s, PE, PR)
      BY <2>5 DEF IsPair
    <3>2. PICK PE \in emitters[s], PR \in receivers[s] : PE # PR /\ w = Pair(s, PE, PR)
      BY <3>1
    <3>3. /\ PE \in Matched(s)
          /\ (P = PE /\ e = Emission(s)) \/ (P = PR /\ e = Reception(s))
      BY <1>1, <3>2, PairNames DEF Matched
    <3>4. ~IsBlockedEmission(v)
      BY <2>1, <2>2, <3>1, <3>3, EventsDiffer DEF IsBlockedEmission, TablesOK
    <3>5. ~IsBlockedReception(v)
      BY <2>1, <2>2, <3>1, <3>3, EventsDiffer DEF IsBlockedReception, TablesOK
    <3>6. ~IsBlockedCsp(v)
      BY <2>1, <2>2, <3>1, <3>3, EventsDiffer DEF IsBlockedCsp, CspBlocked, TablesOK
    <3> QED  BY <1>1, <2>4, <3>4, <3>5, <3>6, VectorKinds
  <2>6. CASE IsBroadcast(w)
    <3>1. PICK s, PE : s \in broadcasts /\ PE \in Matched(s) /\ w = Broadcast(s, PE, receivers[s])
      BY <2>6 DEF IsBroadcast
    <3>2. s \in Channel
      BY <2>1, <3>1 DEF TablesOK
    <3>3. e = Emission(s) \/ e = Reception(s)
      BY <1>1, <3>1, BroadcastNames
    <3>4. ~IsBlockedEmission(v)
      BY <2>1, <2>2, <3>1, <3>2, <3>3, EventsDiffer DEF IsBlockedEmission, TablesOK
    <3>5. ~IsBlockedReception(v)
      BY <2>1, <2>2, <3>1, <3>2, <3>3, EventsDiffer DEF IsBlockedReception, TablesOK
    <3>6. ~IsBlockedCsp(v)
      BY <2>1, <2>2, <3>2, <3>3, EventsDiffer DEF IsBlockedCsp, CspBlocked, TablesOK
    <3> QED  BY <1>1, <2>4, <3>4, <3>5, <3>6, VectorKinds
  <2>7. CASE IsStrongSync(w)
    <3>1. PICK s \in Channel : w = StrongSync(s, CspJoined(s))
      BY <2>7 DEF IsStrongSync
    <3>2. P \in CspJoined(s) /\ e = CspEvent(s)
      BY <1>1, <3>1, StrongSyncNames
    <3>3. ~IsBlockedEmission(v) /\ ~IsBlockedReception(v)
      BY <2>1, <2>2, <3>2, EventsDiffer DEF IsBlockedEmission, IsBlockedReception, TablesOK
    <3>4. ~IsBlockedCsp(v)
      BY <2>1, <2>2, <3>2, EventsDiffer DEF IsBlockedCsp, CspBlocked, CspJoined, TablesOK
    <3> QED  BY <1>1, <2>4, <3>3, <3>4, VectorKinds
  <2> QED  BY <1>1, <2>3, <2>5, <2>6, <2>7, VectorKinds
<1>2. ASSUME IInv, NEW v \in vectors, NEW w \in vectors, NEW P \in Process,
             P \in DOMAIN v, P \in DOMAIN w, Stuck \in DOMAIN v,
             v[P].event = w[P].event
      PROVE  Stuck \in DOMAIN w
  <2>1. <<P, v[P].event>> \in Named(v) /\ <<P, v[P].event>> \in Named(w)
    BY <1>2 DEF Named
  <2> QED  BY <1>1, <1>2, <2>1
<1>3. IInv => NotBlockedAndSynchronised
  BY <1>2 DEF NotBlockedAndSynchronised
<1> QED  BY <1>3, Invariance, PTL
=============================================================================
