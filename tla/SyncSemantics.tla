---------------------------- MODULE SyncSemantics ----------------------------
(***************************************************************************)
(* What the synchronisation vectors mean.  In some configuration of the    *)
(* network each process offers the events of its enabled edges; a move is  *)
(* the set of <<process, event>> pairs that take one step together.  Uppaal*)
(* has its moves by the rules of channels, TChecker by the vectors written:*)
(* at the end of the pass both must allow the same moves, whatever the     *)
(* processes offer.                                                        *)
(*                                                                         *)
(* The two tools are outside the repository; their rules are those that    *)
(* doc/translation.md and the comments of utot-translate.cc rely on.       *)
(***************************************************************************)
EXTENDS SyncVectors

\* The processes of the model do not use the label of the blocking process.
ASSUME StuckNotProcess == Stuck \notin Process

\* The labels the edges of the processes carry, according to the tables.
Recorded ==
  {c \in Process \X ChannelEvents :
     \E s \in Channel : \/ c[2] = Emission(s) /\ c[1] \in emitters[s]
                        \/ c[2] = Reception(s) /\ c[1] \in receivers[s]
                        \/ c[2] = CspEvent(s) /\ c[1] \in csp[s]}

-----------------------------------------------------------------------------
(***************************************************************************)
(* The moves of Uppaal when the processes offer O.                         *)
(***************************************************************************)
\* A channel synchronises one emitter with one receiver, another process.
HandshakeMove(O, m) ==
  \E s \in Channel \ broadcasts : \E PE, PR \in Process :
    /\ PE # PR
    /\ m = {<<PE, Emission(s)>>, <<PR, Reception(s)>>}
    /\ m \subseteq O

\* A broadcast channel has one emitter and takes along every ready receiver.
BroadcastMove(O, m) ==
  \E s \in broadcasts : \E PE \in Process :
    /\ <<PE, Emission(s)>> \in O
    /\ m = {<<PE, Emission(s)>>}
           \cup ({<<PR, Reception(s)>> : PR \in Process \ {PE}} \cap O)

\* On a CSP channel the processes whose IO section names it move together; one
\* whose IO section names only other channels moves alone.
CspMove(O, m) ==
  \E s \in Channel :
    \/ /\ CspJoined(s) # {}
       /\ m = {<<P, CspEvent(s)>> : P \in CspJoined(s)}
       /\ m \subseteq O
    \/ \E P \in csp[s] \ (CspJoined(s) \cup CspBlocked(s)) :
         m = {<<P, CspEvent(s)>>} /\ m \subseteq O

UppaalMove(O, m) == HandshakeMove(O, m) \/ BroadcastMove(O, m) \/ CspMove(O, m)

(***************************************************************************)
(* The moves of TChecker.                                                  *)
(***************************************************************************)
\* A vector fires if its strong participants are ready, and takes along those
\* of its weak participants that are.
VectorMove(O, m) ==
  \E v \in vectors :
    /\ \A P \in DOMAIN v : v[P].weak \/ <<P, v[P].event>> \in O
    /\ m = {<<P, v[P].event>> : P \in DOMAIN v} \cap O

Constrained(P, e) == \E v \in vectors : P \in DOMAIN v /\ v[P].event = e

\* An event that no vector names is asynchronous.
AsynchronousMove(O, m) ==
  \E c \in O : ~Constrained(c[1], c[2]) /\ m = {c}

TCheckerMove(O, m) == VectorMove(O, m) \/ AsynchronousMove(O, m)

-----------------------------------------------------------------------------
\* The only emitter of s receives on s too, and has been synchronised with
\* another receiver: its own receptions were erased with the others.
SelfTrapped(P, s) ==
  emitters[s] = {P} /\ P \in receivers[s] /\ receivers[s] # {P}

\* Every move of the Uppaal network is a move of its translation: the vectors
\* block nothing that may happen (s_generate_sync_vectors).
NoMoveLost ==
  loop = "done" =>
    \A O \in SUBSET Recorded : \A m \in SUBSET O :
      UppaalMove(O, m) => TCheckerMove(O, m)

\* Conversely a move of the translation is one of the Uppaal network, except
\* that a self-trapped process receives with nobody emitting.
NoMoveInvented ==
  loop = "done" =>
    \A O \in SUBSET Recorded : \A m \in SUBSET O :
      TCheckerMove(O, m) =>
        \/ UppaalMove(O, m)
        \/ \E s \in Channel, P \in Process :
             SelfTrapped(P, s) /\ m = {<<P, Reception(s)>>}

\* doc/translation.md, on channels: "a receiver needs an emitter to receive".
\* Whatever is offered, a reception moves with an emission of another process.
ReceiverNeedsEmitter ==
  loop = "done" =>
    \A O \in SUBSET Recorded : \A m \in SUBSET O :
      TCheckerMove(O, m) =>
        \A s \in Channel, P \in Process :
          <<P, Reception(s)>> \in m =>
            \E PE \in Process \ {P} : <<PE, Emission(s)>> \in m
=============================================================================
