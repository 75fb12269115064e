-------------------------- MODULE PingProbeProofs --------------------------
(***************************************************************************)
(* Theorems about check_nodealive for every set of nodes, every number of  *)
(* polls and every number of probes.                                       *)
(***************************************************************************)
EXTENDS PingProbe, TLAPS

\* While a probe runs it has a number, and polls left.
TypeInv ==
  /\ TypeOK
  /\ pc # "idle" => probe >= 1 /\ counter < MaxPolls

LEMMA TypeInit == Init => TypeInv
BY PingAssumption DEF Init, TypeInv, TypeOK

LEMMA TypeStep == TypeInv /\ [Next]_vars => TypeInv'
<1> SUFFICES ASSUME TypeInv, [Next]_vars
             PROVE  TypeInv'
  OBVIOUS
<1> USE PingAssumption DEF TypeInv, TypeOK, Message, prober, history
<1>0. prompt' \in BOOLEAN
  BY Zenon DEF Next, ProberStep, Environment, Begin, Reset, PollHit, PollMiss, SendPing,
               AnswerPing, ReceivePong, Lose, NodeUp, NodeDown, vars
<1>1. ASSUME NEW n \in Nodes, Begin(n) \/ NodeUp(n) \/ NodeDown(n) PROVE TypeInv'
  BY <1>0, <1>1 DEF Begin, NodeUp, NodeDown
<1>2. CASE Reset \/ PollHit \/ PollMiss
  BY <1>2 DEF Reset, PollHit, PollMiss
<1>3. CASE SendPing
  <2>1. [kind |-> "ping", node |-> target, probe |-> probe] \in Message
    BY <1>3 DEF SendPing
  <2> QED
    BY <1>3, <2>1 DEF SendPing
<1>4. ASSUME NEW m \in net, AnswerPing(m) \/ ReceivePong(m) \/ Lose(m) PROVE TypeInv'
  <2>1. [m EXCEPT !.kind = "pong"] \in Message
    OBVIOUS
  <2> QED
    BY <1>4, <2>1 DEF AnswerPing, ReceivePong, Lose
<1>5. CASE UNCHANGED vars
  BY <1>5 DEF vars
<1> QED
  BY <1>1, <1>2, <1>3, <1>4, <1>5 DEF Next, ProberStep, Environment

\* Types of the probe, under any delay and loss of datagrams.
THEOREM ProbeTypeCorrect == Spec => []TypeOK
<1>1. TypeInv => TypeOK
  BY DEF TypeInv
<1> QED
  BY <1>1, TypeInit, TypeStep, PTL DEF Spec
-----------------------------------------------------------------------------
(* The flag and the pongs.                                                  *)

\* The pongs of a probe come after its ping, and none of them comes before
\* the flag has been reset.
PongInv ==
  /\ \A m \in net \cup heard : m.probe <= probe
  /\ pc \in {"reset", "send"} => \A m \in net \cup heard : m.probe < probe
  /\ pc \in {"send", "poll"} /\ pingsuccess = 1 => heard # {}
  /\ AliveHasPong
  /\ PongNotMissed

LEMMA PongStep == TypeInv /\ PongInv /\ [Next]_vars => PongInv'
<1> SUFFICES ASSUME TypeInv, PongInv, [Next]_vars
             PROVE  PongInv'
  OBVIOUS
<1>0. probe \in Nat /\ \A m \in net \cup heard : m.probe \in Nat
  BY DEF TypeInv, TypeOK, Message
<1> USE DEF PongInv, AliveHasPong, PongNotMissed, prober, history
<1>1. ASSUME NEW n \in Nodes, Begin(n) \/ NodeUp(n) \/ NodeDown(n) PROVE PongInv'
  BY <1>0, <1>1 DEF Begin, NodeUp, NodeDown
<1>2. CASE Reset \/ PollHit \/ PollMiss
  BY <1>2 DEF Reset, PollHit, PollMiss
<1>3. CASE SendPing
  BY <1>0, <1>3 DEF SendPing
<1>4. ASSUME NEW m \in net, AnswerPing(m) PROVE PongInv'
  <2>1. [m EXCEPT !.kind = "pong"].probe = m.probe
    BY DEF TypeInv, TypeOK, Message
  <2> QED
    BY <1>0, <1>4, <2>1 DEF AnswerPing
<1>5. ASSUME NEW m \in net, ReceivePong(m) \/ Lose(m) PROVE PongInv'
  BY <1>0, <1>5 DEF ReceivePong, Lose
<1>6. CASE UNCHANGED vars
  BY <1>6 DEF vars
<1> QED
  BY <1>1, <1>2, <1>3, <1>4, <1>5, <1>6 DEF Next, ProberStep, Environment

LEMMA PongInvHolds == Spec => []PongInv
<1>1. Init => PongInv
  BY DEF Init, PongInv, AliveHasPong, PongNotMissed
<1> QED
  BY <1>1, TypeInit, TypeStep, PongStep, PTL DEF Spec

\* Whatever the network does, a node is called alive only on a pong that came
\* in since this probe began: an old flag is never believed.
THEOREM AliveHasPongHolds == Spec => []AliveHasPong
<1>1. PongInv => AliveHasPong
  BY DEF PongInv
<1> QED
  BY <1>1, PongInvHolds, PTL

\* The reset in sendping never wipes out a pong of the ping it precedes.
THEOREM PongNotMissedHolds == Spec => []PongNotMissed
<1>1. PongInv => PongNotMissed
  BY DEF PongInv
<1> QED
  BY <1>1, PongInvHolds, PTL
-----------------------------------------------------------------------------
(* Probes that do not overlap.                                              *)

\* Everything in flight belongs to the probe that runs.
InFlight ==
  /\ \A m \in net : /\ m.probe = probe /\ m.node = target
                    /\ m.kind = "pong" => m.node \in answered
  /\ pc \in {"send", "poll"} /\ pingsuccess = 1 => target \in answered
  /\ verdict = "alive" => target \in answered

PromptInv == prompt => InFlight

LEMMA InFlightStep ==
  TypeInv /\ InFlight /\ (ProberStep \/ Environment \/ UNCHANGED vars)
    => InFlight'
<1> SUFFICES ASSUME TypeInv, InFlight, ProberStep \/ Environment \/ UNCHANGED vars
             PROVE  InFlight'
  OBVIOUS
<1> USE DEF InFlight, prober, history
<1>1. ASSUME NEW n \in Nodes, NodeUp(n) \/ NodeDown(n) PROVE InFlight'
  BY <1>1 DEF NodeUp, NodeDown
<1>2. CASE Reset \/ PollHit \/ PollMiss \/ SendPing
  BY <1>2 DEF Reset, PollHit, PollMiss, SendPing
<1>3. ASSUME NEW m \in net, AnswerPing(m) PROVE InFlight'
  <2>1. /\ [m EXCEPT !.kind = "pong"].probe = m.probe
        /\ [m EXCEPT !.kind = "pong"].node = m.node
    BY DEF TypeInv, TypeOK, Message
  <2>2. answered \subseteq answered' /\ \A x \in net' : x \in net \/ m.node \in answered'
    BY <1>3 DEF AnswerPing
  <2> QED
    BY <1>3, <2>1, <2>2 DEF AnswerPing
<1>4. ASSUME NEW m \in net, ReceivePong(m) \/ Lose(m) PROVE InFlight'
  BY <1>4 DEF ReceivePong, Lose
<1>5. CASE UNCHANGED vars
  BY <1>5 DEF vars
<1> QED
  BY <1>1, <1>2, <1>3, <1>4, <1>5 DEF ProberStep, Environment

LEMMA PromptStep == TypeInv /\ PromptInv /\ [Next]_vars => PromptInv'
<1> SUFFICES ASSUME TypeInv, PromptInv, [Next]_vars
             PROVE  PromptInv'
  OBVIOUS
<1>1. CASE ProberStep \/ Environment \/ UNCHANGED vars
  <2>1. UNCHANGED prompt
    BY <1>1 DEF ProberStep, Environment, Reset, PollHit, PollMiss, SendPing, AnswerPing,
                ReceivePong, Lose, NodeUp, NodeDown, prober, vars
  <2> QED
    BY ONLY <1>1, <2>1, TypeInv, PromptInv, InFlightStep, Zenon DEF PromptInv
<1>2. ASSUME NEW n \in Nodes, Begin(n) PROVE PromptInv'
  <2>1. prompt' => net = {}
    BY <1>2 DEF Begin
  <2>2. net = {} => InFlight'
    BY <1>2 DEF Begin, InFlight
  <2> QED
    BY <2>1, <2>2 DEF PromptInv
<1> QED
  BY <1>1, <1>2 DEF Next

\* When nothing of an earlier probe was in flight as it began, check_nodealive
\* is right when it says alive: the node has answered this probe.
THEOREM AliveMeansAnsweredHolds == Spec => []AliveMeansAnswered
<1>1. Init => PromptInv
  BY DEF Init, PromptInv, InFlight
<1>2. PromptInv => AliveMeansAnswered
  BY DEF PromptInv, InFlight, AliveMeansAnswered
<1> QED
  BY <1>1, <1>2, TypeInit, TypeStep, PromptStep, PTL DEF Spec
=============================================================================
