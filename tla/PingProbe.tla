------------------------------ MODULE PingProbe ------------------------------
(***************************************************************************)
(* check_nodealive of src/network_common.c: the namenode asks whether a    *)
(* datanode is alive.  Two threads of the namenode share the global flag   *)
(* pingsuccess: the prober (sendping, then a bounded number of polls) and  *)
(* receiveping of src/ping.c, which sets the flag for any pong, whoever    *)
(* sent it and whichever ping it answers.  Pings and pongs are UDP         *)
(* datagrams: they are lost, duplicated, delayed and reordered.            *)
(*                                                                         *)
(* A definition whose name starts with Bug is the definition after it with *)
(* a plausible mistake in it; no specification uses one.                   *)
(*                                                                         *)
(* The number of the probe carried by a message, heard, answered and     *)
(* prompt are history: no guard of the program reads them.                 *)
(***************************************************************************)
EXTENDS Naturals

CONSTANTS
  Nodes,      \* the datanodes
  MaxPolls,   \* polls without an answer before the node is dead: 101 in the source
  MaxProbes   \* bound: how many probes are started

ASSUME PingAssumption == MaxPolls \in Nat \ {0} /\ MaxProbes \in Nat

VARIABLES
  up,           \* the nodes whose receiveping thread runs
  net,          \* the datagrams in flight
  pingsuccess,  \* the shared flag
  pc,           \* where the prober is
  target,       \* the node check_nodealive was called with
  counter,      \* failed polls so far
  verdict,      \* what the last check_nodealive returned
  probe,        \* history: number of the probe
  heard,        \* history: the pongs received since the probe began
  answered,     \* history: the nodes that answered a ping of this probe
  prompt        \* history: nothing of an earlier probe was in flight when this one began

prober  == <<pc, target, counter, verdict, probe, prompt>>
history == <<heard, answered>>
vars == <<up, net, pingsuccess, pc, target, counter, verdict, probe, heard, answered, prompt>>

Message == [kind : {"ping", "pong"}, node : Nodes, probe : 1..MaxProbes]

TypeOK ==
  /\ up \subseteq Nodes
  /\ net \subseteq Message
  /\ pingsuccess \in {0, 1}
  /\ pc \in {"idle", "reset", "send", "poll"}
  /\ target \in Nodes
  /\ counter \in 0..MaxPolls
  /\ verdict \in {"none", "alive", "dead"}
  /\ probe \in 0..MaxProbes
  /\ heard \subseteq Message
  /\ answered \subseteq Nodes
  /\ prompt \in BOOLEAN

Init ==
  /\ up \in SUBSET Nodes /\ net = {} /\ pingsuccess = 1
  /\ pc = "idle" /\ target \in Nodes /\ counter = 0 /\ verdict = "none"
  /\ probe = 0 /\ heard = {} /\ answered = {}
  /\ prompt = TRUE
-----------------------------------------------------------------------------
(* The prober.                                                              *)

\* fetch_datanode or getRepfetchnum calls check_nodealive.
Begin(n) ==
  /\ pc = "idle" /\ probe < MaxProbes
  /\ pc' = "reset" /\ target' = n /\ counter' = 0 /\ verdict' = "none"
  /\ probe' = probe + 1
  /\ heard' = {} /\ answered' = {}
  /\ prompt' = (net = {})
  /\ UNCHANGED <<up, net, pingsuccess>>

\* The flag of the last probe is left as it is.
BugReset ==
  /\ pc = "reset"
  /\ pc' = "send"
  /\ UNCHANGED <<up, net, pingsuccess, target, counter, verdict, probe, prompt, history>>

\* sendping resets the flag before it sends.
Reset ==
  /\ pc = "reset"
  /\ pingsuccess' = 0 /\ pc' = "send"
  /\ UNCHANGED <<up, net, target, counter, verdict, probe, prompt, history>>

\* The name cannot be resolved, or sendto fails: the caller does not look at
\* the result and polls all the same.
SendPing ==
  /\ pc = "send"
  /\ pc' = "poll"
  /\ \/ net' = net \cup {[kind |-> "ping", node |-> target, probe |-> probe]}
     \/ UNCHANGED net
  /\ UNCHANGED <<up, pingsuccess, target, counter, verdict, probe, prompt, history>>

PollHit ==
  /\ pc = "poll" /\ pingsuccess = 1
  /\ pc' = "idle" /\ verdict' = "alive"
  /\ UNCHANGED <<up, net, pingsuccess, target, counter, probe, prompt, history>>

\* One poll too many ...
BugPollMiss ==
  /\ pc = "poll" /\ pingsuccess # 1
  /\ counter' = counter + 1
  /\ IF counter' > MaxPolls THEN pc' = "idle" /\ verdict' = "dead"
                            ELSE UNCHANGED <<pc, verdict>>
  /\ UNCHANGED <<up, net, pingsuccess, target, probe, prompt, history>>

\* ... or polls that are not counted.
BugPollForever ==
  /\ pc = "poll" /\ pingsuccess # 1
  /\ UNCHANGED vars

\* usleep(1); counter++; the flag is not looked at after the last sleep.
PollMiss ==
  /\ pc = "poll" /\ pingsuccess # 1
  /\ counter' = counter + 1
  /\ IF counter' = MaxPolls THEN pc' = "idle" /\ verdict' = "dead"
                            ELSE UNCHANGED <<pc, verdict>>
  /\ UNCHANGED <<up, net, pingsuccess, target, probe, prompt, history>>

ProberStep == Reset \/ SendPing \/ PollHit \/ PollMiss
-----------------------------------------------------------------------------
(* receiveping, at the datanodes and at the namenode.                       *)

\* A datanode answers the host the ping came from, if it can be resolved.  UDP
\* may still hold a copy of the datagram it takes.
AnswerPing(m) ==
  /\ m.kind = "ping" /\ m.node \in up
  /\ \E rest \in {net, net \ {m}} :
       \/ /\ net' = rest \cup {[m EXCEPT !.kind = "pong"]}
          /\ answered' = IF m.probe = probe THEN answered \cup {m.node} ELSE answered
       \/ net' = rest /\ UNCHANGED answered
  /\ UNCHANGED <<up, pingsuccess, prober, heard>>

\* The flag counts pongs, and a second one takes it past the 1 polled for.
BugReceivePong(m) ==
  /\ m.kind = "pong"
  /\ \E rest \in {net, net \ {m}} : net' = rest
  /\ pingsuccess' = (pingsuccess + 1) % 3 /\ heard' = heard \cup {m}
  /\ UNCHANGED <<up, prober, answered>>

\* The namenode's thread: strcmp with the text of a pong is all it looks at.
ReceivePong(m) ==
  /\ m.kind = "pong"
  /\ \E rest \in {net, net \ {m}} : net' = rest
  /\ pingsuccess' = 1 /\ heard' = heard \cup {m}
  /\ UNCHANGED <<up, prober, answered>>
-----------------------------------------------------------------------------
(* The network and the nodes.                                               *)

Lose(m) ==
  /\ net' = net \ {m}
  /\ UNCHANGED <<up, pingsuccess, prober, history>>

NodeUp(n) ==
  /\ n \notin up
  /\ up' = up \cup {n}
  /\ UNCHANGED <<net, pingsuccess, prober, history>>

NodeDown(n) ==
  /\ n \in up
  /\ up' = up \ {n}
  /\ UNCHANGED <<net, pingsuccess, prober, history>>

Environment ==
  \/ \E m \in net : AnswerPing(m) \/ ReceivePong(m) \/ Lose(m)
  \/ \E n \in Nodes : NodeUp(n) \/ NodeDown(n)

Next == ProberStep \/ Environment \/ \E n \in Nodes : Begin(n)

Spec == Init /\ [][Next]_vars
\* The prober is a thread that is scheduled.
FairSpec == Spec /\ WF_vars(ProberStep)
-----------------------------------------------------------------------------
\* A node is never called alive because of a pong that came in before this
\* probe: the flag of an earlier probe does not survive into the polls.
AliveHasPong == verdict = "alive" => heard # {}

\* A pong of this very probe that arrived before a poll is seen by the poll,
\* however early it arrived.
PongNotMissed ==
  pc = "poll" /\ (\E m \in heard : m.probe = probe) => pingsuccess = 1

\* When nothing of an earlier probe was in flight as this one began, a node
\* called alive has itself answered the ping of this probe.
AliveMeansAnswered == verdict = "alive" /\ prompt => target \in answered

\* Every probe ends, whatever is lost and whoever is down.
ProbeEnds == pc # "idle" ~> pc = "idle"
=============================================================================
