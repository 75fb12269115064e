-------------------------- MODULE ClientCallsProofs --------------------------
(***************************************************************************)
(* Theorems about the calls of the client, for any number of calls and     *)
(* polls and whatever the network does.                                    *)
(***************************************************************************)
EXTENDS ClientCalls, FiniteSetTheorems, TLAPS

\* What the threads can rely on of the calls they belong to.
CallType ==
  /\ \A n \in Calls : rpc[n] # "none" <=> n <= calls
  /\ \A n \in 1..calls : op[n] \in Ops
  /\ calls > 0 => command \in [name : Buffers, freed : BOOLEAN]
  /\ \A c \in Callers : cpc[c] # "idle" => cur[c] \in 1..calls
  /\ \A c \in Callers : cpc[c] \in {"reset", "send", "poll"} => polls[c] < MaxPolls

TypeInv == TypeOK /\ CallType
-----------------------------------------------------------------------------
(* Types, for any number of callers.                                        *)

LEMMA TypeInit == Init => TypeInv
BY ClientAssumption
   DEF Init, TypeInv, TypeOK, CallType, Calls, Buffers, Empty, Spent

\* A caller's free is of a string that was set.
LEMMA FreeType ==
  ASSUME command \in [name : Buffers, freed : BOOLEAN], alive \in BOOLEAN, Free
  PROVE  /\ command' \in [name : Buffers, freed : BOOLEAN] /\ alive' \in BOOLEAN
         /\ command'.name = command.name
         /\ (~command.freed => alive')
BY DEF Free

LEMMA GiveUpType ==
  ASSUME TypeInv, NEW c \in Callers, cpc[c] \in {"send", "poll"}, GiveUp(c),
         polls' \in [Callers -> 0..MaxPolls],
         \A d \in Callers \ {c} : polls'[d] = polls[d]
  PROVE  TypeInv'
<1> USE ClientAssumption
<1>1. cur[c] \in 1..calls /\ calls > 0 /\ cur[c] \in Calls
  BY DEF TypeInv, TypeOK, CallType, Calls
<1>2. command' \in [name : Buffers, freed : BOOLEAN] /\ alive' \in BOOLEAN
  BY <1>1, FreeType DEF GiveUp, TypeInv, TypeOK, CallType
<1>3. TypeOK'
  BY <1>1, <1>2 DEF GiveUp, TypeInv, TypeOK, receiver, Calls, Buffers, Empty, Spent
<1>4. CallType'
  BY <1>2 DEF GiveUp, TypeInv, TypeOK, CallType, receiver, Calls, Buffers
<1> QED
  BY <1>3, <1>4 DEF TypeInv

LEMMA CallerType ==
  ASSUME TypeInv, NEW c \in Callers, CallerStep(c)
  PROVE  TypeInv'
<1> USE ClientAssumption
<1>1. CASE Reset(c) \/ SendRequest(c)
  <2>1. cur[c] \in Calls
    BY <1>1 DEF Reset, SendRequest, TypeInv, TypeOK, CallType, Calls
  <2>2. TypeOK'
    BY <1>1, <2>1 DEF Reset, SendRequest, TypeInv, TypeOK, receiver, Calls, Buffers, Empty, Spent
  <2>3. CallType'
    BY <1>1 DEF Reset, SendRequest, TypeInv, TypeOK, CallType, receiver, Calls, Buffers
  <2> QED
    BY <2>2, <2>3 DEF TypeInv
<1>2. CASE SendFails(c)
  BY <1>2, GiveUpType DEF SendFails, TypeInv, TypeOK
<1>3. CASE PollMiss(c)
  <2>1. /\ cpc[c] = "poll" /\ polls[c] \in 0..MaxPolls /\ polls[c] < MaxPolls
        /\ polls' = [polls EXCEPT ![c] = polls[c] + 1]
    BY <1>3 DEF PollMiss, TypeInv, TypeOK, CallType
  <2>2. /\ polls' \in [Callers -> 0..MaxPolls] /\ polls'[c] = polls[c] + 1
        /\ \A d \in Callers \ {c} : polls'[d] = polls[d]
    BY <2>1 DEF TypeInv, TypeOK
  <2>3. CASE polls'[c] = MaxPolls
    BY <1>3, <2>1, <2>2, <2>3, GiveUpType DEF PollMiss
  <2>4. CASE polls'[c] # MaxPolls
    <3>1. UNCHANGED <<alive, calls, op, cpc, cur, command, flag, buf, receiver, req, net, got,
                      failed>>
      BY <1>3, <2>4 DEF PollMiss
    <3>2. polls'[c] < MaxPolls
      BY <2>1, <2>2, <2>4
    <3>3. TypeOK'
      BY <2>2, <3>1 DEF TypeInv, TypeOK, receiver, Calls, Buffers, Empty, Spent
    <3>4. CallType'
      BY <2>2, <3>1, <3>2 DEF TypeInv, TypeOK, CallType, receiver, Calls, Buffers
    <3> QED
      BY <3>3, <3>4 DEF TypeInv
  <2> QED
    BY <2>3, <2>4
<1>4. CASE PollHit(c) \/ Join(c)
  <2>1. /\ cpc' = [cpc EXCEPT ![c] = "join"] \/ cpc' = [cpc EXCEPT ![c] = "parse"]
        /\ cpc[c] \in {"poll", "join"} /\ (Free \/ UNCHANGED <<alive, command>>)
        /\ UNCHANGED <<calls, op, cur, polls, flag, buf, receiver, req, net, got, failed>>
    BY <1>4 DEF PollHit, Join
  <2>2. command' \in [name : Buffers, freed : BOOLEAN] /\ alive' \in BOOLEAN
    BY <2>1, FreeType DEF TypeInv, TypeOK, CallType
  <2>3. TypeOK'
    BY <2>1, <2>2 DEF TypeInv, TypeOK, receiver, Calls, Buffers, Empty, Spent
  <2>4. CallType'
    BY <2>1, <2>2 DEF TypeInv, TypeOK, CallType, receiver, Calls, Buffers
  <2> QED
    BY <2>3, <2>4 DEF TypeInv
<1>5. CASE Parse(c)
  <2> DEFINE b == Op(c).buffer
  <2>1. cur[c] \in Calls /\ op[cur[c]] \in Ops
    BY <1>5 DEF Parse, TypeInv, TypeOK, CallType, Calls
  <2>2. b \in Buffers /\ buf[b] \in Empty..Spent
    BY <2>1 DEF Buffers, Op, TypeInv, TypeOK
  <2>3. got' = [got EXCEPT ![cur[c]] = buf[b]] /\ buf' = [buf EXCEPT ![b] = Spent]
    BY <1>5 DEF Parse
  <2> HIDE DEF b
  <2>4. got' \in [Calls -> Empty..Spent] /\ buf' \in [Buffers -> Empty..Spent]
    BY <2>1, <2>2, <2>3 DEF TypeInv, TypeOK, Empty, Spent
  <2>5. TypeOK'
    BY <1>5, <2>4 DEF Parse, TypeInv, TypeOK, receiver, Calls, Buffers, Empty, Spent
  <2>6. CallType'
    BY <1>5 DEF Parse, TypeInv, TypeOK, CallType, receiver, Calls, Buffers
  <2> QED
    BY <2>5, <2>6 DEF TypeInv
<1>6. CASE ParseFails(c)
  <2>1. Die
    BY <1>6 DEF ParseFails
  <2> QED
    BY <2>1 DEF Die, TypeInv, TypeOK, CallType, caller, receiver, Calls, Buffers, Empty, Spent
<1> QED
  BY <1>1, <1>2, <1>3, <1>4, <1>5, <1>6 DEF CallerStep

LEMMA CallTypeStep ==
  ASSUME TypeInv, NEW c \in Callers, NEW o \in Ops, Call(c, o)
  PROVE  TypeInv'
<1> USE ClientAssumption
<1>1. /\ calls' = calls + 1 /\ calls' \in Calls /\ calls \in 0..MaxCalls
      /\ o.command \in Buffers
  BY DEF Call, TypeInv, TypeOK, Calls, Buffers
<1>2. /\ op' = [op EXCEPT ![calls'] = o] /\ rpc' = [rpc EXCEPT ![calls'] = "new"]
      /\ cur' = [cur EXCEPT ![c] = calls'] /\ polls' = [polls EXCEPT ![c] = 0]
      /\ command' = [name |-> o.command, freed |-> FALSE]
      /\ cpc' = [cpc EXCEPT ![c] = "reset"] \/ cpc' = [cpc EXCEPT ![c] = "send"]
      /\ UNCHANGED <<alive, flag, buf, rbuf, port, req, net, got, failed>>
  BY DEF Call
<1>3. TypeOK'
  <2>1. op' \in [Calls -> Ops \cup {NULL}] /\ cur' \in [Callers -> 0..MaxCalls]
    BY <1>1, <1>2 DEF TypeInv, TypeOK, Calls
  <2>2. polls' \in [Callers -> 0..MaxPolls] /\ command' \in [name : Buffers, freed : BOOLEAN]
    BY <1>1, <1>2 DEF TypeInv, TypeOK
  <2>3. /\ rpc' \in [Calls -> {"none", "new", "bind", "choose", "wait", "close", "flag", "done"}]
        /\ cpc' \in [Callers -> {"idle", "reset", "send", "poll", "join", "parse"}]
    BY <1>1, <1>2 DEF TypeInv, TypeOK
  <2> QED
    BY <1>1, <1>2, <2>1, <2>2, <2>3 DEF TypeInv, TypeOK
<1>4. CallType'
  BY <1>1, <1>2 DEF TypeInv, TypeOK, CallType, Calls
<1> QED
  BY <1>3, <1>4 DEF TypeInv

LEMMA ReceiverType ==
  ASSUME TypeInv, NEW n \in Calls,
         ReceiverStep(n) \/ \E r \in net : Receive(n, r)
  PROVE  TypeInv'
<1> USE ClientAssumption
<1>1. CASE ReceiverStart(n) \/ Bind(n) \/ Close(n) \/ RaiseFlag(n)
  <2>1. /\ rpc' \in [Calls -> {"none", "new", "bind", "choose", "wait", "close", "flag", "done"}]
        /\ flag' \in BOOLEAN /\ port' \in 0..MaxCalls
        /\ UNCHANGED <<alive, caller, command, buf, rbuf, req, net>>
    <3>1. CASE ReceiverStart(n)
      BY <3>1 DEF ReceiverStart, TypeInv, TypeOK
    <3>2. CASE Bind(n)
      BY <3>2 DEF Bind, TypeInv, TypeOK, Calls
    <3>3. CASE Close(n)
      BY <3>3 DEF Close, TypeInv, TypeOK
    <3>4. CASE RaiseFlag(n)
      BY <3>4 DEF RaiseFlag, TypeInv, TypeOK
    <3> QED
      BY <1>1, <3>1, <3>2, <3>3, <3>4
  <2>3. TypeOK'
    BY <2>1 DEF TypeInv, TypeOK, caller, Calls, Buffers
  <2>2. CallType'
    BY <1>1 DEF ReceiverStart, Bind, Close, RaiseFlag, TypeInv, TypeOK, CallType, caller, Calls,
                Buffers
  <2> QED
    BY <2>2, <2>3 DEF TypeInv
<1>2. CASE ChooseBuffer(n)
  <2>1. command.name \in Buffers
    BY <1>2 DEF ChooseBuffer, TypeInv, TypeOK, CallType, Calls
  <2>2. /\ rpc' = [rpc EXCEPT ![n] = "close"] \/ rpc' = [rpc EXCEPT ![n] = "wait"]
        /\ rpc[n] = "choose"
        /\ UNCHANGED <<alive, caller, command, flag, port, req, net>>
    BY <1>2 DEF ChooseBuffer
  <2>3. rbuf' \in [Calls -> Buffers \cup {NULL}]
    BY <1>2, <2>1 DEF ChooseBuffer, Chosen, TypeInv, TypeOK
  <2>4. buf' \in [Buffers -> Empty..Spent]
    BY <1>2 DEF ChooseBuffer, TypeInv, TypeOK, Empty, Spent
  <2>5. TypeOK'
    BY <2>2, <2>3, <2>4 DEF TypeInv, TypeOK, caller, Calls
  <2>6. CallType'
    BY <2>2 DEF TypeInv, TypeOK, CallType, caller, Calls
  <2> QED
    BY <2>5, <2>6 DEF TypeInv
<1>3. CASE Overflow(n)
  BY <1>3 DEF Overflow, Die, TypeInv, TypeOK, CallType, caller, receiver, Calls, Buffers, Empty,
              Spent
<1>4. ASSUME NEW r \in net, Receive(n, r)
      PROVE  TypeInv'
  <2>1. r \in Empty..Spent /\ net' \subseteq Calls
    BY <1>4 DEF Receive, Left, TypeInv, TypeOK, Calls, Empty, Spent
  <2>2. buf' \in [Buffers -> Empty..Spent]
    BY <1>4, <2>1 DEF Receive, TypeInv, TypeOK
  <2>3. TypeOK'
    BY <1>4, <2>1, <2>2 DEF Receive, TypeInv, TypeOK, caller, Calls
  <2>4. CallType'
    BY <1>4 DEF Receive, TypeInv, TypeOK, CallType, caller, Calls
  <2> QED
    BY <2>3, <2>4 DEF TypeInv
<1> QED
  BY <1>1, <1>2, <1>3, <1>4 DEF ReceiverStep

LEMMA TypeStep == TypeInv /\ [Next]_vars => TypeInv'
<1> SUFFICES ASSUME TypeInv, [Next]_vars
             PROVE  TypeInv'
  OBVIOUS
<1>1. CASE Network
  <2>1. /\ req' \subseteq Calls /\ net' \subseteq Calls
        /\ UNCHANGED <<alive, caller, command, flag, buf, receiver>>
    BY <1>1 DEF Network, Answer, LoseRequest, LoseReply, Left, TypeInv, TypeOK
  <2> QED
    BY <2>1 DEF TypeInv, TypeOK, CallType, caller, receiver
<1>2. CASE UNCHANGED vars
  BY <1>2 DEF vars, TypeInv, TypeOK, CallType
<1> QED
  BY <1>1, <1>2, CallerType, CallTypeStep, ReceiverType DEF Next

\* Type correctness of the calls of any number of threads: among it that a
\* call gives up after MaxPolls polls, that no receiver runs without a call,
\* and that COMMAND_NAME points to a name whenever anybody reads it.
THEOREM CallsTypeCorrect == Spec => []TypeOK
<1>1. TypeInv => TypeOK
  BY DEF TypeInv
<1> QED
  BY <1>1, TypeInit, TypeStep, PTL DEF Spec
-----------------------------------------------------------------------------
(* One caller, and no operation that leaves the flag as it is.              *)

OneCaller == \E c \in Callers : Callers = {c}
NoStatfs == xmp_statfs \notin Ops

\* Every other operation lowers the flag and parses the buffer it has filled.
LEMMA OpsReset ==
  ASSUME NoStatfs, NEW o \in Ops
  PROVE  o.resets /\ o.buffer = o.command
<1>1. o \in AllOps \ {xmp_statfs}
  BY ClientAssumption DEF NoStatfs
<1>2. CASE \E name : o = Operation(name)
  BY <1>2 DEF Operation
<1>3. CASE o = my_getattr
  BY <1>3 DEF my_getattr, Operation
<1>4. CASE o = xmp_readdir
  BY <1>4 DEF xmp_readdir, Operation
<1>5. CASE o = xmp_mkdir
  BY <1>5 DEF xmp_mkdir, Operation
<1> QED
  BY <1>1, <1>2, <1>3, <1>4, <1>5
     DEF AllOps, xmp_access, xmp_mknod, xmp_unlink, xmp_rmdir, xmp_rename, xmp_chmod,
         xmp_truncate, xmp_open, xmp_read, xmp_write

\* The receivers that have not ended.
Live == {n \in 1..calls : rpc[n] # "done"}

\* The caller waits for a receiver that has not ended since it lowered the flag.
Waits(c) == cpc[c] = "reset" \/ (cpc[c] \in {"send", "poll"} /\ ~flag)

LeakInv(c) ==
  /\ failed \subseteq 1..calls
  /\ cpc[c] # "idle" => cur[c] = calls /\ calls \notin failed
  /\ Cardinality(Live) <= Cardinality(failed) + (IF Waits(c) THEN 1 ELSE 0)

LEMMA LiveFinite ==
  ASSUME TypeInv, failed \subseteq 1..calls
  PROVE  /\ IsFiniteSet(Live) /\ Cardinality(Live) \in Nat
         /\ IsFiniteSet(failed) /\ Cardinality(failed) \in Nat
<1>1. IsFiniteSet(1..calls)
  BY FS_Interval DEF TypeInv, TypeOK
<1> QED
  BY <1>1, FS_Subset, FS_CardinalityType DEF Live

\* Steps after which the same receivers run and the same calls have failed.
LEMMA LeakStable ==
  ASSUME NEW c, LeakInv(c), UNCHANGED <<calls, failed>>, Live' = Live,
         TypeInv, cpc'[c] # "idle" => cpc[c] # "idle" /\ cur'[c] = cur[c],
         Waits(c) => Waits(c)'
  PROVE  LeakInv(c)'
<1>1. Cardinality(Live) \in Nat /\ Cardinality(failed) \in Nat
  BY LiveFinite DEF LeakInv
<1> QED
  BY <1>1 DEF LeakInv

LEMMA LeakStep ==
  ASSUME NoStatfs, NEW c \in Callers, Callers = {c}, TypeInv, LeakInv(c), [Next]_vars
  PROVE  LeakInv(c)'
<1>0. /\ IsFiniteSet(Live) /\ Cardinality(Live) \in Nat
      /\ IsFiniteSet(failed) /\ Cardinality(failed) \in Nat
  BY LiveFinite DEF LeakInv
<1>1. ASSUME NEW o \in Ops, Call(c, o) PROVE LeakInv(c)'
  <2>1. /\ calls' = calls + 1 /\ calls \in 0..MaxCalls /\ calls' \in Calls /\ cpc[c] = "idle"
    BY <1>1, ClientAssumption DEF Call, TypeInv, TypeOK, Calls
  <2>2. /\ rpc' = [rpc EXCEPT ![calls + 1] = "new"] /\ cur' = [cur EXCEPT ![c] = calls + 1]
        /\ cpc' = [cpc EXCEPT ![c] = "reset"] /\ failed' = failed
    BY <1>1, <2>1, OpsReset DEF Call
  <2>3. Live' = Live \cup {calls + 1}
    <3>1. rpc'[calls + 1] = "new" /\ \A n \in 1..calls : rpc'[n] = rpc[n]
      BY <2>1, <2>2 DEF TypeInv, TypeOK, Calls
    <3>2. Live' = {n \in 1..(calls + 1) : rpc'[n] # "done"}
      BY <2>1 DEF Live
    <3> QED
      BY <2>1, <3>1, <3>2 DEF Live
  <2>4. Cardinality(Live') = Cardinality(Live) + 1
    <3>1. calls + 1 \notin Live
      BY <2>1 DEF Live
    <3> QED
      BY <1>0, <2>3, <3>1, FS_AddElement
  <2>5. Waits(c)' /\ ~Waits(c)
    BY <2>1, <2>2 DEF Waits, TypeInv, TypeOK
  <2> QED
    BY <1>0, <2>1, <2>2, <2>4, <2>5 DEF LeakInv, TypeInv, TypeOK
<1>2. CASE cpc[c] \in {"send", "poll"} /\ GiveUp(c)
  <2>1. /\ UNCHANGED <<calls, rpc>> /\ failed' = failed \cup {calls} /\ calls \notin failed
        /\ calls \in 1..calls /\ cpc' = [cpc EXCEPT ![c] = "idle"]
    BY <1>2 DEF GiveUp, receiver, LeakInv, TypeInv, CallType
  <2>2. Cardinality(failed') = Cardinality(failed) + 1
    BY <1>0, <2>1, FS_AddElement
  <2>3. Live' = Live /\ ~Waits(c)' /\ cpc'[c] = "idle"
    BY <2>1 DEF Live, Waits, TypeInv, TypeOK
  <2>4. Cardinality(Live) <= Cardinality(failed) + 1 /\ failed \subseteq 1..calls
    BY <1>0 DEF LeakInv
  <2>5. Cardinality(Live') <= Cardinality(failed') + 0
    BY <1>0, <2>2, <2>3, <2>4
  <2> QED
    BY <2>1, <2>3, <2>4, <2>5 DEF LeakInv
<1>3. CASE SendFails(c) \/ (PollMiss(c) /\ polls'[c] = MaxPolls)
  BY <1>2, <1>3 DEF SendFails, PollMiss
<1>4. CASE PollMiss(c) /\ polls'[c] # MaxPolls
  <2>1. UNCHANGED <<calls, cur, cpc, flag, rpc, failed>>
    BY <1>4 DEF PollMiss, receiver
  <2> QED
    BY <2>1, LeakStable DEF Live, Waits
<1>5. CASE Reset(c) \/ SendRequest(c)
  <2>1. /\ UNCHANGED <<calls, cur, rpc, failed>> /\ cpc[c] \in {"reset", "send"}
        /\ cpc'[c] \in {"send", "poll"} /\ (cpc[c] = "reset" => ~flag')
        /\ (cpc[c] = "send" => flag' = flag)
    BY <1>5 DEF Reset, SendRequest, receiver, TypeInv, TypeOK
  <2> QED
    BY <2>1, LeakStable DEF Live, Waits
<1>6. CASE PollHit(c) \/ Join(c) \/ Parse(c)
  <2>1. /\ UNCHANGED <<calls, cur, rpc, failed>> /\ ~Waits(c) /\ cpc[c] # "idle"
    BY <1>6 DEF PollHit, Join, Parse, receiver, Waits
  <2> QED
    BY <2>1, LeakStable DEF Live
<1>7. CASE Die \/ Network \/ UNCHANGED vars
  <2>1. UNCHANGED <<calls, cur, cpc, flag, rpc, failed>>
    BY <1>7 DEF Die, Network, Answer, LoseRequest, LoseReply, vars, caller, receiver
  <2> QED
    BY <2>1, LeakStable DEF Live, Waits
<1>8. ASSUME NEW n \in Calls, \/ ReceiverStart(n) \/ Bind(n) \/ ChooseBuffer(n) \/ Close(n)
                              \/ \E r \in net : Receive(n, r)
      PROVE  LeakInv(c)'
  <2>1. /\ UNCHANGED <<calls, cur, cpc, failed>> /\ (flag' = flag \/ ~flag') /\ rpc[n] # "done"
    BY <1>8 DEF ReceiverStart, Bind, ChooseBuffer, Close, Receive, caller
  <2>2. \E l : l # "done" /\ rpc' = [rpc EXCEPT ![n] = l]
    BY <1>8 DEF ReceiverStart, Bind, ChooseBuffer, Close, Receive
  <2>3. Live' = Live
    BY <2>1, <2>2 DEF Live, TypeInv, TypeOK
  <2> QED
    BY <2>1, <2>3, LeakStable DEF Waits
<1>9. ASSUME NEW n \in Calls, RaiseFlag(n) PROVE LeakInv(c)'
  <2>1. /\ UNCHANGED <<calls, cur, cpc, failed>> /\ flag' /\ rpc[n] = "flag"
        /\ rpc' = [rpc EXCEPT ![n] = "done"]
    BY <1>9 DEF RaiseFlag, caller
  <2>2. n \in Live /\ Live' = Live \ {n}
    BY <2>1 DEF Live, Calls, TypeInv, TypeOK, CallType
  <2>3. Cardinality(Live') = Cardinality(Live) - 1
    BY <1>0, <2>2, FS_RemoveElement
  <2>4. Waits(c)' => Waits(c)
    BY <2>1 DEF Waits
  <2> QED
    BY <1>0, <2>1, <2>3, <2>4 DEF LeakInv
<1> QED
  BY <1>1, <1>3, <1>4, <1>5, <1>6, <1>7, <1>8, <1>9
     DEF Next, CallerStep, ParseFails, ReceiverStep, Overflow

\* Receivers that outlive their calls do not pile up faster than calls give up,
\* whatever the network loses, delays or delivers twice, if one thread calls and
\* no operation leaves clientreceive_success as it is; pthread_kill(thread, 0)
\* ends none of them.
THEOREM LeaksAreBounded ==
  ASSUME OneCaller, NoStatfs
  PROVE  Spec => []LeaksBounded
<1>1. PICK c \in Callers : Callers = {c}
  BY DEF OneCaller
<1>2. Init => LeakInv(c)
  <2> SUFFICES ASSUME Init PROVE LeakInv(c)
    OBVIOUS
  <2>1. Live = {} /\ failed = {} /\ cpc[c] = "idle"
    BY DEF Init, Live
  <2> QED
    BY <2>1, FS_EmptySet DEF LeakInv
<1>3. TypeInv /\ LeakInv(c) /\ [Next]_vars => LeakInv(c)'
  BY <1>1, LeakStep
<1>4. TypeInv /\ LeakInv(c) => LeaksBounded
  <2> SUFFICES ASSUME TypeInv, LeakInv(c) PROVE LeaksBounded
    OBVIOUS
  <2> DEFINE active == {d \in Callers : cpc[d] # "idle"}
  <2>1. active = {} \/ active = {c}
    BY <1>1
  <2>2. Waits(c) => active = {c}
    BY <1>1 DEF Waits
  <2>3. Cardinality(active) = 0 \/ Cardinality(active) = 1
    BY <2>1, FS_EmptySet, FS_Singleton
  <2>4. Waits(c) => Cardinality(active) = 1
    BY <2>2, FS_Singleton
  <2>5. Cardinality(Live) \in Nat /\ Cardinality(failed) \in Nat
    BY LiveFinite DEF LeakInv
  <2> HIDE DEF active
  <2>6. Cardinality(Live) <= Cardinality(failed) + Cardinality(active)
    BY <2>3, <2>4, <2>5 DEF LeakInv
  <2> QED
    BY <2>6 DEF LeaksBounded, Live, active
<1> QED
  BY <1>2, <1>3, <1>4, TypeInit, TypeStep, PTL DEF Spec
-----------------------------------------------------------------------------
(* One caller whose operations neither leave the flag nor overrun a buffer, *)
(* over a network that delivers no datagram twice.                          *)

NoMkdir == xmp_mkdir \notin Ops

\* What is left are operations that clear one buffer at most.
LEMMA OpsFit ==
  ASSUME NoMkdir, NEW o \in Ops
  PROVE  o.command \notin Overrun
<1>1. o \in AllOps \ {xmp_mkdir}
  BY ClientAssumption DEF NoMkdir
<1>2. CASE o = my_getattr
  BY <1>2 DEF my_getattr, Operation, Overrun
<1>3. CASE o = xmp_readdir
  BY <1>3 DEF xmp_readdir, Operation, Overrun
<1>4. CASE o = xmp_statfs
  BY <1>4 DEF xmp_statfs, Operation, Overrun
<1>5. CASE \E name \in {"access", "mknod", "unlink", "rmdir", "rename", "chmod", "truncate",
                       "open", "read", "write"} : o = Operation(name)
  BY <1>5 DEF Operation, Overrun
<1> QED
  BY <1>1, <1>2, <1>3, <1>4, <1>5
     DEF AllOps, xmp_access, xmp_mknod, xmp_unlink, xmp_rmdir, xmp_rename, xmp_chmod,
         xmp_truncate, xmp_open, xmp_read, xmp_write

\* Until a call has given up all calls before the current one are over, ...
PastInv(c) ==
  /\ \A n \in 1..calls : n # calls \/ cpc[c] \in {"idle", "join", "parse"} => rpc[n] = "done"
  /\ \A n \in Calls : got[n] \in {Empty, n}
  /\ cpc[c] # "idle" => cur[c] = calls
  /\ port = 0 \/ (port = calls /\ rpc[calls] \in {"choose", "wait", "close"})

\* ... the request or the reply of the current one is on its way or lost, or the
\* reply is in its buffer, ...
Over == {"close", "flag", "done"}

ReplyInv(c) ==
  /\ req \cup net \subseteq {calls} /\ req \cap net = {}
  /\ cpc[c] \in {"idle", "reset", "send"} => req = {} /\ net = {}
  /\ calls > 0 /\ rpc[calls] \in Over => req = {} /\ net = {}
  /\ cpc[c] \in {"reset", "send"} => rpc[calls] \notin Over
  /\ cpc[c] # "idle" /\ rpc[calls] \in Over => buf[op[calls].buffer] = calls
  /\ cpc[c] # "idle" /\ rpc[calls] = "wait" => rbuf[calls] = op[calls].buffer

\* ... and the flag is up only when the receiver has ended, which reads
\* COMMAND_NAME before it is freed.
FlagInv(c) ==
  /\ cpc[c] \in {"send", "poll"} /\ flag => rpc[calls] = "done"
  /\ cpc[c] \in {"reset", "send", "poll", "join"} =>
       command.name = op[calls].buffer /\ ~command.freed

CleanInv(c) == failed = {} => alive /\ PastInv(c) /\ ReplyInv(c) /\ FlagInv(c)

LEMMA CleanStep ==
  ASSUME NoStatfs, NoMkdir, ~Duplicates, NEW c \in Callers, Callers = {c},
         TypeInv, CleanInv(c), [Next]_vars
  PROVE  CleanInv(c)'
<1> SUFFICES ASSUME failed' = {}
             PROVE  (alive /\ PastInv(c) /\ ReplyInv(c) /\ FlagInv(c))'
  BY DEF CleanInv
<1>0. failed = {}
  BY DEF Next, CallerStep, Call, Reset, SendRequest, SendFails, GiveUp, PollHit, PollMiss, Join,
         Parse, ParseFails, Die, ReceiverStep, ReceiverStart, Bind, ChooseBuffer, Overflow, Close,
         RaiseFlag, Receive, Network, Answer, LoseRequest, LoseReply, vars, caller, receiver
<1>a. alive /\ PastInv(c) /\ ReplyInv(c) /\ FlagInv(c)
  BY <1>0 DEF CleanInv
<1>b. /\ calls \in 0..MaxCalls /\ MaxCalls \in Nat
      /\ (cpc[c] # "idle" => cur[c] = calls /\ calls \in Calls /\ op[calls] \in Ops)
      /\ \A n \in Calls : rpc[n] # "none" <=> n <= calls
  BY <1>a, ClientAssumption DEF PastInv, TypeInv, TypeOK, CallType, Calls
<1>1. ASSUME NEW o \in Ops, Call(c, o)
      PROVE  (alive /\ PastInv(c) /\ ReplyInv(c) /\ FlagInv(c))'
  <2>1. /\ alive' /\ calls' = calls + 1 /\ calls' \in Calls /\ cpc[c] = "idle"
        /\ UNCHANGED <<flag, buf, rbuf, port, req, net, got>>
    BY <1>1, <1>b DEF Call, Calls
  <2>2. /\ op' = [op EXCEPT ![calls + 1] = o] /\ rpc' = [rpc EXCEPT ![calls + 1] = "new"]
        /\ cur' = [cur EXCEPT ![c] = calls + 1] /\ cpc' = [cpc EXCEPT ![c] = "reset"]
        /\ command' = [name |-> o.command, freed |-> FALSE]
    BY <1>1, <2>1, OpsReset DEF Call
  <2>3. /\ op'[calls'] = o /\ rpc'[calls'] = "new" /\ cur'[c] = calls' /\ cpc'[c] = "reset"
        /\ \A n \in 1..calls : rpc'[n] = rpc[n]
    BY <1>b, <2>1, <2>2 DEF TypeInv, TypeOK, Calls
  <2>4. req = {} /\ net = {} /\ port = 0
    <3>1. calls = 0 \/ rpc[calls] = "done"
      BY <1>a, <1>b, <2>1 DEF PastInv
    <3>2. port \in Calls \cup {0}
      BY <1>b DEF TypeInv, TypeOK, Calls
    <3> QED
      BY <1>a, <1>b, <2>1, <3>1, <3>2 DEF PastInv, ReplyInv, Calls
  <2>5. PastInv(c)'
    BY <1>a, <1>b, <2>1, <2>3, <2>4 DEF PastInv, Calls
  <2>6. ReplyInv(c)'
    BY <2>1, <2>3, <2>4 DEF ReplyInv, Over
  <2>7. FlagInv(c)'
    BY <2>2, <2>3, OpsReset DEF FlagInv
  <2> QED
    BY <2>1, <2>5, <2>6, <2>7
<1>2. CASE Reset(c) \/ SendRequest(c)
  <2>1. /\ alive' /\ UNCHANGED <<calls, op, cur, command, buf, rpc, rbuf, port, net, got>>
        /\ \/ cpc[c] = "reset" /\ cpc'[c] = "send" /\ req' = req /\ ~flag'
           \/ cpc[c] = "send" /\ cpc'[c] = "poll" /\ req' = req \cup {calls} /\ flag' = flag
    BY <1>2, <1>b DEF Reset, SendRequest, receiver, TypeInv, TypeOK
  <2>2. PastInv(c)'
    BY <1>a, <2>1 DEF PastInv
  <2>3. ReplyInv(c)'
    BY <1>a, <2>1 DEF ReplyInv
  <2>4. FlagInv(c)'
    BY <1>a, <2>1 DEF FlagInv
  <2> QED
    BY <2>1, <2>2, <2>3, <2>4
<1>3. CASE SendFails(c) \/ PollMiss(c)
  <2>1. PollMiss(c) /\ UNCHANGED <<alive, calls, op, cpc, cur, command, flag, buf, receiver,
                                   req, net, got>>
    BY <1>3 DEF SendFails, PollMiss, GiveUp
  <2> QED
    BY <1>a, <2>1 DEF PastInv, ReplyInv, FlagInv, receiver
<1>4. CASE PollHit(c)
  <2>1. rpc[calls] = "done" /\ ~command.freed
    BY <1>a, <1>4 DEF PollHit, FlagInv
  <2>2. /\ alive' /\ UNCHANGED <<calls, op, cur, flag, buf, rpc, rbuf, port, req, net, got>>
        /\ cpc[c] = "poll"
        /\ cpc'[c] = "parse" \/ (cpc'[c] = "join" /\ command' = command)
    BY <1>a, <1>4, <2>1 DEF PollHit, Free, receiver, TypeInv, TypeOK
  <2>3. PastInv(c)' /\ ReplyInv(c)' /\ FlagInv(c)'
    BY <1>a, <2>1, <2>2 DEF PastInv, ReplyInv, FlagInv
  <2> QED
    BY <2>2, <2>3
<1>5. CASE Join(c)
  <2>1. ~command.freed /\ cpc[c] = "join"
    BY <1>a, <1>5 DEF Join, FlagInv
  <2>2. /\ alive' /\ UNCHANGED <<calls, op, cur, flag, buf, rpc, rbuf, port, req, net, got>>
        /\ cpc'[c] = "parse"
    BY <1>a, <1>5, <2>1 DEF Join, Free, receiver, TypeInv, TypeOK
  <2>3. PastInv(c)' /\ ReplyInv(c)' /\ FlagInv(c)'
    BY <1>a, <2>1, <2>2 DEF PastInv, ReplyInv, FlagInv
  <2> QED
    BY <2>2, <2>3
<1>6. CASE Parse(c) \/ ParseFails(c)
  <2> DEFINE b == op[calls].buffer
  <2>1. cpc[c] = "parse" /\ Op(c) = op[calls] /\ calls \in Calls
    BY <1>6, <1>b DEF Parse, ParseFails, Op
  <2>2. rpc[calls] = "done"
    BY <1>a, <2>1 DEF PastInv, Calls
  <2>3. buf[b] = calls
    BY <1>a, <2>1, <2>2 DEF ReplyInv, Over
  <2>4. ~ParseFails(c)
    BY <1>b, <2>1, <2>3 DEF ParseFails, Calls, Empty, Spent
  <2>5. /\ got' = [got EXCEPT ![calls] = calls] /\ cpc'[c] = "idle"
        /\ UNCHANGED <<alive, calls, op, cur, command, flag, rpc, rbuf, port, req, net>>
    BY <1>6, <1>b, <2>1, <2>3, <2>4 DEF Parse, receiver, TypeInv, TypeOK
  <2>6. PastInv(c)'
    BY <1>a, <2>1, <2>2, <2>5 DEF PastInv, TypeInv, TypeOK
  <2>7. ReplyInv(c)' /\ FlagInv(c)'
    BY <1>a, <2>1, <2>2, <2>5 DEF ReplyInv, FlagInv, Over, Calls
  <2> QED
    BY <1>a, <2>5, <2>6, <2>7
<1>7. ASSUME NEW n \in Calls, rpc[n] \notin {"none", "done"}
      PROVE  n = calls /\ cpc[c] \in {"reset", "send", "poll"}
  <2>1. n \in 1..calls
    BY <1>7, <1>b DEF Calls
  <2> QED
    BY <1>7, <1>a, <2>1 DEF PastInv, TypeInv, TypeOK
<1>8. ASSUME NEW n \in Calls, ReceiverStart(n) \/ Bind(n) \/ Close(n)
      PROVE  (alive /\ PastInv(c) /\ ReplyInv(c) /\ FlagInv(c))'
  <2>1. n = calls /\ cpc[c] \in {"reset", "send", "poll"}
    BY <1>7, <1>8 DEF ReceiverStart, Bind, Close
  <2>2. /\ alive' /\ UNCHANGED <<calls, op, cpc, cur, command, buf, rbuf, req, net, got>>
        /\ \/ /\ rpc[calls] = "new" /\ rpc' = [rpc EXCEPT ![calls] = "bind"] /\ ~flag' /\ port' = port
           \/ /\ rpc[calls] = "bind" /\ rpc' = [rpc EXCEPT ![calls] = "choose"] /\ flag' = flag
              /\ port' = IF port = 0 THEN calls ELSE port
           \/ /\ rpc[calls] = "close" /\ rpc' = [rpc EXCEPT ![calls] = "flag"] /\ flag' = flag
              /\ port' = IF port = calls THEN 0 ELSE port
    BY <1>8, <2>1 DEF ReceiverStart, Bind, Close, caller
  <2>3. /\ \A m \in 1..calls : m # calls => rpc'[m] = rpc[m]
        /\ \/ rpc[calls] = "new" /\ rpc'[calls] = "bind"
           \/ rpc[calls] = "bind" /\ rpc'[calls] = "choose"
           \/ rpc[calls] = "close" /\ rpc'[calls] = "flag"
    BY <1>b, <2>1, <2>2 DEF TypeInv, TypeOK, Calls
  <2>4. PastInv(c)'
    BY <1>a, <2>1, <2>2, <2>3 DEF PastInv
  <2>5. ReplyInv(c)' /\ FlagInv(c)'
    BY <1>a, <2>1, <2>2, <2>3 DEF ReplyInv, FlagInv, Over
  <2> QED
    BY <2>2, <2>4, <2>5
<1>9. ASSUME NEW n \in Calls, ChooseBuffer(n) \/ Overflow(n)
      PROVE  (alive /\ PastInv(c) /\ ReplyInv(c) /\ FlagInv(c))'
  <2>1. n = calls /\ rpc[calls] = "choose" /\ cpc[c] \in {"reset", "send", "poll"}
    BY <1>7, <1>9 DEF ChooseBuffer, Overflow
  <2>2. command.name = op[calls].buffer /\ ~command.freed /\ op[calls] \in Ops
    BY <1>a, <1>b, <2>1 DEF FlagInv
  <2>3. command.name \notin Overrun /\ command.name # NULL
    BY <2>2, OpsReset, OpsFit, BufferAssumption DEF Buffers
  <2>4. /\ rpc' = [rpc EXCEPT ![calls] = "wait"]
        /\ rbuf' = [rbuf EXCEPT ![calls] = op[calls].buffer]
        /\ alive' /\ UNCHANGED <<calls, op, cpc, cur, command, flag, port, req, net, got>>
    BY <1>9, <1>a, <2>1, <2>2, <2>3 DEF ChooseBuffer, Overflow, Chosen, caller
  <2>5. /\ \A m \in 1..calls : m # calls => rpc'[m] = rpc[m]
        /\ rpc'[calls] = "wait" /\ rbuf'[calls] = op[calls].buffer
    BY <1>b, <2>1, <2>4 DEF TypeInv, TypeOK, Calls
  <2>6. PastInv(c)'
    BY <1>a, <2>1, <2>4, <2>5 DEF PastInv
  <2>7. ReplyInv(c)' /\ FlagInv(c)'
    BY <1>a, <2>1, <2>4, <2>5 DEF ReplyInv, FlagInv, Over
  <2> QED
    BY <2>4, <2>6, <2>7
<1>10. ASSUME NEW n \in Calls, NEW r \in net, Receive(n, r)
       PROVE  (alive /\ PastInv(c) /\ ReplyInv(c) /\ FlagInv(c))'
  <2> DEFINE b == op[calls].buffer
  <2>1. /\ n = calls /\ rpc[calls] = "wait" /\ cpc[c] \in {"reset", "send", "poll"}
        /\ calls \in Calls
    BY <1>7, <1>10 DEF Receive
  <2>2. /\ r = calls /\ net' = {} /\ req = {} /\ cpc[c] = "poll"
    BY <1>a, <1>10, <2>1 DEF Receive, Left, ReplyInv
  <2>3. /\ rpc' = [rpc EXCEPT ![calls] = "close"] /\ buf' = [buf EXCEPT ![b] = calls]
        /\ alive' /\ UNCHANGED <<calls, op, cpc, cur, command, flag, rbuf, port, req, got>>
    BY <1>a, <1>10, <2>1, <2>2 DEF Receive, ReplyInv, caller
  <2>4. b \in Buffers
    BY <1>b, <2>1 DEF Buffers
  <2>5. /\ \A m \in 1..calls : m # calls => rpc'[m] = rpc[m]
        /\ rpc'[calls] = "close" /\ buf'[b] = calls
    BY <1>b, <2>1, <2>3, <2>4 DEF TypeInv, TypeOK, Calls
  <2> HIDE DEF b
  <2>6. PastInv(c)'
    BY <1>a, <2>1, <2>3, <2>5 DEF PastInv
  <2>7. ReplyInv(c)' /\ FlagInv(c)'
    BY <1>a, <2>1, <2>2, <2>3, <2>5 DEF ReplyInv, FlagInv, Over, b
  <2> QED
    BY <2>3, <2>6, <2>7
<1>11. ASSUME NEW n \in Calls, RaiseFlag(n)
       PROVE  (alive /\ PastInv(c) /\ ReplyInv(c) /\ FlagInv(c))'
  <2>1. n = calls /\ rpc[calls] = "flag" /\ cpc[c] \in {"reset", "send", "poll"}
    BY <1>7, <1>11 DEF RaiseFlag
  <2>2. /\ rpc' = [rpc EXCEPT ![calls] = "done"] /\ flag'
        /\ alive' /\ UNCHANGED <<calls, op, cpc, cur, command, buf, rbuf, port, req, net, got>>
    BY <1>11, <2>1 DEF RaiseFlag, caller
  <2>3. (\A m \in 1..calls : m # calls => rpc'[m] = rpc[m]) /\ rpc'[calls] = "done"
    BY <1>b, <2>1, <2>2 DEF TypeInv, TypeOK, Calls
  <2>4. PastInv(c)' /\ ReplyInv(c)' /\ FlagInv(c)'
    BY <1>a, <2>1, <2>2, <2>3 DEF PastInv, ReplyInv, FlagInv, Over
  <2> QED
    BY <2>2, <2>4
<1>12. CASE Network \/ UNCHANGED vars
  <2>1. /\ UNCHANGED <<alive, calls, op, cpc, cur, command, flag, buf, rpc, rbuf, port, got>>
        /\ req' \cup net' \subseteq req \cup net /\ req' \cap net' = {}
    BY <1>a, <1>12
       DEF Network, Answer, LoseRequest, LoseReply, Left, ReplyInv, vars, caller, receiver
  <2>2. PastInv(c)' /\ ReplyInv(c)' /\ FlagInv(c)'
    BY <1>a, <2>1 DEF PastInv, ReplyInv, FlagInv
  <2> QED
    BY <1>a, <2>1, <2>2
<1> QED
  BY <1>1, <1>2, <1>3, <1>4, <1>5, <1>6, <1>8, <1>9, <1>10, <1>11, <1>12
     DEF Next, CallerStep, ReceiverStep

\* Until a call has given up, every call returns the reply to its own request
\* and the client does not crash, however late threads and datagrams are: for
\* one calling thread, operations other than statfs and mkdir, and datagrams
\* that are not delivered twice.
THEOREM CallsAreClean ==
  ASSUME OneCaller, NoStatfs, NoMkdir, ~Duplicates
  PROVE  Spec => []CleanCalls
<1>1. PICK c \in Callers : Callers = {c}
  BY DEF OneCaller
<1>2. Init => CleanInv(c)
  BY ClientAssumption
     DEF Init, CleanInv, PastInv, ReplyInv, FlagInv, Over, Calls, Empty
<1>3. TypeInv /\ CleanInv(c) /\ [Next]_vars => CleanInv(c)'
  BY <1>1, CleanStep
<1>4. CleanInv(c) => CleanCalls
  BY DEF CleanInv, PastInv, CleanCalls
<1> QED
  BY <1>2, <1>3, <1>4, TypeInit, TypeStep, PTL DEF Spec
=============================================================================
