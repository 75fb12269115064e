--------------------------- MODULE NameNodeProofs ---------------------------
(***************************************************************************)
(* Theorems about the namenode for every set of datanodes and paths, every *)
(* number of slots and every bound.                                        *)
(***************************************************************************)
EXTENDS NameNode, SequenceTheorems, TLAPS

SearchPcs == {"s_test", "s_adv", "s_ret"}
TailPcs   == {"t_test", "t_adv", "link"}
WritePcs  == {"w_test", "w_adv", "w_flush"}
FetchPcs  == {"f_test", "f_ping", "f_adv", "f_ret"}

\* datanode_insert runs; a client request is being handled.
Inserting == pc \in TailPcs \/ (pc \in SearchPcs /\ caller # "rep")
InRep == pc = "r_ping" \/ (pc \in SearchPcs /\ caller = "rep")
InFetch == pc \in FetchPcs \/ (pc \in WritePcs /\ caller \in {"fetch_hit", "fetch_end"})
Handling == InRep \/ InFetch \/ pc \in {"r_slot", "send", "local"}

\* Which arguments are set at which point of the command thread.
ControlInv ==
  /\ pc \in SearchPcs => caller \in {"load", "register", "rep"}
  /\ pc \in TailPcs => caller \in {"load", "register"}
  /\ pc \in WritePcs => caller \in {"load", "register", "fetch_hit", "fetch_end"}
  /\ Inserting => ins \in Cell
  /\ Handling => req \in Requests
  /\ pc = "r_slot" => slot >= 1
  /\ InRep => slot \in 1..Len(files[req.path])
  /\ pc = "send" => dpath \in Nodes

TypeInv == TypeOK /\ ControlInv
-----------------------------------------------------------------------------
(* Lemmas about the operators of the module.                                *)

\* Writing the alive field of a cell leaves the list of names as it is.
LEMMA MarkCell ==
  ASSUME NEW c \in Seq(Cell), NEW d \in 1..Len(c), NEW b \in BOOLEAN
  PROVE  /\ [c EXCEPT ![d].alive = b] \in Seq(Cell)
         /\ Len([c EXCEPT ![d].alive = b]) = Len(c)
         /\ \A j \in 1..Len(c) : [c EXCEPT ![d].alive = b][j].node = c[j].node
<1> DEFINE e == [c[d] EXCEPT !.alive = b]
<1>1. c[d] \in Cell
  BY ElementOfSeq
<1>2. e \in Cell /\ e.node = c[d].node
  BY <1>1 DEF Cell
<1>3. [c EXCEPT ![d].alive = b] = [c EXCEPT ![d] = e]
  OBVIOUS
<1> HIDE DEF e
<1>4. /\ [c EXCEPT ![d] = e] \in Seq(Cell)
      /\ Len([c EXCEPT ![d] = e]) = Len(c)
      /\ \A j \in 1..Len(c) : [c EXCEPT ![d] = e][j] = IF j = d THEN e ELSE c[j]
  BY <1>2, ExceptSeq
<1> QED
  BY <1>2, <1>3, <1>4

\* Moving the shared pointer keeps it on the list or at NULL.
LEMMA PointerType ==
  ASSUME TypeOK
  PROVE  First \in 0..Len(chain) /\ After \in 0..Len(chain)
<1>1. Len(chain) \in Nat /\ (chain # <<>> => Len(chain) >= 1)
  BY EmptySeq DEF TypeOK
<1> QED
  BY <1>1 DEF TypeOK, First, After

\* filenode_insert keeps the table well-formed, and a path only gains slots.
LEMMA ReplicaType ==
  ASSUME TypeOK, NEW f \in Files, NEW n \in Nodes
  PROVE  /\ WithReplica(f, n) \in [Files -> Seq(Nodes)]
         /\ \A g \in Files : /\ Len(WithReplica(f, n)[g]) <= MaxSlots
                             /\ Len(files[g]) <= Len(WithReplica(f, n)[g])
BY NameNodeAssumption, AppendProperties DEF TypeOK, WithReplica

\* The end of datanode_insert, whatever the list has become.
LEMMA InsertType ==
  ASSUME TypeInv, Inserting, NEW c \in Seq(Cell), Len(c) >= 1, InsertDone(c)
  PROVE  TypeInv'
<1> USE DEF TypeInv, Inserting
<1>1. ins \in Cell /\ ins.node \in Nodes
  BY DEF ControlInv, Cell
<1>2. /\ files' \in [Files -> Seq(Nodes)]
      /\ \A g \in Files : Len(files'[g]) <= MaxSlots
  BY <1>1, ReplicaType, NameNodeAssumption DEF InsertDone
<1>3. caller \in {"load", "register"}
  BY DEF ControlInv, SearchPcs, TailPcs
<1>4. TypeOK'
  BY <1>2, <1>3 DEF InsertDone, BeginWrite, TypeOK, monitor
<1>5. ControlInv'
  BY <1>3 DEF InsertDone, BeginWrite, ControlInv, SearchPcs, TailPcs, WritePcs,
              FetchPcs, InRep, InFetch, Handling
<1> QED
  BY <1>4, <1>5

\* A NULL dereference leaves the dead process's memory as it was.
LEMMA SegvType == TypeInv /\ Segv => TypeInv'
BY DEF TypeInv, TypeOK, ControlInv, Segv, registry, locals, Inserting, InRep, InFetch,
       Handling, SearchPcs, TailPcs, WritePcs, FetchPcs

\* datanode_search found nothing for datanode_insert.
LEMMA InsertNewType ==
  ASSUME TypeInv, pc \in SearchPcs, caller # "rep", InsertNew
  PROVE  TypeInv'
<1>1. CASE chain = <<>> /\ InsertDone(<<ins>>)
  <2>1. ins \in Cell
    BY DEF TypeInv, ControlInv, Inserting
  <2>2. <<ins>> \in Seq(Cell) /\ Len(<<ins>>) >= 1
    BY <2>1
  <2>3. Inserting
    BY DEF Inserting
  <2> QED
    BY <1>1, <2>2, <2>3, InsertType
<1>2. CASE chain # <<>> /\ dlist' = 1 /\ pc' = "t_test"
           /\ UNCHANGED <<config, chain, files, locals, wbuf, rest, out, monitor>>
  <2>1. Len(chain) \in Nat /\ Len(chain) >= 1
    BY <1>2, EmptySeq DEF TypeInv, TypeOK
  <2>2. TypeOK'
    BY <1>2, <2>1 DEF TypeInv, TypeOK, locals, monitor
  <2>3. ControlInv'
    BY <1>2 DEF TypeInv, ControlInv, locals, Inserting, InRep, InFetch, Handling,
                SearchPcs, TailPcs, WritePcs, FetchPcs
  <2> QED
    BY <2>2, <2>3 DEF TypeInv
<1> QED
  BY <1>1, <1>2 DEF InsertNew
-----------------------------------------------------------------------------
(* Type correctness of both threads.                                        *)

\* A walk over the list moves on, or dies on NULL.
LEMMA AdvanceType ==
  ASSUME TypeInv, NEW a, NEW b, Advance(a, b),
         <<a, b>> \in {<<"s_adv", "s_test">>, <<"t_adv", "t_test">>, <<"w_adv", "w_test">>,
                       <<"d_adv", "d_test">>, <<"f_adv", "f_test">>}
  PROVE  TypeInv'
<1>1. CASE dlist = 0 /\ Segv
  BY <1>1, SegvType
<1>2. CASE dlist' = After /\ pc' = b
           /\ UNCHANGED <<config, chain, files, locals, wbuf, rest, out, monitor>>
  <2>1. TypeOK'
    BY <1>2, PointerType DEF TypeInv, TypeOK, locals, monitor
  <2>2. ControlInv'
    BY <1>2 DEF Advance, TypeInv, ControlInv, locals, Inserting, InRep, InFetch,
                Handling, SearchPcs, TailPcs, WritePcs, FetchPcs
  <2> QED
    BY <2>1, <2>2 DEF TypeInv
<1> QED
  BY <1>1, <1>2 DEF Advance

LEMMA TypeInit == Init => TypeInv
BY NameNodeAssumption, EmptySeq
   DEF Init, TypeInv, TypeOK, ControlInv, NoFiles, Inserting, InRep, InFetch, Handling,
       SearchPcs, TailPcs, WritePcs, FetchPcs
\* Every step keeps the types and the control invariant.
LEMMA TypeStep == TypeInv /\ [Next]_vars => TypeInv'
<1> SUFFICES ASSUME TypeInv, [Next]_vars
             PROVE  TypeInv'
  OBVIOUS
<1> USE NameNodeAssumption
<1> USE DEF TypeInv, TypeOK, ControlInv, Inserting, InRep, InFetch, Handling, SearchPcs,
            TailPcs, WritePcs, FetchPcs, registry, locals, monitor
<1>1. CASE Start
  BY <1>1 DEF Start, NoFiles
<1>2. CASE Crash
  BY <1>2 DEF Crash, NoFiles
<1>3. CASE RecvUnresolved
  BY <1>3 DEF RecvUnresolved, Goto
<1>4. ASSUME NEW n \in Nodes, RecvRegister(n) PROVE TypeInv'
  BY <1>4, PointerType DEF RecvRegister, Cell
<1>5. ASSUME NEW c \in Cmds, NEW f \in Files, Recv(c, f) PROVE TypeInv'
  BY <1>5, PointerType, EmptySeq DEF Recv, Requests
<1>6. ASSUME NEW f \in Files, RecvStatfs(f) PROVE TypeInv'
  BY <1>6 DEF RecvStatfs
<1>7. CASE LoadLine
  BY <1>7, PointerType, HeadTailProperties DEF LoadLine
<1>8. CASE LoadDone
  BY <1>8 DEF LoadDone, Idle
<1>9. CASE SearchTest
  BY <1>9 DEF SearchTest, Goto
<1>10. CASE SearchMiss
  BY <1>10, SegvType, InsertNewType DEF SearchMiss
<1>11. CASE SearchReturn
  <2>1. CASE dlist = 0
    BY <1>11, <2>1, SegvType, InsertNewType DEF SearchReturn
  <2>2. CASE dlist # 0 /\ caller = "rep"
    BY <1>11, <2>2 DEF SearchReturn, Goto
  <2>3. CASE dlist # 0 /\ caller # "rep"
    <3> DEFINE c == [chain EXCEPT ![dlist].alive = TRUE]
    <3>1. dlist \in 1..Len(chain) /\ Len(chain) >= 1
      BY <2>3
    <3>2. c \in Seq(Cell) /\ Len(c) >= 1
      BY <3>1, MarkCell
    <3>3. InsertDone(c) /\ Inserting
      BY <1>11, <2>3 DEF SearchReturn
    <3> HIDE DEF c
    <3> QED
      BY <3>2, <3>3, InsertType
  <2> QED
    BY <2>1, <2>2, <2>3
<1>12. CASE TailTest
  BY <1>12, SegvType DEF TailTest, Goto
<1>13. CASE Link
  <2>1. CASE dlist # 0 /\ InsertDone(Append(SubSeq(chain, 1, dlist), ins))
    <3> DEFINE c == Append(SubSeq(chain, 1, dlist), ins)
    <3>1. dlist \in 1..Len(chain)
      BY <2>1
    <3>2. SubSeq(chain, 1, dlist) \in Seq(Cell)
      <4>1. \A i \in 1..dlist : chain[i] \in Cell
        BY <3>1, ElementOfSeq
      <4> QED
        BY <3>1, <4>1, SubSeqProperties
    <3>3. Inserting /\ ins \in Cell
      BY <1>13 DEF Link
    <3>4. c \in Seq(Cell) /\ Len(c) >= 1
      BY <3>2, <3>3, AppendProperties
    <3> HIDE DEF c
    <3> QED
      BY <3>3, <3>4, <2>1, InsertType DEF c
  <2> QED
    BY <1>13, <2>1, SegvType DEF Link
<1>14. CASE SearchAdvance \/ TailAdvance \/ WriteAdvance \/ DisplayAdvance \/ FetchAdvance
  BY <1>14, AdvanceType
     DEF SearchAdvance, TailAdvance, WriteAdvance, DisplayAdvance, FetchAdvance
<1>15. CASE WriteCell
  BY <1>15, ElementOfSeq, AppendProperties DEF WriteCell
<1>16. CASE WriteOpen
  BY <1>16 DEF WriteOpen
<1>17. CASE WriteFlush
  BY <1>17, PointerType, EmptySeq DEF WriteFlush
<1>18. CASE DisplayTest
  <2>1. TypeOK'
    BY <1>18 DEF DisplayTest, Goto, Idle
  <2>2. ControlInv'
    BY <1>18 DEF DisplayTest, Goto, Idle
  <2> QED
    BY <2>1, <2>2
<1>19. CASE FetchTest
  BY <1>19 DEF FetchTest, Goto
<1>20. CASE FetchEnd \/ FetchPingOk
  BY <1>20, PointerType, EmptySeq DEF FetchEnd, FetchPingOk, FetchSave, BeginWrite
<1>21. CASE FetchPingFail
  <2>1. CASE dlist # 0
    <3>1. dlist \in 1..Len(chain)
      BY <2>1
    <3>2. chain' = [chain EXCEPT ![dlist].alive = FALSE]
      BY <1>21, <2>1 DEF FetchPingFail
    <3>3. chain' \in Seq(Cell) /\ Len(chain') = Len(chain)
      <4>1. chain \in Seq(Cell)
        OBVIOUS
      <4> QED
        BY ONLY <4>1, <3>1, <3>2, MarkCell
    <3> QED
      BY <1>21, <2>1, <3>3 DEF FetchPingFail
  <2> QED
    BY <1>21, <2>1, SegvType DEF FetchPingFail
<1>22. CASE FetchReturn
  <2>1. CASE dlist = 0
    BY <1>22, <2>1 DEF FetchReturn, Goto
  <2>2. CASE dlist # 0
    <3>1. chain[dlist] \in Cell
      BY <2>2, ElementOfSeq
    <3>2. chain[dlist].node \in Nodes
      BY <3>1 DEF Cell
    <3> QED
      BY <1>22, <2>2, <3>2 DEF FetchReturn, Goto
  <2> QED
    BY <2>1, <2>2
<1>23. CASE RepSlot
  <2>1. req \in Requests /\ req.path \in Files /\ slot \in 1..(MaxSlots + 1)
    BY <1>23 DEF RepSlot, Requests
  <2>2. TypeOK'
    BY <1>23, PointerType DEF RepSlot, Goto
  <2>3. ControlInv'
    BY <1>23, <2>1 DEF RepSlot, Goto
  <2> QED
    BY <2>2, <2>3
<1>24. CASE RepPingOk
  BY <1>24, ElementOfSeq DEF RepPingOk, Requests
<1>25. CASE RepPingFail
  BY <1>25 DEF RepPingFail, Requests
<1>26. CASE SendOk
  <2>1. req \in Requests /\ req.path \in Files /\ dpath \in Nodes
    BY <1>26 DEF SendOk, Requests
  <2>2. files' \in [Files -> Seq(Nodes)] /\ \A f \in Files : Len(files'[f]) <= MaxSlots
    BY <1>26, <2>1, ReplicaType DEF SendOk
  <2>3. TypeOK'
    BY <1>26, <2>1, <2>2 DEF SendOk, Idle
  <2>4. ControlInv'
    BY <1>26 DEF SendOk, Idle
  <2> QED
    BY <2>3, <2>4
<1>27. CASE SendFails
  <2>1. CASE Goto("stopped")
    BY <1>27, <2>1 DEF Goto
  <2>2. CASE Idle /\ UNCHANGED <<config, registry, files, wbuf, rest, out, monitor>>
    BY <1>27, <2>2 DEF Idle
  <2> QED
    BY <1>27, <2>1, <2>2 DEF SendFails
<1>28. CASE Local
  BY <1>28 DEF Local, Idle, Requests
<1>29. CASE MonRecv
  BY <1>29, PointerType DEF MonRecv
<1>30. CASE MonTest
  BY <1>30 DEF MonTest
<1>31. CASE MonAdvance
  <2>1. CASE Segv
    BY <2>1, SegvType
  <2>2. CASE /\ dlist' = After /\ mpc' = "test"
             /\ UNCHANGED <<config, chain, files, pc, locals, wbuf, rest, out, queries, starts>>
    BY <2>2, PointerType
  <2> QED
    BY <1>31, <2>1, <2>2 DEF MonAdvance
<1>32. CASE UNCHANGED vars
  BY <1>32 DEF vars
<1> QED
  BY <1>1, <1>2, <1>3, <1>4, <1>5, <1>6, <1>7, <1>8, <1>9, <1>10, <1>11, <1>12, <1>13,
     <1>14, <1>15, <1>16, <1>17, <1>18, <1>19, <1>20, <1>21, <1>22, <1>23, <1>24, <1>25,
     <1>26, <1>27, <1>28, <1>29, <1>30, <1>31, <1>32
     DEF Next, CommandNext, CommandStep, Environment, MonitorNext

\* Type correctness of the namenode with both of its threads: TypeOK, for
\* every interleaving of the command and the monitor thread.
THEOREM TypeCorrect == Spec => []TypeOK
<1>1. TypeInv => TypeOK
  BY DEF TypeInv
<1> QED
  BY <1>1, TypeInit, TypeStep, PTL DEF Spec

\* The same for the command thread alone.
LEMMA CommandTypeInv == CommandSpec => []TypeInv
<1>1. TypeInv /\ [CommandNext]_vars => TypeInv'
  BY TypeStep DEF Next
<1> QED
  BY <1>1, TypeInit, PTL DEF CommandSpec
-----------------------------------------------------------------------------
(* A file has one home.                                                     *)

\* What the request being handled knows about its path: fetch_datanode runs
\* only for paths without an entry, getRepfetchnum only for paths with one,
\* and a request about a placed path is sent to one of its replicas.
HomeInv ==
  /\ SingleHome
  /\ InFetch => files[req.path] = <<>>
  /\ pc = "send" /\ files[req.path] # <<>> =>
       \E i \in DOMAIN files[req.path] : files[req.path][i] = dpath

\* Adding one more replica of the same node keeps the home unique.
LEMMA SameReplica ==
  ASSUME TypeOK, SingleHome, NEW f \in Files \ {Root}, NEW n \in Nodes,
         files[f] = <<>> \/ \E i \in DOMAIN files[f] : files[f][i] = n
  PROVE  \A g \in Files \ {Root} : \A i, j \in DOMAIN WithReplica(f, n)[g] :
           WithReplica(f, n)[g][i] = WithReplica(f, n)[g][j]
<1> SUFFICES ASSUME Len(files[f]) < MaxSlots
             PROVE  \A i, j \in DOMAIN Append(files[f], n) :
                      Append(files[f], n)[i] = Append(files[f], n)[j]
  BY DEF WithReplica, SingleHome, TypeOK
<1>1. files[f] \in Seq(Nodes)
  BY DEF TypeOK
<1>2. \A i \in 1..Len(files[f]) : files[f][i] = n
  BY <1>1, EmptySeq, LenProperties DEF SingleHome
<1> QED
  BY <1>1, <1>2, AppendProperties, LenProperties

\* A replica of the root does not touch the other paths.
LEMMA RootReplica ==
  ASSUME TypeOK, NEW n \in Nodes
  PROVE  \A g \in Files \ {Root} : WithReplica(Root, n)[g] = files[g]
BY DEF WithReplica, TypeOK

\* Where a step leaves the table alone, only the place of the thread matters.
LEMMA HomeStable ==
  ASSUME HomeInv, UNCHANGED files, InFetch' => (files[req.path] = <<>>)', pc' # "send"
  PROVE  HomeInv'
BY DEF HomeInv, SingleHome

LEMMA HomeInsert ==
  ASSUME TypeInv, HomeInv, Inserting, NEW c, InsertDone(c)
  PROVE  HomeInv'
<1>1. ins.node \in Nodes /\ caller \in {"load", "register"}
  BY DEF TypeInv, ControlInv, Inserting, SearchPcs, TailPcs, Cell
<1>2. SingleHome'
  BY <1>1, RootReplica DEF InsertDone, HomeInv, SingleHome, TypeInv
<1>3. ~InFetch' /\ pc' # "send"
  BY <1>1 DEF InsertDone, BeginWrite, InFetch, FetchPcs, WritePcs
<1> QED
  BY <1>2, <1>3 DEF HomeInv

LEMMA HomeStep == TypeInv /\ HomeInv /\ [Next]_vars => HomeInv'
<1> SUFFICES ASSUME TypeInv, HomeInv, [Next]_vars
             PROVE  HomeInv'
  OBVIOUS
<1> USE DEF registry, locals, monitor, FetchPcs, WritePcs, InFetch
<1>1. CASE Start \/ Crash
  BY <1>1 DEF Start, Crash, NoFiles, HomeInv, SingleHome
<1>2. CASE SendOk
  <2>1. req \in Requests /\ req.path \in Files /\ dpath \in Nodes
    BY <1>2 DEF SendOk, TypeInv, ControlInv, Handling, Requests
  <2>2. \/ files' = files
        \/ files' = WithReplica(req.path, dpath)
    BY <1>2 DEF SendOk
  <2>3. files[req.path] = <<>> \/ \E i \in DOMAIN files[req.path] : files[req.path][i] = dpath
    BY <1>2 DEF SendOk, HomeInv
  <2>4. SingleHome'
    <3>1. CASE req.path = Root
      BY <2>1, <2>2, <3>1, RootReplica DEF HomeInv, SingleHome, TypeInv
    <3>2. CASE req.path # Root
      BY <2>1, <2>2, <2>3, <3>2, SameReplica DEF HomeInv, SingleHome, TypeInv
    <3> QED
      BY <3>1, <3>2
  <2> QED
    BY <1>2, <2>4 DEF SendOk, Idle, HomeInv
<1>3. CASE RepPingOk
  <2>1. req \in Requests /\ slot \in 1..Len(files[req.path])
    BY <1>3 DEF RepPingOk, TypeInv, ControlInv, Handling, InRep
  <2>2. slot \in DOMAIN files[req.path]
    BY <2>1, LenProperties DEF TypeInv, TypeOK, Requests
  <2> QED
    BY <1>3, <2>2 DEF RepPingOk, HomeInv, SingleHome
<1>4. CASE FetchReturn
  BY <1>4 DEF FetchReturn, Goto, HomeInv, SingleHome
<1>5. ASSUME NEW c \in Cmds, NEW f \in Files, Recv(c, f) PROVE HomeInv'
  BY <1>5, HomeStable DEF Recv
<1>6. CASE SearchMiss \/ SearchReturn \/ Link
  <2>1. \/ \E c : Inserting /\ InsertDone(c)
        \/ UNCHANGED files /\ pc' \in {"segv", "r_ping", "t_test"}
    BY <1>6 DEF SearchMiss, SearchReturn, Link, InsertNew, Segv, Goto, Inserting,
                SearchPcs, TailPcs
  <2> QED
    BY <2>1, HomeInsert, HomeStable
<1>7. CASE \/ RecvUnresolved \/ LoadLine \/ LoadDone \/ SearchTest \/ TailTest \/ DisplayTest
           \/ RepSlot \/ RepPingFail \/ SendFails \/ Local
  BY <1>7, HomeStable
     DEF RecvUnresolved, LoadLine, LoadDone, SearchTest, TailTest, DisplayTest, RepSlot,
         RepPingFail, SendFails, Local, Segv, Goto, Idle
<1>8. CASE SearchAdvance \/ TailAdvance \/ WriteAdvance \/ DisplayAdvance \/ FetchAdvance
  BY <1>8, HomeStable
     DEF SearchAdvance, TailAdvance, WriteAdvance, DisplayAdvance, FetchAdvance, Advance,
         Segv, HomeInv
<1>9. CASE WriteCell \/ WriteOpen \/ WriteFlush
  BY <1>9, HomeStable DEF WriteCell, WriteOpen, WriteFlush, HomeInv
<1>10. CASE FetchTest \/ FetchEnd \/ FetchPingOk \/ FetchPingFail
  BY <1>10, HomeStable
     DEF FetchTest, FetchEnd, FetchPingOk, FetchPingFail, FetchSave, BeginWrite, Segv, Goto,
         HomeInv
<1>11. CASE MonitorNext \/ UNCHANGED vars \/ \E f \in Files : RecvStatfs(f)
  BY <1>11 DEF MonitorNext, MonRecv, MonTest, MonAdvance, Segv, vars, RecvStatfs, HomeInv,
               SingleHome
<1>12. ASSUME NEW n \in Nodes, RecvRegister(n) PROVE HomeInv'
  BY <1>12, HomeStable DEF RecvRegister
<1> QED
  BY <1>1, <1>2, <1>3, <1>4, <1>5, <1>6, <1>7, <1>8, <1>9, <1>10, <1>11, <1>12
     DEF Next, CommandNext, CommandStep, Environment

\* With both threads running, whatever the pings answer and wherever the other
\* thread leaves dlist, a path never has replicas on two nodes.
THEOREM SingleHomeHolds == Spec => []SingleHome
<1>1. Init => HomeInv
  BY DEF Init, NoFiles, HomeInv, SingleHome, InFetch, FetchPcs, WritePcs
<1>2. HomeInv => SingleHome
  BY DEF HomeInv
<1> QED
  BY <1>1, <1>2, TypeInit, TypeStep, HomeStep, PTL DEF Spec
-----------------------------------------------------------------------------
(* The command thread alone never dereferences NULL, and never places a     *)
(* file.                                                                    *)

\* Where dlist stands at each point of the loops.
PointerInv ==
  /\ pc \in {"s_adv", "s_ret", "t_test", "t_adv", "link", "w_adv", "d_adv", "f_ping",
             "f_adv"} => dlist # 0
  /\ pc = "t_adv" => dlist # Len(chain)
  /\ pc = "link" => dlist = Len(chain)
  /\ pc \in {"w_flush", "f_ret"} => dlist = 0
  /\ pc = "s_ret" => chain[dlist].node = Target

\* A search for a replica still has the cell it looks for ahead of it.
AheadInv ==
  /\ pc = "s_test" /\ caller = "rep" =>
       dlist # 0 /\ \E i \in dlist..Len(chain) : chain[i].node = Target
  /\ pc = "s_adv" /\ caller = "rep" =>
       \E i \in (dlist + 1)..Len(chain) : chain[i].node = Target

\* Only requests about the root get past the file table.
RootInv ==
  /\ InRep \/ pc \in {"r_slot", "send"} => req.path = Root
  /\ pc = "send" => dpath \in Names(chain)

CommandInv ==
  NothingPlaced /\ ReplicasRegistered /\ NoNullDereference
    /\ PointerInv /\ AheadInv /\ RootInv

\* The names of a list are the names of its positions.
LEMMA NamesDef ==
  ASSUME NEW c \in Seq(Cell)
  PROVE  Names(c) = {c[i].node : i \in 1..Len(c)}
BY LenProperties DEF Names

\* Lists that agree on the nodes of their cells have the same names.
LEMMA SameNames ==
  ASSUME NEW c \in Seq(Cell), NEW d \in Seq(Cell), Len(d) = Len(c),
         \A j \in 1..Len(c) : d[j].node = c[j].node
  PROVE  Names(d) = Names(c)
<1>1. Names(d) \subseteq Names(c)
  BY NamesDef
<1>2. Names(c) \subseteq Names(d)
  BY NamesDef
<1> QED
  BY <1>1, <1>2

\* A walk over the list moves on inside it.
LEMMA AfterIsNext ==
  ASSUME TypeOK, dlist # 0, dlist # Len(chain)
  PROVE  After = dlist + 1 /\ After \in 1..Len(chain)
BY LenProperties DEF TypeOK, After

\* The end of datanode_insert when no cell was lost and the node is listed.
LEMMA InsertCommand ==
  ASSUME TypeInv, CommandInv, Inserting, NEW c, InsertDone(c),
         Names(chain) \subseteq Names(c), ins.node \in Names(c)
  PROVE  CommandInv'
<1>1. ins.node \in Nodes /\ caller \in {"load", "register"}
  BY DEF TypeInv, ControlInv, Inserting, SearchPcs, TailPcs, Cell
<1>2. NothingPlaced'
  BY <1>1, RootReplica DEF InsertDone, CommandInv, NothingPlaced, TypeInv
<1>3. ReplicasRegistered'
  <2>1. \A f \in Files : \A i \in DOMAIN files'[f] :
          files'[f][i] \in Names(chain) \cup {ins.node}
    <3>1. \A f \in Files \ {Root} : files'[f] = files[f]
      BY <1>1, RootReplica DEF InsertDone, TypeInv
    <3>2. files'[Root] = files[Root] \/ files'[Root] = Append(files[Root], ins.node)
      BY NameNodeAssumption DEF InsertDone, WithReplica, TypeInv, TypeOK
    <3>3. files[Root] \in Seq(Nodes)
      BY NameNodeAssumption DEF TypeInv, TypeOK
    <3>4. \A i \in DOMAIN Append(files[Root], ins.node) :
            \/ i \in DOMAIN files[Root] /\ Append(files[Root], ins.node)[i] = files[Root][i]
            \/ Append(files[Root], ins.node)[i] = ins.node
      BY <1>1, <3>3, AppendProperties, LenProperties
    <3> QED
      BY <3>1, <3>2, <3>4 DEF CommandInv, ReplicasRegistered
  <2> QED
    BY <2>1 DEF InsertDone, ReplicasRegistered
<1>4. pc' = "w_test" /\ caller' = caller
  BY DEF InsertDone, BeginWrite
<1> QED
  BY <1>1, <1>2, <1>3, <1>4
     DEF CommandInv, NoNullDereference, PointerInv, AheadInv, RootInv, InRep, SearchPcs

\* Steps that leave the registry and the table alone.
LEMMA CommandStable ==
  ASSUME CommandInv, UNCHANGED <<chain, files>>, pc' # "segv",
         PointerInv', AheadInv', RootInv'
  PROVE  CommandInv'
BY DEF CommandInv, NothingPlaced, ReplicasRegistered, NoNullDereference, Names

\* datanode_insert after a search that found nothing.
LEMMA InsertNewCommand ==
  ASSUME TypeInv, CommandInv, pc \in SearchPcs, caller # "rep", InsertNew
  PROVE  CommandInv'
<1>1. Inserting /\ ins \in Cell
  BY DEF Inserting, TypeInv, ControlInv
<1>2. CASE chain = <<>> /\ InsertDone(<<ins>>)
  <2>1. Names(chain) = {}
    BY <1>2 DEF Names
  <2>2. ins.node \in Names(<<ins>>)
    BY <1>1 DEF Names
  <2> QED
    BY <1>1, <1>2, <2>1, <2>2, InsertCommand
<1>3. CASE chain # <<>> /\ dlist' = 1 /\ pc' = "t_test"
           /\ UNCHANGED <<config, chain, files, locals, wbuf, rest, out, monitor>>
  <2>1. PointerInv' /\ AheadInv' /\ RootInv'
    BY <1>3 DEF PointerInv, AheadInv, RootInv, InRep, SearchPcs
  <2> QED
    BY <1>3, <2>1, CommandStable
<1> QED
  BY <1>2, <1>3 DEF InsertNew

LEMMA AdvanceCommand ==
  ASSUME TypeInv, CommandInv, NEW a, NEW b, Advance(a, b),
         <<a, b>> \in {<<"s_adv", "s_test">>, <<"t_adv", "t_test">>, <<"w_adv", "w_test">>,
                       <<"d_adv", "d_test">>, <<"f_adv", "f_test">>}
  PROVE  CommandInv'
<1>1. /\ dlist # 0 /\ dlist' = After /\ pc = a /\ pc' = b
      /\ UNCHANGED <<config, chain, files, locals, wbuf, rest, out, monitor>>
  BY DEF Advance, CommandInv, PointerInv
<1>2. PointerInv'
  <2>1. CASE a = "t_adv"
    BY <1>1, <2>1, AfterIsNext DEF CommandInv, PointerInv, TypeInv
  <2>2. CASE a # "t_adv"
    BY <1>1, <2>2 DEF PointerInv
  <2> QED
    BY <2>1, <2>2
<1>3. AheadInv'
  <2>1. CASE a = "s_adv" /\ caller = "rep"
    <3>1. PICK i \in (dlist + 1)..Len(chain) : chain[i].node = Target
      BY <1>1, <2>1 DEF CommandInv, AheadInv
    <3>2. dlist \in 0..Len(chain) /\ Len(chain) \in Nat
      BY LenProperties DEF TypeInv, TypeOK
    <3>3. dlist # Len(chain)
      BY <3>1, <3>2
    <3>4. dlist' = dlist + 1
      BY <1>1, <3>3, AfterIsNext DEF TypeInv
    <3>5. Target' = Target
      BY <1>1 DEF Target, locals
    <3>6. pc' = "s_test" /\ caller' = "rep"
      BY <1>1, <2>1 DEF locals
    <3>7. dlist' # 0 /\ i \in dlist'..Len(chain)
      BY <3>1, <3>2, <3>4
    <3> QED
      BY <1>1, <3>1, <3>5, <3>6, <3>7 DEF AheadInv
  <2>2. CASE a # "s_adv" \/ caller # "rep"
    BY <1>1, <2>2 DEF AheadInv, locals
  <2> QED
    BY <2>1, <2>2
<1>4. RootInv'
  BY <1>1 DEF CommandInv, RootInv, InRep, SearchPcs, locals
<1> QED
  BY <1>1, <1>2, <1>3, <1>4, CommandStable

LEMMA CommandStepInv == TypeInv /\ CommandInv /\ [CommandNext]_vars => CommandInv'
<1> SUFFICES ASSUME TypeInv, CommandInv, [CommandNext]_vars
             PROVE  CommandInv'
  OBVIOUS
<1> USE DEF registry, locals, monitor
<1>1. CASE Start \/ Crash
  BY <1>1 DEF Start, Crash, NoFiles, CommandInv, NothingPlaced, ReplicasRegistered,
              NoNullDereference, PointerInv, AheadInv, RootInv, InRep, SearchPcs
<1>2. CASE SearchAdvance \/ TailAdvance \/ WriteAdvance \/ DisplayAdvance \/ FetchAdvance
  BY <1>2, AdvanceCommand
     DEF SearchAdvance, TailAdvance, WriteAdvance, DisplayAdvance, FetchAdvance
<1>3. CASE RecvUnresolved \/ LoadLine \/ LoadDone \/ DisplayTest \/ FetchTest \/ FetchEnd
           \/ FetchPingOk \/ RepPingFail \/ SendFails \/ Local
  <2>1. PointerInv' /\ AheadInv' /\ RootInv'
    BY <1>3 DEF RecvUnresolved, LoadLine, LoadDone, DisplayTest, FetchTest, FetchEnd,
                FetchPingOk, FetchSave, BeginWrite, RepPingFail, SendFails, Local, Goto,
                Idle, CommandInv, PointerInv, AheadInv, RootInv, InRep, SearchPcs
  <2>2. UNCHANGED <<chain, files>> /\ pc' # "segv"
    BY <1>3 DEF RecvUnresolved, LoadLine, LoadDone, DisplayTest, FetchTest, FetchEnd,
                FetchPingOk, FetchSave, BeginWrite, RepPingFail, SendFails, Local, Goto,
                Idle
  <2> QED
    BY <2>1, <2>2, CommandStable
<1>4. CASE SearchTest
  <2>1. dlist \in 1..Len(chain) /\ Len(chain) \in Nat
    BY <1>4, LenProperties DEF SearchTest, TypeInv, TypeOK
  <2>2. Target' = Target
    BY <1>4 DEF SearchTest, Goto, Target
  <2>3. PointerInv' /\ RootInv'
    BY <1>4, <2>2 DEF SearchTest, Goto, CommandInv, PointerInv, RootInv, InRep, SearchPcs
  <2>4. AheadInv'
    <3>1. CASE caller = "rep" /\ chain[dlist].node # Target
      <4>1. PICK i \in dlist..Len(chain) : chain[i].node = Target
        BY <1>4, <3>1 DEF SearchTest, CommandInv, AheadInv
      <4>2. i \in (dlist + 1)..Len(chain)
        BY <2>1, <3>1, <4>1
      <4> QED
        BY <1>4, <2>2, <4>1, <4>2 DEF SearchTest, Goto, AheadInv
    <3> QED
      BY <1>4, <3>1 DEF SearchTest, Goto, AheadInv
  <2> QED
    BY <1>4, <2>3, <2>4, CommandStable DEF SearchTest, Goto
<1>5. CASE SearchMiss
  <2>1. caller # "rep"
    BY <1>5 DEF SearchMiss, CommandInv, AheadInv
  <2> QED
    BY <1>5, <2>1, InsertNewCommand DEF SearchMiss, SearchPcs
<1>6. CASE SearchReturn
  <2>1. dlist # 0 /\ chain[dlist].node = Target
    BY <1>6 DEF SearchReturn, CommandInv, PointerInv
  <2>2. CASE caller = "rep"
    <3>1. PointerInv' /\ AheadInv' /\ RootInv'
      BY <1>6, <2>1, <2>2 DEF SearchReturn, Goto, CommandInv, PointerInv, AheadInv, RootInv,
                              InRep, SearchPcs
    <3> QED
      BY <1>6, <2>1, <2>2, <3>1, CommandStable DEF SearchReturn, Goto
  <2>3. CASE caller # "rep"
    <3> DEFINE c == [chain EXCEPT ![dlist].alive = TRUE]
    <3>1. dlist \in 1..Len(chain)
      BY <2>1 DEF TypeInv, TypeOK
    <3>2. chain \in Seq(Cell)
      BY DEF TypeInv, TypeOK
    <3>3. /\ c \in Seq(Cell) /\ Len(c) = Len(chain)
          /\ \A j \in 1..Len(chain) : c[j].node = chain[j].node
      BY <3>1, <3>2, MarkCell
    <3>4. InsertDone(c) /\ Inserting
      BY <1>6, <2>1, <2>3 DEF SearchReturn, Inserting, SearchPcs
    <3> HIDE DEF c
    <3>5. Names(c) = Names(chain)
      BY <3>3, <3>2, SameNames
    <3>6. ins.node \in Names(chain)
      BY <2>1, <2>3, <3>1, <3>2, NamesDef DEF Target
    <3> QED
      BY <3>4, <3>5, <3>6, InsertCommand
  <2> QED
    BY <2>2, <2>3
<1>7. CASE TailTest
  <2>1. PointerInv' /\ AheadInv' /\ RootInv'
    BY <1>7 DEF TailTest, Goto, CommandInv, PointerInv, AheadInv, RootInv, InRep, SearchPcs
  <2> QED
    BY <1>7, <2>1, CommandStable DEF TailTest, Goto, CommandInv, PointerInv
<1>8. CASE Link
  <2> DEFINE c == Append(chain, ins)
  <2>1. chain \in Seq(Cell) /\ ins \in Cell /\ Inserting
    BY <1>8 DEF Link, TypeInv, TypeOK, ControlInv, Inserting, TailPcs
  <2>2. dlist # 0 /\ dlist = Len(chain)
    BY <1>8 DEF Link, CommandInv, PointerInv
  <2>3. SubSeq(chain, 1, dlist) = chain
    BY <2>1, <2>2, SubSeqFull
  <2>4. InsertDone(c)
    BY <1>8, <2>2, <2>3 DEF Link
  <2>5. /\ c \in Seq(Cell) /\ Len(c) = Len(chain) + 1 /\ c[Len(chain) + 1] = ins
        /\ \A i \in 1..Len(chain) : c[i] = chain[i]
    BY <2>1, AppendProperties
  <2>6. Len(chain) \in Nat
    BY <2>1, LenProperties
  <2> HIDE DEF c
  <2>7. Names(chain) \subseteq Names(c) /\ ins.node \in Names(c)
    BY <2>1, <2>5, <2>6, NamesDef
  <2> QED
    BY <2>1, <2>4, <2>7, InsertCommand
<1>9. CASE WriteCell \/ WriteOpen \/ WriteFlush
  <2>1. PointerInv' /\ AheadInv' /\ RootInv'
    BY <1>9 DEF WriteCell, WriteOpen, WriteFlush, TypeInv, ControlInv, WritePcs, CommandInv,
                PointerInv, AheadInv, RootInv, InRep, SearchPcs
  <2>2. UNCHANGED <<chain, files>> /\ pc' # "segv"
    BY <1>9 DEF WriteCell, WriteOpen, WriteFlush
  <2> QED
    BY <2>1, <2>2, CommandStable
<1>10. CASE FetchPingFail
  <2>1. dlist # 0 /\ dlist \in 1..Len(chain) /\ chain \in Seq(Cell)
    BY <1>10 DEF FetchPingFail, CommandInv, PointerInv, TypeInv, TypeOK
  <2>2. /\ chain' = [chain EXCEPT ![dlist].alive = FALSE]
        /\ pc = "f_ping" /\ pc' = "f_adv" /\ UNCHANGED <<dlist, files, locals>>
    BY <1>10, <2>1 DEF FetchPingFail
  <2>3. /\ chain' \in Seq(Cell) /\ Len(chain') = Len(chain)
        /\ \A j \in 1..Len(chain) : chain'[j].node = chain[j].node
    <3> DEFINE e == [chain EXCEPT ![dlist].alive = FALSE]
    <3>1. /\ e \in Seq(Cell) /\ Len(e) = Len(chain)
          /\ \A j \in 1..Len(chain) : e[j].node = chain[j].node
      BY <2>1, MarkCell
    <3>2. chain' = e
      BY <2>2
    <3> HIDE DEF e
    <3> QED
      BY ONLY <3>1, <3>2
  <2>4. Names(chain') = Names(chain)
    BY <2>1, <2>3, SameNames
  <2>5. ReplicasRegistered' /\ NothingPlaced'
    BY <2>2, <2>4 DEF CommandInv, ReplicasRegistered, NothingPlaced
  <2>6. PointerInv' /\ AheadInv' /\ RootInv'
    BY <2>1, <2>2 DEF CommandInv, PointerInv, AheadInv, RootInv, InRep, SearchPcs
  <2> QED
    BY <2>2, <2>5, <2>6 DEF CommandInv, NoNullDereference
<1>11. CASE FetchReturn
  <2>1. dlist = 0
    BY <1>11 DEF FetchReturn, CommandInv, PointerInv
  <2>2. PointerInv' /\ AheadInv' /\ RootInv'
    BY <1>11, <2>1 DEF FetchReturn, Goto, PointerInv, AheadInv, RootInv, InRep, SearchPcs
  <2> QED
    BY <1>11, <2>1, <2>2, CommandStable DEF FetchReturn, Goto
<1>12. CASE RepSlot
  <2>1. CASE slot > Len(files[req.path]) /\ Goto("local")
    <3>1. PointerInv' /\ AheadInv' /\ RootInv'
      BY <2>1 DEF Goto, PointerInv, AheadInv, RootInv, InRep, SearchPcs
    <3> QED
      BY <2>1, <3>1, CommandStable DEF Goto
  <2>2. CASE /\ slot <= Len(files[req.path]) /\ pc = "r_slot" /\ pc' = "s_test"
             /\ caller' = "rep" /\ dlist' = First
             /\ UNCHANGED <<config, chain, files, ins, req, slot, dpath>>
    <3>1. chain \in Seq(Cell) /\ Len(chain) \in Nat
      BY LenProperties DEF TypeInv, TypeOK
    <3>2. req.path \in Files /\ slot \in DOMAIN files[req.path]
      BY <2>2, LenProperties DEF TypeInv, TypeOK, ControlInv, Handling, Requests
    <3>3. PICK i \in 1..Len(chain) : chain[i].node = files[req.path][slot]
      BY <3>1, <3>2, NamesDef DEF CommandInv, ReplicasRegistered
    <3>4. First = 1
      BY <3>1, <3>3 DEF First
    <3>5. Target' = files[req.path][slot]
      BY <2>2 DEF Target
    <3>6. AheadInv'
      BY <2>2, <3>3, <3>4, <3>5 DEF AheadInv
    <3>7. PointerInv' /\ RootInv'
      BY <2>2 DEF CommandInv, PointerInv, RootInv, InRep, SearchPcs
    <3> QED
      BY <2>2, <3>6, <3>7, CommandStable
  <2> QED
    BY <1>12, <2>1, <2>2 DEF RepSlot
<1>13. CASE RepPingOk
  <2>1. req.path \in Files /\ slot \in DOMAIN files[req.path]
    BY <1>13, LenProperties
       DEF RepPingOk, TypeInv, TypeOK, ControlInv, Handling, InRep, Requests
  <2>2. dpath' \in Names(chain)
    BY <1>13, <2>1 DEF RepPingOk, CommandInv, ReplicasRegistered
  <2>3. UNCHANGED <<chain, files, dlist, req, caller>> /\ pc = "r_ping" /\ pc' = "send"
    BY <1>13 DEF RepPingOk
  <2>4. PointerInv' /\ AheadInv' /\ RootInv'
    BY <2>2, <2>3 DEF CommandInv, PointerInv, AheadInv, RootInv, InRep, SearchPcs, Names
  <2> QED
    BY <2>3, <2>4, CommandStable
<1>14. CASE SendOk
  <2>1. req.path = Root /\ dpath \in Names(chain) /\ dpath \in Nodes
    BY <1>14 DEF SendOk, CommandInv, RootInv, TypeInv, ControlInv
  <2>2. UNCHANGED chain /\ pc' = "recv"
    BY <1>14 DEF SendOk, Idle
  <2>3. CASE files' = files
    <3>1. PointerInv' /\ AheadInv' /\ RootInv'
      BY <2>2 DEF PointerInv, AheadInv, RootInv, InRep, SearchPcs
    <3> QED
      BY <2>2, <2>3, <3>1, CommandStable
  <2>4. CASE files' = WithReplica(Root, dpath)
    <3>1. \A f \in Files \ {Root} : files'[f] = files[f]
      BY <2>1, <2>4, RootReplica DEF TypeInv
    <3>2. files'[Root] = files[Root] \/ files'[Root] = Append(files[Root], dpath)
      BY <2>4, NameNodeAssumption DEF WithReplica, TypeInv, TypeOK
    <3>3. files[Root] \in Seq(Nodes)
      BY NameNodeAssumption DEF TypeInv, TypeOK
    <3>4. \A i \in DOMAIN Append(files[Root], dpath) :
            \/ i \in DOMAIN files[Root] /\ Append(files[Root], dpath)[i] = files[Root][i]
            \/ Append(files[Root], dpath)[i] = dpath
      BY <2>1, <3>3, AppendProperties, LenProperties
    <3>5. \A f \in Files : \A i \in DOMAIN files'[f] : files'[f][i] \in Names(chain)
      BY <2>1, <3>1, <3>2, <3>4 DEF CommandInv, ReplicasRegistered
    <3>6. ReplicasRegistered' /\ NothingPlaced'
      BY <2>2, <3>1, <3>5 DEF ReplicasRegistered, NothingPlaced, CommandInv, Names
    <3>7. PointerInv' /\ AheadInv' /\ RootInv'
      BY <2>2 DEF PointerInv, AheadInv, RootInv, InRep, SearchPcs
    <3> QED
      BY <2>2, <3>6, <3>7 DEF CommandInv, NoNullDereference
  <2> QED
    BY <1>14, <2>1, <2>3, <2>4 DEF SendOk
<1>15. ASSUME NEW c \in Cmds, NEW f \in Files, Recv(c, f) PROVE CommandInv'
  <2>1. files[f] # <<>> => f = Root
    BY DEF CommandInv, NothingPlaced
  <2>2. req'.path = f /\ UNCHANGED <<chain, files>> /\ pc' \in {"r_slot", "local", "f_test"}
        /\ (pc' = "r_slot" => files[f] # <<>>)
    BY <1>15 DEF Recv
  <2>3. PointerInv' /\ AheadInv' /\ RootInv'
    BY <2>1, <2>2 DEF PointerInv, AheadInv, RootInv, InRep, SearchPcs
  <2> QED
    BY <2>2, <2>3, CommandStable
<1>16. ASSUME NEW n \in Nodes, RecvRegister(n) PROVE CommandInv'
  <2>1. UNCHANGED <<chain, files>> /\ pc' = "s_test" /\ caller' = "register"
    BY <1>16 DEF RecvRegister
  <2>2. PointerInv' /\ AheadInv' /\ RootInv'
    BY <2>1 DEF PointerInv, AheadInv, RootInv, InRep, SearchPcs
  <2> QED
    BY <2>1, <2>2, CommandStable
<1>17. CASE UNCHANGED vars \/ \E f \in Files : RecvStatfs(f)
  <2>1. UNCHANGED <<chain, dlist, files, pc, caller, ins, req, slot, dpath>>
    BY <1>17 DEF vars, RecvStatfs
  <2> QED
    BY <2>1 DEF CommandInv, NothingPlaced, ReplicasRegistered, NoNullDereference, PointerInv,
                AheadInv, RootInv, InRep, SearchPcs, Names, Target
<1> QED
  BY <1>1, <1>2, <1>3, <1>4, <1>5, <1>6, <1>7, <1>8, <1>9, <1>10, <1>11, <1>12, <1>13,
     <1>14, <1>15, <1>16, <1>17
     DEF CommandNext, CommandStep, Environment

LEMMA CommandInvHolds == CommandSpec => []CommandInv
<1>1. Init => CommandInv
  BY DEF Init, NoFiles, CommandInv, NothingPlaced, ReplicasRegistered, NoNullDereference,
         PointerInv, AheadInv, RootInv, InRep, SearchPcs
<1> QED
  BY <1>1, CommandTypeInv, CommandStepInv, PTL DEF CommandSpec

\* While one thread owns dlist no walk over the registry, and no unchecked
\* result of datanode_search, is dereferenced as NULL.
THEOREM NeverNullDereference == CommandSpec => []NoNullDereference
<1>1. CommandInv => NoNullDereference
  BY DEF CommandInv
<1> QED
  BY <1>1, CommandInvHolds, PTL

\* What makes getRepfetchnum's unchecked search succeed: the file table names
\* only nodes of the registry.
THEOREM ReplicasAlwaysRegistered == CommandSpec => []ReplicasRegistered
<1>1. CommandInv => ReplicasRegistered
  BY DEF CommandInv
<1> QED
  BY <1>1, CommandInvHolds, PTL

\* Without the monitor thread no path but the root is ever placed: every
\* command about another path is run by the namenode itself.
THEOREM NothingEverPlaced == CommandSpec => []NothingPlaced
<1>1. CommandInv => NothingPlaced
  BY DEF CommandInv
<1> QED
  BY <1>1, CommandInvHolds, PTL
-----------------------------------------------------------------------------
(* The registry, and what is saved of it, while one thread owns dlist.      *)

\* datanode_insert has not met the node so far, or has it at its pointer.
FreshInv ==
  /\ pc \in {"s_test", "s_adv"} /\ caller # "rep" =>
       \A i \in 1..Len(chain) :
         dlist = 0 \/ i < dlist \/ (pc = "s_adv" /\ i = dlist) => chain[i].node # ins.node
  /\ pc \in TailPcs => \A i \in 1..Len(chain) : chain[i].node # ins.node

UniqueNames(c) == \A i, j \in 1..Len(c) : c[i].node = c[j].node => i = j

\* The buffer of datanode_filewrite holds the cells the walk has passed.
Passed == IF pc = "w_flush" \/ dlist = 0 THEN Len(chain)
          ELSE IF pc = "w_test" THEN dlist - 1 ELSE dlist
BufferInv == pc \in WritePcs => wbuf = SubSeq(chain, 1, Passed)

\* Where no cell has changed since dnconfig was written.
SavedInv ==
  /\ pc \in {"recv", "d_test", "d_adv", "f_ret", "r_slot", "send", "local"} \/ InRep =>
       config = chain
  /\ pc = "load" => config = chain \/ (chain = <<>> /\ rest = config)

\* Every listed node is a replica of the root while the root has slots left.
Covers(table, c) ==
  Len(table[Root]) < MaxSlots =>
    \A i \in 1..Len(c) : \E j \in 1..Len(table[Root]) : table[Root][j] = c[i].node

RegistryInv ==
  /\ FreshInv /\ UniqueNames(chain) /\ UniqueNames(config)
  /\ BufferInv /\ SavedInv /\ Covers(files, chain)

\* A list of cells that keeps the nodes, or gains the one a replica of the root
\* was just recorded for, stays covered.
LEMMA CoverKept ==
  ASSUME TypeOK, Covers(files, chain), NEW c \in Seq(Cell),
         NEW f \in Files, NEW n \in Nodes,
         \A i \in 1..Len(c) : \/ f = Root /\ c[i].node = n
                              \/ \E k \in 1..Len(chain) : c[i].node = chain[k].node
  PROVE  Covers(WithReplica(f, n), c)
<1> DEFINE t == WithReplica(f, n)
<1>1. files[Root] \in Seq(Nodes) /\ Root \in Files /\ Len(files[Root]) \in Nat
  BY NameNodeAssumption, LenProperties DEF TypeOK
<1>2. CASE t[Root] = files[Root] /\ (f = Root => ~(Len(files[Root]) < MaxSlots))
  <2>1. SUFFICES ASSUME Len(files[Root]) < MaxSlots
                 PROVE  \A i \in 1..Len(c) : \E j \in 1..Len(files[Root]) :
                          files[Root][j] = c[i].node
    BY <1>2 DEF Covers
  <2>2. \A k \in 1..Len(chain) : \E j \in 1..Len(files[Root]) : files[Root][j] = chain[k].node
    BY <2>1 DEF Covers
  <2>3. \A i \in 1..Len(c) : \E k \in 1..Len(chain) : c[i].node = chain[k].node
    BY <1>2, <2>1
  <2> QED
    BY <2>2, <2>3
<1>3. CASE t[Root] = Append(files[Root], n) /\ Len(files[Root]) < MaxSlots
  <2>1. /\ Len(t[Root]) = Len(files[Root]) + 1
        /\ \A j \in 1..Len(files[Root]) : t[Root][j] = files[Root][j]
        /\ t[Root][Len(files[Root]) + 1] = n
    BY <1>1, <1>3, AppendProperties
  <2> HIDE DEF t
  <2>2. \A k \in 1..Len(chain) : \E j \in 1..Len(t[Root]) : t[Root][j] = chain[k].node
    BY <1>1, <1>3, <2>1 DEF Covers
  <2>3. \E j \in 1..Len(t[Root]) : t[Root][j] = n
    BY <1>1, <2>1
  <2>4. Covers(t, c)
    BY <2>2, <2>3 DEF Covers
  <2> QED
    BY <2>4 DEF t
<1> QED
  BY <1>1, <1>2, <1>3 DEF WithReplica, TypeOK

\* Steps that leave the list, the table and the file alone.
LEMMA RegistryKept ==
  ASSUME RegistryInv, UNCHANGED <<config, chain, files>>, FreshInv', BufferInv', SavedInv'
  PROVE  RegistryInv'
BY DEF RegistryInv, UniqueNames, Covers

\* The end of datanode_insert.
LEMMA InsertRegistry ==
  ASSUME TypeInv, RegistryInv, Inserting, NEW c \in Seq(Cell), Len(c) >= 1, InsertDone(c),
         UniqueNames(c),
         \A i \in 1..Len(c) : \/ c[i].node = ins.node
                              \/ \E k \in 1..Len(chain) : c[i].node = chain[k].node
  PROVE  RegistryInv'
<1>1. /\ chain' = c /\ dlist' = 1 /\ files' = WithReplica(Root, ins.node)
      /\ pc' = "w_test" /\ wbuf' = <<>> /\ UNCHANGED config
  BY DEF InsertDone, BeginWrite
<1>2. ins.node \in Nodes
  BY DEF TypeInv, ControlInv, Cell
<1>3. Covers(files, chain)'
  <2>1. Covers(WithReplica(Root, ins.node), c)
    BY <1>2, CoverKept, NameNodeAssumption DEF TypeInv, RegistryInv
  <2> QED
    BY <1>1, <2>1 DEF Covers
<1>4. BufferInv'
  <2>1. Passed' = 0
    BY <1>1 DEF Passed
  <2> QED
    BY <1>1, <2>1, SubSeqEmpty DEF BufferInv
<1>5. FreshInv' /\ SavedInv'
  BY <1>1 DEF FreshInv, SavedInv, TailPcs, InRep, SearchPcs
<1> QED
  BY <1>1, <1>3, <1>4, <1>5 DEF RegistryInv, UniqueNames

\* One more cell of a new node keeps the names apart.
LEMMA AppendFresh ==
  ASSUME NEW s \in Seq(Cell), NEW e \in Cell, UniqueNames(s),
         \A i \in 1..Len(s) : s[i].node # e.node
  PROVE  /\ UniqueNames(Append(s, e)) /\ Append(s, e) \in Seq(Cell)
         /\ Len(Append(s, e)) >= 1
         /\ \A i \in 1..Len(Append(s, e)) :
              \/ Append(s, e)[i].node = e.node
              \/ \E k \in 1..Len(s) : Append(s, e)[i].node = s[k].node
<1> DEFINE c == Append(s, e)
<1>1. /\ c \in Seq(Cell) /\ Len(c) = Len(s) + 1 /\ c[Len(s) + 1] = e
      /\ \A i \in 1..Len(s) : c[i] = s[i]
  BY AppendProperties
<1>2. Len(s) \in Nat
  BY LenProperties
<1> HIDE DEF c
<1>3. UniqueNames(c)
  BY <1>1, <1>2 DEF UniqueNames
<1>4. \A i \in 1..Len(c) : c[i].node = e.node \/ \E k \in 1..Len(s) : c[i].node = s[k].node
  BY <1>1, <1>2
<1> QED
  BY <1>1, <1>2, <1>3, <1>4 DEF c

\* datanode_insert after a search that found nothing.
LEMMA InsertNewRegistry ==
  ASSUME TypeInv, RegistryInv, pc \in {"s_test", "s_ret"}, caller # "rep", InsertNew,
         \A i \in 1..Len(chain) : chain[i].node # ins.node
  PROVE  RegistryInv'
<1>1. Inserting /\ ins \in Cell
  BY DEF Inserting, TypeInv, ControlInv, SearchPcs
<1>2. CASE chain = <<>> /\ InsertDone(<<ins>>)
  <2> DEFINE c == <<ins>>
  <2>1. c \in Seq(Cell) /\ Len(c) = 1 /\ c[1] = ins /\ InsertDone(c)
    BY <1>1, <1>2
  <2> HIDE DEF c
  <2>2. UniqueNames(c) /\ \A i \in 1..Len(c) : c[i].node = ins.node
    BY <2>1 DEF UniqueNames
  <2> QED
    BY <1>1, <2>1, <2>2, InsertRegistry
<1>3. CASE /\ chain # <<>> /\ pc' = "t_test"
           /\ UNCHANGED <<config, chain, files, locals, wbuf, rest, out, monitor>>
  <2>1. FreshInv' /\ BufferInv' /\ SavedInv'
    BY <1>3 DEF FreshInv, BufferInv, SavedInv, WritePcs, InRep, SearchPcs, locals
  <2> QED
    BY <1>3, <2>1, RegistryKept
<1> QED
  BY <1>2, <1>3 DEF InsertNew

LEMMA AdvanceRegistry ==
  ASSUME TypeInv, CommandInv, RegistryInv, NEW a, NEW b, Advance(a, b),
         <<a, b>> \in {<<"s_adv", "s_test">>, <<"t_adv", "t_test">>, <<"w_adv", "w_test">>,
                       <<"d_adv", "d_test">>, <<"f_adv", "f_test">>}
  PROVE  RegistryInv'
<1>1. /\ dlist # 0 /\ dlist' = After /\ pc = a /\ pc' = b
      /\ UNCHANGED <<config, chain, files, caller, ins, wbuf, rest>>
  BY DEF Advance, CommandInv, PointerInv, locals
<1>2. dlist \in 1..Len(chain) /\ Len(chain) \in Nat
  BY <1>1, LenProperties DEF TypeInv, TypeOK
<1>3. FreshInv'
  <2>1. CASE a = "s_adv" /\ caller # "rep"
    BY <1>1, <1>2, <2>1 DEF After, RegistryInv, FreshInv, TailPcs
  <2>2. CASE a = "t_adv"
    BY <1>1, <2>2 DEF RegistryInv, FreshInv, TailPcs
  <2>3. CASE a \in {"w_adv", "d_adv", "f_adv"} \/ caller = "rep"
    BY <1>1, <2>3 DEF RegistryInv, FreshInv, TailPcs
  <2> QED
    BY <2>1, <2>2, <2>3
<1>4. BufferInv'
  <2>1. CASE a = "w_adv"
    <3>1. Passed = dlist
      BY <1>1, <2>1 DEF Passed
    <3>2. Passed' = dlist
      BY <1>1, <1>2, <2>1 DEF Passed, After
    <3> QED
      BY <1>1, <2>1, <3>1, <3>2 DEF RegistryInv, BufferInv, WritePcs
  <2>2. CASE a # "w_adv"
    BY <1>1, <2>2 DEF BufferInv, WritePcs
  <2> QED
    BY <2>1, <2>2
<1>5. SavedInv'
  BY <1>1 DEF RegistryInv, SavedInv, InRep, SearchPcs
<1> QED
  BY <1>1, <1>3, <1>4, <1>5, RegistryKept

LEMMA RegistryStep ==
  TypeInv /\ CommandInv /\ RegistryInv /\ [CommandNext]_vars => RegistryInv'
<1> SUFFICES ASSUME TypeInv, CommandInv, RegistryInv, [CommandNext]_vars
             PROVE  RegistryInv'
  OBVIOUS
<1> USE DEF registry, locals, monitor
<1>0. chain \in Seq(Cell) /\ Len(chain) \in Nat /\ dlist \in 0..Len(chain)
  BY LenProperties DEF TypeInv, TypeOK
<1>1. CASE Start \/ Crash
  <2>1. /\ chain' = <<>> /\ files' = NoFiles /\ config' = config
        /\ pc' \in {"down", "load"} /\ (pc' = "load" => rest' = config)
    BY <1>1 DEF Start, Crash
  <2>2. FreshInv' /\ BufferInv' /\ SavedInv'
    BY <2>1 DEF FreshInv, BufferInv, SavedInv, TailPcs, WritePcs, InRep, SearchPcs
  <2>3. UniqueNames(chain)' /\ UniqueNames(config)' /\ Covers(files, chain)'
    BY <2>1 DEF RegistryInv, UniqueNames, Covers
  <2> QED
    BY <2>2, <2>3 DEF RegistryInv
<1>2. CASE SearchAdvance \/ TailAdvance \/ WriteAdvance \/ DisplayAdvance \/ FetchAdvance
  BY <1>2, AdvanceRegistry
     DEF SearchAdvance, TailAdvance, WriteAdvance, DisplayAdvance, FetchAdvance
<1>3. CASE LoadLine \/ \E n \in Nodes : RecvRegister(n)
  <2>1. /\ UNCHANGED <<config, chain, files>> /\ dlist' = First
        /\ pc' = "s_test" /\ caller' \in {"load", "register"}
    BY <1>3 DEF LoadLine, RecvRegister
  <2>2. FreshInv'
    BY <1>0, <2>1 DEF FreshInv, First, TailPcs
  <2>3. BufferInv' /\ SavedInv'
    BY <2>1 DEF BufferInv, SavedInv, WritePcs, InRep, SearchPcs
  <2> QED
    BY <2>1, <2>2, <2>3, RegistryKept
<1>4. CASE SearchTest
  <2>1. FreshInv'
    BY <1>0, <1>4 DEF SearchTest, Goto, RegistryInv, FreshInv, TailPcs, Target
  <2>2. BufferInv' /\ SavedInv'
    BY <1>4 DEF SearchTest, Goto, RegistryInv, BufferInv, SavedInv, WritePcs, InRep, SearchPcs
  <2> QED
    BY <1>4, <2>1, <2>2, RegistryKept DEF SearchTest, Goto
<1>5. CASE SearchMiss
  <2>1. caller # "rep"
    BY <1>5 DEF SearchMiss, CommandInv, AheadInv
  <2>2. \A i \in 1..Len(chain) : chain[i].node # ins.node
    BY <1>5, <2>1 DEF SearchMiss, RegistryInv, FreshInv
  <2> QED
    BY <1>5, <2>1, <2>2, InsertNewRegistry DEF SearchMiss
<1>6. CASE SearchReturn
  <2>1. dlist # 0 /\ chain[dlist].node = Target /\ dlist \in 1..Len(chain)
    BY <1>0, <1>6 DEF SearchReturn, CommandInv, PointerInv
  <2>2. CASE caller = "rep"
    <3>1. FreshInv' /\ BufferInv' /\ SavedInv'
      BY <1>6, <2>1, <2>2 DEF SearchReturn, Goto, RegistryInv, FreshInv, BufferInv, SavedInv,
                              WritePcs, TailPcs, InRep, SearchPcs
    <3> QED
      BY <1>6, <2>1, <2>2, <3>1, RegistryKept DEF SearchReturn, Goto
  <2>3. CASE caller # "rep"
    <3> DEFINE c == [chain EXCEPT ![dlist].alive = TRUE]
    <3>1. /\ c \in Seq(Cell) /\ Len(c) = Len(chain)
          /\ \A j \in 1..Len(chain) : c[j].node = chain[j].node
      BY <1>0, <2>1, MarkCell
    <3>2. InsertDone(c) /\ Inserting
      BY <1>6, <2>1, <2>3 DEF SearchReturn, Inserting, SearchPcs
    <3> HIDE DEF c
    <3>3. UniqueNames(c) /\ Len(c) >= 1
      BY <1>0, <2>1, <3>1 DEF RegistryInv, UniqueNames
    <3> QED
      BY <3>1, <3>2, <3>3, InsertRegistry
  <2> QED
    BY <2>2, <2>3
<1>7. CASE Link
  <2>1. ins \in Cell /\ Inserting /\ \A i \in 1..Len(chain) : chain[i].node # ins.node
    BY <1>7 DEF Link, TypeInv, ControlInv, Inserting, TailPcs, RegistryInv, FreshInv
  <2>2. dlist # 0 /\ SubSeq(chain, 1, dlist) = chain
    BY <1>0, <1>7, SubSeqFull DEF Link, CommandInv, PointerInv
  <2>3. InsertDone(Append(chain, ins))
    BY <1>7, <2>2 DEF Link
  <2>4. UniqueNames(chain)
    BY DEF RegistryInv
  <2> QED
    BY <1>0, <2>1, <2>3, <2>4, AppendFresh, InsertRegistry
<1>8. CASE WriteCell
  <2>1. /\ dlist \in 1..Len(chain) /\ pc = "w_test" /\ pc' = "w_adv"
        /\ wbuf' = Append(wbuf, chain[dlist]) /\ UNCHANGED <<config, chain, dlist, files>>
    BY <1>0, <1>8 DEF WriteCell
  <2>2. wbuf = SubSeq(chain, 1, dlist - 1)
    BY <2>1 DEF RegistryInv, BufferInv, Passed, WritePcs
  <2>3. \A i \in 1..(dlist - 1) : chain[i] \in Cell
    BY <1>0, <2>1, ElementOfSeq
  <2>4. SubSeq(chain, 1, dlist - 1) \in Seq(Cell) /\ chain[dlist] \in Cell
    BY <1>0, <2>1, <2>3, SubSeqProperties, ElementOfSeq
  <2>5. wbuf' = SubSeq(chain, 1, dlist)
    BY <1>0, <2>1, <2>2, <2>4, SubSeqRecursiveSecond, AppendIsConcat
  <2>6. BufferInv'
    BY <2>1, <2>5 DEF BufferInv, Passed
  <2>7. FreshInv' /\ SavedInv'
    BY <2>1 DEF FreshInv, SavedInv, TailPcs, InRep, SearchPcs
  <2> QED
    BY <2>1, <2>6, <2>7, RegistryKept
<1>9. CASE WriteOpen
  <2>1. /\ pc = "w_test" /\ dlist = 0 /\ config' = <<>> /\ pc' = "w_flush"
        /\ UNCHANGED <<chain, dlist, files, wbuf>>
    BY <1>9 DEF WriteOpen
  <2>2. BufferInv'
    BY <2>1 DEF RegistryInv, BufferInv, Passed, WritePcs
  <2>3. FreshInv' /\ SavedInv'
    BY <2>1 DEF FreshInv, SavedInv, TailPcs, InRep, SearchPcs
  <2>4. UniqueNames(chain)' /\ UniqueNames(config)' /\ Covers(files, chain)'
    BY <2>1 DEF RegistryInv, UniqueNames, Covers
  <2> QED
    BY <2>2, <2>3, <2>4 DEF RegistryInv
<1>10. CASE WriteFlush
  <2>1. wbuf = chain
    BY <1>0, <1>10, SubSeqFull DEF WriteFlush, RegistryInv, BufferInv, Passed, WritePcs
  <2>2. config' = chain /\ UNCHANGED <<chain, files>> /\ pc' \in {"load", "d_test", "f_ret", "local"}
    BY <1>10, <2>1 DEF WriteFlush
  <2>3. FreshInv' /\ BufferInv' /\ SavedInv'
    BY <2>2 DEF FreshInv, BufferInv, SavedInv, TailPcs, WritePcs, InRep, SearchPcs
  <2>4. UniqueNames(chain)' /\ UniqueNames(config)' /\ Covers(files, chain)'
    BY <2>2 DEF RegistryInv, UniqueNames, Covers
  <2> QED
    BY <2>3, <2>4 DEF RegistryInv
<1>11. CASE FetchEnd \/ FetchPingOk
  <2>1. /\ pc' = "w_test" /\ dlist' = First /\ wbuf' = <<>> /\ UNCHANGED <<config, chain, files>>
    BY <1>11 DEF FetchEnd, FetchPingOk, FetchSave, BeginWrite
  <2>2. Passed' = 0
    BY <1>0, <2>1, EmptySeq DEF Passed, First
  <2>3. BufferInv'
    BY <2>1, <2>2, SubSeqEmpty DEF BufferInv
  <2>4. FreshInv' /\ SavedInv'
    BY <2>1 DEF FreshInv, SavedInv, TailPcs, InRep, SearchPcs
  <2> QED
    BY <2>1, <2>3, <2>4, RegistryKept
<1>12. CASE FetchPingFail
  <2> DEFINE e == [chain EXCEPT ![dlist].alive = FALSE]
  <2>1. /\ dlist \in 1..Len(chain) /\ chain' = e /\ pc' = "f_adv" /\ UNCHANGED <<config, files>>
    BY <1>0, <1>12 DEF FetchPingFail, CommandInv, PointerInv
  <2>2. Len(e) = Len(chain) /\ \A j \in 1..Len(chain) : e[j].node = chain[j].node
    BY <1>0, <2>1, MarkCell
  <2> HIDE DEF e
  <2>3. UniqueNames(chain)' /\ UniqueNames(config)' /\ Covers(files, chain)'
    BY <2>1, <2>2 DEF RegistryInv, UniqueNames, Covers
  <2>4. FreshInv' /\ BufferInv' /\ SavedInv'
    BY <2>1 DEF FreshInv, BufferInv, SavedInv, TailPcs, WritePcs, InRep, SearchPcs
  <2> QED
    BY <2>3, <2>4 DEF RegistryInv
<1>13. CASE SendOk
  <2>1. /\ UNCHANGED <<config, chain>> /\ pc = "send" /\ pc' = "recv"
        /\ files' = files \/ files' = WithReplica(req.path, dpath)
    BY <1>13 DEF SendOk, Idle
  <2>2. req.path \in Files /\ dpath \in Nodes
    BY <2>1 DEF TypeInv, ControlInv, Handling, Requests
  <2>3. Covers(WithReplica(req.path, dpath), chain)
    BY <1>0, <2>2, CoverKept DEF TypeInv, RegistryInv
  <2>4. Covers(files, chain)'
    BY <2>1, <2>3 DEF RegistryInv, Covers
  <2>5. FreshInv' /\ BufferInv' /\ SavedInv'
    BY <2>1 DEF RegistryInv, FreshInv, BufferInv, SavedInv, TailPcs, WritePcs, InRep, SearchPcs
  <2> QED
    BY <2>1, <2>4, <2>5 DEF RegistryInv, UniqueNames
<1>14. CASE \/ RecvUnresolved \/ LoadDone \/ TailTest \/ DisplayTest \/ FetchTest \/ FetchReturn
            \/ \E c \in Cmds, f \in Files : Recv(c, f)
  <2>1. UNCHANGED <<config, chain, files>>
    BY <1>14 DEF RecvUnresolved, LoadDone, TailTest, DisplayTest, FetchTest, FetchReturn, Recv,
                 Goto, Segv, Idle
  <2>2. FreshInv' /\ BufferInv' /\ SavedInv'
    BY <1>14 DEF RecvUnresolved, LoadDone, TailTest, DisplayTest, FetchTest, FetchReturn, Recv,
                 Goto, Segv, Idle, RegistryInv, FreshInv, BufferInv, SavedInv, TailPcs, WritePcs,
                 InRep, SearchPcs
  <2> QED
    BY <2>1, <2>2, RegistryKept
<1>15. CASE RepSlot \/ RepPingOk \/ RepPingFail \/ SendFails \/ Local
  <2>1. UNCHANGED <<config, chain, files>>
    BY <1>15 DEF RepSlot, RepPingOk, RepPingFail, SendFails, Local, Goto, Idle
  <2>2. FreshInv' /\ BufferInv' /\ SavedInv'
    BY <1>15 DEF RepSlot, RepPingOk, RepPingFail, SendFails, Local, Goto, Idle, RegistryInv,
                 FreshInv, BufferInv, SavedInv, TailPcs, WritePcs, InRep, SearchPcs
  <2> QED
    BY <2>1, <2>2, RegistryKept
<1>16. CASE UNCHANGED vars \/ \E f \in Files : RecvStatfs(f)
  <2>1. UNCHANGED <<config, chain, dlist, files, pc, caller, ins, wbuf, rest>>
    BY <1>16 DEF vars, RecvStatfs
  <2> QED
    BY <2>1 DEF RegistryInv, UniqueNames, Covers, FreshInv, BufferInv, Passed, SavedInv, InRep
<1> QED
  BY <1>1, <1>2, <1>3, <1>4, <1>5, <1>6, <1>7, <1>8, <1>9, <1>10, <1>11, <1>12, <1>13,
     <1>14, <1>15, <1>16
     DEF CommandNext, CommandStep, Environment

LEMMA RegistryInvHolds == CommandSpec => []RegistryInv
<1>1. Init => RegistryInv
  BY DEF Init, NoFiles, RegistryInv, FreshInv, UniqueNames, BufferInv, SavedInv, Covers,
         TailPcs, WritePcs, InRep, SearchPcs
<1> QED
  BY <1>1, CommandTypeInv, CommandInvHolds, RegistryStep, PTL DEF CommandSpec

\* dnconfig holds the registry, marks of dead nodes included, whenever the
\* thread waits for a request, and what has been reloaded of it between two
\* lines of readdnconfig: datanode_filewrite misses no cell.
THEOREM ConfigAlwaysAgrees == CommandSpec => []ConfigAgrees
<1>1. RegistryInv => ConfigAgrees
  BY DEF RegistryInv, SavedInv, ConfigAgrees
<1> QED
  BY <1>1, RegistryInvHolds, PTL

\* No node is listed twice, in the registry or in dnconfig, after any number of
\* registrations, crashes and reloads.
THEOREM NodesListedOnce == CommandSpec => []ListedOnce
<1>1. TypeInv => DOMAIN chain = 1..Len(chain) /\ DOMAIN config = 1..Len(config)
  BY LenProperties DEF TypeInv, TypeOK
<1>2. TypeInv /\ RegistryInv => ListedOnce
  BY <1>1 DEF RegistryInv, UniqueNames, ListedOnce
<1> QED
  BY <1>2, CommandTypeInv, RegistryInvHolds, PTL

\* datanode_insert records every listed node as a replica of the root, until
\* the slots of the root are used up.
THEOREM RootAlwaysCovers == CommandSpec => []RootCoversRegistry
<1>1. TypeInv /\ RegistryInv => RootCoversRegistry
  BY LenProperties, NameNodeAssumption DEF TypeInv, TypeOK, RegistryInv, Covers, RootCoversRegistry
<1> QED
  BY <1>1, CommandTypeInv, RegistryInvHolds, PTL

\* What the end of datanode_insert or a failed ping may do to the list while
\* the process runs.
LEMMA StableStep ==
  ASSUME TypeInv, CommandInv, [CommandNext]_vars, Up, Up'
  PROVE  /\ Len(chain) <= Len(chain')
         /\ \A i \in 1..Len(chain) :
              /\ chain'[i].node = chain[i].node
              /\ chain'[i].alive /\ ~chain[i].alive =>
                   pc = "s_ret" /\ ins.node = chain[i].node
<1>1. chain \in Seq(Cell) /\ Len(chain) \in Nat /\ dlist \in 0..Len(chain)
  BY LenProperties DEF TypeInv, TypeOK
<1>2. CASE UNCHANGED chain
  BY <1>1, <1>2
<1>3. CASE SearchReturn /\ dlist # 0 /\ chain' = [chain EXCEPT ![dlist].alive = TRUE]
  <2> DEFINE e == [chain[dlist] EXCEPT !.alive = TRUE]
  <2>1. dlist \in 1..Len(chain) /\ chain[dlist] \in Cell
    BY <1>1, <1>3, ElementOfSeq
  <2>2. e \in Cell /\ e.node = chain[dlist].node
    BY <2>1 DEF Cell
  <2>3. chain' = [chain EXCEPT ![dlist] = e]
    BY <1>3
  <2> HIDE DEF e
  <2>4. Len(chain') = Len(chain) /\ \A j \in 1..Len(chain) : chain'[j] = IF j = dlist THEN e ELSE chain[j]
    BY <1>1, <2>1, <2>2, <2>3, ExceptSeq
  <2>5. pc = "s_ret" /\ (caller # "rep" => ins.node = chain[dlist].node)
    BY <1>3 DEF SearchReturn, CommandInv, PointerInv, Target
  <2>6. CASE caller = "rep"
    BY <1>2, <1>3, <2>6 DEF SearchReturn, Goto, registry
  <2>7. CASE caller # "rep"
    BY <1>1, <2>2, <2>4, <2>5, <2>7
  <2> QED
    BY <2>6, <2>7
<1>4. CASE chain = <<>>
  BY <1>1, <1>4
<1>5. CASE chain' = Append(chain, ins) /\ ins \in Cell
  <2>1. Len(chain') = Len(chain) + 1 /\ \A i \in 1..Len(chain) : chain'[i] = chain[i]
    BY <1>1, <1>5, AppendProperties
  <2> QED
    BY <1>1, <2>1
<1>6. CASE dlist # 0 /\ chain' = [chain EXCEPT ![dlist].alive = FALSE]
  <2> DEFINE e == [chain[dlist] EXCEPT !.alive = FALSE]
  <2>1. dlist \in 1..Len(chain) /\ chain[dlist] \in Cell
    BY <1>1, <1>6, ElementOfSeq
  <2>2. e \in Cell /\ e.node = chain[dlist].node /\ ~e.alive
    BY <2>1 DEF Cell
  <2>3. chain' = [chain EXCEPT ![dlist] = e]
    BY <1>6
  <2> HIDE DEF e
  <2>4. Len(chain') = Len(chain) /\ \A j \in 1..Len(chain) : chain'[j] = IF j = dlist THEN e ELSE chain[j]
    BY <1>1, <2>1, <2>2, <2>3, ExceptSeq
  <2> QED
    BY <1>1, <2>2, <2>4
<1>7. CASE Link /\ chain' # chain
  <2>1. dlist # 0 /\ SubSeq(chain, 1, dlist) = chain /\ ins \in Cell
    BY <1>1, <1>7, SubSeqFull
       DEF Link, CommandInv, PointerInv, TypeInv, ControlInv, Inserting, TailPcs
  <2> QED
    BY <1>5, <1>7, <2>1 DEF Link, InsertDone
<1>8. CASE SearchMiss \/ SearchReturn \/ Link \/ FetchPingFail
  BY <1>2, <1>3, <1>4, <1>6, <1>7, <1>8
     DEF SearchMiss, SearchReturn, Link, FetchPingFail, InsertNew, InsertDone, Segv, Goto, registry
<1>9. CASE Start \/ Crash
  BY <1>9 DEF Start, Crash, Up
<1>10. CASE SearchAdvance \/ TailAdvance \/ WriteAdvance \/ DisplayAdvance \/ FetchAdvance
  BY <1>2, <1>10 DEF SearchAdvance, TailAdvance, WriteAdvance, DisplayAdvance, FetchAdvance,
                     Advance, Segv, registry
<1>11. CASE \/ RecvUnresolved \/ LoadLine \/ LoadDone \/ SearchTest \/ TailTest \/ DisplayTest
            \/ WriteCell \/ WriteOpen \/ WriteFlush \/ FetchTest \/ FetchEnd \/ FetchPingOk
            \/ FetchReturn \/ RepSlot \/ RepPingOk \/ RepPingFail \/ SendOk \/ SendFails \/ Local
  BY <1>2, <1>11 DEF RecvUnresolved, LoadLine, LoadDone, SearchTest, TailTest, DisplayTest,
                     WriteCell, WriteOpen, WriteFlush, FetchTest, FetchEnd, FetchPingOk, FetchSave,
                     FetchReturn, RepSlot, RepPingOk, RepPingFail, SendOk, SendFails, Local,
                     Segv, Goto, Idle, registry
<1>12. CASE \/ UNCHANGED vars
            \/ \E n \in Nodes : RecvRegister(n)
            \/ \E c \in Cmds, f \in Files : Recv(c, f)
            \/ \E f \in Files : RecvStatfs(f)
  BY <1>2, <1>12 DEF vars, RecvRegister, Recv, RecvStatfs, registry
<1> QED
  BY <1>8, <1>9, <1>10, <1>11, <1>12 DEF CommandNext, CommandStep, Environment

\* While the process runs no cell is lost or moved, and a node marked dead by
\* fetch_datanode is marked alive only by its own registration.
THEOREM RegistryAlwaysStable == CommandSpec => RegistryStable
<1>1. TypeInv /\ CommandInv /\ [CommandNext]_vars =>
        [Up /\ Up' =>
           /\ Len(chain) <= Len(chain')
           /\ \A i \in DOMAIN chain :
                /\ chain'[i].node = chain[i].node
                /\ chain'[i].alive /\ ~chain[i].alive =>
                     pc = "s_ret" /\ ins.node = chain[i].node]_vars
  <2>1. TypeInv => DOMAIN chain = 1..Len(chain)
    BY LenProperties DEF TypeInv, TypeOK
  <2> QED
    BY <2>1, StableStep
<1> QED
  BY <1>1, CommandTypeInv, CommandInvHolds, PTL DEF CommandSpec, RegistryStable
-----------------------------------------------------------------------------
(* The namenode implements the directory.                                   *)

\* A request about a path without a home is sent to a listed node: the cell
\* fetch_datanode stopped at, wherever the monitor thread had left dlist.
SentMember == pc = "send" /\ files[req.path] = <<>> => dpath \in Names(chain)

LEMMA SentStep == TypeInv /\ SentMember /\ [Next]_vars => SentMember'
<1> SUFFICES ASSUME TypeInv, SentMember, [Next]_vars, pc' = "send"
             PROVE  SentMember'
  BY DEF SentMember
<1> USE DEF registry, locals, monitor
<1>1. CASE FetchReturn
  <2>1. dlist \in 1..Len(chain) /\ dpath' = chain[dlist].node /\ chain' = chain
    BY <1>1 DEF FetchReturn, Goto, TypeInv, TypeOK
  <2> QED
    BY <2>1, NamesDef DEF TypeInv, TypeOK, SentMember
<1>2. CASE RepPingOk
  <2>1. req \in Requests /\ slot \in 1..Len(files[req.path])
    BY <1>2 DEF RepPingOk, TypeInv, ControlInv, Handling, InRep
  <2>2. files[req.path] # <<>>
    BY <2>1, EmptySeq DEF Requests
  <2> QED
    BY <1>2, <2>2 DEF RepPingOk, SentMember
<1>3. CASE MonitorNext \/ UNCHANGED vars \/ \E f \in Files : RecvStatfs(f)
  BY <1>3 DEF MonitorNext, MonRecv, MonTest, MonAdvance, Segv, vars, RecvStatfs, SentMember,
              Names
<1>4. CASE \/ Start \/ Crash \/ RecvUnresolved \/ LoadLine \/ LoadDone
           \/ \E n \in Nodes : RecvRegister(n)
           \/ \E c \in Cmds, f \in Files : Recv(c, f)
  BY <1>4 DEF Start, Crash, RecvUnresolved, Goto, LoadLine, LoadDone, Idle, RecvRegister, Recv
<1>5. CASE SearchTest \/ SearchMiss \/ SearchReturn \/ TailTest \/ Link
  BY <1>5 DEF SearchTest, SearchMiss, SearchReturn, TailTest, Link, Goto, Segv, InsertNew,
              InsertDone, BeginWrite
<1>6. CASE SearchAdvance \/ TailAdvance \/ WriteAdvance \/ DisplayAdvance \/ FetchAdvance
  BY <1>6 DEF SearchAdvance, TailAdvance, WriteAdvance, DisplayAdvance, FetchAdvance, Advance,
              Segv
<1>7. CASE WriteCell \/ WriteOpen \/ WriteFlush \/ DisplayTest
  BY <1>7 DEF WriteCell, WriteOpen, WriteFlush, DisplayTest, Goto, Idle
<1>8. CASE FetchTest \/ FetchEnd \/ FetchPingOk \/ FetchPingFail \/ RepSlot \/ RepPingFail
  BY <1>8 DEF FetchTest, FetchEnd, FetchPingOk, FetchPingFail, FetchSave, BeginWrite, RepSlot,
              RepPingFail, Goto, Segv
<1>9. CASE SendOk \/ SendFails \/ Local
  BY <1>9 DEF SendOk, SendFails, Local, Goto, Idle
<1> QED
  BY <1>1, <1>2, <1>3, <1>4, <1>5, <1>6, <1>7, <1>8, <1>9
     DEF Next, CommandNext, CommandStep, Environment

\* Steps the directory does not see.
LEMMA DirectoryStable ==
  ASSUME UNCHANGED <<chain, files, out>>
  PROVE  UNCHANGED Dir!dirVars
BY DEF Dir!dirVars, Names, Home

\* The end of datanode_insert registers the node, or marks a listed node alive.
LEMMA InsertRefines ==
  ASSUME TypeInv, Inserting, NEW c \in Seq(Cell), InsertDone(c),
         \/ Names(c) = Names(chain)
         \/ ins.node \in Names(c) /\ Names(c) \subseteq Names(chain) \cup {ins.node}
  PROVE  [Dir!DirNext]_Dir!dirVars
<1>1. ins.node \in Nodes
  BY DEF TypeInv, ControlInv, Cell
<1>2. Names(chain)' = Names(c) /\ out' = out
  BY DEF InsertDone, Names
<1>3. Home' = Home
  BY <1>1, RootReplica DEF InsertDone, Home, TypeInv
<1>4. CASE Names(c) = Names(chain)
  BY <1>2, <1>3, <1>4 DEF Dir!dirVars
<1>5. CASE ins.node \in Names(c) /\ Names(c) \subseteq Names(chain) \cup {ins.node}
  <2> DEFINE lost == Names(chain) \ Names(c)
  <2>1. Names(chain) \subseteq Nodes
    <3>1. chain \in Seq(Cell)
      BY DEF TypeInv, TypeOK
    <3>2. \A i \in 1..Len(chain) : chain[i] \in Cell
      BY <3>1, ElementOfSeq
    <3>3. \A i \in 1..Len(chain) : chain[i].node \in Nodes
      BY <3>2 DEF Cell
    <3> QED
      BY <3>1, <3>3, NamesDef
  <2>2. Dir!Register(ins.node, lost)
    BY <1>2, <1>3, <1>5 DEF Dir!Register
  <2> QED
    BY <1>1, <2>1, <2>2 DEF Dir!DirNext
<1> QED
  BY <1>4, <1>5

\* A request sent to a datanode: the path is placed there, or has its home
\* there, or may go to any member.
LEMMA SendRefines ==
  ASSUME TypeInv, HomeInv, SentMember, SendOk
  PROVE  Dir!DirNext
<1> DEFINE p == req.path
<1>1. p \in Files /\ dpath \in Nodes
  BY DEF SendOk, TypeInv, ControlInv, Handling, Requests
<1>2. Names(chain)' = Names(chain) /\ out' = [path |-> p, to |-> dpath]
  BY DEF SendOk, Names, registry
<1>3. files' = files \/ files' = WithReplica(p, dpath)
  BY DEF SendOk
<1>4. files \in [Files -> Seq(Nodes)]
  BY DEF TypeInv, TypeOK
<1>5. CASE p = Root
  <2>1. Home' = Home
    BY <1>1, <1>3, <1>5, RootReplica DEF Home, TypeInv
  <2>2. Dir!Route(p, dpath)
    BY <1>2, <1>5, <2>1 DEF Dir!Route, Dir!Placeable
  <2> QED
    BY <1>1, <2>2 DEF Dir!DirNext
<1>6. CASE p # Root /\ files[p] # <<>>
  <2>1. Len(files[p]) \in Nat /\ Len(files[p]) >= 1
    BY <1>1, <1>4, <1>6, EmptySeq
  <2>2. files[p][1] = dpath
    BY <1>1, <1>4, <1>6, <2>1, LenProperties DEF SendOk, HomeInv, SingleHome
  <2>3. Append(files[p], dpath) # <<>> /\ Append(files[p], dpath)[1] = files[p][1]
    BY <1>1, <1>4, <2>1, AppendProperties, EmptySeq
  <2>4. Home' = Home
    BY <1>1, <1>3, <1>4, <1>6, <2>3 DEF Home, WithReplica
  <2>5. Dir!Route(p, dpath)
    BY <1>1, <1>2, <1>6, <2>2, <2>4 DEF Dir!Route, Home
  <2> QED
    BY <1>1, <2>5 DEF Dir!DirNext
<1>7. CASE p # Root /\ files[p] = <<>>
  <2>1. dpath \in Names(chain)
    BY <1>7 DEF SendOk, SentMember
  <2>2. Home[p] = NULL
    BY <1>1, <1>7 DEF Home
  <2>3. CASE files' = files
    <3>1. Dir!Route(p, dpath)
      BY <1>2, <2>1, <2>2, <2>3 DEF Dir!Route, Home
    <3> QED
      BY <1>1, <3>1 DEF Dir!DirNext
  <2>4. CASE files' = WithReplica(p, dpath)
    <3>1. Append(<<>>, dpath) # <<>> /\ Append(<<>>, dpath)[1] = dpath
      BY <1>1
    <3>2. Len(files[p]) < MaxSlots
      BY <1>7, NameNodeAssumption
    <3>3. files' = [files EXCEPT ![p] = Append(<<>>, dpath)]
      BY <1>7, <2>4, <3>2 DEF WithReplica
    <3>4. Home' = [Home EXCEPT ![p] = dpath]
      BY <1>1, <1>4, <1>7, <3>1, <3>3 DEF Home
    <3>5. Dir!Place(p, dpath)
      BY <1>2, <2>1, <2>2, <3>4 DEF Dir!Place
    <3> QED
      BY <1>1, <1>7, <3>5 DEF Dir!DirNext, Dir!Placeable
  <2> QED
    BY <1>3, <2>3, <2>4
<1> QED
  BY <1>5, <1>6, <1>7

LEMMA RefineStep ==
  TypeInv /\ HomeInv /\ SentMember /\ [Next]_vars => [Dir!DirNext]_Dir!dirVars
<1> SUFFICES ASSUME TypeInv, HomeInv, SentMember, [Next]_vars
             PROVE  [Dir!DirNext]_Dir!dirVars
  OBVIOUS
<1> USE DEF registry, locals, monitor
<1>1. CASE Start \/ Crash
  <2>1. chain' = <<>> /\ files' = NoFiles /\ out' = NULL
    BY <1>1 DEF Start, Crash
  <2>2. Dir!Forget
    BY <2>1 DEF Dir!Forget, Dir!NoHomes, Dir!Placeable, Names, Home, NoFiles
  <2> QED
    BY <2>2 DEF Dir!DirNext
<1>2. CASE SendOk
  BY <1>2, SendRefines
<1>3. CASE Local \/ \E f \in Files : RecvStatfs(f)
  <2>1. PICK f \in Files : out' = [path |-> f, to |-> NULL]
    BY <1>3 DEF Local, RecvStatfs, TypeInv, ControlInv, Handling, Requests
  <2>2. UNCHANGED <<chain, files>>
    BY <1>3 DEF Local, RecvStatfs
  <2>3. Dir!Answer(f)
    BY <2>1, <2>2 DEF Dir!Answer, Names, Home
  <2> QED
    BY <2>3 DEF Dir!DirNext
<1>4. CASE SearchMiss \/ SearchReturn \/ Link
  <2>1. CASE UNCHANGED <<chain, files, out>>
    BY <2>1, DirectoryStable
  <2>2. CASE Inserting /\ chain = <<>> /\ InsertDone(<<ins>>)
    <3>1. ins \in Cell
      BY <2>2 DEF TypeInv, ControlInv
    <3>2. <<ins>> \in Seq(Cell) /\ Names(<<ins>>) = {ins.node}
      BY <3>1 DEF Names
    <3> QED
      BY <2>2, <3>2, InsertRefines
  <2>3. CASE Inserting /\ dlist # 0 /\ InsertDone([chain EXCEPT ![dlist].alive = TRUE])
    <3> DEFINE c == [chain EXCEPT ![dlist].alive = TRUE]
    <3>1. chain \in Seq(Cell) /\ dlist \in 1..Len(chain)
      BY <2>3 DEF TypeInv, TypeOK
    <3>2. /\ c \in Seq(Cell) /\ Len(c) = Len(chain)
          /\ \A j \in 1..Len(chain) : c[j].node = chain[j].node
      BY <3>1, MarkCell
    <3>3. InsertDone(c)
      BY <2>3
    <3> HIDE DEF c
    <3>4. Names(c) = Names(chain)
      BY <3>1, <3>2, SameNames
    <3> QED
      BY <2>3, <3>2, <3>3, <3>4, InsertRefines
  <2>4. CASE Inserting /\ dlist # 0 /\ InsertDone(Append(SubSeq(chain, 1, dlist), ins))
    <3> DEFINE s == SubSeq(chain, 1, dlist)
               c == Append(s, ins)
    <3>1. chain \in Seq(Cell) /\ dlist \in 1..Len(chain) /\ ins \in Cell
      BY <2>4 DEF TypeInv, TypeOK, ControlInv
    <3>2. \A i \in 1..dlist : chain[i] \in Cell
      BY <3>1, ElementOfSeq
    <3>3. s \in Seq(Cell) /\ Len(s) = dlist /\ \A i \in 1..dlist : s[i] = chain[i]
      BY <3>1, <3>2, SubSeqProperties
    <3> HIDE DEF s
    <3>4. /\ c \in Seq(Cell) /\ Len(c) = dlist + 1
          /\ \A i \in 1..dlist : c[i] = chain[i]
          /\ c[dlist + 1] = ins
      BY <3>1, <3>3, AppendProperties
    <3>5. InsertDone(c)
      BY <2>4 DEF s
    <3> HIDE DEF c
    <3>6. ins.node \in Names(c) /\ Names(c) \subseteq Names(chain) \cup {ins.node}
      BY <3>1, <3>4, NamesDef
    <3> QED
      BY <2>4, <3>4, <3>5, <3>6, InsertRefines
  <2> QED
    BY <1>4, <2>1, <2>2, <2>3, <2>4
       DEF SearchMiss, SearchReturn, Link, InsertNew, Segv, Goto, Inserting, SearchPcs, TailPcs
<1>5. CASE FetchPingFail
  <2>1. CASE dlist = 0
    BY <1>5, <2>1, DirectoryStable DEF FetchPingFail, Segv
  <2>2. CASE dlist # 0
    <3> DEFINE e == [chain EXCEPT ![dlist].alive = FALSE]
    <3>1. chain \in Seq(Cell) /\ dlist \in 1..Len(chain)
      BY <2>2 DEF TypeInv, TypeOK
    <3>2. /\ e \in Seq(Cell) /\ Len(e) = Len(chain)
          /\ \A j \in 1..Len(chain) : e[j].node = chain[j].node
      BY <3>1, MarkCell
    <3>3. chain' = e /\ files' = files /\ out' = out
      BY <1>5, <2>2 DEF FetchPingFail
    <3> HIDE DEF e
    <3>4. Names(e) = Names(chain)
      BY <3>1, <3>2, SameNames
    <3>5. Names(chain)' = Names(chain)
      BY <3>3, <3>4 DEF Names
    <3> QED
      BY <3>3, <3>5 DEF Dir!dirVars, Home
  <2> QED
    BY <2>1, <2>2
<1>6. CASE \/ RecvUnresolved \/ LoadLine \/ LoadDone \/ SearchTest \/ TailTest \/ DisplayTest
           \/ RepSlot \/ RepPingOk \/ RepPingFail \/ SendFails
  BY <1>6, DirectoryStable
     DEF RecvUnresolved, LoadLine, LoadDone, SearchTest, TailTest, DisplayTest, RepSlot,
         RepPingOk, RepPingFail, SendFails, Segv, Goto, Idle
<1>7. CASE SearchAdvance \/ TailAdvance \/ WriteAdvance \/ DisplayAdvance \/ FetchAdvance
  BY <1>7, DirectoryStable
     DEF SearchAdvance, TailAdvance, WriteAdvance, DisplayAdvance, FetchAdvance, Advance, Segv
<1>8. CASE \/ WriteCell \/ WriteOpen \/ WriteFlush
           \/ FetchTest \/ FetchEnd \/ FetchPingOk \/ FetchReturn
  BY <1>8, DirectoryStable
     DEF WriteCell, WriteOpen, WriteFlush, FetchTest, FetchEnd, FetchPingOk, FetchReturn,
         FetchSave, BeginWrite, Segv, Goto
<1>9. CASE MonitorNext \/ UNCHANGED vars
  BY <1>9, DirectoryStable DEF MonitorNext, MonRecv, MonTest, MonAdvance, Segv, vars
<1>10. CASE \/ \E n \in Nodes : RecvRegister(n)
            \/ \E c \in Cmds, f \in Files : Recv(c, f)
  BY <1>10, DirectoryStable DEF RecvRegister, Recv
<1> QED
  BY <1>1, <1>2, <1>3, <1>4, <1>5, <1>6, <1>7, <1>8, <1>9, <1>10
     DEF Next, CommandNext, CommandStep, Environment

\* The namenode with both of its threads is a directory: a path is placed once,
\* on a member, and every later request for it is sent there or answered by the
\* namenode itself, until it ends; receivecommand_namenode over src/list.c.
THEOREM DirectoryIsImplemented == Spec => ImplementsDirectory
<1>1. Init => Dir!DirInit
  BY DEF Init, NoFiles, Dir!DirInit, Dir!NoHomes, Dir!Placeable, Names, Home
<1>2. Init => HomeInv /\ SentMember
  BY DEF Init, NoFiles, HomeInv, SingleHome, InFetch, FetchPcs, WritePcs, SentMember
<1> QED
  BY <1>1, <1>2, TypeInit, TypeStep, HomeStep, SentStep, RefineStep, PTL
     DEF Spec, ImplementsDirectory, Dir!DirSpec
=============================================================================
