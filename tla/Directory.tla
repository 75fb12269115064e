------------------------------ MODULE Directory ------------------------------
(***************************************************************************)
(* What the namenode promises to the rest of the system: a directory that  *)
(* says which datanode a path lives on.  A path is placed at most once, on *)
(* a node that is a member at that moment, and every later request for it  *)
(* goes to that node or is answered by the namenode itself, until the      *)
(* namenode is restarted and forgets all placements.  Members are lost     *)
(* only when a node registers or at a restart.                             *)
(*                                                                         *)
(* Nothing here says how nodes are listed, searched, pinged or saved.      *)
(***************************************************************************)
CONSTANTS Nodes, Files, Root, NULL

VARIABLES
  members,   \* the registered nodes
  home,      \* where each path but the root lives, NULL if nowhere yet
  routed     \* the last request answered, and by whom (NULL: the namenode)

dirVars == <<members, home, routed>>

Placeable == Files \ {Root}
NoHomes == [f \in Placeable |-> NULL]

DirInit == members = {} /\ home = NoHomes /\ routed = NULL

\* Node n registers; a set of members may get lost on the way.
Register(n, lost) ==
  /\ members' = (members \ lost) \cup {n}
  /\ UNCHANGED <<home, routed>>

\* The first command that may create path f places it on a member.
Place(f, n) ==
  /\ n \in members /\ home[f] = NULL
  /\ home' = [home EXCEPT ![f] = n]
  /\ routed' = [path |-> f, to |-> n]
  /\ UNCHANGED members

\* A request goes to the home; without one, to any member.
Route(f, n) ==
  /\ f \in Placeable => home[f] = n \/ (home[f] = NULL /\ n \in members)
  /\ routed' = [path |-> f, to |-> n]
  /\ UNCHANGED <<members, home>>

\* The namenode answers by itself.
Answer(f) ==
  /\ routed' = [path |-> f, to |-> NULL]
  /\ UNCHANGED <<members, home>>

\* The process ends or starts again.
Forget ==
  /\ members' = {} /\ home' = NoHomes /\ routed' = NULL

DirNext ==
  \/ \E n \in Nodes, lost \in SUBSET Nodes : Register(n, lost)
  \/ \E f \in Placeable, n \in Nodes : Place(f, n)
  \/ \E f \in Files, n \in Nodes : Route(f, n)
  \/ \E f \in Files : Answer(f)
  \/ Forget

DirSpec == DirInit /\ [][DirNext]_dirVars
=============================================================================
