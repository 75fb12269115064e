------------------------------ MODULE CorefsList ------------------------------
(***************************************************************************)
(* The list of corefs-1.5/src/fs/list.c: nodes linked by next and prev     *)
(* from a head, the most recently used first, with a pointer to the last   *)
(* of them kept by the caller.  The server finds the context of a client   *)
(* in it by its descriptor.                                                *)
(*                                                                         *)
(* A list is a record, and each function of the code an operator that      *)
(* gives the list it leaves.  Keys have one length.  change_info_ptr,      *)
(* delete_info and free_list have no caller, and remove_info_ptr is called *)
(* for the list of servers a client keeps: they are left out.              *)
(***************************************************************************)
EXTENDS Naturals, Sequences, FiniteSets

CONSTANTS
  Nodes, head,       \* where nodes are allocated, and the head of the list
  NULL,
  Loops,             \* a search that never ends
  Keys, Datas,       \* what nodes are found by, and what is kept in them
  MAX_LIST_LENGTH,
  UINT_MAX           \* bound of an unsigned int

ASSUME CorefsListAssumption ==
  /\ IsFiniteSet(Nodes)
  /\ head \notin Nodes /\ NULL \notin Nodes \cup {head} /\ Loops \notin Nodes \cup {head, NULL}
  /\ NULL \notin Keys \cup Datas
  /\ MAX_LIST_LENGTH \in Nat \ {0} /\ UINT_MAX \in Nat /\ MAX_LIST_LENGTH < UINT_MAX

Cells == Nodes \cup {head}
Links == Cells \cup {NULL}
Cell == [server_addr : Keys \cup {NULL}, data : Datas \cup {NULL}, next : Links, prev : Links]
Lists == [cell : [Cells -> Cell], tail : Links, alength : 0..UINT_MAX]

Blank == [server_addr |-> NULL, data |-> NULL, next |-> NULL, prev |-> NULL]
init_list_head == [cell |-> [c \in Cells |-> Blank], tail |-> NULL, alength |-> 0]

\* The cells that following next leads to, from the head, NULL once it ends.  As
\* many as there are cells: a search that goes further does not end.
Follow(l) ==
  LET at[i \in 0..Cardinality(Cells)] ==
        IF i = 0 THEN head ELSE IF at[i - 1] = NULL THEN NULL ELSE l.cell[at[i - 1]].next
  IN at

Cyclic(l) == Follow(l)[Cardinality(Cells)] # NULL

\* The first node with the key, NULL if there is none, or a search without end.
Find(l, key) ==
  LET at == Follow(l)
      found == {i \in 1..Cardinality(Cells) : at[i] # NULL /\ l.cell[at[i]].server_addr = key}
  IN IF found # {} THEN at[CHOOSE i \in found : \A j \in found : i <= j]
     ELSE IF Cyclic(l) THEN Loops ELSE NULL

\* Nothing leads back from the node.
BugPushFront2(cell, node) ==
  LET first == cell[head].next
      linked == IF first = NULL THEN cell ELSE [cell EXCEPT ![first].prev = node]
  IN [linked EXCEPT ![node].next = first, ![head].next = node]
\* The others are cut off.
BugPushFront(cell, node) ==
  [cell EXCEPT ![node].next = NULL, ![node].prev = head, ![head].next = node]
PushFront(cell, node) ==
  LET first == cell[head].next
      linked == IF first = NULL THEN cell ELSE [cell EXCEPT ![first].prev = node]
  IN [linked EXCEPT ![node].next = first, ![node].prev = head, ![head].next = node]

\* The tail stays where it was.
BugUnlink(l, node) ==
  LET prev == l.cell[node].prev
      next == l.cell[node].next
      cut  == [l.cell EXCEPT ![prev].next = next]
  IN [l EXCEPT !.cell = IF next = NULL THEN cut ELSE [cut EXCEPT ![next].prev = prev]]
\* Out of the list: its neighbours are linked to each other, and the node before
\* the last one becomes the last.
Unlink(l, node) ==
  LET prev == l.cell[node].prev
      next == l.cell[node].next
      cut  == [l.cell EXCEPT ![prev].next = next]
  IN IF next = NULL THEN [l EXCEPT !.cell = cut, !.tail = prev]
     ELSE [l EXCEPT !.cell = [cut EXCEPT ![next].prev = prev]]

\* The nodes calloc may return.
Free(l) == {n \in Nodes : l.cell[n] = Blank}
Referred(l, node) ==
  l.tail = node \/ \E c \in Cells \ {node} : node \in {l.cell[c].next, l.cell[c].prev}

\* alength is unsigned.
More(n) == IF n = UINT_MAX THEN 0 ELSE n + 1
Less(n) == IF n = 0 THEN UINT_MAX ELSE n - 1

\* A list at its limit reuses its last node for the new one.  The node before it
\* becomes the last, and goes on pointing to it.  The head may so become the
\* last; the caller does not get here then, see AcceptCrashes of CorefsServer.
insert_info_ptr(l, key, data) ==
  IF l.alength = MAX_LIST_LENGTH
  THEN LET node == l.tail
           kept == [l.cell EXCEPT ![node].server_addr = key, ![node].data = data,
                                  ![node].next = NULL]
       IN IF MAX_LIST_LENGTH = 1 THEN [l EXCEPT !.cell = kept]
          ELSE [l EXCEPT !.cell = PushFront(kept, node), !.tail = l.cell[node].prev]
  ELSE LET node == CHOOSE n \in Free(l) : TRUE
           new  == [l.cell EXCEPT ![node].server_addr = key, ![node].data = data]
       IN [cell    |-> PushFront(new, node),
           tail    |-> IF l.alength = 0 THEN node ELSE l.tail,
           alength |-> More(l.alength)]

\* The node found becomes the first.
get_info_ptr(l, key) ==
  LET node == Find(l, key)
      out  == Unlink(l, node)
  IN IF node \notin Nodes \/ l.cell[node].prev = head THEN l
     ELSE [out EXCEPT !.cell = PushFront(out.cell, node)]

\* The node is not freed; here it is, unless a link still leads to it.
remove_info(l, key) ==
  LET node == Find(l, key)
      out  == Unlink(l, node)
  IN IF node \notin Nodes THEN l
     ELSE [out EXCEPT !.cell[node] = IF Referred(out, node) THEN @ ELSE Blank,
                      !.alength = Less(l.alength)]

\* What the functions need of any list, beyond its limit too: a link leads to a node
\* in use or the head, next not to the head, which has no key to compare; a node in
\* use has a key and is behind another, whose next is set when it is taken out; and
\* there is a tail once there has been a node.
LinksInUse(l) ==
  /\ \A n \in Nodes \ Free(l) : l.cell[n].server_addr # NULL /\ l.cell[n].prev # NULL
  /\ \A c \in Cells : /\ {l.cell[c].next, l.cell[c].prev, l.tail} \cap Free(l) = {}
                      /\ l.cell[c].next # head
  /\ l.tail = NULL => l.alength = 0 /\ Free(l) = Nodes

\* What the list is for: its nodes in order, led back by prev, the tail the last
\* of them and alength their number, no key twice.
WellLinked(l) ==
  LET at == Follow(l) IN
  /\ ~Cyclic(l)
  /\ \A i \in 1..Cardinality(Cells) : at[i] # NULL <=> i <= l.alength
  /\ \A i \in 1..l.alength :
       /\ l.cell[at[i]].prev = at[i - 1]
       /\ \A j \in 1..(i - 1) : l.cell[at[i]].server_addr # l.cell[at[j]].server_addr
  /\ l.alength > 0 => l.tail = at[l.alength]
=============================================================================
