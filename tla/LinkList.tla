-------------------------------- MODULE LinkList --------------------------------
(***************************************************************************)
(* linklist.c: a doubly linked list with a count, and the loop macro       *)
(* ALL_LIST_ELEMENTS, whose body may change the list it walks.             *)
(*                                                                         *)
(* The nodes are cells of a heap and are used again once they are freed.   *)
(* An operation that walks the list takes one step per node.  A malloc     *)
(* that fails leaves the list alone and is a step that changes nothing.    *)
(***************************************************************************)
EXTENDS Integers, FiniteSets

CONSTANTS
  Nodes,   (* the cells                                                    *)
  Null,
  Data,    (* the pointers the user keeps in the list                      *)
  Rank,    (* the order of list->cmp                                       *)
  HasCmp   (* TRUE: list->cmp is set                                       *)

ASSUME ListAssumption ==
  /\ IsFiniteSet(Nodes) /\ Null \notin Nodes
  /\ Null \notin Data
  /\ Rank \in [Data -> Int]
  /\ HasCmp \in BOOLEAN

VARIABLES
  head, tail, count,  (* the struct list                                   *)
  live,               (* the cells that are nodes of the list              *)
  next, prev, data,   (* what is in the cells                              *)
  pc, cur, val,       (* the operation under way: its place and argument   *)
  it, nextnode,       (* the loop: node and nextnode of the macro          *)
  deleted,            (* the body of the loop has deleted its element      *)
  unseen              (* history: nodes the loop has still to visit        *)

listVars == <<head, tail, count, live, next, prev, data>>
opVars   == <<pc, cur, val>>
loopVars == <<it, nextnode, deleted, unseen>>
vars     == <<listVars, opVars, loopVars>>

(* list_new *)
Init ==
  /\ head = Null /\ tail = Null /\ count = 0
  /\ live = {}
  /\ next = [n \in Nodes |-> Null]
  /\ prev = [n \in Nodes |-> Null]
  /\ data = [n \in Nodes |-> Null]
  /\ pc = "idle" /\ cur = Null /\ val = Null
  /\ it = Null /\ nextnode = Null /\ deleted = FALSE /\ unseen = {}

Idle == pc' = "idle" /\ cur' = Null /\ val' = Null

-------------------------------------------------------------------------------
(* listnode_add, and the end of listnode_add_sort *)

LinkLast(n, v) ==
  /\ data' = [data EXCEPT ![n] = v]
  /\ prev' = [prev EXCEPT ![n] = tail]
  /\ next' = [m \in Nodes |-> IF m = n THEN Null ELSE IF m = tail THEN n ELSE next[m]]
  /\ head' = IF head = Null THEN n ELSE head
  /\ tail' = n
  /\ count' = count + 1
  /\ live' = live \cup {n}

Add(v) ==
  /\ pc = "idle"
  /\ \E n \in Nodes \ live : LinkLast(n, v)
  /\ UNCHANGED <<opVars, loopVars>>

-------------------------------------------------------------------------------
(* listnode_add_sort; the new node is taken from the heap when it is linked *)

BeginAddSort(v) ==
  /\ pc = "idle"
  /\ live # Nodes
  /\ pc' = "sort"
  /\ cur' = IF HasCmp THEN head ELSE Null
  /\ val' = v
  /\ UNCHANGED <<listVars, loopVars>>

(* Mutant of Before: equal elements are not kept in the order they came. *)
BeforeOrEqual(v, n) == Rank[v] <= Rank[data[n]]

(* The callback of cmp: val is less than what n holds. *)
Before(v, n) == Rank[v] < Rank[data[n]]

SortWalk ==
  /\ pc = "sort"
  /\ cur # Null
  /\ ~Before(val, cur)
  /\ cur' = next[cur]
  /\ UNCHANGED <<listVars, pc, val, loopVars>>

(* Mutant of SortInsert: the node after the new one keeps its prev. *)
InsertHalfLinked ==
  /\ pc = "sort"
  /\ cur # Null
  /\ Before(val, cur)
  /\ \E n \in Nodes \ live :
       /\ data' = [data EXCEPT ![n] = val]
       /\ next' = [m \in Nodes |-> IF m = n THEN cur
                                   ELSE IF m = prev[cur] THEN n ELSE next[m]]
       /\ prev' = [prev EXCEPT ![n] = prev[cur]]
       /\ head' = IF prev[cur] = Null THEN n ELSE head
       /\ live' = live \cup {n}
  /\ count' = count + 1
  /\ Idle
  /\ UNCHANGED <<tail, loopVars>>

(* Mutant of SortInsert: the early return leaves the count alone. *)
InsertUncounted ==
  /\ pc = "sort"
  /\ cur # Null
  /\ Before(val, cur)
  /\ \E n \in Nodes \ live :
       /\ data' = [data EXCEPT ![n] = val]
       /\ next' = [m \in Nodes |-> IF m = n THEN cur
                                   ELSE IF m = prev[cur] THEN n ELSE next[m]]
       /\ prev' = [prev EXCEPT ![n] = prev[cur], ![cur] = n]
       /\ head' = IF prev[cur] = Null THEN n ELSE head
       /\ live' = live \cup {n}
  /\ Idle
  /\ UNCHANGED <<tail, count, loopVars>>

(* The new node goes in front of the first that is greater. *)
SortInsert ==
  /\ pc = "sort"
  /\ cur # Null
  /\ Before(val, cur)
  /\ \E n \in Nodes \ live :
       /\ data' = [data EXCEPT ![n] = val]
       /\ next' = [m \in Nodes |-> IF m = n THEN cur
                                   ELSE IF m = prev[cur] THEN n ELSE next[m]]
       /\ prev' = [prev EXCEPT ![n] = prev[cur], ![cur] = n]
       /\ head' = IF prev[cur] = Null THEN n ELSE head
       /\ live' = live \cup {n}
  /\ count' = count + 1
  /\ Idle
  /\ UNCHANGED <<tail, loopVars>>

SortAppend ==
  /\ pc = "sort"
  /\ cur = Null
  /\ \E n \in Nodes \ live : LinkLast(n, val)
  /\ Idle
  /\ UNCHANGED loopVars

-------------------------------------------------------------------------------
(* listnode_delete *)

(* In the body of a loop the element of the loop is deleted, once. *)
BeginDelete(v) ==
  /\ pc = "idle"
  /\ it # Null => v = data[it] /\ ~deleted
  /\ deleted' = (it # Null)
  /\ pc' = "delete"
  /\ cur' = head
  /\ val' = v
  /\ UNCHANGED <<listVars, it, nextnode, unseen>>

DeleteWalk ==
  /\ pc = "delete"
  /\ cur # Null
  /\ data[cur] # val
  /\ cur' = next[cur]
  /\ UNCHANGED <<listVars, pc, val, loopVars>>

(* Mutant of Unlink: the walk does not end with the first node found. *)
UnlinkGoesOn ==
  /\ pc = "delete"
  /\ cur # Null
  /\ data[cur] = val
  /\ next' = [m \in Nodes |-> IF m = prev[cur] THEN next[cur] ELSE next[m]]
  /\ prev' = [m \in Nodes |-> IF m = next[cur] THEN prev[cur] ELSE prev[m]]
  /\ head' = IF prev[cur] = Null THEN next[cur] ELSE head
  /\ tail' = IF next[cur] = Null THEN prev[cur] ELSE tail
  /\ count' = count - 1
  /\ live' = live \ {cur}
  /\ unseen' = unseen \ {cur}
  /\ cur' = next[cur]
  /\ UNCHANGED <<pc, val, data, it, nextnode, deleted>>

(* The first node that has val; its data are left to the caller, list->del *)
(* is not called for them.                                                 *)
Unlink ==
  /\ pc = "delete"
  /\ cur # Null
  /\ data[cur] = val
  /\ next' = [m \in Nodes |-> IF m = prev[cur] THEN next[cur] ELSE next[m]]
  /\ prev' = [m \in Nodes |-> IF m = next[cur] THEN prev[cur] ELSE prev[m]]
  /\ head' = IF prev[cur] = Null THEN next[cur] ELSE head
  /\ tail' = IF next[cur] = Null THEN prev[cur] ELSE tail
  /\ count' = count - 1
  /\ live' = live \ {cur}
  /\ unseen' = unseen \ {cur}
  /\ Idle
  /\ UNCHANGED <<data, it, nextnode, deleted>>

DeleteNothing ==
  /\ pc = "delete"
  /\ cur = Null
  /\ Idle
  /\ UNCHANGED <<listVars, loopVars>>

-------------------------------------------------------------------------------
(* list_delete_all_node; list_delete frees the struct list as well *)

BeginDeleteAll ==
  /\ pc = "idle"
  /\ it = Null
  /\ pc' = "clear"
  /\ cur' = head
  /\ UNCHANGED <<listVars, val, loopVars>>

FreeNext ==
  /\ pc = "clear"
  /\ cur # Null
  /\ live' = live \ {cur}
  /\ cur' = next[cur]
  /\ UNCHANGED <<head, tail, count, next, prev, data, pc, val, loopVars>>

DeleteAllDone ==
  /\ pc = "clear"
  /\ cur = Null
  /\ head' = Null /\ tail' = Null
  /\ count' = 0
  /\ Idle
  /\ UNCHANGED <<live, next, prev, data, loopVars>>

-------------------------------------------------------------------------------
(* for (ALL_LIST_ELEMENTS(list, node, nextnode, data)) *)

Follow(n) == IF n = Null THEN Null ELSE next[n]

BeginLoop ==
  /\ pc = "idle"
  /\ it = Null /\ head # Null
  /\ it' = head
  /\ nextnode' = next[head]
  /\ deleted' = FALSE
  /\ unseen' = live \ {head}
  /\ UNCHANGED <<listVars, opVars>>

(* Mutant of Advance: one node is skipped after a deletion. *)
AdvanceTwice ==
  /\ pc = "idle"
  /\ it # Null
  /\ it' = IF deleted THEN Follow(nextnode) ELSE nextnode
  /\ nextnode' = Follow(it')
  /\ deleted' = FALSE
  /\ unseen' = unseen \ {it'}
  /\ UNCHANGED <<listVars, opVars>>

Advance ==
  /\ pc = "idle"
  /\ it # Null
  /\ it' = nextnode
  /\ nextnode' = Follow(nextnode)
  /\ deleted' = FALSE
  /\ unseen' = unseen \ {nextnode}
  /\ UNCHANGED <<listVars, opVars>>

Next ==
  \/ \E v \in Data : Add(v) \/ BeginAddSort(v) \/ BeginDelete(v)
  \/ SortWalk \/ SortInsert \/ SortAppend
  \/ DeleteWalk \/ Unlink \/ DeleteNothing
  \/ BeginDeleteAll \/ FreeNext \/ DeleteAllDone
  \/ BeginLoop \/ Advance

Spec == Init /\ [][Next]_vars
-------------------------------------------------------------------------------
(* Properties *)

Ptr == Nodes \cup {Null}

TypeOK ==
  /\ head \in Ptr /\ tail \in Ptr /\ count \in Int
  /\ live \subseteq Nodes
  /\ next \in [Nodes -> Ptr] /\ prev \in [Nodes -> Ptr]
  /\ data \in [Nodes -> Data \cup {Null}]
  /\ \A n \in live : data[n] \in Data
  /\ pc \in {"idle", "sort", "delete", "clear"}
  /\ cur \in Ptr /\ val \in Data \cup {Null}
  /\ pc \in {"sort", "delete"} => val \in Data
  /\ it \in Ptr /\ nextnode \in Ptr
  /\ deleted \in BOOLEAN /\ unseen \subseteq Nodes

(* The links of the list agree in both directions, only nodes of the list  *)
(* are reached, and head and tail are its ends: what every operation       *)
(* relies on when it follows a pointer.                                    *)
Ends ==
  /\ head = Null <=> live = {}
  /\ tail = Null <=> live = {}
  /\ head # Null => head \in live /\ prev[head] = Null
  /\ tail # Null => tail \in live /\ next[tail] = Null

LinksAgree ==
  \A n \in live :
    /\ next[n] # Null => next[n] \in live /\ prev[next[n]] = n
    /\ prev[n] # Null => prev[n] \in live /\ next[prev[n]] = n
    /\ next[n] = Null => n = tail
    /\ prev[n] = Null => n = head

DoublyLinked == pc # "clear" => Ends /\ LinksAgree

(* linklist.h:34, "invariant: count is the number of listnodes in the      *)
(* list", wherever somebody else can look at it.                           *)
CountMatches == pc # "clear" => count = Cardinality(live)

(* linklist.h:71, "It is safe to delete the listnode using this macro":    *)
(* the loop never steps to a node that was freed.                          *)
LoopSafe == it # Null => nextnode = Null \/ nextnode \in live

(* A loop that deletes its elements or adds some comes to every node that  *)
(* was there when it began and is still there when it ends.                *)
LoopComplete == it = Null => unseen = {}
-------------------------------------------------------------------------------
(* The sequence that the cells stand for *)

(* The nodes of the list in order, followed from head, and Null from the   *)
(* end on.                                                                 *)
Nth[i \in 0 .. Cardinality(Nodes)] == IF i = 0 THEN head ELSE Follow(Nth[i - 1])

Elems ==
  LET len == Cardinality({i \in 0 .. Cardinality(Nodes) - 1 : Nth[i] # Null}) IN
  IF pc = "clear" THEN <<>> ELSE [i \in 1 .. len |-> data[Nth[i - 1]]]

(* The list is a sequence: whatever the pointers do in between, each       *)
(* operation changes it at one moment, an element is added at the end or   *)
(* before the first greater one, the first equal pointer is removed, and   *)
(* no other element goes, comes or changes its place.                      *)
List == INSTANCE ListSpec WITH elems <- Elems
ImplementsList == List!Spec
===============================================================================
