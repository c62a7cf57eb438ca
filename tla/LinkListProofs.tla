----------------------------- MODULE LinkListProofs -----------------------------
(***************************************************************************)
(* Proofs about LinkList, for a heap and data of any size and any order.   *)
(*                                                                         *)
(* That the links agree in both directions is not inductive: a second ring *)
(* of nodes beside the list would satisfy it.  The invariant says instead  *)
(* that there is a sequence s of the nodes of the list of which head, tail *)
(* and the links are the picture, and where on it the operation under way  *)
(* and the loop stand.  That the list implements a sequence of data needs  *)
(* also that a walk has passed nothing it was looking for (WalkInv).       *)
(***************************************************************************)
EXTENDS LinkList, DataInduction, SequenceTheorems

-------------------------------------------------------------------------------
(* The type invariant *)

(* Every pointer stays one, and a node of the list always has data.        *)
THEOREM ListTypeCorrect == Spec => []TypeOK
<1> USE ListAssumption DEF Ptr
<1>1. Init => TypeOK
  <2> SUFFICES ASSUME Init PROVE TypeOK
    OBVIOUS
  <2>1. next \in [Nodes -> Ptr] /\ prev \in [Nodes -> Ptr] /\ data \in [Nodes -> Data \cup {Null}]
    BY DEF Init
  <2>2. live \subseteq Nodes /\ unseen \subseteq Nodes /\ \A n \in live : data[n] \in Data
    BY DEF Init
  <2>3. /\ head \in Ptr /\ tail \in Ptr /\ count \in Int /\ cur \in Ptr
        /\ it \in Ptr /\ nextnode \in Ptr
    BY DEF Init
  <2>4. pc = "idle" /\ val \in Data \cup {Null}
    BY DEF Init
  <2>5. deleted \in BOOLEAN
    BY Zenon DEF Init
  <2> QED
    BY <2>1, <2>2, <2>3, <2>4, <2>5 DEF TypeOK
<1>2. TypeOK /\ [Next]_vars => TypeOK'
  <2> SUFFICES ASSUME TypeOK, [Next]_vars PROVE TypeOK'
    OBVIOUS
  <2> USE DEF TypeOK, Idle, LinkLast, listVars, opVars, loopVars, Follow
  <2>1. ASSUME NEW v \in Data, Add(v) PROVE TypeOK'
    BY <2>1 DEF Add
  <2>2. ASSUME NEW v \in Data, BeginAddSort(v) PROVE TypeOK'
    BY <2>2 DEF BeginAddSort
  <2>3. ASSUME NEW v \in Data, BeginDelete(v) PROVE TypeOK'
    BY <2>3 DEF BeginDelete
  <2>4. CASE SortWalk
    BY <2>4 DEF SortWalk
  <2>5. CASE SortInsert
    BY <2>5 DEF SortInsert
  <2>6. CASE SortAppend
    BY <2>6 DEF SortAppend
  <2>7. CASE DeleteWalk
    BY <2>7 DEF DeleteWalk
  <2>8. CASE Unlink
    BY <2>8 DEF Unlink
  <2>9. CASE DeleteNothing
    BY <2>9 DEF DeleteNothing
  <2>10. CASE BeginDeleteAll
    BY <2>10 DEF BeginDeleteAll
  <2>11. CASE FreeNext
    BY <2>11 DEF FreeNext
  <2>12. CASE DeleteAllDone
    BY <2>12 DEF DeleteAllDone
  <2>13. CASE BeginLoop
    BY <2>13 DEF BeginLoop
  <2>14. CASE Advance
    BY <2>14 DEF Advance
  <2>15. CASE UNCHANGED vars
    BY <2>15 DEF vars
  <2> QED
    BY <2>1, <2>2, <2>3, <2>4, <2>5, <2>6, <2>7, <2>8, <2>9, <2>10, <2>11, <2>12,
       <2>13, <2>14, <2>15 DEF Next
<1> QED
  BY <1>1, <1>2, PTL DEF Spec

-------------------------------------------------------------------------------
(* The invariant *)

(* s names each of its nodes once. *)
Injective(s, m) == \A i, j \in 1 .. m : s[i] = s[j] => i = j

(* The list is s[1] ... s[m]. *)
Chain(s, m) ==
  /\ live = {s[i] : i \in 1 .. m}
  /\ head = IF m = 0 THEN Null ELSE s[1]
  /\ tail = IF m = 0 THEN Null ELSE s[m]
  /\ \A i \in 1 .. m : /\ next[s[i]] = IF i = m THEN Null ELSE s[i + 1]
                       /\ prev[s[i]] = IF i = 1 THEN Null ELSE s[i - 1]

(* The loop stands on s[a], unless its element is gone, and goes on with a *)
(* later one, at or behind which is all it has not seen; the walk of a     *)
(* deletion in its body has not passed s[a].                               *)
LoopOn(s, m) ==
  it # Null =>
    /\ nextnode = Null => unseen = {}
    /\ nextnode # Null =>
         \E b \in 1 .. m : nextnode = s[b] /\ unseen \subseteq {s[i] : i \in b .. m}
    /\ ~deleted \/ pc = "delete" =>
         \E a \in 1 .. m :
           /\ it = s[a]
           /\ \A b \in 1 .. m : nextnode = s[b] => a < b
           /\ pc = "delete" => data[it] = val /\ \E c \in 1 .. a : cur = s[c]

(* What is left to free is s[k] ... s[m]. *)
Clearing(s, m) ==
  \E k \in 1 .. m + 1 :
    /\ live = {s[i] : i \in k .. m}
    /\ cur = IF k = m + 1 THEN Null ELSE s[k]
    /\ \A i \in k .. m : next[s[i]] = IF i = m THEN Null ELSE s[i + 1]

OrderInv ==
  /\ count \in Nat
  /\ it = Null => unseen = {}
  /\ pc = "delete" /\ it # Null => deleted
  /\ pc = "clear" => it = Null
  /\ pc \in {"sort", "delete"} /\ cur # Null => cur \in live
  /\ \E s \in [1 .. count -> Nodes] :
       /\ Injective(s, count)
       /\ pc # "clear" => Chain(s, count) /\ LoopOn(s, count)
       /\ pc = "clear" => Clearing(s, count)

-------------------------------------------------------------------------------
(* Lemmas: a node is put in at k, a node is taken out at k *)

Up(k, i)   == IF i < k THEN i ELSE i + 1
Down(k, i) == IF i < k THEN i ELSE i - 1

Ins(s, m, k, n) ==
  [i \in 1 .. m + 1 |-> IF i < k THEN s[i] ELSE IF i = k THEN n ELSE s[i - 1]]

Del(s, m, k) == [i \in 1 .. m - 1 |-> s[Up(k, i)]]

(* t is s with n put in at k. *)
InsertedAt(t, s, m, k, n) ==
  /\ t \in [1 .. m + 1 -> Nodes]
  /\ t[k] = n
  /\ \A i \in 1 .. m : Up(k, i) \in 1 .. m + 1 /\ t[Up(k, i)] = s[i]
  /\ \A j \in 1 .. m + 1 : j # k => Down(k, j) \in 1 .. m /\ t[j] = s[Down(k, j)]

(* What Ins(s, m, k, n) holds where. *)
LEMMA InsPlaces ==
  ASSUME NEW m \in Nat, NEW s \in [1 .. m -> Nodes], NEW k \in 1 .. m + 1, NEW n \in Nodes
  PROVE  InsertedAt(Ins(s, m, k, n), s, m, k, n)
<1> DEFINE t == Ins(s, m, k, n)
<1>1. t \in [1 .. m + 1 -> Nodes]
  BY DEF Ins
<1>2. t[k] = n
  BY DEF Ins
<1>3. ASSUME NEW i \in 1 .. m PROVE Up(k, i) \in 1 .. m + 1 /\ t[Up(k, i)] = s[i]
  <2>1. CASE i < k
    BY <2>1 DEF Ins, Up
  <2>2. CASE ~(i < k)
    <3>1. Up(k, i) = i + 1 /\ i + 1 \in 1 .. m + 1 /\ ~(i + 1 < k) /\ i + 1 # k
      BY <2>2 DEF Up
    <3>2. t[i + 1] = s[(i + 1) - 1] /\ (i + 1) - 1 = i
      BY <3>1 DEF Ins
    <3> QED
      BY <3>1, <3>2
  <2> QED
    BY <2>1, <2>2
<1>4. ASSUME NEW j \in 1 .. m + 1, j # k PROVE Down(k, j) \in 1 .. m /\ t[j] = s[Down(k, j)]
  <2>1. CASE j < k
    BY <2>1 DEF Ins, Down
  <2>2. CASE ~(j < k)
    BY <2>2, <1>4 DEF Ins, Down
  <2> QED
    BY <2>1, <2>2
<1> QED
  BY <1>1, <1>2, <1>3, <1>4 DEF InsertedAt

(* A node that is new to the list can be put in anywhere. *)
LEMMA InsInjective ==
  ASSUME NEW m \in Nat, NEW s \in [1 .. m -> Nodes], Injective(s, m),
         NEW k \in 1 .. m + 1, NEW n \in Nodes, \A i \in 1 .. m : s[i] # n
  PROVE  Injective(Ins(s, m, k, n), m + 1)
<1> DEFINE t == Ins(s, m, k, n)
<1> SUFFICES ASSUME NEW i \in 1 .. m + 1, NEW j \in 1 .. m + 1, t[i] = t[j] PROVE i = j
  BY DEF Injective
<1>0. InsertedAt(t, s, m, k, n)
  BY InsPlaces
<1>1. /\ t[k] = n
      /\ \A x \in 1 .. m + 1 : x # k => Down(k, x) \in 1 .. m /\ t[x] = s[Down(k, x)]
  BY <1>0 DEF InsertedAt
<1>2. CASE i = k \/ j = k
  BY <1>1, <1>2
<1>3. CASE i # k /\ j # k
  <2>1. Down(k, i) = Down(k, j)
    BY <1>1, <1>3 DEF Injective
  <2> QED
    BY <2>1, <1>3 DEF Down
<1> QED
  BY <1>2, <1>3

(* The links of a new node and of its neighbours continue the chain. *)
LEMMA InsChain ==
  ASSUME NEW m \in Nat, NEW s \in [1 .. m -> Nodes], Injective(s, m), Chain(s, m),
         NEW k \in 1 .. m + 1, NEW n \in Nodes \ live,
         live' = live \cup {n},
         head' = IF k = 1 THEN n ELSE head,
         tail' = IF k = m + 1 THEN n ELSE tail,
         next'[n] = IF k = m + 1 THEN Null ELSE s[k],
         prev'[n] = IF k = 1 THEN Null ELSE s[k - 1],
         \A i \in 1 .. m : next'[s[i]] = IF i + 1 = k THEN n ELSE next[s[i]],
         \A i \in 1 .. m : prev'[s[i]] = IF i = k THEN n ELSE prev[s[i]]
  PROVE  Chain(Ins(s, m, k, n), m + 1)'
<1> DEFINE t == Ins(s, m, k, n)
<1>1. /\ t \in [1 .. m + 1 -> Nodes] /\ t[k] = n
      /\ \A i \in 1 .. m : Up(k, i) \in 1 .. m + 1 /\ t[Up(k, i)] = s[i]
      /\ \A j \in 1 .. m + 1 : j # k => Down(k, j) \in 1 .. m /\ t[j] = s[Down(k, j)]
  <2>1. n \in Nodes
    OBVIOUS
  <2>2. InsertedAt(t, s, m, k, n)
    BY <2>1, InsPlaces
  <2> QED
    BY <2>2 DEF InsertedAt
<1> HIDE DEF t
<1>2. live' = {t[i] : i \in 1 .. m + 1}
  <2>1. ASSUME NEW x \in live' PROVE \E i \in 1 .. m + 1 : x = t[i]
    BY <2>1, <1>1 DEF Chain
  <2>2. ASSUME NEW i \in 1 .. m + 1 PROVE t[i] \in live'
    BY <1>1 DEF Chain
  <2> QED
    BY <2>1, <2>2
<1>3. head' = t[1]
  <2>1. CASE k = 1
    BY <2>1, <1>1
  <2>2. CASE k # 1
    <3>1. Down(k, 1) = 1 /\ m # 0
      BY <2>2 DEF Down
    <3> QED
      BY <3>1, <2>2, <1>1 DEF Chain
  <2> QED
    BY <2>1, <2>2
<1>4. tail' = t[m + 1]
  <2>1. CASE k = m + 1
    BY <2>1, <1>1
  <2>2. CASE k # m + 1
    <3>1. Down(k, m + 1) = m /\ m # 0
      BY <2>2 DEF Down
    <3> QED
      BY <3>1, <2>2, <1>1 DEF Chain
  <2> QED
    BY <2>1, <2>2
<1>5. ASSUME NEW j \in 1 .. m + 1
      PROVE  /\ next'[t[j]] = IF j = m + 1 THEN Null ELSE t[j + 1]
             /\ prev'[t[j]] = IF j = 1 THEN Null ELSE t[j - 1]
  <2>1. CASE j = k
    <3>1. j # m + 1 => t[j + 1] = s[k]
      BY <2>1, <1>1 DEF Down
    <3>2. j # 1 => t[j - 1] = s[k - 1]
      BY <2>1, <1>1 DEF Down
    <3> QED
      BY <2>1, <3>1, <3>2, <1>1
  <2>2. CASE j < k
    <3>1. t[j] = s[j] /\ j \in 1 .. m
      BY <2>2, <1>1 DEF Down
    <3>2. j + 1 = k => t[j + 1] = n
      BY <1>1
    <3>3. j + 1 # k => j + 1 \in 1 .. m /\ t[j + 1] = s[j + 1]
      BY <2>2, <1>1 DEF Down
    <3>4. j # 1 => t[j - 1] = s[j - 1]
      BY <2>2, <1>1 DEF Down
    <3>5. next[s[j]] = IF j = m THEN Null ELSE s[j + 1]
      BY <3>1 DEF Chain
    <3>6. prev[s[j]] = IF j = 1 THEN Null ELSE s[j - 1]
      BY <3>1 DEF Chain
    <3>7. j # k /\ j # m + 1 /\ (j = m => j + 1 = k)
      BY <2>2
    <3> QED
      BY <3>1, <3>2, <3>3, <3>4, <3>5, <3>6, <3>7
  <2>3. CASE j > k
    <3>1. t[j] = s[j - 1] /\ j - 1 \in 1 .. m /\ j - 1 >= k
      <4>1. Down(k, j) = j - 1 /\ j # k
        BY <2>3 DEF Down
      <4> QED
        BY <4>1, <2>3, <1>1
    <3>2. j # m + 1 => t[j + 1] = s[j]
      <4>1. Down(k, j + 1) = j /\ j + 1 # k
        BY <2>3 DEF Down
      <4> QED
        BY <4>1, <2>3, <1>1
    <3>3. j - 1 = k => t[j - 1] = n
      BY <1>1
    <3>4. j - 1 # k => t[j - 1] = s[j - 2]
      BY <2>3, <1>1 DEF Down
    <3>5. next[s[j - 1]] = IF j - 1 = m THEN Null ELSE s[j]
      BY <3>1 DEF Chain
    <3>6. prev[s[j - 1]] = IF j - 1 = 1 THEN Null ELSE s[j - 2]
      BY <3>1 DEF Chain
    <3> QED
      BY <2>3, <3>1, <3>2, <3>3, <3>4, <3>5, <3>6
  <2> QED
    BY <2>1, <2>2, <2>3
<1>6. m + 1 # 0
  OBVIOUS
<1>7. Chain(t, m + 1)'
  BY <1>2, <1>3, <1>4, <1>5, <1>6 DEF Chain
<1> QED
  BY <1>7 DEF t

(* The loop keeps its place when a node is put in. *)
LEMMA InsLoop ==
  ASSUME NEW m \in Nat, NEW s \in [1 .. m -> Nodes],
         Injective(s, m), live = {s[i] : i \in 1 .. m}, LoopOn(s, m),
         Null \notin Nodes,
         NEW k \in 1 .. m + 1, NEW n \in Nodes \ live,
         pc # "delete", pc' # "delete", UNCHANGED loopVars
  PROVE  LoopOn(Ins(s, m, k, n), m + 1)'
<1> DEFINE t == Ins(s, m, k, n)
<1>1. InsertedAt(t, s, m, k, n)
  <2>1. n \in Nodes
    OBVIOUS
  <2> QED
    BY <2>1, InsPlaces
<1>2. /\ t[k] = n
      /\ \A i \in 1 .. m : Up(k, i) \in 1 .. m + 1 /\ t[Up(k, i)] = s[i]
      /\ \A j \in 1 .. m + 1 : j # k => Down(k, j) \in 1 .. m /\ t[j] = s[Down(k, j)]
  BY <1>1 DEF InsertedAt
<1> HIDE DEF t
<1>3. /\ it' = it /\ nextnode' = nextnode /\ unseen' = unseen /\ deleted' = deleted
  BY DEF loopVars
<1>4. CASE it = Null
  BY <1>3, <1>4 DEF LoopOn, t
<1>5. CASE it # Null
  <2>1. nextnode = Null => unseen = {}
    BY <1>5 DEF LoopOn
  <2>2. nextnode # Null =>
          \E b \in 1 .. m + 1 : nextnode = t[b] /\ unseen \subseteq {t[i] : i \in b .. m + 1}
    <3> SUFFICES ASSUME nextnode # Null
                 PROVE  \E b \in 1 .. m + 1 :
                          nextnode = t[b] /\ unseen \subseteq {t[i] : i \in b .. m + 1}
      OBVIOUS
    <3>1. PICK b \in 1 .. m : nextnode = s[b] /\ unseen \subseteq {s[i] : i \in b .. m}
      BY <1>5 DEF LoopOn
    <3>2. Up(k, b) \in 1 .. m + 1 /\ nextnode = t[Up(k, b)]
      BY <1>2, <3>1
    <3>3. ASSUME NEW x \in unseen PROVE \E i \in Up(k, b) .. m + 1 : x = t[i]
      <4>1. PICK i \in b .. m : x = s[i]
        BY <3>1
      <4>2. i \in 1 .. m /\ Up(k, i) \in Up(k, b) .. m + 1
        BY DEF Up
      <4> QED
        BY <4>1, <4>2, <1>2
    <3> QED
      BY <3>2, <3>3
  <2>3. ~deleted => \E a \in 1 .. m + 1 :
           it = t[a] /\ \A b \in 1 .. m + 1 : nextnode = t[b] => a < b
    <3> SUFFICES ASSUME ~deleted
                 PROVE  \E a \in 1 .. m + 1 :
                          it = t[a] /\ \A b \in 1 .. m + 1 : nextnode = t[b] => a < b
      OBVIOUS
    <3>1. PICK a \in 1 .. m : it = s[a] /\ \A b \in 1 .. m : nextnode = s[b] => a < b
      BY <1>5 DEF LoopOn
    <3>2. nextnode # n
      <4>1. CASE nextnode = Null
        BY <4>1
      <4>2. CASE nextnode # Null
        BY <4>2, <1>5 DEF LoopOn
      <4> QED
        BY <4>1, <4>2
    <3>3. Up(k, a) \in 1 .. m + 1 /\ it = t[Up(k, a)]
      BY <1>2, <3>1
    <3>4. ASSUME NEW b \in 1 .. m + 1, nextnode = t[b] PROVE Up(k, a) < b
      <4>1. b # k /\ Down(k, b) \in 1 .. m /\ nextnode = s[Down(k, b)]
        BY <3>2, <3>4, <1>2
      <4>2. a < Down(k, b)
        BY <4>1, <3>1
      <4> QED
        BY <4>1, <4>2 DEF Up, Down
    <3> QED
      BY <3>3, <3>4
  <2> QED
    BY <1>3, <1>5, <2>1, <2>2, <2>3 DEF LoopOn, t
<1> QED
  BY <1>4, <1>5

(* t is s with its k-th taken out. *)
RemovedAt(t, s, m, k) ==
  /\ t \in [1 .. m - 1 -> Nodes]
  /\ \A i \in 1 .. m - 1 : Up(k, i) \in 1 .. m /\ Up(k, i) # k /\ t[i] = s[Up(k, i)]
  /\ \A j \in 1 .. m : j # k => Down(k, j) \in 1 .. m - 1 /\ t[Down(k, j)] = s[j]

(* What Del(s, m, k) holds where. *)
LEMMA DelPlaces ==
  ASSUME NEW m \in Nat, NEW s \in [1 .. m -> Nodes], NEW k \in 1 .. m
  PROVE  RemovedAt(Del(s, m, k), s, m, k)
<1> DEFINE t == Del(s, m, k)
<1>1. ASSUME NEW i \in 1 .. m - 1
      PROVE  Up(k, i) \in 1 .. m /\ Up(k, i) # k /\ t[i] = s[Up(k, i)]
  BY DEF Del, Up
<1>2. t \in [1 .. m - 1 -> Nodes]
  <2>1. \A i \in 1 .. m - 1 : s[Up(k, i)] \in Nodes
    BY <1>1
  <2> QED
    BY <2>1 DEF Del
<1>3. ASSUME NEW j \in 1 .. m, j # k
      PROVE  Down(k, j) \in 1 .. m - 1 /\ t[Down(k, j)] = s[j]
  <2>1. Down(k, j) \in 1 .. m - 1 /\ Up(k, Down(k, j)) = j
    BY <1>3 DEF Up, Down
  <2> QED
    BY <2>1, <1>1
<1> QED
  BY <1>1, <1>2, <1>3 DEF RemovedAt

(* Taking a node out of the sequence keeps the others apart. *)
LEMMA DelInjective ==
  ASSUME NEW m \in Nat, NEW s \in [1 .. m -> Nodes], Injective(s, m), NEW k \in 1 .. m
  PROVE  Injective(Del(s, m, k), m - 1)
<1> DEFINE t == Del(s, m, k)
<1> SUFFICES ASSUME NEW i \in 1 .. m - 1, NEW j \in 1 .. m - 1, t[i] = t[j] PROVE i = j
  BY DEF Injective
<1>1. RemovedAt(t, s, m, k)
  BY DelPlaces
<1>2. Up(k, i) = Up(k, j)
  BY <1>1 DEF RemovedAt, Injective
<1> QED
  BY <1>2 DEF Up

(* Joining the neighbours of a node that is taken out continues the chain. *)
LEMMA DelChain ==
  ASSUME NEW m \in Nat, NEW s \in [1 .. m -> Nodes], Injective(s, m), Chain(s, m),
         NEW k \in 1 .. m,
         live' = live \ {s[k]},
         head' = IF k = 1 THEN next[s[k]] ELSE head,
         tail' = IF k = m THEN prev[s[k]] ELSE tail,
         \A i \in 1 .. m : next'[s[i]] = IF i + 1 = k THEN next[s[k]] ELSE next[s[i]],
         \A i \in 1 .. m : prev'[s[i]] = IF i - 1 = k THEN prev[s[k]] ELSE prev[s[i]]
  PROVE  Chain(Del(s, m, k), m - 1)'
<1> DEFINE t == Del(s, m, k)
<1>0. RemovedAt(t, s, m, k)
  BY DelPlaces
<1>1. /\ \A i \in 1 .. m - 1 : Up(k, i) \in 1 .. m /\ Up(k, i) # k /\ t[i] = s[Up(k, i)]
      /\ \A j \in 1 .. m : j # k => Down(k, j) \in 1 .. m - 1 /\ t[Down(k, j)] = s[j]
  BY <1>0 DEF RemovedAt
<1> HIDE DEF t
<1>2. live' = {t[i] : i \in 1 .. m - 1}
  <2>1. ASSUME NEW x \in live' PROVE \E i \in 1 .. m - 1 : x = t[i]
    <3>1. PICK j \in 1 .. m : x = s[j] /\ j # k
      BY DEF Chain
    <3> QED
      BY <3>1, <1>1
  <2>2. ASSUME NEW i \in 1 .. m - 1 PROVE t[i] \in live'
    <3>1. Up(k, i) \in 1 .. m /\ Up(k, i) # k /\ t[i] = s[Up(k, i)]
      BY <1>1
    <3>2. PICK j \in 1 .. m : j # k /\ t[i] = s[j]
      BY <3>1
    <3>3. s[j] \in live
      BY DEF Chain
    <3>4. s[j] # s[k]
      BY <3>2 DEF Injective
    <3> QED
      BY <3>2, <3>3, <3>4
  <2> QED
    BY <2>1, <2>2
<1>3. head' = IF m - 1 = 0 THEN Null ELSE t[1]
  <2>1. m - 1 # 0 => t[1] = IF k = 1 THEN s[2] ELSE s[1]
    BY <1>1 DEF Up
  <2>2. k = 1 => next[s[k]] = IF m = 1 THEN Null ELSE s[2]
    BY DEF Chain
  <2>3. head = s[1]
    BY DEF Chain
  <2> QED
    BY <2>1, <2>2, <2>3
<1>4. tail' = IF m - 1 = 0 THEN Null ELSE t[m - 1]
  <2>1. m - 1 # 0 => t[m - 1] = IF k = m THEN s[m - 1] ELSE s[m]
    BY <1>1 DEF Up
  <2>2. k = m => prev[s[k]] = IF m = 1 THEN Null ELSE s[m - 1]
    BY DEF Chain
  <2>3. tail = s[m]
    BY DEF Chain
  <2> QED
    BY <2>1, <2>2, <2>3
<1>5. ASSUME NEW j \in 1 .. m - 1
      PROVE  /\ next'[t[j]] = IF j = m - 1 THEN Null ELSE t[j + 1]
             /\ prev'[t[j]] = IF j = 1 THEN Null ELSE t[j - 1]
  <2>0. /\ \A i \in 1 .. m - 1 : i < k => t[i] = s[i]
        /\ \A i \in 1 .. m - 1 : ~(i < k) => t[i] = s[i + 1]
    BY <1>1 DEF Up
  <2>1. CASE j + 1 < k
    <3>1. j \in 1 .. m /\ j # m /\ j # m - 1 /\ j + 1 # k /\ j - 1 # k
      BY <2>1
    <3>2. /\ t[j] = s[j] /\ t[j + 1] = s[j + 1]
          /\ j # 1 => t[j - 1] = s[j - 1]
      <4>1. j \in 1 .. m - 1 /\ j < k /\ j + 1 \in 1 .. m - 1 /\ j + 1 < k
        BY <2>1
      <4>2. j # 1 => j - 1 \in 1 .. m - 1 /\ j - 1 < k
        BY <2>1
      <4> QED
        BY <2>0, <4>1, <4>2
    <3>3. next[s[j]] = s[j + 1]
      BY <3>1 DEF Chain
    <3>4. prev[s[j]] = IF j = 1 THEN Null ELSE s[j - 1]
      BY <3>1 DEF Chain
    <3>5. next'[s[j]] = next[s[j]] /\ prev'[s[j]] = prev[s[j]]
      BY <3>1
    <3> QED
      BY <3>1, <3>2, <3>3, <3>4, <3>5
  <2>2. CASE j + 1 = k
    <3>1. j \in 1 .. m /\ j - 1 # k
      BY <2>2
    <3>2. /\ t[j] = s[j]
          /\ j # m - 1 => t[j + 1] = s[j + 2]
          /\ j # 1 => t[j - 1] = s[j - 1]
      <4>1. j \in 1 .. m - 1 /\ j < k
        BY <2>2
      <4>2. j # m - 1 => j + 1 \in 1 .. m - 1 /\ ~(j + 1 < k) /\ (j + 1) + 1 = j + 2
        BY <2>2
      <4>3. j # 1 => j - 1 \in 1 .. m - 1 /\ j - 1 < k
        BY <2>2
      <4> QED
        BY <2>0, <4>1, <4>2, <4>3
    <3>3. next[s[k]] = IF k = m THEN Null ELSE s[k + 1]
      BY DEF Chain
    <3>4. prev[s[j]] = IF j = 1 THEN Null ELSE s[j - 1]
      BY <3>1 DEF Chain
    <3>5. next'[s[j]] = next[s[k]]
      BY <2>2, <3>1
    <3>6. prev'[s[j]] = prev[s[j]]
      BY <3>1
    <3>7. k + 1 = j + 2 /\ (k = m <=> j = m - 1)
      BY <2>2
    <3> QED
      BY <3>2, <3>3, <3>4, <3>5, <3>6, <3>7
  <2>3. CASE j + 1 > k
    <3>1. j \in 1 .. m - 1 /\ ~(j < k) /\ j + 1 \in 1 .. m
      BY <2>3
    <3>2. t[j] = s[j + 1]
      BY <2>0, <3>1
    <3>3. j # m - 1 => t[j + 1] = s[j + 2]
      <4>1. j # m - 1 => j + 1 \in 1 .. m - 1 /\ ~(j + 1 < k) /\ (j + 1) + 1 = j + 2
        BY <2>3
      <4> QED
        BY <2>0, <4>1
    <3>4. j # 1 => t[j - 1] = IF j = k THEN s[j - 1] ELSE s[j]
      <4>1. j # 1 => j - 1 \in 1 .. m - 1 /\ (j - 1) + 1 = j /\ (j - 1 < k <=> j = k)
        BY <2>3
      <4> QED
        BY <2>0, <4>1
    <3>5. next[s[j + 1]] = (IF j + 1 = m THEN Null ELSE s[j + 2]) /\ prev[s[j + 1]] = s[j]
      <4>1. /\ next[s[j + 1]] = IF j + 1 = m THEN Null ELSE s[(j + 1) + 1]
            /\ prev[s[j + 1]] = IF j + 1 = 1 THEN Null ELSE s[(j + 1) - 1]
        BY <3>1 DEF Chain
      <4>2. (j + 1) + 1 = j + 2 /\ (j + 1) - 1 = j /\ j + 1 # 1
        OBVIOUS
      <4> QED
        BY <4>1, <4>2
    <3>6. prev[s[k]] = IF k = 1 THEN Null ELSE s[k - 1]
      BY DEF Chain
    <3>7. next'[s[j + 1]] = next[s[j + 1]]
      BY <2>3, <3>1
    <3>8. prev'[s[j + 1]] = IF j = k THEN prev[s[k]] ELSE prev[s[j + 1]]
      <4>1. (j + 1) - 1 = k <=> j = k
        OBVIOUS
      <4> QED
        BY <3>1, <4>1
    <3>9. (j + 1 = m <=> j = m - 1) /\ (j # k => j # 1)
      BY <2>3
    <3> QED
      BY <3>2, <3>3, <3>4, <3>5, <3>6, <3>7, <3>8, <3>9
  <2> QED
    BY <2>1, <2>2, <2>3
<1>6. Chain(t, m - 1)'
  BY <1>2, <1>3, <1>4, <1>5 DEF Chain
<1> QED
  BY <1>6 DEF t

(* Taking out a node that the loop has come to, or passed, leaves the loop *)
(* all it has still to visit.                                              *)
LEMMA DelLoop ==
  ASSUME NEW m \in Nat, NEW s \in [1 .. m -> Nodes], Injective(s, m), LoopOn(s, m),
         NEW k \in 1 .. m, cur = s[k],
         pc = "delete", pc' # "delete", it # Null => deleted,
         it' = it, nextnode' = nextnode, deleted' = deleted, unseen' = unseen \ {cur}
  PROVE  LoopOn(Del(s, m, k), m - 1)'
<1> DEFINE t == Del(s, m, k)
<1>1. RemovedAt(t, s, m, k)
  BY DelPlaces
<1>2. \A j \in 1 .. m : j # k => Down(k, j) \in 1 .. m - 1 /\ t[Down(k, j)] = s[j]
  BY <1>1 DEF RemovedAt
<1> HIDE DEF t
<1>3. CASE it = Null
  BY <1>3 DEF LoopOn, t
<1>4. CASE it # Null
  <2>1. nextnode = Null => unseen' = {}
    BY <1>4 DEF LoopOn
  <2>2. nextnode # Null =>
          \E b \in 1 .. m - 1 : nextnode = t[b] /\ unseen' \subseteq {t[i] : i \in b .. m - 1}
    <3> SUFFICES ASSUME nextnode # Null
                 PROVE  \E b \in 1 .. m - 1 :
                          nextnode = t[b] /\ unseen' \subseteq {t[i] : i \in b .. m - 1}
      OBVIOUS
    <3>1. PICK b \in 1 .. m : nextnode = s[b] /\ unseen \subseteq {s[i] : i \in b .. m}
      BY <1>4 DEF LoopOn
    <3>2. PICK a \in 1 .. m : /\ \A x \in 1 .. m : nextnode = s[x] => a < x
                             /\ \E c \in 1 .. a : cur = s[c]
      BY <1>4 DEF LoopOn
    <3>3. k < b
      <4>1. PICK c \in 1 .. a : cur = s[c]
        BY <3>2
      <4>2. c \in 1 .. m /\ s[c] = s[k]
        BY <4>1
      <4>3. c = k
        BY <4>2 DEF Injective
      <4>4. a < b
        BY <3>1, <3>2
      <4> QED
        BY <4>1, <4>3, <4>4
    <3>4. Down(k, b) \in 1 .. m - 1 /\ nextnode = t[Down(k, b)]
      BY <3>1, <3>3, <1>2
    <3>5. ASSUME NEW x \in unseen' PROVE \E i \in Down(k, b) .. m - 1 : x = t[i]
      <4>1. PICK i \in b .. m : x = s[i]
        BY <3>1
      <4>2. i \in 1 .. m /\ i # k /\ Down(k, i) \in Down(k, b) .. m - 1
        BY <3>3 DEF Down
      <4> QED
        BY <4>1, <4>2, <1>2
    <3> QED
      BY <3>4, <3>5
  <2> QED
    BY <1>4, <2>1, <2>2 DEF LoopOn, t
<1> QED
  BY <1>3, <1>4

-------------------------------------------------------------------------------
(* The invariant holds *)

(* The cell a pointer of the chain leads to. *)
LEMMA FollowChain ==
  ASSUME NEW m \in Nat, NEW s \in [1 .. m -> Nodes], Null \notin Nodes, Chain(s, m),
         NEW p \in live
  PROVE  next[p] # Null => next[p] \in live
<1>1. PICK i \in 1 .. m : p = s[i]
  BY DEF Chain
<1>2. next[p] = IF i = m THEN Null ELSE s[i + 1]
  BY <1>1 DEF Chain
<1> QED
  BY <1>2 DEF Chain

(* The list is a chain before the first step. *)
LEMMA OrderInit == ASSUME Init PROVE OrderInv
<1>1. count = 0 /\ head = Null /\ tail = Null /\ live = {} /\ it = Null /\ unseen = {}
      /\ pc = "idle" /\ cur = Null
  BY DEF Init
<1> DEFINE s == [i \in 1 .. 0 |-> Null]
<1>2. s \in [1 .. 0 -> Nodes] /\ \A i \in 1 .. 0 : FALSE
  OBVIOUS
<1>3. Injective(s, 0) /\ Chain(s, 0) /\ LoopOn(s, 0)
  BY <1>1, <1>2 DEF Injective, Chain, LoopOn
<1> QED
  BY <1>1, <1>2, <1>3 DEF OrderInv

(* A node linked at the end: what the list is then. *)
LEMMA LinkLastChain ==
  ASSUME ListAssumption, TypeOK,
         NEW c \in Nat, NEW s \in [1 .. c -> Nodes], Injective(s, c), Chain(s, c),
         NEW v, NEW n \in Nodes \ live, LinkLast(n, v)
  PROVE  /\ InsertedAt(Ins(s, c, c + 1, n), s, c, c + 1, n)
         /\ Injective(Ins(s, c, c + 1, n), c + 1)
         /\ Chain(Ins(s, c, c + 1, n), c + 1)'
<1>2. Null \notin Nodes
  BY DEF ListAssumption
<1>5. InsertedAt(Ins(s, c, c + 1, n), s, c, c + 1, n) /\ n \in Nodes /\ c + 1 \in 1 .. c + 1
  <2>1. n \in Nodes /\ c + 1 \in 1 .. c + 1
    OBVIOUS
  <2> QED
    BY <2>1, InsPlaces
<1>6. \A i \in 1 .. c : s[i] \in live /\ s[i] # n /\ s[i] \in Nodes
  BY DEF Chain
<1>7. Injective(Ins(s, c, c + 1, n), c + 1)
  BY <1>5, <1>6, InsInjective
<1>8. head = (IF c = 0 THEN Null ELSE s[1]) /\ tail = (IF c = 0 THEN Null ELSE s[c])
  BY DEF Chain
<1>9. head' = IF c + 1 = 1 THEN n ELSE head
  BY <1>8, <1>6, <1>2 DEF LinkLast
<1>10. next'[n] = Null /\ prev'[n] = IF c + 1 = 1 THEN Null ELSE s[(c + 1) - 1]
  BY <1>8 DEF LinkLast, TypeOK
<1>11. \A i \in 1 .. c : next'[s[i]] = IF i + 1 = c + 1 THEN n ELSE next[s[i]]
  BY <1>6, <1>8 DEF LinkLast, Injective
<1>12. \A i \in 1 .. c : prev'[s[i]] = IF i = c + 1 THEN n ELSE prev[s[i]]
  BY <1>6 DEF LinkLast, TypeOK
<1>13. Chain(Ins(s, c, c + 1, n), c + 1)'
  <2>1. live' = live \cup {n} /\ tail' = n
    BY DEF LinkLast
  <2> QED
    BY <1>5, <1>9, <1>10, <1>11, <1>12, <2>1, InsChain
<1> QED
  BY <1>5, <1>7, <1>13

(* A node linked in front of the k-th. *)
LEMMA InsertChain ==
  ASSUME ListAssumption, TypeOK,
         NEW c \in Nat, NEW s \in [1 .. c -> Nodes], Injective(s, c), Chain(s, c),
         NEW k \in 1 .. c, cur = s[k], NEW n \in Nodes \ live,
         next' = [x \in Nodes |-> IF x = n THEN cur ELSE IF x = prev[cur] THEN n ELSE next[x]],
         prev' = [prev EXCEPT ![n] = prev[cur], ![cur] = n],
         head' = IF prev[cur] = Null THEN n ELSE head,
         live' = live \cup {n}, tail' = tail
  PROVE  /\ InsertedAt(Ins(s, c, k, n), s, c, k, n)
         /\ Injective(Ins(s, c, k, n), c + 1)
         /\ Chain(Ins(s, c, k, n), c + 1)'
<1>3. Null \notin Nodes
  BY DEF ListAssumption
<1>8. InsertedAt(Ins(s, c, k, n), s, c, k, n) /\ n \in Nodes /\ k \in 1 .. c + 1
  <2>1. n \in Nodes /\ k \in 1 .. c + 1
    OBVIOUS
  <2> QED
    BY <2>1, InsPlaces
<1>9. \A i \in 1 .. c : s[i] \in live /\ s[i] # n /\ s[i] \in Nodes
  <2> SUFFICES ASSUME NEW i \in 1 .. c PROVE s[i] \in live /\ s[i] # n /\ s[i] \in Nodes
    OBVIOUS
  <2>1. s[i] \in Nodes
    OBVIOUS
  <2>2. s[i] \in live
    BY DEF Chain
  <2> QED
    BY <2>1, <2>2
<1>10. Injective(Ins(s, c, k, n), c + 1)
  BY <1>8, <1>9, InsInjective
<1>11. prev[cur] = (IF k = 1 THEN Null ELSE s[k - 1]) /\ tail = s[c]
  BY DEF Chain
<1>12. head' = IF k = 1 THEN n ELSE head
  BY <1>11, <1>9, <1>3
<1>13. next'[n] = s[k] /\ prev'[n] = IF k = 1 THEN Null ELSE s[k - 1]
  <2>1. cur # n
    BY <1>9
  <2> QED
    BY <2>1, <1>8, <1>11 DEF TypeOK
<1>14. \A i \in 1 .. c : next'[s[i]] = IF i + 1 = k THEN n ELSE next[s[i]]
  <2> SUFFICES ASSUME NEW i \in 1 .. c
               PROVE  next'[s[i]] = IF i + 1 = k THEN n ELSE next[s[i]]
    OBVIOUS
  <2>1. s[i] # n /\ s[i] \in Nodes
    BY <1>9
  <2>2. s[i] = prev[cur] <=> i + 1 = k
    BY <1>3, <1>9, <1>11 DEF Injective
  <2> QED
    BY <2>1, <2>2
<1>15. \A i \in 1 .. c : prev'[s[i]] = IF i = k THEN n ELSE prev[s[i]]
  <2> SUFFICES ASSUME NEW i \in 1 .. c
               PROVE  prev'[s[i]] = IF i = k THEN n ELSE prev[s[i]]
    OBVIOUS
  <2>1. s[i] # n /\ s[i] \in Nodes
    BY <1>9
  <2>2. s[i] = cur <=> i = k
    BY DEF Injective
  <2> QED
    BY <2>1, <2>2 DEF TypeOK
<1>16. Chain(Ins(s, c, k, n), c + 1)'
  <2>1. k # c + 1
    BY <1>3
  <2> QED
    BY <1>8, <1>12, <1>13, <1>14, <1>15, <2>1, InsChain
<1> QED
  BY <1>8, <1>10, <1>16

(* The k-th node unlinked. *)
LEMMA UnlinkChain ==
  ASSUME ListAssumption,
         NEW c \in Nat, NEW s \in [1 .. c -> Nodes], Injective(s, c), Chain(s, c),
         NEW k \in 1 .. c, cur = s[k], Unlink
  PROVE  /\ RemovedAt(Del(s, c, k), s, c, k)
         /\ Injective(Del(s, c, k), c - 1)
         /\ Chain(Del(s, c, k), c - 1)'
<1>3. Null \notin Nodes
  BY DEF ListAssumption
<1>7. /\ next' = [x \in Nodes |-> IF x = prev[cur] THEN next[cur] ELSE next[x]]
      /\ prev' = [x \in Nodes |-> IF x = next[cur] THEN prev[cur] ELSE prev[x]]
      /\ head' = IF prev[cur] = Null THEN next[cur] ELSE head
      /\ tail' = IF next[cur] = Null THEN prev[cur] ELSE tail
      /\ live' = live \ {cur}
  BY DEF Unlink
<1>8. \A i \in 1 .. c : s[i] \in Nodes /\ s[i] # Null
  BY <1>3
<1>9. prev[cur] = (IF k = 1 THEN Null ELSE s[k - 1]) /\ next[cur] = (IF k = c THEN Null ELSE s[k + 1])
  BY DEF Chain
<1>10. prev[cur] = Null <=> k = 1
  BY <1>8, <1>9
<1>11. next[cur] = Null <=> k = c
  BY <1>8, <1>9
<1>12. \A i \in 1 .. c : next'[s[i]] = IF i + 1 = k THEN next[s[k]] ELSE next[s[i]]
  <2> SUFFICES ASSUME NEW i \in 1 .. c
               PROVE  next'[s[i]] = IF i + 1 = k THEN next[s[k]] ELSE next[s[i]]
    OBVIOUS
  <2>1. s[i] = prev[cur] <=> i + 1 = k
    BY <1>8, <1>9 DEF Injective
  <2> QED
    BY <2>1, <1>7, <1>8
<1>13. \A i \in 1 .. c : prev'[s[i]] = IF i - 1 = k THEN prev[s[k]] ELSE prev[s[i]]
  <2> SUFFICES ASSUME NEW i \in 1 .. c
               PROVE  prev'[s[i]] = IF i - 1 = k THEN prev[s[k]] ELSE prev[s[i]]
    OBVIOUS
  <2>1. s[i] = next[cur] <=> i - 1 = k
    BY <1>8, <1>9 DEF Injective
  <2> QED
    BY <2>1, <1>7, <1>8
<1>14. Chain(Del(s, c, k), c - 1)'
  <2>1. /\ live' = live \ {s[k]}
        /\ head' = IF k = 1 THEN next[s[k]] ELSE head
        /\ tail' = IF k = c THEN prev[s[k]] ELSE tail
    BY <1>7, <1>10, <1>11
  <2> QED
    BY <2>1, <1>12, <1>13, DelChain
<1> QED
  BY <1>14, DelPlaces, DelInjective

(* listnode_add, and the end of listnode_add_sort. *)
LEMMA LinkLastKeeps ==
  ASSUME ListAssumption, TypeOK, OrderInv, pc # "clear", pc # "delete",
         NEW v, NEW n \in Nodes \ live, LinkLast(n, v), pc' = "idle", UNCHANGED loopVars
  PROVE  OrderInv'
<1>1. PICK s \in [1 .. count -> Nodes] :
        Injective(s, count) /\ Chain(s, count) /\ LoopOn(s, count)
  BY DEF OrderInv
<1>2. count \in Nat /\ count' = count + 1 /\ Null \notin Nodes
  BY DEF OrderInv, LinkLast, ListAssumption
<1>3. PICK c \in Nat : c = count
  BY <1>2
<1>4. s \in [1 .. c -> Nodes] /\ Injective(s, c) /\ Chain(s, c) /\ LoopOn(s, c)
  BY <1>1, <1>3
<1>5. /\ InsertedAt(Ins(s, c, c + 1, n), s, c, c + 1, n)
      /\ Injective(Ins(s, c, c + 1, n), c + 1)
      /\ Chain(Ins(s, c, c + 1, n), c + 1)'
  BY <1>4, LinkLastChain
<1>6. LoopOn(Ins(s, c, c + 1, n), c + 1)'
  <2>1. live = {s[i] : i \in 1 .. c} /\ n \in Nodes /\ c + 1 \in 1 .. c + 1
    BY <1>4 DEF Chain
  <2> QED
    BY <1>4, <1>2, <2>1, InsLoop
<1>7. Ins(s, c, c + 1, n) \in [1 .. count' -> Nodes] /\ count' = c + 1
  BY <1>5, <1>3, <1>2 DEF InsertedAt
<1> QED
  BY <1>2, <1>5, <1>6, <1>7 DEF OrderInv, loopVars

(* The end of listnode_add_sort in front of a node. *)
LEMMA SortInsertKeeps ==
  ASSUME ListAssumption, TypeOK, OrderInv, SortInsert
  PROVE  OrderInv'
<1>1. pc = "sort" /\ cur # Null /\ cur \in live /\ pc' = "idle"
  BY DEF SortInsert, Idle, OrderInv
<1>2. PICK s \in [1 .. count -> Nodes] :
        Injective(s, count) /\ Chain(s, count) /\ LoopOn(s, count)
  BY <1>1 DEF OrderInv
<1>3. count \in Nat /\ count' = count + 1 /\ Null \notin Nodes /\ tail' = tail
  BY DEF OrderInv, SortInsert, ListAssumption
<1>4. PICK c \in Nat : c = count
  BY <1>3
<1>5. s \in [1 .. c -> Nodes] /\ Injective(s, c) /\ Chain(s, c) /\ LoopOn(s, c)
  BY <1>2, <1>4
<1>6. PICK k \in 1 .. c : cur = s[k]
  BY <1>1, <1>5 DEF Chain
<1>7. PICK n \in Nodes \ live :
        /\ next' = [x \in Nodes |-> IF x = n THEN cur ELSE IF x = prev[cur] THEN n ELSE next[x]]
        /\ prev' = [prev EXCEPT ![n] = prev[cur], ![cur] = n]
        /\ head' = IF prev[cur] = Null THEN n ELSE head
        /\ live' = live \cup {n}
  BY DEF SortInsert
<1>8. /\ InsertedAt(Ins(s, c, k, n), s, c, k, n)
      /\ Injective(Ins(s, c, k, n), c + 1)
      /\ Chain(Ins(s, c, k, n), c + 1)'
  BY <1>3, <1>5, <1>6, <1>7, InsertChain
<1>9. LoopOn(Ins(s, c, k, n), c + 1)'
  <2>1. live = {s[i] : i \in 1 .. c} /\ n \in Nodes /\ k \in 1 .. c + 1
    BY <1>5 DEF Chain
  <2>2. pc # "delete" /\ pc' # "delete" /\ UNCHANGED loopVars
    BY <1>1 DEF SortInsert
  <2> QED
    BY <1>5, <1>3, <2>1, <2>2, InsLoop
<1>10. Ins(s, c, k, n) \in [1 .. count' -> Nodes] /\ count' = c + 1
  BY <1>8, <1>4, <1>3 DEF InsertedAt
<1>11. UNCHANGED loopVars
  BY DEF SortInsert
<1> QED
  BY <1>1, <1>3, <1>8, <1>9, <1>10, <1>11 DEF OrderInv, loopVars

(* The end of listnode_delete on the node that is unlinked. *)
LEMMA UnlinkKeeps ==
  ASSUME ListAssumption, TypeOK, OrderInv, Unlink
  PROVE  OrderInv'
<1>1. pc = "delete" /\ cur # Null /\ cur \in live /\ pc' = "idle" /\ (it # Null => deleted)
  BY DEF Unlink, Idle, OrderInv
<1>2. PICK s \in [1 .. count -> Nodes] :
        Injective(s, count) /\ Chain(s, count) /\ LoopOn(s, count)
  BY <1>1 DEF OrderInv
<1>3. count \in Nat /\ count' = count - 1 /\ Null \notin Nodes
  BY DEF OrderInv, Unlink, ListAssumption
<1>4. PICK c \in Nat : c = count
  BY <1>3
<1>5. s \in [1 .. c -> Nodes] /\ Injective(s, c) /\ Chain(s, c) /\ LoopOn(s, c)
  BY <1>2, <1>4
<1>6. PICK k \in 1 .. c : cur = s[k]
  BY <1>1, <1>5 DEF Chain
<1>7. /\ RemovedAt(Del(s, c, k), s, c, k)
      /\ Injective(Del(s, c, k), c - 1)
      /\ Chain(Del(s, c, k), c - 1)'
  BY <1>5, <1>6, UnlinkChain
<1>8. LoopOn(Del(s, c, k), c - 1)'
  <2>1. /\ it' = it /\ nextnode' = nextnode /\ deleted' = deleted /\ unseen' = unseen \ {cur}
        /\ pc' # "delete"
    BY <1>1 DEF Unlink
  <2> QED
    BY <2>1, <1>1, <1>5, <1>6, DelLoop
<1>9. Del(s, c, k) \in [1 .. count' -> Nodes] /\ count' = c - 1 /\ count' \in Nat
  BY <1>7, <1>4, <1>3 DEF RemovedAt
<1>10. it' = it /\ unseen' \subseteq unseen
  BY DEF Unlink
<1> QED
  BY <1>1, <1>7, <1>8, <1>9, <1>10 DEF OrderInv

(* Walking on along the chain. *)
LEMMA WalkKeeps ==
  ASSUME ListAssumption, TypeOK, OrderInv, SortWalk \/ DeleteWalk
  PROVE  OrderInv'
<1>1. /\ pc \in {"sort", "delete"} /\ cur \in live /\ cur' = next[cur]
      /\ UNCHANGED <<listVars, pc, val, loopVars>>
      /\ pc = "delete" => data[cur] # val
  BY DEF SortWalk, DeleteWalk, OrderInv
<1>2. PICK s \in [1 .. count -> Nodes] :
        Injective(s, count) /\ Chain(s, count) /\ LoopOn(s, count)
  BY <1>1 DEF OrderInv
<1>3. count \in Nat /\ Null \notin Nodes
  BY DEF OrderInv, ListAssumption
<1>4. PICK m \in Nat : m = count
  BY <1>3
<1>5. s \in [1 .. m -> Nodes] /\ Injective(s, m) /\ Chain(s, m) /\ LoopOn(s, m)
  BY <1>2, <1>4
<1>6. Chain(s, m)'
  BY <1>1, <1>5 DEF Chain, listVars
<1>7. LoopOn(s, m)'
  <2>1. CASE it = Null \/ pc = "sort"
    BY <2>1, <1>1, <1>5 DEF LoopOn, loopVars
  <2>2. CASE it # Null /\ pc = "delete"
    <3>1. PICK a \in 1 .. m :
            /\ it = s[a]
            /\ \A b \in 1 .. m : nextnode = s[b] => a < b
            /\ data[it] = val /\ \E c \in 1 .. a : cur = s[c]
      BY <2>2, <1>5 DEF LoopOn
    <3>2. PICK c \in 1 .. a : cur = s[c]
      BY <3>1
    <3>3. c # a /\ c \in 1 .. m
      BY <3>1, <3>2, <2>2, <1>1
    <3>4. c + 1 \in 1 .. a /\ cur' = s[c + 1]
      BY <3>2, <3>3, <1>1, <1>5 DEF Chain
    <3>5. UNCHANGED <<it, nextnode, deleted, unseen, data, val, pc>>
      BY <1>1 DEF loopVars, listVars
    <3>6. /\ nextnode = Null => unseen = {}
          /\ nextnode # Null =>
               \E b \in 1 .. m : nextnode = s[b] /\ unseen \subseteq {s[i] : i \in b .. m}
      BY <2>2, <1>5 DEF LoopOn
    <3> QED
      BY <3>1, <3>4, <3>5, <3>6 DEF LoopOn
  <2> QED
    BY <2>1, <2>2, <1>1
<1>8. cur' # Null => cur' \in live
  BY <1>1, <1>3, <1>5, FollowChain
<1>9. UNCHANGED <<count, live, pc, it, deleted, unseen>>
  BY <1>1 DEF listVars, loopVars
<1> QED
  BY <1>1, <1>3, <1>4, <1>5, <1>6, <1>7, <1>8, <1>9 DEF OrderInv

(* Beginning a deletion: in a loop, of its element. *)
LEMMA BeginDeleteKeeps ==
  ASSUME ListAssumption, TypeOK, OrderInv, NEW v \in Data, BeginDelete(v)
  PROVE  OrderInv'
<1>1. /\ pc = "idle" /\ (it # Null => v = data[it] /\ ~deleted)
      /\ deleted' = (it # Null) /\ pc' = "delete" /\ cur' = head /\ val' = v
      /\ UNCHANGED <<listVars, it, nextnode, unseen>>
  BY DEF BeginDelete
<1>2. PICK s \in [1 .. count -> Nodes] :
        Injective(s, count) /\ Chain(s, count) /\ LoopOn(s, count)
  BY <1>1 DEF OrderInv
<1>3. count \in Nat /\ Null \notin Nodes
  BY DEF OrderInv, ListAssumption
<1>4. PICK m \in Nat : m = count
  BY <1>3
<1>5. s \in [1 .. m -> Nodes] /\ Injective(s, m) /\ Chain(s, m) /\ LoopOn(s, m)
  BY <1>2, <1>4
<1>6. Chain(s, m)'
  BY <1>1, <1>5 DEF Chain, listVars
<1>7. LoopOn(s, m)'
  <2>1. CASE it = Null
    BY <2>1, <1>1 DEF LoopOn
  <2>2. CASE it # Null
    <3>1. PICK a \in 1 .. m : it = s[a] /\ \A b \in 1 .. m : nextnode = s[b] => a < b
      BY <2>2, <1>1, <1>5 DEF LoopOn
    <3>2. 1 \in 1 .. a /\ cur' = s[1]
      BY <1>1, <1>5 DEF Chain
    <3>3. UNCHANGED <<it, nextnode, unseen, data>> /\ val' = data[it]
      BY <1>1, <2>2 DEF listVars
    <3>4. /\ nextnode = Null => unseen = {}
          /\ nextnode # Null =>
               \E b \in 1 .. m : nextnode = s[b] /\ unseen \subseteq {s[i] : i \in b .. m}
      BY <2>2, <1>5 DEF LoopOn
    <3> QED
      BY <3>1, <3>2, <3>3, <3>4 DEF LoopOn
  <2> QED
    BY <2>1, <2>2
<1>8. cur' # Null => cur' \in live
  BY <1>1, <1>5 DEF Chain
<1>9. UNCHANGED <<count, live, it, unseen>>
  BY <1>1 DEF listVars
<1> QED
  BY <1>1, <1>3, <1>4, <1>5, <1>6, <1>7, <1>8, <1>9 DEF OrderInv

(* The steps of a loop. *)
LEMMA LoopKeeps ==
  ASSUME ListAssumption, TypeOK, OrderInv, BeginLoop \/ Advance
  PROVE  OrderInv'
<1>1. pc = "idle" /\ UNCHANGED <<listVars, opVars>> /\ deleted' = FALSE
  BY DEF BeginLoop, Advance
<1>2. PICK s \in [1 .. count -> Nodes] :
        Injective(s, count) /\ Chain(s, count) /\ LoopOn(s, count)
  BY <1>1 DEF OrderInv
<1>3. count \in Nat /\ Null \notin Nodes
  BY DEF OrderInv, ListAssumption
<1>4. PICK m \in Nat : m = count
  BY <1>3
<1>5. s \in [1 .. m -> Nodes] /\ Injective(s, m) /\ Chain(s, m) /\ LoopOn(s, m)
  BY <1>2, <1>4
<1>6. Chain(s, m)'
  BY <1>1, <1>5 DEF Chain, listVars
<1>7. \/ /\ it' = Null /\ unseen' = {}
      \/ \E a \in 1 .. m :
           /\ it' = s[a]
           /\ nextnode' = IF a = m THEN Null ELSE s[a + 1]
           /\ unseen' \subseteq {s[i] : i \in a + 1 .. m}
  <2>1. CASE BeginLoop
    <3>1. 1 \in 1 .. m /\ it' = s[1] /\ nextnode' = IF 1 = m THEN Null ELSE s[1 + 1]
      BY <2>1, <1>5 DEF BeginLoop, Chain
    <3>2. unseen' \subseteq {s[i] : i \in 1 + 1 .. m}
      BY <2>1, <1>5 DEF BeginLoop, Chain
    <3> QED
      BY <3>1, <3>2
  <2>2. CASE Advance
    <3>1. CASE nextnode = Null
      BY <3>1, <2>2, <1>5 DEF Advance, LoopOn
    <3>2. CASE nextnode # Null
      <4>1. PICK a \in 1 .. m : nextnode = s[a] /\ unseen \subseteq {s[i] : i \in a .. m}
        BY <3>2, <2>2, <1>5 DEF Advance, LoopOn
      <4>2. it' = s[a] /\ nextnode' = IF a = m THEN Null ELSE s[a + 1]
        BY <4>1, <3>2, <2>2, <1>5 DEF Advance, Follow, Chain
      <4>3. unseen' \subseteq {s[i] : i \in a + 1 .. m}
        BY <4>1, <2>2 DEF Advance
      <4> QED
        BY <4>2, <4>3
    <3> QED
      BY <3>1, <3>2
  <2> QED
    BY <2>1, <2>2
<1>8. LoopOn(s, m)'
  <2>1. CASE it' = Null
    BY <2>1 DEF LoopOn
  <2>2. CASE it' # Null
    <3>1. PICK a \in 1 .. m :
            /\ it' = s[a]
            /\ nextnode' = IF a = m THEN Null ELSE s[a + 1]
            /\ unseen' \subseteq {s[i] : i \in a + 1 .. m}
      BY <2>2, <1>7
    <3>2. nextnode' = Null => unseen' = {}
      <4>1. nextnode' = Null => a = m
        BY <3>1, <1>5, <1>3
      <4> QED
        BY <4>1, <3>1
    <3>3. nextnode' # Null =>
            \E b \in 1 .. m : nextnode' = s[b] /\ unseen' \subseteq {s[i] : i \in b .. m}
      <4>1. nextnode' # Null => a + 1 \in 1 .. m /\ nextnode' = s[a + 1]
        BY <3>1
      <4> QED
        BY <4>1, <3>1
    <3>4. \A b \in 1 .. m : nextnode' = s[b] => a < b
      BY <3>1, <1>3, <1>5 DEF Injective
    <3>5. pc' # "delete"
      BY <1>1 DEF opVars
    <3> QED
      BY <3>1, <3>2, <3>3, <3>4, <3>5 DEF LoopOn
  <2> QED
    BY <2>1, <2>2
<1>9. it' = Null => unseen' = {}
  BY <1>3, <1>5, <1>7
<1>10. UNCHANGED <<count, live, pc, cur>>
  BY <1>1 DEF listVars, opVars
<1> QED
  BY <1>1, <1>3, <1>4, <1>5, <1>6, <1>8, <1>9, <1>10 DEF OrderInv

(* The steps of list_delete_all_node. *)
LEMMA ClearKeeps ==
  ASSUME ListAssumption, TypeOK, OrderInv, BeginDeleteAll \/ FreeNext \/ DeleteAllDone
  PROVE  OrderInv'
<1>1. count \in Nat /\ Null \notin Nodes
  BY DEF OrderInv, ListAssumption
<1>2. PICK m \in Nat : m = count
  BY <1>1
<1>3. CASE BeginDeleteAll
  <2>1. /\ pc = "idle" /\ pc' = "clear" /\ cur' = head /\ it = Null
        /\ UNCHANGED <<live, next, count, it, unseen>>
    BY <1>3 DEF BeginDeleteAll, listVars, loopVars
  <2>2. PICK s \in [1 .. count -> Nodes] : Injective(s, count) /\ Chain(s, count)
    BY <2>1 DEF OrderInv
  <2>3. s \in [1 .. m -> Nodes] /\ Injective(s, m) /\ Chain(s, m)
    BY <2>2, <1>2
  <2>4. Clearing(s, m)'
    <3>1. /\ 1 \in 1 .. m + 1 /\ live' = {s[i] : i \in 1 .. m}
          /\ cur' = IF 1 = m + 1 THEN Null ELSE s[1]
          /\ \A i \in 1 .. m : next'[s[i]] = IF i = m THEN Null ELSE s[i + 1]
      <4>1. 1 \in 1 .. m + 1 /\ (1 = m + 1 <=> m = 0)
        OBVIOUS
      <4>2. live = {s[i] : i \in 1 .. m} /\ head = IF m = 0 THEN Null ELSE s[1]
        BY <2>3 DEF Chain
      <4>3. \A i \in 1 .. m : next[s[i]] = IF i = m THEN Null ELSE s[i + 1]
        BY <2>3 DEF Chain
      <4>4. live' = live /\ next' = next /\ cur' = head
        BY <2>1
      <4> QED
        BY <4>1, <4>2, <4>3, <4>4
    <3> QED
      BY <3>1 DEF Clearing
  <2> QED
    BY <2>1, <2>3, <2>4, <1>1, <1>2 DEF OrderInv
<1>4. CASE FreeNext
  <2>1. /\ pc = "clear" /\ cur # Null /\ live' = live \ {cur} /\ cur' = next[cur]
        /\ UNCHANGED <<next, count, pc, it, unseen>>
    BY <1>4 DEF FreeNext, loopVars
  <2>2. PICK s \in [1 .. count -> Nodes] : Injective(s, count) /\ Clearing(s, count)
    BY <2>1 DEF OrderInv
  <2>3. s \in [1 .. m -> Nodes] /\ Injective(s, m) /\ Clearing(s, m)
    BY <2>2, <1>2
  <2>4. PICK k \in 1 .. m + 1 :
          /\ live = {s[i] : i \in k .. m}
          /\ cur = IF k = m + 1 THEN Null ELSE s[k]
          /\ \A i \in k .. m : next[s[i]] = IF i = m THEN Null ELSE s[i + 1]
    BY <2>3 DEF Clearing
  <2>5. k \in 1 .. m /\ cur = s[k] /\ k + 1 \in 1 .. m + 1
    BY <2>1, <2>4
  <2>6. live' = {s[i] : i \in k + 1 .. m}
    <3>1. ASSUME NEW x \in live' PROVE \E i \in k + 1 .. m : x = s[i]
      BY <2>1, <2>4, <2>5
    <3>2. ASSUME NEW i \in k + 1 .. m PROVE s[i] \in live'
      <4>1. i \in k .. m /\ i \in 1 .. m /\ i # k
        BY <2>5
      <4>2. s[i] # s[k] /\ s[i] \in live
        BY <4>1, <2>3, <2>4, <2>5 DEF Injective
      <4> QED
        BY <4>2, <2>1, <2>5
    <3> QED
      BY <3>1, <3>2
  <2>7. cur' = IF k + 1 = m + 1 THEN Null ELSE s[k + 1]
    BY <2>1, <2>4, <2>5
  <2>8. \A i \in k + 1 .. m : next'[s[i]] = IF i = m THEN Null ELSE s[i + 1]
    BY <2>1, <2>4, <2>5
  <2>9. Clearing(s, m)'
    BY <2>5, <2>6, <2>7, <2>8 DEF Clearing
  <2> QED
    BY <2>1, <2>3, <2>9, <1>1, <1>2 DEF OrderInv
<1>5. CASE DeleteAllDone
  <2>1. /\ pc = "clear" /\ cur = Null /\ head' = Null /\ tail' = Null /\ count' = 0
        /\ pc' = "idle" /\ cur' = Null /\ UNCHANGED <<live, it, unseen>> /\ it = Null
    BY <1>5 DEF DeleteAllDone, Idle, loopVars, OrderInv
  <2>2. PICK s \in [1 .. count -> Nodes] : Clearing(s, count)
    BY <2>1 DEF OrderInv
  <2>3. s \in [1 .. m -> Nodes] /\ Clearing(s, m)
    BY <2>2, <1>2
  <2>4. live = {}
    BY <2>1, <2>3, <1>1 DEF Clearing
  <2> DEFINE e == [i \in 1 .. 0 |-> Null]
  <2>5. e \in [1 .. 0 -> Nodes] /\ \A i \in 1 .. 0 : FALSE
    OBVIOUS
  <2> HIDE DEF e
  <2>6. Injective(e, 0) /\ LoopOn(e, 0)'
    BY <2>1, <2>5 DEF Injective, LoopOn
  <2>7. live' = {e[i] : i \in 1 .. 0}
    BY <2>1, <2>4, <2>5
  <2>8. Chain(e, 0)'
    BY <2>1, <2>5, <2>7 DEF Chain
  <2> QED
    BY <2>1, <2>5, <2>6, <2>8 DEF OrderInv
<1> QED
  BY <1>3, <1>4, <1>5

(* There is an order of the list that head, tail and the links are the     *)
(* picture of, and the walks and the loop stand on it, whatever is added,  *)
(* deleted or cleared in the body of the loop or outside of it.            *)
THEOREM OrderCorrect == Spec => []OrderInv
<1> USE ListAssumption
<1>1. Init => OrderInv
  BY OrderInit
<1>2. TypeOK /\ OrderInv /\ [Next]_vars => OrderInv'
  <2> SUFFICES ASSUME TypeOK, OrderInv, [Next]_vars PROVE OrderInv'
    OBVIOUS
  <2>1. ASSUME NEW v \in Data, Add(v) PROVE OrderInv'
    <3>1. PICK n \in Nodes \ live : LinkLast(n, v)
      BY <2>1 DEF Add
    <3>2. pc = "idle" /\ pc' = "idle" /\ UNCHANGED loopVars
      BY <2>1 DEF Add, opVars
    <3> QED
      BY <3>1, <3>2, LinkLastKeeps
  <2>2. ASSUME NEW v \in Data, BeginAddSort(v) PROVE OrderInv'
    <3>1. /\ pc = "idle" /\ pc' = "sort" /\ cur' \in {head, Null}
          /\ UNCHANGED <<listVars, loopVars>>
      BY <2>2 DEF BeginAddSort
    <3>2. PICK s \in [1 .. count -> Nodes] :
            Injective(s, count) /\ Chain(s, count) /\ LoopOn(s, count)
      BY <3>1 DEF OrderInv
    <3>3. Chain(s, count)' /\ LoopOn(s, count)' /\ Injective(s, count')
      BY <3>1, <3>2 DEF Chain, LoopOn, listVars, loopVars
    <3>4. head # Null => head \in live
      <4>1. CASE count = 0
        BY <3>2, <4>1 DEF Chain
      <4>2. CASE count # 0
        <5>1. 1 \in 1 .. count
          BY <4>2 DEF OrderInv
        <5>2. head = s[1] /\ s[1] \in live
          BY <3>2, <4>2, <5>1 DEF Chain
        <5> QED
          BY <5>2
      <4> QED
        BY <4>1, <4>2
    <3>5. cur' # Null => cur' \in live
      BY <3>1, <3>4
    <3> QED
      BY <3>1, <3>2, <3>3, <3>5 DEF OrderInv, listVars, loopVars
  <2>3. ASSUME NEW v \in Data, BeginDelete(v) PROVE OrderInv'
    BY <2>3, BeginDeleteKeeps
  <2>4. CASE SortWalk \/ DeleteWalk
    BY <2>4, WalkKeeps
  <2>5. CASE SortInsert
    BY <2>5, SortInsertKeeps
  <2>6. CASE SortAppend
    <3>1. PICK n \in Nodes \ live : LinkLast(n, val)
      BY <2>6 DEF SortAppend
    <3>2. pc = "sort" /\ pc' = "idle" /\ UNCHANGED loopVars
      BY <2>6 DEF SortAppend, Idle
    <3> QED
      BY <3>1, <3>2, LinkLastKeeps
  <2>7. CASE Unlink
    BY <2>7, UnlinkKeeps
  <2>8. CASE DeleteNothing
    <3>1. /\ pc = "delete" /\ cur = Null /\ pc' = "idle" /\ cur' = Null
          /\ UNCHANGED <<listVars, loopVars>>
      BY <2>8 DEF DeleteNothing, Idle
    <3>2. PICK s \in [1 .. count -> Nodes] :
            Injective(s, count) /\ Chain(s, count) /\ LoopOn(s, count)
      BY <3>1 DEF OrderInv
    <3>3. Chain(s, count)' /\ LoopOn(s, count)'
      BY <3>1, <3>2 DEF Chain, LoopOn, listVars, loopVars, OrderInv
    <3> QED
      BY <3>1, <3>2, <3>3 DEF OrderInv, listVars, loopVars
  <2>9. CASE BeginDeleteAll \/ FreeNext \/ DeleteAllDone
    BY <2>9, ClearKeeps
  <2>10. CASE BeginLoop \/ Advance
    BY <2>10, LoopKeeps
  <2>11. CASE UNCHANGED vars
    <3>1. UNCHANGED <<head, tail, count, live, next, prev, data, pc, cur, val, it,
                      nextnode, deleted, unseen>>
      BY <2>11 DEF vars, listVars, opVars, loopVars
    <3>2. PICK s \in [1 .. count -> Nodes] :
            /\ Injective(s, count)
            /\ pc # "clear" => Chain(s, count) /\ LoopOn(s, count)
            /\ pc = "clear" => Clearing(s, count)
      BY DEF OrderInv
    <3>3. /\ pc' # "clear" => Chain(s, count)' /\ LoopOn(s, count)'
          /\ pc' = "clear" => Clearing(s, count)'
      BY <3>1, <3>2 DEF Chain, LoopOn, Clearing
    <3> QED
      BY <3>1, <3>2, <3>3 DEF OrderInv
  <2> QED
    BY <2>1, <2>2, <2>3, <2>4, <2>5, <2>6, <2>7, <2>8, <2>9, <2>10, <2>11 DEF Next
<1> QED
  BY <1>1, <1>2, ListTypeCorrect, PTL DEF Spec

-------------------------------------------------------------------------------
(* What follows from it *)

(* linklist.c: wherever an operation can look, the links agree in both     *)
(* directions and head and tail are the ends.                              *)
THEOREM DoublyLinkedCorrect == Spec => []DoublyLinked
<1>1. ListAssumption /\ OrderInv => DoublyLinked
  <2> SUFFICES ASSUME ListAssumption, OrderInv, pc # "clear" PROVE Ends /\ LinksAgree
    BY DEF DoublyLinked
  <2>1. count \in Nat /\ Null \notin Nodes
    BY DEF OrderInv, ListAssumption
  <2>2. PICK m \in Nat : m = count
    BY <2>1
  <2>3. PICK s \in [1 .. m -> Nodes] : Chain(s, m)
    BY <2>2 DEF OrderInv
  <2>4. \A i \in 1 .. m : s[i] \in live /\ s[i] # Null
    BY <2>1, <2>3 DEF Chain
  <2>5. live = {} <=> m = 0
    <3>1. m # 0 => s[1] \in live
      BY <2>4
    <3>2. m = 0 => live = {}
      BY <2>3 DEF Chain
    <3> QED
      BY <3>1, <3>2
  <2>6. Ends
    <3>1. m # 0 => /\ head = s[1] /\ prev[s[1]] = Null
                   /\ tail = s[m] /\ next[s[m]] = Null
                   /\ s[1] \in live /\ s[m] \in live /\ s[1] # Null /\ s[m] # Null
      BY <2>3, <2>4 DEF Chain
    <3>2. m = 0 => head = Null /\ tail = Null
      BY <2>3 DEF Chain
    <3> QED
      BY <3>1, <3>2, <2>5 DEF Ends
  <2>7. LinksAgree
    <3> SUFFICES ASSUME NEW n \in live
                 PROVE  /\ next[n] # Null => next[n] \in live /\ prev[next[n]] = n
                        /\ prev[n] # Null => prev[n] \in live /\ next[prev[n]] = n
                        /\ next[n] = Null => n = tail
                        /\ prev[n] = Null => n = head
      BY DEF LinksAgree
    <3>1. PICK i \in 1 .. m : n = s[i]
      BY <2>3 DEF Chain
    <3>2. /\ next[n] = IF i = m THEN Null ELSE s[i + 1]
          /\ prev[n] = IF i = 1 THEN Null ELSE s[i - 1]
      BY <3>1, <2>3 DEF Chain
    <3>4. i # m => i + 1 \in 1 .. m /\ next[n] = s[i + 1] /\ prev[s[i + 1]] = s[i]
      BY <3>2, <2>3 DEF Chain
    <3>5. i # 1 => i - 1 \in 1 .. m /\ prev[n] = s[i - 1] /\ next[s[i - 1]] = s[i]
      BY <3>2, <2>3 DEF Chain
    <3>6. i = m => n = tail
      BY <3>1, <2>3 DEF Chain
    <3>7. i = 1 => n = head
      BY <3>1, <2>3 DEF Chain
    <3> QED
      BY <3>1, <3>2, <3>4, <3>5, <3>6, <3>7, <2>4
  <2> QED
    BY <2>6, <2>7
<1> QED
  BY <1>1, OrderCorrect, ListAssumption, PTL

(* linklist.h:34: count is the number of nodes in the list.                *)
THEOREM CountCorrect == Spec => []CountMatches
<1>1. OrderInv => CountMatches
  <2> SUFFICES ASSUME OrderInv, pc # "clear" PROVE count = Cardinality(live)
    BY DEF CountMatches
  <2>1. count \in Nat
    BY DEF OrderInv
  <2>2. PICK s \in [1 .. count -> Nodes] : Injective(s, count) /\ Chain(s, count)
    BY DEF OrderInv
  <2>3. s \in [1 .. count -> live] /\ \A x \in live : \E i \in 1 .. count : s[i] = x
    BY <2>2 DEF Chain
  <2>4. s \in Bijection(1 .. count, live)
    BY <2>2, <2>3 DEF Injective, Bijection, Injection, Surjection, IsInjective
  <2>5. ExistsBijection(1 .. count, live)
    BY <2>4 DEF ExistsBijection
  <2> QED
    BY <2>1, <2>5, FS_CountingElements
<1> QED
  BY <1>1, OrderCorrect, PTL

(* linklist.h:71: a loop that deletes its element, and adds others, never  *)
(* steps to a node that was freed.                                         *)
THEOREM LoopSafeCorrect == Spec => []LoopSafe
<1>1. OrderInv => LoopSafe
  <2> SUFFICES ASSUME OrderInv, it # Null, nextnode # Null PROVE nextnode \in live
    BY DEF LoopSafe
  <2>1. PICK s \in [1 .. count -> Nodes] : Chain(s, count) /\ LoopOn(s, count)
    BY DEF OrderInv
  <2> QED
    BY <2>1 DEF Chain, LoopOn
<1> QED
  BY <1>1, OrderCorrect, PTL

(* A loop comes to every node that was there when it began and is still    *)
(* there when it ends.                                                     *)
THEOREM LoopCompleteCorrect == Spec => []LoopComplete
<1>1. OrderInv => LoopComplete
  BY DEF OrderInv, LoopComplete
<1> QED
  BY <1>1, OrderCorrect, PTL

-------------------------------------------------------------------------------
(* The sequence that the cells stand for *)

(* What s[1] ... s[m] hold. *)
Held(s, m) == [i \in 1 .. m |-> data[s[i]]]

ElemsAre ==
  pc # "clear" =>
    \A s \in [1 .. count -> Nodes] :
      Injective(s, count) /\ Chain(s, count) => Elems = Held(s, count)

(* Nodes named once each are no more than there are. *)
LEMMA NoMoreThanNodes ==
  ASSUME ListAssumption, NEW m \in Nat, NEW s \in [1 .. m -> Nodes], Injective(s, m)
  PROVE  Cardinality(Nodes) \in Nat /\ m <= Cardinality(Nodes)
<1>1. s \in Injection(1 .. m, Nodes)
  BY DEF Injection, IsInjective, Injective
<1>2. IsFiniteSet(Nodes) /\ Cardinality(Nodes) \in Nat
  BY FS_CardinalityType DEF ListAssumption
<1>3. Cardinality(1 .. m) <= Cardinality(Nodes)
  BY <1>1, <1>2, FS_Injection DEF ExistsInjection
<1>4. Cardinality(1 .. m) = m
  BY FS_Interval
<1> QED
  BY <1>2, <1>3, <1>4

(* The walk from head is defined however many nodes there are. *)
LEMMA NthRuns ==
  ASSUME ListAssumption, TypeOK
  PROVE  /\ Nth[0] = head
         /\ \A i \in 1 .. Cardinality(Nodes) : Nth[i] = Follow(Nth[i - 1])
<1> DEFINE C == Cardinality(Nodes)
           body == [p \in (1 .. C) \X Ptr |-> Follow(p[2])]
           Loop(f) == [i \in 0 .. C |-> IF i = 0 THEN head ELSE Follow(f[i - 1])]
           F == CHOOSE f : f = Loop(f)
<1>1. C \in Nat
  BY FS_CardinalityType DEF ListAssumption
<1>2. \A p \in Ptr : Follow(p) \in Ptr
  BY DEF Ptr, Follow, TypeOK
<1>3. body \in Bodies(C, Ptr) /\ head \in Ptr
  BY <1>2 DEF Bodies, TypeOK
<1>4. \A i \in 1 .. C, p \in Ptr : body[<<i, p>>] = Follow(p)
  OBVIOUS
<1> HIDE DEF body
<1>5. PICK g : States(g, C, Ptr, head, body)
  BY <1>1, <1>3, LoopStates
<1>6. g \in [0 .. C -> Ptr] /\ g[0] = head
  BY <1>5 DEF States
<1>7. ASSUME NEW i \in 1 .. C PROVE g[i] = Follow(g[i - 1])
  <2>1. g[i] = body[<<i, g[i - 1]>>]
    BY <1>5 DEF States
  <2>2. g[i - 1] \in Ptr
    BY <1>1, <1>6
  <2> QED
    BY <1>4, <2>1, <2>2
<1>8. g = Loop(g)
  BY <1>1, <1>6, <1>7
<1>9. F = Loop(F)
  BY <1>8, Zenon
<1>10. Nth = F
  BY Zenon DEF Nth
<1>11. Nth = Loop(Nth)
  BY <1>9, <1>10
<1>12. 0 \in 0 .. C /\ \A i \in 1 .. C : i \in 0 .. C /\ i # 0
  BY <1>1
<1> HIDE DEF C, F
<1> QED
  BY <1>11, <1>12 DEF C

(* The walk comes to the nodes of the chain in order, and then to the end. *)
LEMMA NthIs ==
  ASSUME ListAssumption, TypeOK,
         NEW m \in Nat, NEW s \in [1 .. m -> Nodes], Injective(s, m), Chain(s, m),
         NEW i \in 0 .. Cardinality(Nodes)
  PROVE  Nth[i] = IF i < m THEN s[i + 1] ELSE Null
<1> DEFINE C == Cardinality(Nodes)
           At(k) == IF k < m THEN s[k + 1] ELSE Null
           K == {k \in 0 .. C : Nth[k] = At(k)}
<1>1. C \in Nat /\ m <= C
  BY NoMoreThanNodes
<1>2. Nth[0] = head /\ \A k \in 1 .. C : Nth[k] = Follow(Nth[k - 1])
  BY NthRuns
<1>3. Null \notin Nodes
  BY DEF ListAssumption
<1>4. 0 \in K
  BY <1>1, <1>2 DEF Chain
<1>5. ASSUME NEW k \in 0 .. (C - 1), k \in K PROVE k + 1 \in K
  <2>1. k + 1 \in 1 .. C /\ k + 1 \in 0 .. C /\ (k + 1) - 1 = k
    BY <1>1
  <2>2. Nth[k + 1] = Follow(At(k))
    BY <1>2, <1>5, <2>1
  <2>3. CASE k < m
    <3>1. k + 1 \in 1 .. m /\ At(k) = s[k + 1] /\ s[k + 1] \in Nodes
      BY <2>3
    <3>2. Follow(s[k + 1]) = next[s[k + 1]]
      BY <1>3, <3>1 DEF Follow
    <3>3. next[s[k + 1]] = IF k + 1 = m THEN Null ELSE s[(k + 1) + 1]
      BY <3>1 DEF Chain
    <3>4. k + 1 = m <=> ~(k + 1 < m)
      BY <3>1
    <3> QED
      BY <2>1, <2>2, <3>1, <3>2, <3>3, <3>4
  <2>4. CASE ~(k < m)
    <3>1. At(k) = Null /\ At(k + 1) = Null
      BY <2>4, <2>1
    <3> QED
      BY <2>1, <2>2, <3>1 DEF Follow
  <2> QED
    BY <2>3, <2>4
<1>6. 0 .. C \subseteq K
  <2> HIDE DEF K, C
  <2> QED
    BY <1>1, <1>4, <1>5, UpTo
<1> QED
  BY <1>6

(* The cells stand for what the chain holds. *)
LEMMA ElemsHeld ==
  ASSUME ListAssumption, TypeOK, OrderInv
  PROVE  ElemsAre
<1> SUFFICES ASSUME pc # "clear", NEW s \in [1 .. count -> Nodes],
                    Injective(s, count), Chain(s, count)
             PROVE  Elems = Held(s, count)
  BY DEF ElemsAre
<1>1. PICK m \in Nat : m = count
  BY DEF OrderInv
<1>2. s \in [1 .. m -> Nodes] /\ Injective(s, m) /\ Chain(s, m)
  BY <1>1
<1>3. Cardinality(Nodes) \in Nat /\ m <= Cardinality(Nodes) /\ Null \notin Nodes
  BY <1>2, NoMoreThanNodes DEF ListAssumption
<1>4. \A i \in 0 .. Cardinality(Nodes) : Nth[i] = IF i < m THEN s[i + 1] ELSE Null
  BY <1>2, NthIs
<1> DEFINE R == {i \in 0 .. Cardinality(Nodes) - 1 : Nth[i] # Null}
<1>5. R = 0 .. (m - 1)
  <2>1. ASSUME NEW i \in R PROVE i \in 0 .. (m - 1)
    BY <1>3, <1>4
  <2>2. ASSUME NEW i \in 0 .. (m - 1) PROVE i \in R
    <3>1. /\ i \in 0 .. Cardinality(Nodes) - 1 /\ i \in 0 .. Cardinality(Nodes)
          /\ i < m /\ i + 1 \in 1 .. m
      BY <1>3
    <3>2. Nth[i] = s[i + 1]
      BY <1>4, <3>1
    <3>3. s[i + 1] \in Nodes
      BY <1>2, <3>1
    <3> QED
      BY <1>3, <3>1, <3>2, <3>3
  <2> QED
    BY <2>1, <2>2
<1>6. Cardinality(R) = m
  <2>1. Cardinality(0 .. (m - 1)) = m
    BY FS_Interval
  <2> QED
    BY <1>5, <2>1
<1>7. Elems = [i \in 1 .. Cardinality(R) |-> data[Nth[i - 1]]]
  BY DEF Elems
<1>8. \A i \in 1 .. m : Nth[i - 1] = s[i]
  <2> SUFFICES ASSUME NEW i \in 1 .. m PROVE Nth[i - 1] = s[i]
    OBVIOUS
  <2>1. i - 1 \in 0 .. Cardinality(Nodes) /\ i - 1 < m /\ (i - 1) + 1 = i
    BY <1>3
  <2> QED
    BY <1>4, <2>1
<1> HIDE DEF R
<1> QED
  BY <1>1, <1>6, <1>7, <1>8 DEF Held

-------------------------------------------------------------------------------
(* Where a walk stands *)

(* The walk of an operation stands on s[k] and has passed no node that it  *)
(* was looking for.                                                        *)
PassedBy(s, k) ==
  \A j \in 1 .. k - 1 :
    /\ pc = "sort"   => Rank[data[s[j]]] <= Rank[val]
    /\ pc = "delete" => data[s[j]] # val

WalkOn(s, m) == \E k \in 1 .. m : cur = s[k] /\ PassedBy(s, k)

WalkInv ==
  pc \in {"sort", "delete"} /\ cur # Null =>
    \E s \in [1 .. count -> Nodes] :
      Injective(s, count) /\ Chain(s, count) /\ WalkOn(s, count)

(* A walk stands where it has passed nothing it was looking for. *)
LEMMA WalkKept ==
  ASSUME ListAssumption, TypeOK, OrderInv, WalkInv, [Next]_vars
  PROVE  WalkInv'
<1> USE DEF Idle, listVars, opVars, loopVars
<1>1. count \in Nat /\ Null \notin Nodes
  BY DEF OrderInv, ListAssumption
(* An operation begins at the head. *)
<1>2. ASSUME pc = "idle", cur' \in {head, Null}, UNCHANGED listVars PROVE WalkInv'
  <2> SUFFICES ASSUME cur' # Null
               PROVE  \E s \in [1 .. count' -> Nodes] :
                        Injective(s, count') /\ Chain(s, count)' /\ WalkOn(s, count)'
    BY DEF WalkInv
  <2>1. PICK s \in [1 .. count -> Nodes] : Injective(s, count) /\ Chain(s, count)
    BY <1>2 DEF OrderInv
  <2>2. Chain(s, count)' /\ count' = count
    BY <1>2, <2>1 DEF Chain
  <2>3. 1 \in 1 .. count /\ cur' = s[1]
    BY <1>1, <1>2, <2>1 DEF Chain
  <2>4. PassedBy(s, 1)'
    BY DEF PassedBy
  <2> QED
    BY <2>1, <2>2, <2>3, <2>4 DEF WalkOn
(* A walk goes on past a node it was not looking for. *)
<1>3. ASSUME pc \in {"sort", "delete"}, cur # Null, cur' = next[cur],
             UNCHANGED <<listVars, pc, val>>,
             pc = "sort" => Rank[data[cur]] <= Rank[val],
             pc = "delete" => data[cur] # val
      PROVE  WalkInv'
  <2> SUFFICES ASSUME cur' # Null
               PROVE  \E s \in [1 .. count' -> Nodes] :
                        Injective(s, count') /\ Chain(s, count)' /\ WalkOn(s, count)'
    BY DEF WalkInv
  <2>1. PICK s \in [1 .. count -> Nodes] :
          Injective(s, count) /\ Chain(s, count) /\ WalkOn(s, count)
    BY <1>3 DEF WalkInv
  <2>2. Chain(s, count)' /\ count' = count
    BY <1>3, <2>1 DEF Chain
  <2>3. PICK k \in 1 .. count : cur = s[k] /\ PassedBy(s, k)
    BY <2>1 DEF WalkOn
  <2>4. next[s[k]] = IF k = count THEN Null ELSE s[k + 1]
    BY <2>1 DEF Chain
  <2>5. k + 1 \in 1 .. count /\ cur' = s[k + 1]
    BY <1>1, <1>3, <2>3, <2>4
  <2>6. PassedBy(s, k + 1)'
    <3> SUFFICES ASSUME NEW j \in 1 .. (k + 1) - 1
                 PROVE  /\ pc' = "sort"   => Rank[data'[s[j]]] <= Rank[val']
                        /\ pc' = "delete" => data'[s[j]] # val'
      BY DEF PassedBy
    <3>1. j \in 1 .. k - 1 \/ j = k
      BY <1>1
    <3>2. data' = data /\ val' = val /\ pc' = pc
      BY <1>3
    <3>3. CASE j \in 1 .. k - 1
      BY <2>3, <3>2, <3>3 DEF PassedBy
    <3>4. CASE j = k
      BY <1>3, <2>3, <3>2, <3>4
    <3> QED
      BY <3>1, <3>3, <3>4
  <2> QED
    BY <2>1, <2>2, <2>5, <2>6 DEF WalkOn
<1>4. ASSUME pc' \notin {"sort", "delete"} PROVE WalkInv'
  BY <1>4 DEF WalkInv
<1>5. ASSUME NEW v \in Data, Add(v) PROVE WalkInv'
  BY <1>5, <1>4 DEF Add
<1>6. ASSUME NEW v \in Data, BeginAddSort(v) PROVE WalkInv'
  BY <1>6, <1>2 DEF BeginAddSort
<1>7. ASSUME NEW v \in Data, BeginDelete(v) PROVE WalkInv'
  BY <1>7, <1>2 DEF BeginDelete
<1>8. CASE SortWalk
  <2>1. cur \in live /\ val \in Data /\ data[cur] \in Data
    BY <1>8 DEF SortWalk, OrderInv, TypeOK
  <2>2. Rank[val] \in Int /\ Rank[data[cur]] \in Int
    BY <2>1 DEF ListAssumption
  <2>3. Rank[data[cur]] <= Rank[val]
    BY <1>8, <2>2 DEF SortWalk, Before
  <2> QED
    BY <1>8, <1>3, <2>3 DEF SortWalk
<1>9. CASE DeleteWalk
  BY <1>9, <1>3 DEF DeleteWalk
<1>10. CASE SortInsert \/ SortAppend \/ Unlink \/ DeleteNothing
  BY <1>10, <1>4 DEF SortInsert, SortAppend, Unlink, DeleteNothing
<1>11. CASE BeginDeleteAll \/ FreeNext \/ DeleteAllDone \/ BeginLoop \/ Advance
  BY <1>11, <1>4 DEF BeginDeleteAll, FreeNext, DeleteAllDone, BeginLoop, Advance
<1>12. CASE UNCHANGED vars
  <2>1. UNCHANGED <<head, tail, count, live, next, prev, data, pc, cur, val>>
    BY <1>12 DEF vars
  <2>2. CASE pc \in {"sort", "delete"} /\ cur # Null
    <3>1. PICK s \in [1 .. count -> Nodes] :
            Injective(s, count) /\ Chain(s, count) /\ WalkOn(s, count)
      BY <2>2 DEF WalkInv
    <3>2. Chain(s, count)' /\ count' = count
      BY <2>1, <3>1 DEF Chain
    <3>3. WalkOn(s, count)'
      BY <2>1, <3>1 DEF WalkOn, PassedBy
    <3> QED
      BY <3>1, <3>2, <3>3 DEF WalkInv
  <2> QED
    BY <2>1, <2>2 DEF WalkInv
<1> QED
  BY <1>5, <1>6, <1>7, <1>8, <1>9, <1>10, <1>11, <1>12 DEF Next

-------------------------------------------------------------------------------
(* What the operations of ListSpec do to a sequence, place by place *)

(* A function from 1 .. m is a sequence of length m. *)
LEMMA FunctionIsSeq ==
  ASSUME NEW m \in Nat, NEW S, NEW e \in [1 .. m -> S]
  PROVE  e \in Seq(S) /\ Len(e) = m
<1>1. e \in Seq(S)
  OBVIOUS
<1>2. Len(e) \in Nat /\ DOMAIN e = 1 .. Len(e)
  BY <1>1, LenProperties
<1>3. Len(e) = m
  BY <1>2
<1> QED
  BY <1>1, <1>3

LEMMA SameSeq ==
  ASSUME NEW m \in Nat, NEW S, NEW t \in [1 .. m -> S], NEW f \in Seq(S), Len(f) = m,
         \A j \in 1 .. m : t[j] = f[j]
  PROVE  t = f
<1>1. f \in [1 .. m -> S]
  BY LenProperties
<1> QED
  BY <1>1

LEMMA AppendIs ==
  ASSUME NEW m \in Nat, NEW S, NEW e \in [1 .. m -> S], NEW v \in S,
         NEW t \in [1 .. m + 1 -> S],
         \A j \in 1 .. m : t[j] = e[j], t[m + 1] = v
  PROVE  t = Append(e, v)
<1>1. e \in Seq(S) /\ Len(e) = m
  BY FunctionIsSeq
<1>2. /\ Append(e, v) \in Seq(S) /\ Len(Append(e, v)) = m + 1
      /\ \A j \in 1 .. m : Append(e, v)[j] = e[j]
      /\ Append(e, v)[m + 1] = v
  BY <1>1, AppendProperties
<1>3. \A j \in 1 .. m + 1 : j \in 1 .. m \/ j = m + 1
  OBVIOUS
<1>4. \A j \in 1 .. m + 1 : t[j] = Append(e, v)[j]
  BY <1>2, <1>3
<1>5. m + 1 \in Nat
  OBVIOUS
<1> QED
  BY <1>2, <1>4, <1>5, SameSeq

(* A part of a sequence. *)
LEMMA PartIs ==
  ASSUME NEW m \in Nat, NEW S, NEW e \in [1 .. m -> S],
         NEW a \in 1 .. m + 1, NEW b \in 0 .. m, a <= b + 1
  PROVE  /\ SubSeq(e, a, b) \in Seq(S)
         /\ Len(SubSeq(e, a, b)) = b + 1 - a
         /\ \A j \in 1 .. b + 1 - a : SubSeq(e, a, b)[j] = e[a + j - 1]
<1>1. a \in Int /\ b \in Int /\ \A i \in a .. b : e[i] \in S
  OBVIOUS
<1>2. /\ SubSeq(e, a, b) \in Seq(S)
      /\ Len(SubSeq(e, a, b)) = IF a <= b THEN b - a + 1 ELSE 0
      /\ \A i \in 1 .. b - a + 1 : SubSeq(e, a, b)[i] = e[a + i - 1]
  BY <1>1, SubSeqProperties
<1>3. b - a + 1 = b + 1 - a /\ (~(a <= b) => b + 1 - a = 0)
  BY <1>1
<1> QED
  BY <1>2, <1>3

(* The elements t are the m elements e with v put in at k. *)
ElementsWith(t, e, m, S, k, v) ==
  /\ t \in [1 .. m + 1 -> S] /\ e \in [1 .. m -> S]
  /\ k \in 1 .. m + 1 /\ v \in S
  /\ \A j \in 1 .. m + 1 : t[j] = IF j < k THEN e[j] ELSE IF j = k THEN v ELSE e[j - 1]

(* The elements t are the m elements e without the k-th. *)
ElementsWithout(t, e, m, S, k) ==
  /\ t \in [1 .. m - 1 -> S] /\ e \in [1 .. m -> S] /\ k \in 1 .. m
  /\ \A j \in 1 .. m - 1 : t[j] = e[Up(k, j)]

(* InsertAt *)
LEMMA InsertAtIs ==
  ASSUME NEW m \in Nat, NEW S, NEW e, NEW k, NEW v, NEW t, ElementsWith(t, e, m, S, k, v)
  PROVE  t = SubSeq(e, 1, k - 1) \o <<v>> \o SubSeq(e, k, Len(e))
<1> DEFINE a == SubSeq(e, 1, k - 1)
           b == <<v>>
           c == SubSeq(e, k, m)
           ab == a \o b
           abc == ab \o c
<1> USE DEF ElementsWith
<1>1. e \in Seq(S) /\ Len(e) = m
  BY FunctionIsSeq
<1>2. a \in Seq(S) /\ Len(a) = k - 1 /\ \A j \in 1 .. k - 1 : a[j] = e[j]
  <2>1. 1 \in 1 .. m + 1 /\ k - 1 \in 0 .. m /\ 1 <= (k - 1) + 1 /\ (k - 1) + 1 - 1 = k - 1
    OBVIOUS
  <2>2. \A j \in 1 .. k - 1 : 1 + j - 1 = j
    OBVIOUS
  <2> QED
    BY <2>1, <2>2, PartIs
<1>3. b \in Seq(S) /\ Len(b) = 1 /\ b[1] = v
  OBVIOUS
<1>4. c \in Seq(S) /\ Len(c) = m + 1 - k /\ \A j \in 1 .. m + 1 - k : c[j] = e[k + j - 1]
  <2>1. m \in 0 .. m /\ k <= m + 1
    OBVIOUS
  <2> QED
    BY <2>1, PartIs
<1>5. SubSeq(e, 1, k - 1) \o <<v>> \o SubSeq(e, k, Len(e)) = abc
  BY <1>1
<1> HIDE DEF a, b, c
<1>6. /\ ab \in Seq(S) /\ Len(ab) = Len(a) + Len(b)
      /\ \A j \in 1 .. Len(a) + Len(b) : ab[j] = IF j <= Len(a) THEN a[j] ELSE b[j - Len(a)]
  BY <1>2, <1>3, ConcatProperties
<1> HIDE DEF ab
<1>7. Len(ab) = k /\ \A j \in 1 .. k : ab[j] = IF j < k THEN e[j] ELSE v
  <2>1. Len(ab) = k
    BY <1>2, <1>3, <1>6
  <2>2. ASSUME NEW j \in 1 .. k PROVE ab[j] = IF j < k THEN e[j] ELSE v
    <3>1. CASE j < k
      <4>1. j \in 1 .. k - 1 /\ j <= Len(a) /\ j \in 1 .. Len(a) + Len(b)
        BY <3>1, <1>2, <1>3
      <4> QED
        BY <3>1, <4>1, <1>2, <1>6
    <3>2. CASE ~(j < k)
      <4>1. j = k /\ j - Len(a) = 1 /\ ~(j <= Len(a))
        BY <3>2, <1>2
      <4> QED
        BY <4>1, <1>2, <1>3, <1>6
    <3> QED
      BY <3>1, <3>2
  <2> QED
    BY <2>1, <2>2
<1>8. /\ abc \in Seq(S) /\ Len(abc) = Len(ab) + Len(c)
      /\ \A j \in 1 .. Len(ab) + Len(c) : abc[j] = IF j <= Len(ab) THEN ab[j] ELSE c[j - Len(ab)]
  <2>1. ab \in Seq(S) /\ c \in Seq(S)
    BY <1>4, <1>6
  <2> QED
    BY <2>1, ConcatProperties
<1> HIDE DEF abc
<1>9. Len(abc) = m + 1 /\ \A j \in 1 .. m + 1 : t[j] = abc[j]
  <2>1. Len(abc) = m + 1
    BY <1>4, <1>7, <1>8
  <2>2. ASSUME NEW j \in 1 .. m + 1 PROVE t[j] = abc[j]
    <3>1. abc[j] = IF j <= k THEN ab[j] ELSE c[j - k]
      BY <1>4, <1>7, <1>8
    <3>2. CASE j <= k
      BY <3>1, <3>2, <1>7
    <3>3. CASE ~(j <= k)
      <4>1. j - k \in 1 .. m + 1 - k /\ k + (j - k) - 1 = j - 1 /\ ~(j < k) /\ j # k
        BY <3>3
      <4>2. c[j - k] = e[j - 1]
        BY <4>1, <1>4
      <4> QED
        BY <3>1, <3>3, <4>1, <4>2
    <3> QED
      BY <3>2, <3>3
  <2> QED
    BY <2>1, <2>2
<1>10. m + 1 \in Nat
  OBVIOUS
<1>11. t = abc
  BY <1>8, <1>9, <1>10, SameSeq
<1> QED
  BY <1>5, <1>11

(* RemoveAt *)
LEMMA RemoveAtIs ==
  ASSUME NEW m \in Nat, NEW S, NEW e, NEW k, NEW t, ElementsWithout(t, e, m, S, k)
  PROVE  t = SubSeq(e, 1, k - 1) \o SubSeq(e, k + 1, Len(e))
<1> DEFINE a == SubSeq(e, 1, k - 1)
           c == SubSeq(e, k + 1, m)
           ac == a \o c
<1> USE DEF ElementsWithout
<1>1. e \in Seq(S) /\ Len(e) = m
  BY FunctionIsSeq
<1>2. a \in Seq(S) /\ Len(a) = k - 1 /\ \A j \in 1 .. k - 1 : a[j] = e[j]
  <2>1. 1 \in 1 .. m + 1 /\ k - 1 \in 0 .. m /\ 1 <= (k - 1) + 1 /\ (k - 1) + 1 - 1 = k - 1
    OBVIOUS
  <2>2. \A j \in 1 .. k - 1 : 1 + j - 1 = j
    OBVIOUS
  <2> QED
    BY <2>1, <2>2, PartIs
<1>3. c \in Seq(S) /\ Len(c) = m - k /\ \A j \in 1 .. m - k : c[j] = e[k + j]
  <2>1. m \in 0 .. m /\ k + 1 \in 1 .. m + 1 /\ k + 1 <= m + 1 /\ m + 1 - (k + 1) = m - k
    OBVIOUS
  <2>2. \A j \in 1 .. m - k : (k + 1) + j - 1 = k + j
    OBVIOUS
  <2> QED
    BY <2>1, <2>2, PartIs
<1>4. SubSeq(e, 1, k - 1) \o SubSeq(e, k + 1, Len(e)) = ac
  BY <1>1
<1> HIDE DEF a, c
<1>5. /\ ac \in Seq(S) /\ Len(ac) = Len(a) + Len(c)
      /\ \A j \in 1 .. Len(a) + Len(c) : ac[j] = IF j <= Len(a) THEN a[j] ELSE c[j - Len(a)]
  BY <1>2, <1>3, ConcatProperties
<1> HIDE DEF ac
<1>6. Len(ac) = m - 1 /\ m - 1 \in Nat
  BY <1>2, <1>3, <1>5
<1>7. ASSUME NEW j \in 1 .. m - 1 PROVE t[j] = ac[j]
  <2>1. CASE j < k
    <3>1. j \in 1 .. k - 1 /\ j <= Len(a) /\ j \in 1 .. Len(a) + Len(c)
      BY <2>1, <1>2, <1>3
    <3> QED
      BY <2>1, <3>1, <1>2, <1>5 DEF Up
  <2>2. CASE ~(j < k)
    <3>1. /\ ~(j <= Len(a)) /\ j \in 1 .. Len(a) + Len(c)
          /\ j - Len(a) = j + 1 - k /\ j + 1 - k \in 1 .. m - k /\ k + (j + 1 - k) = j + 1
      BY <2>2, <1>2, <1>3
    <3>2. ac[j] = e[j + 1]
      BY <3>1, <1>3, <1>5
    <3> QED
      BY <2>2, <3>2 DEF Up
  <2> QED
    BY <2>1, <2>2
<1>8. t = ac
  BY <1>5, <1>6, <1>7, SameSeq
<1> QED
  BY <1>4, <1>8

-------------------------------------------------------------------------------
(* Every step is a step of the sequence, or none *)

(* What the nodes of a list hold is data. *)
LEMMA HeldIs ==
  ASSUME TypeOK, NEW m \in Nat, NEW s \in [1 .. m -> Nodes], Chain(s, m)
  PROVE  Held(s, m) \in [1 .. m -> Data] /\ \A i \in 1 .. m : Held(s, m)[i] = data[s[i]]
<1>1. \A i \in 1 .. m : s[i] \in live /\ data[s[i]] \in Data
  BY DEF Chain, TypeOK
<1> QED
  BY <1>1 DEF Held

(* Where the links and the data stay, the sequence stays. *)
LEMMA ElemsStay ==
  ASSUME OrderInv, ElemsAre, ElemsAre', pc # "clear", pc' # "clear", UNCHANGED listVars
  PROVE  Elems' = Elems
<1>1. PICK s \in [1 .. count -> Nodes] : Injective(s, count) /\ Chain(s, count)
  BY DEF OrderInv
<1>2. count' = count /\ data' = data /\ Chain(s, count)'
  BY <1>1 DEF listVars, Chain
<1>3. Elems = Held(s, count)
  BY <1>1 DEF ElemsAre
<1>4. Elems' = Held(s, count)'
  BY <1>1, <1>2 DEF ElemsAre
<1>5. Held(s, count)' = Held(s, count)
  BY <1>2 DEF Held
<1> QED
  BY <1>3, <1>4, <1>5

(* Linking a node at the end appends. *)
LEMMA LinkLastAppends ==
  ASSUME ListAssumption, TypeOK, TypeOK', OrderInv, ElemsAre, ElemsAre',
         pc # "clear", pc' # "clear",
         NEW v \in Data, NEW n \in Nodes \ live, LinkLast(n, v)
  PROVE  List!Append1(v)
<1>1. PICK c \in Nat : c = count
  BY DEF OrderInv
<1>2. PICK s \in [1 .. c -> Nodes] : Injective(s, c) /\ Chain(s, c)
  BY <1>1 DEF OrderInv
<1> DEFINE t == Ins(s, c, c + 1, n)
<1>3. InsertedAt(t, s, c, c + 1, n) /\ Injective(t, c + 1) /\ Chain(t, c + 1)'
  BY <1>2, LinkLastChain
<1> HIDE DEF t
<1>4. t \in [1 .. c + 1 -> Nodes] /\ t[c + 1] = n
  BY <1>3 DEF InsertedAt
<1>5. \A j \in 1 .. c : t[j] = s[j]
  <2> SUFFICES ASSUME NEW j \in 1 .. c PROVE t[j] = s[j]
    OBVIOUS
  <2>1. j \in 1 .. c + 1 /\ j # c + 1 /\ Down(c + 1, j) = j
    BY DEF Down
  <2> QED
    BY <2>1, <1>3 DEF InsertedAt
<1>6. count' = c + 1 /\ c + 1 \in Nat /\ data' = [data EXCEPT ![n] = v]
  BY <1>1 DEF LinkLast
<1>7. Elems = Held(s, c)
  BY <1>1, <1>2 DEF ElemsAre
<1>8. Elems' = Held(t, c + 1)'
  <2>1. Chain(t, count)'
    BY <1>3, <1>6 DEF Chain
  <2>2. Elems' = Held(t, count)'
    BY <1>3, <1>4, <1>6, <2>1 DEF ElemsAre
  <2> QED
    BY <1>6, <2>2 DEF Held
<1>9. Elems \in [1 .. c -> Data] /\ \A i \in 1 .. c : Elems[i] = data[s[i]]
  BY <1>2, <1>7, HeldIs
<1>10. \A i \in 1 .. c + 1 : t[i] \in live' /\ data'[t[i]] \in Data
  BY <1>3 DEF Chain, TypeOK
<1>11. /\ Elems' \in [1 .. c + 1 -> Data]
       /\ \A i \in 1 .. c + 1 : Elems'[i] = data'[t[i]]
  BY <1>8, <1>10 DEF Held
<1>12. \A i \in 1 .. c : s[i] \in live /\ s[i] # n /\ s[i] \in Nodes
  BY <1>2 DEF Chain
<1>13. \A x \in Nodes : data'[x] = IF x = n THEN v ELSE data[x]
  BY <1>6 DEF TypeOK
<1>14. ASSUME NEW i \in 1 .. c PROVE Elems'[i] = Elems[i]
  <2>1. i \in 1 .. c + 1
    OBVIOUS
  <2>2. Elems'[i] = data'[s[i]]
    BY <1>5, <1>11, <2>1
  <2>3. data'[s[i]] = data[s[i]]
    BY <1>12, <1>13
  <2> QED
    BY <1>9, <2>2, <2>3
<1>15. Elems'[c + 1] = v
  <2>1. c + 1 \in 1 .. c + 1
    OBVIOUS
  <2> QED
    BY <1>4, <1>11, <1>13, <2>1
<1>16. Elems' = Append(Elems, v)
  BY <1>9, <1>11, <1>14, <1>15, AppendIs
<1> QED
  BY <1>16 DEF List!Append1

(* Linking a node where the walk stands inserts in the order of cmp. *)
LEMMA SortInsertAdds ==
  ASSUME ListAssumption, TypeOK, TypeOK', OrderInv, ElemsAre, ElemsAre', WalkInv, SortInsert
  PROVE  List!AddSorted(val)
<1>1. /\ pc = "sort" /\ cur # Null /\ pc' = "idle" /\ count' = count + 1 /\ tail' = tail
      /\ val \in Data
  BY DEF SortInsert, Idle, TypeOK
<1>2. PICK c \in Nat : c = count
  BY DEF OrderInv
<1>3. PICK s \in [1 .. c -> Nodes] : Injective(s, c) /\ Chain(s, c) /\ WalkOn(s, c)
  BY <1>1, <1>2 DEF WalkInv
<1>4. PICK k \in 1 .. c : cur = s[k] /\ PassedBy(s, k)
  BY <1>3 DEF WalkOn
<1>5. PICK n \in Nodes \ live :
        /\ data' = [data EXCEPT ![n] = val]
        /\ next' = [x \in Nodes |-> IF x = n THEN cur ELSE IF x = prev[cur] THEN n ELSE next[x]]
        /\ prev' = [prev EXCEPT ![n] = prev[cur], ![cur] = n]
        /\ head' = IF prev[cur] = Null THEN n ELSE head
        /\ live' = live \cup {n}
  BY DEF SortInsert
<1> DEFINE t == Ins(s, c, k, n)
<1>6. InsertedAt(t, s, c, k, n) /\ Injective(t, c + 1) /\ Chain(t, c + 1)'
  BY <1>1, <1>3, <1>4, <1>5, InsertChain
<1> HIDE DEF t
<1>7. /\ t \in [1 .. c + 1 -> Nodes] /\ t[k] = n
      /\ \A j \in 1 .. c + 1 : j # k => Down(k, j) \in 1 .. c /\ t[j] = s[Down(k, j)]
  BY <1>6 DEF InsertedAt
<1>8. count' = c + 1 /\ c + 1 \in Nat
  BY <1>1, <1>2
<1>9. Elems = Held(s, c)
  BY <1>1, <1>2, <1>3 DEF ElemsAre
<1>10. Elems' = Held(t, c + 1)'
  <2>1. Chain(t, count)'
    BY <1>6, <1>8 DEF Chain
  <2>2. Elems' = Held(t, count)'
    BY <1>1, <1>6, <1>7, <1>8, <2>1 DEF ElemsAre
  <2> QED
    BY <1>8, <2>2 DEF Held
<1>11. Elems \in [1 .. c -> Data] /\ \A i \in 1 .. c : Elems[i] = data[s[i]]
  BY <1>3, <1>9, HeldIs
<1>12. \A i \in 1 .. c + 1 : t[i] \in live' /\ data'[t[i]] \in Data
  BY <1>6 DEF Chain, TypeOK
<1>13. /\ Elems' \in [1 .. c + 1 -> Data]
       /\ \A i \in 1 .. c + 1 : Elems'[i] = data'[t[i]]
  BY <1>10, <1>12 DEF Held
<1>14. \A i \in 1 .. c : s[i] # n /\ s[i] \in Nodes /\ data'[s[i]] = data[s[i]]
  BY <1>3, <1>5 DEF Chain, TypeOK
<1>15. ASSUME NEW j \in 1 .. c + 1
       PROVE  Elems'[j] = IF j < k THEN Elems[j] ELSE IF j = k THEN val ELSE Elems[j - 1]
  <2>1. CASE j = k
    <3>1. Elems'[j] = data'[n] /\ ~(j < k)
      BY <2>1, <1>7, <1>13
    <3>2. data'[n] = val
      BY <1>5 DEF TypeOK
    <3> QED
      BY <2>1, <3>1, <3>2
  <2>2. CASE j < k
    <3>1. Down(k, j) = j /\ j \in 1 .. c /\ j # k
      BY <2>2 DEF Down
    <3>2. t[j] = s[j]
      BY <3>1, <1>7
    <3> QED
      BY <2>2, <3>1, <3>2, <1>11, <1>13, <1>14, SMTT(30)
  <2>3. CASE j > k
    <3>1. Down(k, j) = j - 1 /\ j - 1 \in 1 .. c /\ j # k /\ ~(j < k)
      BY <2>3 DEF Down
    <3>2. t[j] = s[j - 1]
      BY <3>1, <1>7
    <3> QED
      BY <3>1, <3>2, <1>11, <1>13, <1>14, SMTT(30)
  <2> QED
    BY <2>1, <2>2, <2>3
<1>16. k \in 1 .. c + 1
  OBVIOUS
<1>17. Elems' = List!InsertAt(Elems, k, val)
  <2>1. PICK e, f : e = Elems /\ f = Elems'
    OBVIOUS
  <2>2. e \in [1 .. c -> Data] /\ f \in [1 .. c + 1 -> Data]
    BY <1>11, <1>13, <2>1
  <2>3. \A j \in 1 .. c + 1 : f[j] = IF j < k THEN e[j] ELSE IF j = k THEN val ELSE e[j - 1]
    BY <1>15, <2>1
  <2>4. val \in Data
    BY <1>1
  <2>5. ElementsWith(f, e, c, Data, k, val)
    BY <2>2, <2>3, <2>4, <1>16 DEF ElementsWith
  <2>6. f = SubSeq(e, 1, k - 1) \o <<val>> \o SubSeq(e, k, Len(e))
    BY <2>5, InsertAtIs
  <2> QED
    BY <2>1, <2>6 DEF List!InsertAt
<1>18. Len(Elems) = c
  BY <1>11, FunctionIsSeq
<1>19. \A j \in 1 .. k - 1 : Rank[Elems[j]] <= Rank[val]
  BY <1>1, <1>4, <1>11, SMTT(30) DEF PassedBy
<1>20. Rank[val] < Rank[Elems[k]]
  BY <1>4, <1>11 DEF SortInsert, Before
<1> QED
  BY <1>16, <1>17, <1>18, <1>19, <1>20 DEF List!AddSorted

(* Unlinking the node where the walk stands removes the first of its kind. *)
LEMMA UnlinkRemoves ==
  ASSUME ListAssumption, TypeOK, TypeOK', OrderInv, ElemsAre, ElemsAre', WalkInv, Unlink
  PROVE  List!Remove1(val)
<1>1. /\ pc = "delete" /\ cur # Null /\ pc' = "idle" /\ count' = count - 1
      /\ val \in Data /\ data[cur] = val /\ data' = data
  BY DEF Unlink, Idle, TypeOK
<1>2. PICK c \in Nat : c = count
  BY DEF OrderInv
<1>3. PICK s \in [1 .. c -> Nodes] : Injective(s, c) /\ Chain(s, c) /\ WalkOn(s, c)
  BY <1>1, <1>2 DEF WalkInv
<1>4. PICK k \in 1 .. c : cur = s[k] /\ PassedBy(s, k)
  BY <1>3 DEF WalkOn
<1> DEFINE t == Del(s, c, k)
<1>5. RemovedAt(t, s, c, k) /\ Injective(t, c - 1) /\ Chain(t, c - 1)'
  BY <1>3, <1>4, UnlinkChain
<1> HIDE DEF t
<1>6. /\ t \in [1 .. c - 1 -> Nodes]
      /\ \A j \in 1 .. c - 1 : Up(k, j) \in 1 .. c /\ t[j] = s[Up(k, j)]
  BY <1>5 DEF RemovedAt
<1>7. count' = c - 1 /\ c - 1 \in Nat
  BY <1>1, <1>2
<1>8. Elems = Held(s, c)
  BY <1>1, <1>2, <1>3 DEF ElemsAre
<1>9. Elems' = Held(t, c - 1)'
  <2>1. Chain(t, count)'
    BY <1>5, <1>7 DEF Chain
  <2>2. Elems' = Held(t, count)'
    BY <1>1, <1>5, <1>6, <1>7, <2>1 DEF ElemsAre
  <2> QED
    BY <1>7, <2>2 DEF Held
<1>10. Elems \in [1 .. c -> Data] /\ \A i \in 1 .. c : Elems[i] = data[s[i]]
  BY <1>3, <1>8, HeldIs
<1>11. /\ Elems' \in [1 .. c - 1 -> Data]
       /\ \A i \in 1 .. c - 1 : Elems'[i] = Elems[Up(k, i)]
  <2>1. \A i \in 1 .. c - 1 : data'[t[i]] = Elems[Up(k, i)] /\ Elems[Up(k, i)] \in Data
    BY <1>1, <1>6, <1>10
  <2> QED
    BY <1>9, <2>1 DEF Held
<1>12. Elems' = List!RemoveAt(Elems, k)
  <2>1. PICK e, f : e = Elems /\ f = Elems'
    OBVIOUS
  <2>2. e \in [1 .. c -> Data] /\ f \in [1 .. c - 1 -> Data]
    BY <1>10, <1>11, <2>1
  <2>3. \A j \in 1 .. c - 1 : f[j] = e[Up(k, j)]
    BY <1>11, <2>1
  <2>4. ElementsWithout(f, e, c, Data, k)
    BY <2>2, <2>3 DEF ElementsWithout
  <2>5. f = SubSeq(e, 1, k - 1) \o SubSeq(e, k + 1, Len(e))
    BY <2>4, RemoveAtIs
  <2> QED
    BY <2>1, <2>5 DEF List!RemoveAt
<1>13. Len(Elems) = c
  BY <1>10, FunctionIsSeq
<1>14. \A j \in 1 .. k - 1 : Elems[j] # val
  BY <1>1, <1>4, <1>10 DEF PassedBy
<1>15. Elems[k] = val
  BY <1>1, <1>4, <1>10
<1> QED
  BY <1>12, <1>13, <1>14, <1>15 DEF List!Remove1

(* While the nodes are freed the list counts as empty, and then it is.     *)
LEMMA ClearIsEmpty == ASSUME pc = "clear" PROVE Elems = <<>>
BY Zenon DEF Elems

LEMMA ClearIsEmptyNext == ASSUME pc' = "clear" PROVE Elems' = <<>>
BY Zenon DEF Elems

LEMMA ClearedIsEmpty ==
  ASSUME OrderInv', ElemsAre', pc' # "clear", count' = 0
  PROVE  Elems' = <<>>
<1>1. PICK s \in [1 .. count' -> Nodes] : Injective(s, count') /\ Chain(s, count)'
  BY DEF OrderInv
<1>2. Elems' = Held(s, count)'
  BY <1>1 DEF ElemsAre
<1>3. Held(s, count)' = [i \in 1 .. 0 |-> data'[s[i]]]
  BY DEF Held
<1> QED
  BY <1>2, <1>3

LEMMA StepIsListStep ==
  ASSUME ListAssumption, TypeOK, TypeOK', OrderInv, OrderInv', ElemsAre, ElemsAre', WalkInv,
         [Next]_vars
  PROVE  [List!Next]_Elems
<1>1. Elems' = Elems => [List!Next]_Elems
  OBVIOUS
<1>2. ASSUME NEW v \in Data, Add(v) PROVE [List!Next]_Elems
  <2>1. PICK n \in Nodes \ live : LinkLast(n, v)
    BY <1>2 DEF Add
  <2>2. pc # "clear" /\ pc' # "clear"
    BY <1>2 DEF Add, opVars
  <2>3. List!Append1(v)
    BY <2>1, <2>2, LinkLastAppends
  <2> QED
    BY <2>3 DEF List!Next
<1>3. ASSUME NEW v \in Data, BeginAddSort(v) \/ BeginDelete(v) PROVE [List!Next]_Elems
  BY <1>1, <1>3, ElemsStay DEF BeginAddSort, BeginDelete
<1>4. CASE SortWalk \/ DeleteWalk \/ DeleteNothing
  BY <1>1, <1>4, ElemsStay DEF SortWalk, DeleteWalk, DeleteNothing, Idle
<1>5. CASE SortInsert
  <2>1. List!AddSorted(val) /\ val \in Data
    BY <1>5, SortInsertAdds DEF SortInsert, TypeOK
  <2> QED
    BY <2>1 DEF List!Next
<1>6. CASE SortAppend
  <2>1. PICK n \in Nodes \ live : LinkLast(n, val)
    BY <1>6 DEF SortAppend
  <2>2. pc # "clear" /\ pc' # "clear" /\ val \in Data
    BY <1>6 DEF SortAppend, Idle, TypeOK
  <2>3. List!Append1(val)
    BY <2>1, <2>2, LinkLastAppends
  <2> QED
    BY <2>2, <2>3 DEF List!Next
<1>7. CASE Unlink
  <2>1. List!Remove1(val) /\ val \in Data
    BY <1>7, UnlinkRemoves DEF Unlink, TypeOK
  <2> QED
    BY <2>1 DEF List!Next
<1>8. CASE BeginDeleteAll
  <2>1. List!Clear
    BY <1>8, ClearIsEmptyNext DEF BeginDeleteAll, List!Clear
  <2> QED
    BY <2>1 DEF List!Next
<1>9. CASE FreeNext
  BY <1>1, <1>9, ClearIsEmpty, ClearIsEmptyNext DEF FreeNext
<1>10. CASE DeleteAllDone
  BY <1>1, <1>10, ClearIsEmpty, ClearedIsEmpty DEF DeleteAllDone, Idle
<1>11. CASE BeginLoop \/ Advance
  BY <1>1, <1>11, ElemsStay DEF BeginLoop, Advance, opVars
<1>12. CASE UNCHANGED vars
  <2>1. pc' = pc /\ UNCHANGED listVars
    BY <1>12 DEF vars, opVars
  <2>2. Elems' = Elems
    BY <2>1, ElemsStay, ClearIsEmpty, ClearIsEmptyNext
  <2> QED
    BY <1>1, <2>2
<1> QED
  BY <1>2, <1>3, <1>4, <1>5, <1>6, <1>7, <1>8, <1>9, <1>10, <1>11, <1>12 DEF Next

(* The list is the sequence linklist.h promises, for any heap, data and    *)
(* order: whatever the pointers do in between, each operation changes it   *)
(* at one moment.                                                          *)
THEOREM ImplementsListCorrect == Spec => ImplementsList
<1> USE ListAssumption
<1>1. Spec => []ElemsAre
  BY ElemsHeld, ListTypeCorrect, OrderCorrect, PTL
<1>2. Spec => []WalkInv
  <2>1. Init => WalkInv
    BY DEF Init, WalkInv
  <2>2. TypeOK /\ OrderInv /\ WalkInv /\ [Next]_vars => WalkInv'
    BY WalkKept
  <2> QED
    BY <2>1, <2>2, ListTypeCorrect, OrderCorrect, PTL DEF Spec
<1>3. Init /\ OrderInv /\ ElemsAre => List!Init
  <2> SUFFICES ASSUME Init, OrderInv, ElemsAre PROVE Elems = <<>>
    BY DEF List!Init
  <2>1. pc # "clear" /\ count = 0
    BY DEF Init
  <2>2. PICK s \in [1 .. count -> Nodes] : Injective(s, count) /\ Chain(s, count)
    BY <2>1 DEF OrderInv
  <2>3. Elems = [i \in 1 .. 0 |-> data[s[i]]]
    BY <2>1, <2>2 DEF ElemsAre, Held
  <2> QED
    BY <2>3
<1>4. /\ TypeOK /\ TypeOK' /\ OrderInv /\ OrderInv' /\ ElemsAre /\ ElemsAre' /\ WalkInv
      /\ [Next]_vars
      => [List!Next]_Elems
  BY StepIsListStep
<1> QED
  BY <1>1, <1>2, <1>3, <1>4, ListTypeCorrect, OrderCorrect, PTL
     DEF Spec, ImplementsList, List!Spec
=================================================================================
