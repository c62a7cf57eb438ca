-------------------------------- MODULE ListSpec --------------------------------
(***************************************************************************)
(* What linklist.h promises: a sequence of data pointers.  Each operation  *)
(* changes it at one moment; an addition may be lost, because malloc may   *)
(* fail and nobody is told.                                                *)
(***************************************************************************)
EXTENDS Integers, Sequences, SequencesExt

CONSTANTS Data, Rank

VARIABLES elems

Init == elems = <<>>

Append1(v) == elems' = Append(elems, v)

(* Before the first element that is greater, or at the end. *)
AddSorted(v) ==
  \E i \in 1 .. Len(elems) + 1 :
    /\ \A j \in 1 .. i - 1 : Rank[elems[j]] <= Rank[v]
    /\ i <= Len(elems) => Rank[v] < Rank[elems[i]]
    /\ elems' = InsertAt(elems, i, v)

(* The first element that is v, if there is one. *)
Remove1(v) ==
  \E i \in 1 .. Len(elems) :
    /\ elems[i] = v
    /\ \A j \in 1 .. i - 1 : elems[j] # v
    /\ elems' = RemoveAt(elems, i)

Clear == elems' = <<>>

Next == Clear \/ \E v \in Data : Append1(v) \/ AddSorted(v) \/ Remove1(v)

Spec == Init /\ [][Next]_elems
===============================================================================
