------------------------------- MODULE MCLinkList -------------------------------
(***************************************************************************)
(* LinkList for TLC: the order of the pointers.                            *)
(***************************************************************************)
EXTENDS LinkList

(* "a" and "b" are equal for cmp, "c" is greater. *)
MCRank == [d \in {"a", "b", "c"} |-> IF d = "c" THEN 2 ELSE 1]
===============================================================================
