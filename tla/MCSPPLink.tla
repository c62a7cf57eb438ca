------------------------------ MODULE MCSPPLink ------------------------------
(***************************************************************************)
(* Instances of SPPLink for TLC.                                           *)
(***************************************************************************)
EXTENDS SPPLink

CONSTANTS t1, t2, proc1

OneProcess   == [t \in Tasks |-> proc1]
OneTask      == [t \in {t1} |-> proc1]
===============================================================================
