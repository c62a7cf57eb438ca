------------------------------ MODULE MCNvramConf ------------------------------
(* NvramConf for TLC: the programs are interchangeable. *)
EXTENDS NvramConf, TLC

Symmetry == Permutations(Clients)
===============================================================================
