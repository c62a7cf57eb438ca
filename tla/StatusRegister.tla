---------------------------- MODULE StatusRegister ----------------------------
(***************************************************************************)
(* What set_poe_status and get_poe_status_from_file promise: the status    *)
(* changes at one moment, a call that cannot have the file at once fails   *)
(* and changes nothing, and a reader gets the status as it is at one       *)
(* moment.  A set may leave the status empty, when the file system is full *)
(* or when its process dies.  StatusFile implements this.                  *)
(***************************************************************************)
CONSTANTS Processes, Values

VARIABLES status, got

vars == <<status, got>>

Init == status = "absent" /\ got = [p \in Processes |-> "none"]

Create == status = "absent" /\ status' = "empty" /\ UNCHANGED got

Set == status # "absent" /\ status' \in Values \cup {"empty"} /\ UNCHANGED got

Get(p) == got' = [got EXCEPT ![p] = status] /\ status # "absent" /\ UNCHANGED status

GetFails(p) == got' = [got EXCEPT ![p] = "none"] /\ UNCHANGED status

Next == Create \/ Set \/ \E p \in Processes : Get(p) \/ GetFails(p)

Spec == Init /\ [][Next]_vars
===============================================================================
