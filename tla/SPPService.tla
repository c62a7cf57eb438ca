------------------------------ MODULE SPPService ------------------------------
(***************************************************************************)
(* What poe_tools.c promises a caller of a Power Manager routine, without  *)
(* the serial line: the controller carries the routine out at one moment   *)
(* between the call and its return, a successful return hands back exactly *)
(* what the controller computed at that moment, and a failed return leaves *)
(* open whether the routine was carried out.  SPPLink implements this.     *)
(***************************************************************************)
CONSTANTS
  Tasks,    (* the tasks that call Power Manager routines                  *)
  Ports,    (* the PoE ports                                               *)
  Values,   (* the values of a port's power limit                          *)
  Routines, (* the routines that are called                                *)
  NoVal     (* "no value"                                                  *)

VARIABLES
  limit,    (* the controller's power limit of every port                  *)
  call,     (* the call every task has under way, or its last one          *)
  busy,     (* the tasks that have a call under way                        *)
  reply,    (* what the controller computed for the call under way         *)
  outcome   (* status and value of every task's last finished call         *)

vars == <<limit, call, busy, reply, outcome>>

(* The arguments a routine takes: only a set carries a value. *)
Args ==
  [rtn : Routines \ {"SET"}, port : Ports, val : {NoVal}]
    \cup [rtn : Routines \cap {"SET"}, port : Ports, val : Values]

Init ==
  /\ limit \in [Ports -> Values]
  /\ call = [t \in Tasks |-> [rtn |-> "NONE", port |-> NoVal, val |-> NoVal]]
  /\ busy = {}
  /\ reply = [t \in Tasks |-> NoVal]
  /\ outcome = [t \in Tasks |-> [status |-> "NONE", val |-> NoVal]]

Invoke(t) ==
  /\ t \notin busy
  /\ busy' = busy \cup {t}
  /\ \E a \in Args : call' = [call EXCEPT ![t] = a]
  /\ reply' = [reply EXCEPT ![t] = NoVal]
  /\ UNCHANGED <<limit, outcome>>

(* A set is carried out at most once per call; reads may be repeated. *)
Perform(t) ==
  LET c == call[t] IN
  /\ t \in busy
  /\ c.rtn = "SET" => reply[t] = NoVal
  /\ limit' = IF c.rtn = "SET" THEN [limit EXCEPT ![c.port] = c.val] ELSE limit
  /\ reply' = [reply EXCEPT ![t] = limit'[c.port]]
  /\ UNCHANGED <<call, busy, outcome>>

ReturnSuccess(t) ==
  /\ t \in busy
  /\ reply[t] # NoVal
  /\ busy' = busy \ {t}
  /\ outcome' = [outcome EXCEPT ![t] = [status |-> "ANSWERED", val |-> reply[t]]]
  /\ UNCHANGED <<limit, call, reply>>

ReturnError(t) ==
  /\ t \in busy
  /\ busy' = busy \ {t}
  /\ \E e \in {"READ", "WRITE", "INVALID", "NOT_FND"} :
       outcome' = [outcome EXCEPT ![t] = [status |-> e, val |-> NoVal]]
  /\ UNCHANGED <<limit, call, reply>>

Next == \E t \in Tasks : Invoke(t) \/ Perform(t) \/ ReturnSuccess(t) \/ ReturnError(t)

Spec == Init /\ [][Next]_vars
===============================================================================
