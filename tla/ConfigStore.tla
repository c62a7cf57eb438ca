------------------------------ MODULE ConfigStore ------------------------------
(***************************************************************************)
(* What scfgmgr_set, scfgmgr_cmd, scfgmgr_get and scfgmgr_getall promise   *)
(* their callers, without sockets: the configuration manager carries a     *)
(* request out at one moment after the call began, at most once; a call    *)
(* that reports success was carried out before it returned, and a reading  *)
(* call then hands over what was stored at that moment.  A call that       *)
(* reports an error may still be carried out, even after it returned.      *)
(* ScfgClient implements this.                                             *)
(***************************************************************************)
EXTENDS Naturals

CONSTANTS Clients, Values, NoVal, Cmds, MaxCalls

VARIABLES
  stored, (* the configuration in the manager's memory                     *)
  saved,  (* the configuration in flash                                    *)
  asked,  (* the calls that were begun and not carried out, by number      *)
  call,   (* the call every client has under way, or its last one          *)
  busy,   (* the clients that have a call under way                        *)
  reply,  (* what the manager computed for the call                        *)
  result  (* what every client's last finished call reported               *)

vars == <<stored, saved, asked, call, busy, reply, result>>

NoCall == [id |-> 0, cmd |-> "NONE", val |-> NoVal]

Init ==
  /\ stored \in Values /\ saved = stored
  /\ asked = {}
  /\ call = [c \in Clients |-> NoCall]
  /\ busy = {}
  /\ reply = [c \in Clients |-> NoVal]
  /\ result = [c \in Clients |-> [status |-> "none", data |-> NoVal]]

Invoke(c) ==
  /\ c \notin busy
  /\ busy' = busy \cup {c}
  /\ \E id \in 1 .. MaxCalls, cmd \in Cmds, v \in Values \cup {NoVal} :
       /\ call' = [call EXCEPT ![c] = [id |-> id, cmd |-> cmd, val |-> v]]
       /\ asked' = asked \cup {call'[c]}
  /\ reply' = [reply EXCEPT ![c] = NoVal]
  /\ UNCHANGED <<stored, saved, result>>

(* The request is carried out, whether or not its caller still waits. *)
Perform(r) ==
  /\ asked' = asked \ {r}
  /\ stored' = IF r.cmd = "SET" THEN r.val ELSE stored
  /\ saved' = IF r.cmd = "COMMIT" THEN stored ELSE saved
  /\ reply' = [c \in Clients |-> IF call[c] = r /\ c \in busy THEN stored' ELSE reply[c]]
  /\ UNCHANGED <<call, busy, result>>

(* The request is refused or lost. *)
Drop(r) ==
  /\ asked' = asked \ {r}
  /\ UNCHANGED <<stored, saved, call, busy, reply, result>>

Succeed(c) ==
  /\ c \in busy
  /\ reply[c] # NoVal
  /\ busy' = busy \ {c}
  /\ result' = [result EXCEPT ![c] =
       [status |-> "ok", data |-> IF call[c].cmd \in {"GET", "GETALL"} THEN reply[c] ELSE NoVal]]
  /\ UNCHANGED <<stored, saved, asked, call, reply>>

Fail(c) ==
  /\ c \in busy
  /\ busy' = busy \ {c}
  /\ result' = [result EXCEPT ![c] = [status |-> "error", data |-> NoVal]]
  /\ \/ UNCHANGED asked
     \/ asked' = asked \ {call[c]}
  /\ UNCHANGED <<stored, saved, call, reply>>

Next ==
  \/ \E c \in Clients : Invoke(c) \/ Succeed(c) \/ Fail(c)
  \/ \E r \in asked : Perform(r) \/ Drop(r)

Spec == Init /\ [][Next]_vars
===============================================================================
