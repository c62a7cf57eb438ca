-------------------------------- MODULE PidFile --------------------------------
(***************************************************************************)
(* already_running and already_stoprunning of poe/poe_tools.c: a daemon    *)
(* runs at most once because it keeps a write lock on its pid file, whose  *)
(* descriptor it leaves open.  The lock is a POSIX record lock: it belongs *)
(* to the process, and closing any descriptor of the file gives it up.     *)
(***************************************************************************)
CONSTANTS
  Daemons,   (* the processes that try to become the daemon                *)
  SelfCheck  (* TRUE: the daemon itself may call already_stoprunning       *)

ASSUME PidAssumption ==
  /\ Daemons \cap {"absent", "empty", "nobody"} = {}
  /\ SelfCheck \in BOOLEAN

VARIABLES
  pidFile, (* the pid in the file                                          *)
  holder,  (* the process that has the lock                                *)
  dpc,     (* where every process is                                       *)
  alarm,   (* what the last already_stoprunning of every process returned  *)
  unwritten (* history: the processes the last write of which failed       *)

pidvars == <<pidFile, holder, dpc, alarm, unwritten>>

PidInit ==
  /\ pidFile = "absent"
  /\ holder = "nobody"
  /\ dpc = [p \in Daemons |-> "off"]
  /\ alarm = [p \in Daemons |-> "none"]
  /\ unwritten = {}

PidGoto(p, l) == dpc' = [dpc EXCEPT ![p] = l]

-------------------------------------------------------------------------------
(* already_running *)

OpenPidFile(p) ==
  /\ dpc[p] = "off"
  /\ pidFile' = IF pidFile = "absent" THEN "empty" ELSE pidFile
  /\ PidGoto(p, "lock")
  /\ UNCHANGED <<holder, alarm, unwritten>>

(* Mutant of LockPidFile: F_SETLK's refusal is not noticed. *)
LockRegardless(p) ==
  /\ dpc[p] = "lock"
  /\ holder' = IF holder = "nobody" THEN p ELSE holder
  /\ PidGoto(p, "truncate")
  /\ UNCHANGED <<pidFile, alarm, unwritten>>

(* Mutant of LockPidFile: the file is truncated before the lock is asked for. *)
LockTruncated(p) ==
  /\ dpc[p] = "lock"
  /\ pidFile' = "empty"
  /\ \/ holder = "nobody" /\ holder' = p /\ PidGoto(p, "truncate")
     \/ holder # "nobody" /\ UNCHANGED holder /\ PidGoto(p, "off")
  /\ UNCHANGED <<alarm, unwritten>>

(* The lock is tried once: it is somebody's, so the daemon runs already    *)
(* (return 1), or it is p's from now on.                                   *)
LockPidFile(p) ==
  /\ dpc[p] = "lock"
  /\ \/ holder = "nobody" /\ holder' = p /\ PidGoto(p, "truncate")
     \/ holder # "nobody" /\ UNCHANGED holder /\ PidGoto(p, "off")
  /\ UNCHANGED <<pidFile, alarm, unwritten>>

(* Truncating a file that is open for writing is taken to succeed. *)
TruncatePidFile(p) ==
  /\ dpc[p] = "truncate"
  /\ pidFile' = "empty"
  /\ PidGoto(p, "write")
  /\ UNCHANGED <<holder, alarm, unwritten>>

(* "%ld" of the pid is written.  Whether that fails, on a full disk, is    *)
(* not looked at: 0 is returned and the daemon goes on.                    *)
WritePid(p) ==
  /\ dpc[p] = "write"
  /\ \/ pidFile' = p /\ unwritten' = unwritten \ {p}
     \/ unwritten' = unwritten \cup {p} /\ UNCHANGED pidFile
  /\ PidGoto(p, "running")
  /\ UNCHANGED <<holder, alarm>>

-------------------------------------------------------------------------------
(* already_stoprunning: F_GETLK looks with a struct flock that nobody has  *)
(* filled in, so its answer is anything; close() then gives up every lock  *)
(* the caller has on the file.  Without a file the caller exits.           *)
Check(p) ==
  /\ dpc[p] = "off" \/ (SelfCheck /\ dpc[p] = "running")
  /\ pidFile # "absent"
  /\ \E a \in {"running", "stopped"} : alarm' = [alarm EXCEPT ![p] = a]
  /\ holder' = IF holder = p THEN "nobody" ELSE holder
  /\ UNCHANGED <<pidFile, dpc, unwritten>>

(* The process ends, or dies in the middle of already_running. *)
Exit(p) ==
  /\ dpc[p] # "off"
  /\ holder' = IF holder = p THEN "nobody" ELSE holder
  /\ PidGoto(p, "off")
  /\ alarm' = [alarm EXCEPT ![p] = "none"]
  /\ UNCHANGED <<pidFile, unwritten>>

PidNext ==
  \E p \in Daemons :
    \/ OpenPidFile(p) \/ LockPidFile(p) \/ TruncatePidFile(p) \/ WritePid(p)
    \/ Check(p) \/ Exit(p)

PidSpec == PidInit /\ [][PidNext]_pidvars
-------------------------------------------------------------------------------
(* Properties *)

Started == {"truncate", "write", "running"}

PidTypeOK ==
  /\ pidFile \in Daemons \cup {"absent", "empty"}
  /\ holder \in Daemons \cup {"nobody"}
  /\ dpc \in [Daemons -> {"off", "lock"} \cup Started]
  /\ \A p \in Daemons : dpc[p] # "off" => pidFile # "absent"
  /\ alarm \in [Daemons -> {"none", "running", "stopped"}]
  /\ unwritten \subseteq Daemons

(* At most one process runs as the daemon, however many are started at a   *)
(* time and wherever they die.                                             *)
OneInstance == \A p, q \in Daemons : dpc[p] \in Started /\ dpc[q] \in Started => p = q

(* While a daemon runs, the pid file names it or, if its write failed,     *)
(* nobody: it never names another process, one that ran before or one that *)
(* was started beside it and turned away.                                  *)
PidOfRunning ==
  \A p \in Daemons : dpc[p] = "running" => pidFile = IF p \in unwritten THEN "empty" ELSE p

(* The inductive invariant behind both: who started has the lock.          *)
StartedHoldsLock == \A p \in Daemons : dpc[p] \in Started => holder = p
===============================================================================
