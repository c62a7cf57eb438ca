------------------------------ MODULE StatusFile ------------------------------
(***************************************************************************)
(* The PoE status file: set_poe_status and get_poe_status_from_file of     *)
(* poe/poe_tools.c, called by several processes, under POSIX record locks  *)
(* that belong to a process and are tried once (F_SETLK).                  *)
(*                                                                         *)
(* get_alarm_status_from_file is the same reader of another file.          *)
(***************************************************************************)
CONSTANTS
  Processes, (* the processes that use the file, one call at a time each   *)
  Values     (* the statuses                                               *)

ASSUME StatusAssumption ==
  Values \cap {"absent", "empty", "torn", "none"} = {}

VARIABLES
  file,   (* what is in the file                                           *)
  lock,   (* the lock every process has on it                              *)
  pc,     (* where every process is in its call                            *)
  val,    (* what it sets                                                  *)
  total,  (* what the file held when its length was taken                  *)
  before, (* history: what the file held when the writer got its lock      *)
  got     (* what the last get of every process returned                   *)

vars == <<file, lock, pc, val, total, before, got>>

Init ==
  /\ file = "absent"
  /\ lock = [p \in Processes |-> "none"]
  /\ pc = [p \in Processes |-> "idle"]
  /\ val = [p \in Processes |-> "none"]
  /\ total = [p \in Processes |-> "none"]
  /\ before = [p \in Processes |-> "none"]
  /\ got = [p \in Processes |-> "none"]

Goto(p, l) == pc' = [pc EXCEPT ![p] = l]

(* The call is over, and what was on its stack is gone. *)
Return(p) ==
  /\ Goto(p, "idle")
  /\ val' = [val EXCEPT ![p] = "none"]
  /\ total' = [total EXCEPT ![p] = "none"]
  /\ before' = [before EXCEPT ![p] = "none"]

(* Mutant of MayRead: a lock that is not granted is not noticed. *)
MayAlways(p) == TRUE

(* Mutant of MayWrite: the writer asks for a read lock only. *)
MayShare(p) == \A q \in Processes \ {p} : lock[q] # "write"

(* fcntl(fd, F_SETLK, ...): granted unless another process is in the way. *)
MayWrite(p) == \A q \in Processes \ {p} : lock[q] = "none"
MayRead(p)  == \A q \in Processes \ {p} : lock[q] # "write"

TakeLock(p, kind) == lock' = [lock EXCEPT ![p] = kind]

-------------------------------------------------------------------------------
(* set_poe_status *)

(* open(..., O_CREAT) makes the file, outside of the lock. *)
OpenToSet(p) ==
  /\ pc[p] = "idle"
  /\ \E v \in Values : val' = [val EXCEPT ![p] = v]
  /\ file' = IF file = "absent" THEN "empty" ELSE file
  /\ Goto(p, "wlock")
  /\ UNCHANGED <<lock, total, before, got>>

LockToSet(p) ==
  /\ pc[p] = "wlock"
  /\ \/ /\ MayWrite(p)
        /\ TakeLock(p, "write")
        /\ before' = [before EXCEPT ![p] = file]
        /\ Goto(p, "truncate")
        /\ UNCHANGED <<val, total>>
     \/ /\ ~MayWrite(p)
        /\ Return(p)
        /\ UNCHANGED lock
  /\ UNCHANGED <<file, got>>

Truncate(p) ==
  /\ pc[p] = "truncate"
  /\ file' = "empty"
  /\ Goto(p, "write")
  /\ UNCHANGED <<lock, val, total, before, got>>

(* The result of write() is not looked at. *)
WriteStatus(p) ==
  /\ pc[p] = "write"
  /\ \/ file' = val[p]
     \/ UNCHANGED file
  /\ Goto(p, "wunlock")
  /\ UNCHANGED <<lock, val, total, before, got>>

UnlockSet(p) ==
  /\ pc[p] = "wunlock"
  /\ TakeLock(p, "none")
  /\ Return(p)
  /\ UNCHANGED <<file, got>>

-------------------------------------------------------------------------------
(* get_poe_status_from_file *)

OpenToGet(p) ==
  /\ pc[p] = "idle"
  /\ \/ file = "absent" /\ got' = [got EXCEPT ![p] = "none"] /\ UNCHANGED pc
     \/ file # "absent" /\ Goto(p, "rlock") /\ UNCHANGED got
  /\ UNCHANGED <<file, lock, val, total, before>>

LockToGet(p) ==
  /\ pc[p] = "rlock"
  /\ \/ /\ MayRead(p)
        /\ TakeLock(p, "read")
        /\ Goto(p, "measure")
        /\ UNCHANGED <<val, total, before, got>>
     \/ /\ ~MayRead(p)
        /\ got' = [got EXCEPT ![p] = "none"]
        /\ Return(p)
        /\ UNCHANGED lock
  /\ UNCHANGED file

(* lseek(SEEK_END); malloc may fail, and then the file is unlocked. *)
Measure(p) ==
  /\ pc[p] = "measure"
  /\ \/ /\ total' = [total EXCEPT ![p] = file]
        /\ Goto(p, "read")
        /\ UNCHANGED <<lock, val, before, got>>
     \/ /\ TakeLock(p, "none")
        /\ got' = [got EXCEPT ![p] = "none"]
        /\ Return(p)
  /\ UNCHANGED file

(* Mutant of ReadStatus: the file is unlocked before it is read. *)
ReadUnlocked(p) ==
  \/ /\ pc[p] = "read"
     /\ TakeLock(p, "none")
     /\ Goto(p, "runlock")
     /\ UNCHANGED <<file, val, total, before, got>>
  \/ /\ pc[p] = "runlock"
     /\ got' = [got EXCEPT ![p] = IF file = total[p] THEN file ELSE "torn"]
     /\ Return(p)
     /\ UNCHANGED <<file, lock>>

(* As many bytes as were measured are read; those that are no longer there *)
(* stay what malloc left.                                                  *)
ReadStatus(p) ==
  /\ pc[p] = "read"
  /\ \/ got' = [got EXCEPT ![p] = IF file = total[p] THEN file ELSE "torn"]
     \/ got' = [got EXCEPT ![p] = "none"]
  /\ TakeLock(p, "none")
  /\ Return(p)
  /\ UNCHANGED file

-------------------------------------------------------------------------------
(* A process dies: its locks go with it. *)
Crash(p) ==
  /\ pc[p] # "idle"
  /\ TakeLock(p, "none")
  /\ Return(p)
  /\ UNCHANGED <<file, got>>

Next ==
  \E p \in Processes :
    \/ OpenToSet(p) \/ LockToSet(p) \/ Truncate(p) \/ WriteStatus(p) \/ UnlockSet(p)
    \/ OpenToGet(p) \/ LockToGet(p) \/ Measure(p) \/ ReadStatus(p)
    \/ Crash(p)

Spec == Init /\ [][Next]_vars

-------------------------------------------------------------------------------
(* Properties *)

Writing == {"truncate", "write", "wunlock"}

TypeOK ==
  /\ file \in Values \cup {"absent", "empty"}
  /\ lock \in [Processes -> {"none", "read", "write"}]
  /\ pc \in [Processes -> {"idle", "wlock", "rlock", "measure", "read"} \cup Writing]
  /\ val \in [Processes -> Values \cup {"none"}]
  /\ \A p \in Processes : pc[p] # "idle" => file # "absent"
  /\ \A p \in Processes : pc[p] \in {"wlock", "truncate", "write"} => val[p] \in Values
  /\ total \in [Processes -> Values \cup {"none", "empty"}]
  /\ before \in [Processes -> Values \cup {"none", "empty"}]
  /\ got \in [Processes -> Values \cup {"none", "empty", "torn"}]

(* Whoever changes the file is alone with it: no reader has measured it,   *)
(* and no other writer has emptied it.                                     *)
WriterAlone ==
  \A p, q \in Processes :
    p # q /\ pc[p] \in Writing => pc[q] \notin Writing \cup {"measure", "read"}

(* No reader returns a mix of two statuses or bytes nobody wrote.          *)
NeverTorn == \A p \in Processes : got[p] # "torn"

(* The inductive invariant behind WriterAlone and NeverTorn: the lock a    *)
(* process has follows from where it is, locks exclude each other, and     *)
(* what a reader measured is still there.                                  *)
LocksHeld ==
  \A p \in Processes :
    lock[p] = IF pc[p] \in Writing THEN "write"
              ELSE IF pc[p] \in {"measure", "read"} THEN "read" ELSE "none"

LocksExclude ==
  \A p, q \in Processes : p # q /\ lock[p] = "write" => lock[q] = "none"

MeasureHolds == \A p \in Processes : pc[p] = "read" => total[p] = file

FileInv == LocksHeld /\ LocksExclude /\ MeasureHolds /\ NeverTorn

(* Readers and writers see one register that changes at one moment; until  *)
(* a writer is done, or dead, the register has not changed.                *)
Register == INSTANCE StatusRegister WITH
  status <- IF \E p \in Processes : pc[p] \in {"write", "wunlock"}
            THEN before[CHOOSE p \in Processes : pc[p] \in {"write", "wunlock"}]
            ELSE file

ImplementsRegister == Register!Spec
===============================================================================
