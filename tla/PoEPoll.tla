------------------------------- MODULE PoEPoll -------------------------------
(***************************************************************************)
(* The background poller (poe/PoE.c with saveResult,                       *)
(* get_poe_power_consume_and_line_status and find_pid_by_name of           *)
(* poe/poe_tools.c) and sendSig, the keyboard tool that pauses and resumes *)
(* it with real-time signals.                                              *)
(*                                                                         *)
(* A Power Manager call is one step here that succeeds or fails; SPPLink   *)
(* models what happens inside it.  Of a value only its age is kept: TRUE   *)
(* when it was read in the round under way.                                *)
(***************************************************************************)
EXTENDS Naturals

CONSTANTS
  PortCount,  (* MAX_PORT_NUM                                              *)
  MaxPid,     (* bound: process ids given to incarnations of the poller    *)
  MaxQueue    (* bound: signals queued for the poller at one time          *)

ASSUME PollAssumption == PortCount \in Nat \ {0} /\ MaxPid \in Nat \ {0} /\ MaxQueue \in Nat

VARIABLES
  pid,      (* the poller's process id, 0 when it is not running           *)
  pidsUsed, (* process ids given so far                                    *)
  opened,   (* OpenSerial succeeded, so the semaphore was initialised      *)
  ppc,      (* where the poller is in its loop                             *)
  index,    (* the port the round is at                                    *)
  cnt,      (* reads that succeeded in this round                          *)
  check,    (* G_CheckPoe                                                  *)
  fresh,    (* G_PowerLinkStatus: which of its values are of this round    *)
  resultFile, (* ./PowerLinkStatus                                         *)
  signals,  (* real-time signals queued for the poller, how many of each   *)
  tool,     (* sendSig: where it is in its loop                            *)
  target,   (* sendSig: the process id it looked up when it started        *)
  typed,    (* history: the last key sendSig read, while not acted upon    *)
  saves     (* history: files saved since the last signal was handled      *)

pollVars == <<ppc, index, cnt, fresh>>
toolVars == <<tool, target, typed>>
allPollVars == <<pid, pidsUsed, opened, pollVars, check, resultFile, signals, toolVars, saves>>

Ports  == 0 .. PortCount - 1
(* One total and, per port, the power consumed and the status. *)
Fields == {<<"total", PortCount>>} \cup ({"power", "status"} \X Ports)

Sigs == {"pause", "continue"}
NoSignals == [s \in Sigs |-> 0]
Queued == signals["pause"] + signals["continue"]

InRound == {"total", "power", "status", "save", "write"}

PollInit ==
  /\ pid = 0 /\ pidsUsed = 0 /\ opened = FALSE
  /\ ppc = "off" /\ index = 0 /\ cnt = 0
  /\ check = FALSE
  /\ fresh = [f \in Fields |-> FALSE]
  /\ resultFile = "none"
  /\ signals = NoSignals
  /\ tool = "off" /\ target = 0 /\ typed = "none"
  /\ saves = 0

-------------------------------------------------------------------------------
(* The poller *)

(* main: the globals are zero, so the poller starts paused; a serial port  *)
(* that cannot be opened is not noticed by the loop.                       *)
Start ==
  /\ pid = 0 /\ pidsUsed < MaxPid
  /\ pid' = pidsUsed + 1 /\ pidsUsed' = pidsUsed + 1
  /\ opened' \in BOOLEAN
  /\ ppc' = "delay" /\ index' = 0 /\ cnt' = 0
  /\ check' = FALSE
  /\ fresh' = [f \in Fields |-> FALSE]
  /\ signals' = NoSignals
  /\ saves' = 0
  /\ UNCHANGED <<resultFile, toolVars>>

(* Mutant of Wake: G_CheckPoe is not looked at. *)
WakePaused ==
  /\ ppc = "delay"
  /\ ppc' = "total" /\ cnt' = 0 /\ index' = 0
  /\ fresh' = [f \in Fields |-> FALSE]
  /\ UNCHANGED <<pid, pidsUsed, opened, check, resultFile, signals, toolVars, saves>>

(* Mutant of Wake: a round that was not complete is the last one. *)
WakeAfterSuccess ==
  /\ ppc = "delay"
  /\ check
  /\ cnt \in {0, 2 * PortCount + 1}
  /\ ppc' = "total" /\ cnt' = 0 /\ index' = 0
  /\ fresh' = [f \in Fields |-> FALSE]
  /\ UNCHANGED <<pid, pidsUsed, opened, check, resultFile, signals, toolVars, saves>>

(* Delay(2000) is over, or a signal ended it; G_CheckPoe is looked at. *)
Wake ==
  /\ ppc = "delay"
  /\ check
  /\ ppc' = "total" /\ cnt' = 0 /\ index' = 0
  /\ fresh' = [f \in Fields |-> FALSE]
  /\ UNCHANGED <<pid, pidsUsed, opened, check, resultFile, signals, toolVars, saves>>

(* One Power Manager call of the round.  When OpenSerial failed nobody     *)
(* initialised the semaphore, and SerialLock waits for ever.               *)
Ask(field) ==
  /\ opened
  /\ \/ fresh' = [fresh EXCEPT ![field] = TRUE] /\ cnt' = cnt + 1
     \/ UNCHANGED <<fresh, cnt>>
  /\ UNCHANGED <<pid, pidsUsed, opened, check, resultFile, signals, toolVars, saves>>

AskTotal ==
  /\ ppc = "total"
  /\ Ask(<<"total", PortCount>>)
  /\ ppc' = "power"
  /\ UNCHANGED index

AskPower ==
  /\ ppc = "power"
  /\ Ask(<<"power", index>>)
  /\ ppc' = "status"
  /\ UNCHANGED index

(* Mutant of AskStatus: one port too many. *)
AskStatusBeyond ==
  /\ ppc = "status"
  /\ Ask(<<"status", index>>)
  /\ index' = index + 1
  /\ ppc' = IF index < PortCount THEN "power" ELSE "save"

(* Mutant of AskStatus: a status that cannot be read is asked for again. *)
AskStatusUntilRead ==
  /\ ppc = "status"
  /\ Ask(<<"status", index>>)
  /\ index' = IF cnt' = cnt THEN index ELSE index + 1
  /\ ppc' = IF index' < PortCount THEN "power" ELSE "save"

AskStatus ==
  /\ ppc = "status"
  /\ Ask(<<"status", index>>)
  /\ index' = index + 1
  /\ ppc' = IF index + 1 < PortCount THEN "power" ELSE "save"

(* Mutant of Complete: the total of all ports may be missing. *)
CompleteButOne == cnt >= 2 * PortCount

Complete == cnt = 2 * PortCount + 1

(* Some value of the round is missing: the file stays as it is. *)
SkipSave ==
  /\ ppc = "save"
  /\ ~Complete
  /\ ppc' = "delay"
  /\ UNCHANGED <<pid, pidsUsed, opened, index, cnt, check, fresh, resultFile, signals, toolVars, saves>>

(* saveResult: fopen("w") empties the file, or fails. *)
OpenFile ==
  /\ ppc = "save"
  /\ Complete
  /\ \/ resultFile' = "empty" /\ ppc' = "write"
     \/ ppc' = "delay" /\ UNCHANGED resultFile
  /\ UNCHANGED <<pid, pidsUsed, opened, index, cnt, check, fresh, signals, toolVars, saves>>

(* The table fits in one stdio buffer: fflush writes all of it, or fails. *)
WriteFile ==
  /\ ppc = "write"
  /\ ppc' = "delay"
  /\ \/ /\ resultFile' = IF \A f \in Fields : fresh[f] THEN "fresh" ELSE "stale"
        /\ saves' = IF saves < 2 THEN saves + 1 ELSE 2
     \/ UNCHANGED <<resultFile, saves>>
  /\ UNCHANGED <<pid, pidsUsed, opened, index, cnt, check, fresh, signals, toolVars>>

(* The poller is gone: killed from outside, or by its own echo. *)
PollerGone ==
  /\ pid' = 0 /\ ppc' = "off" /\ signals' = NoSignals /\ check' = FALSE /\ saves' = 0

PollerDies ==
  /\ pid # 0
  /\ PollerGone
  /\ UNCHANGED <<pidsUsed, opened, index, cnt, fresh, resultFile, toolVars>>

(* HandlePauseSig and HandleContinueSig interrupt the loop wherever it is. *)
(* The kernel takes the lower number first, but a handler is interrupted   *)
(* by the other signal before it has begun: any signal queued may be next. *)
(* The echo goes to the process find_pid_by_name found: it reports success *)
(* and process id 0 when sendSig is not running, and kill(0, ...) signals  *)
(* the poller's own process group, which has no handler for the echo.      *)
Handle ==
  /\ pid # 0
  /\ \E s \in Sigs :
       /\ signals[s] > 0
       /\ \/ /\ tool # "off"
             /\ signals' = [signals EXCEPT ![s] = @ - 1]
             /\ saves' = 0
             /\ check' = (s = "continue")
             /\ UNCHANGED <<pid, ppc>>
          \/ /\ tool = "off"
             /\ PollerGone
  /\ UNCHANGED <<pidsUsed, opened, index, cnt, fresh, resultFile, toolVars>>

-------------------------------------------------------------------------------
(* sendSig *)

(* The poller is looked up once, when the tool starts. *)
StartTool ==
  /\ tool = "off"
  /\ tool' = "first" /\ target' = pid /\ typed' = "none"
  /\ UNCHANGED <<pid, pidsUsed, opened, pollVars, check, resultFile, signals, saves>>

StopTool ==
  /\ tool # "off"
  /\ tool' = "off" /\ target' = 0 /\ typed' = "none"
  /\ UNCHANGED <<pid, pidsUsed, opened, pollVars, check, resultFile, signals, saves>>

(* kill(target, s): nothing happens when no such process is left.  Process *)
(* id 0 is sendSig's own group, and sendSig does not handle s.             *)
Kill(s) ==
  \/ /\ target # 0 /\ target = pid
     /\ Queued < MaxQueue
     /\ signals' = [signals EXCEPT ![s] = @ + 1]
     /\ tool' = "first" /\ UNCHANGED target
  \/ /\ target # 0 /\ target # pid
     /\ tool' = "first" /\ UNCHANGED <<target, signals>>
  \/ /\ target = 0
     /\ tool' = "off"
     /\ UNCHANGED <<target, signals>>

(* if(getchar()=='p') ... else if(getchar()=='c') ...: the character that  *)
(* is not 'p' is gone, and it is the next one that is compared with 'c'.   *)
FirstKey ==
  /\ tool = "first"
  /\ \/ /\ Kill("pause") /\ typed' = "none"
     \/ /\ \E key \in {"c", "newline"} : typed' = IF key = "c" THEN "c" ELSE "none"
        /\ tool' = "second"
        /\ UNCHANGED <<target, signals>>
  /\ UNCHANGED <<pid, pidsUsed, opened, pollVars, check, resultFile, saves>>

SecondKey ==
  /\ tool = "second"
  /\ \/ /\ Kill("continue") /\ typed' = "none"
     \/ /\ \E key \in {"p", "newline"} : typed' = IF key = "p" THEN "p" ELSE typed
        /\ tool' = "first"
        /\ UNCHANGED <<target, signals>>
  /\ UNCHANGED <<pid, pidsUsed, opened, pollVars, check, resultFile, saves>>

-------------------------------------------------------------------------------
Poll == Wake \/ AskTotal \/ AskPower \/ AskStatus \/ SkipSave \/ OpenFile \/ WriteFile

PollNext ==
  \/ Poll \/ Start \/ PollerDies \/ Handle
  \/ StartTool \/ StopTool \/ FirstKey \/ SecondKey

PollSpec == PollInit /\ [][PollNext]_allPollVars

(* The poller runs when it can, Delay ends, and Power Manager calls return *)
(* (SPPLink!LineReleased). Nothing is asked of the keyboard or of signals. *)
FairSpec == PollSpec /\ WF_allPollVars(Poll)

-------------------------------------------------------------------------------
(* Properties *)

PollTypeOK ==
  /\ pid \in 0 .. MaxPid /\ pidsUsed \in 0 .. MaxPid
  /\ opened \in BOOLEAN /\ check \in BOOLEAN
  /\ ppc \in {"off", "delay"} \cup InRound
  /\ index \in 0 .. PortCount
  /\ cnt \in 0 .. 2 * PortCount + 1
  /\ fresh \in [Fields -> BOOLEAN]
  /\ resultFile \in {"none", "empty", "fresh", "stale"}
  /\ signals \in [Sigs -> 0 .. MaxQueue] /\ Queued <= MaxQueue
  /\ tool \in {"off", "first", "second"}
  /\ target \in 0 .. MaxPid
  /\ typed \in {"none", "p", "c"}
  /\ saves \in 0 .. 2

(* The status file never mixes values of different rounds: a value that    *)
(* could not be read in a round keeps the round out of the file.           *)
SavedFromOneRound == resultFile # "stale"

(* After the poller has handled a pause, the round it was in may still     *)
(* reach the file, and no other.                                           *)
OneSaveAfterPause == ~check => saves <= 1

(* A paused poller whose port is open leaves the serial line. *)
PauseFreesLine ==
  (~check /\ opened /\ ppc \in InRound) ~> (ppc \notin InRound)

(* A poller told to continue polls, until it is paused or gone. *)
ContinuePolls == (check /\ ppc = "delay") ~> (ppc = "total" \/ ~check \/ pid = 0)
===============================================================================
