------------------------------ MODULE PoEProofs --------------------------------
(***************************************************************************)
(* Proofs about the poller of poe/PoE.c, for any number of ports, of       *)
(* incarnations and of queued signals, and about the two files of          *)
(* poe/poe_tools.c that processes share: the status file, for any          *)
(* processes and statuses, and the pid file, for any number of processes.  *)
(***************************************************************************)
EXTENDS PoEPoll, StatusFile, PidFile, TLAPS

-------------------------------------------------------------------------------
(* The poller *)

(* The reads of a round are done in a fixed order: Order(f) come before    *)
(* the one of field f, and Done are behind the loop where it stands.       *)
Order(f) == CASE f[1] = "total" -> 0
              [] f[1] = "power" -> 1 + 2 * f[2]
              [] f[1] = "status" -> 2 + 2 * f[2]

Done == CASE ppc = "total" -> 0
          [] ppc = "power" -> 1 + 2 * index
          [] ppc = "status" -> 2 + 2 * index
          [] OTHER -> 2 * PortCount + 1

(* The loop over the ports does not leave them.                            *)
IndexInLoop ==
  /\ ppc = "total" => index = 0
  /\ ppc \in {"power", "status"} => index \in Ports

(* Nothing is counted that was not read, and when all reads so far were    *)
(* counted all their values are of this round.                             *)
CountedIsFresh ==
  /\ ppc \in InRound => cnt <= Done
  /\ ppc \in InRound /\ cnt = Done => \A f \in Fields : Order(f) < Done => fresh[f]
  /\ ppc = "write" => Complete

(* The round that was under way when the poller was paused is the only one *)
(* that can still be saved.                                                *)
RoundBeforePause ==
  /\ ~check => saves <= 1
  /\ ~check /\ ppc \in InRound => saves = 0

PollInv == IndexInLoop /\ CountedIsFresh /\ SavedFromOneRound

-------------------------------------------------------------------------------
(* In a round where everything was counted every field is fresh.           *)
LEMMA CompleteIsFresh ==
  ASSUME PollTypeOK, PollInv, ppc \in {"save", "write"}, Complete
  PROVE  \A f \in Fields : fresh[f]
<1> SUFFICES ASSUME NEW f \in Fields PROVE fresh[f]
  OBVIOUS
<1>1. Done = 2 * PortCount + 1 /\ cnt = Done
  BY DEF Done, Complete
<1>2. Order(f) < 2 * PortCount + 1
  <2>1. CASE f = <<"total", PortCount>>
    BY <2>1, PollAssumption DEF Order
  <2>2. CASE f \in {"power", "status"} \X Ports
    <3>1. PICK kind \in {"power", "status"}, port \in Ports : f = <<kind, port>>
      BY <2>2
    <3> QED
      BY <3>1, PollAssumption DEF Order, Ports
  <2> QED
    BY <2>1, <2>2 DEF Fields
<1> QED
  BY <1>1, <1>2 DEF PollInv, CountedIsFresh, InRound

(* One read: it takes the loop from one place to the next, and the field   *)
(* that is read is the one whose turn it is.                               *)
LEMMA AskKeepsCount ==
  ASSUME PollTypeOK, PollInv, ppc \in {"total", "power", "status"},
         NEW field \in Fields, Order(field) = Done,
         \A f \in Fields : Order(f) < Done' => Order(f) < Done \/ f = field,
         Ask(field), Done' = Done + 1, Done \in 0 .. 2 * PortCount,
         ppc' \in {"power", "status", "save"}
  PROVE  CountedIsFresh' /\ cnt' \in 0 .. 2 * PortCount + 1
           /\ fresh' \in [Fields -> BOOLEAN]
<1> USE PollAssumption
<1>1. cnt \in Nat /\ cnt <= Done
  BY DEF PollTypeOK, PollInv, CountedIsFresh, InRound
<1>2. ppc' # "write"
  OBVIOUS
<1>3. CASE fresh' = [fresh EXCEPT ![field] = TRUE] /\ cnt' = cnt + 1
  <2>1. cnt' <= Done' /\ cnt' \in 0 .. 2 * PortCount + 1
    BY <1>1, <1>3
  <2>2. fresh' \in [Fields -> BOOLEAN]
    BY <1>3 DEF PollTypeOK
  <2>3. ASSUME cnt' = Done', NEW f \in Fields, Order(f) < Done' PROVE fresh'[f]
    <3>1. cnt = Done
      BY <1>1, <1>3, <2>3
    <3>2. CASE f = field
      BY <1>3, <3>2 DEF PollTypeOK
    <3>3. CASE f # field
      <4>1. Order(f) < Done
        BY <2>3, <3>3
      <4>2. fresh[f]
        BY <3>1, <4>1 DEF PollInv, CountedIsFresh, InRound
      <4> QED
        BY <1>3, <3>3, <4>2 DEF PollTypeOK
    <3> QED
      BY <3>2, <3>3
  <2>4. (\A f \in Fields : Order(f) < Done => fresh[f])'
          \/ cnt' # Done'
    BY <2>3 DEF Order
  <2> QED
    BY <1>2, <2>1, <2>2, <2>4 DEF CountedIsFresh
<1>4. CASE UNCHANGED <<fresh, cnt>>
  BY <1>1, <1>2, <1>4 DEF CountedIsFresh, PollTypeOK
<1> QED
  BY <1>3, <1>4 DEF Ask

-------------------------------------------------------------------------------
(* The fields are read in their order.                                     *)
LEMMA TurnOfTotal ==
  ASSUME ppc = "total", ppc' = "power", index = 0, index' = 0
  PROVE  /\ Done = 0 /\ Done' = 1
         /\ <<"total", PortCount>> \in Fields /\ Order(<<"total", PortCount>>) = 0
         /\ \A f \in Fields : Order(f) < 1 => f = <<"total", PortCount>>
<1>1. Done = 0 /\ Done' = 1
  BY DEF Done
<1>2. <<"total", PortCount>> \in Fields /\ Order(<<"total", PortCount>>) = 0
  BY DEF Fields, Order
<1>3. ASSUME NEW f \in Fields, f # <<"total", PortCount>> PROVE ~(Order(f) < 1)
  <2>1. PICK kind \in {"power", "status"}, port \in Ports : f = <<kind, port>>
    BY <1>3 DEF Fields
  <2> QED
    BY <2>1, PollAssumption DEF Order, Ports
<1> QED
  BY <1>1, <1>2, <1>3

LEMMA TurnOfPort ==
  ASSUME NEW kind \in {"power", "status"}, NEW port \in Ports, NEW n \in Nat,
         n = IF kind = "power" THEN 1 + 2 * port ELSE 2 + 2 * port
  PROVE  /\ <<kind, port>> \in Fields /\ Order(<<kind, port>>) = n
         /\ n \in 0 .. 2 * PortCount
         /\ \A f \in Fields : Order(f) < n + 1 => Order(f) < n \/ f = <<kind, port>>
<1> USE PollAssumption
<1>1. <<kind, port>> \in Fields /\ Order(<<kind, port>>) = n /\ n \in 0 .. 2 * PortCount
  BY DEF Fields, Order, Ports
<1>2. ASSUME NEW f \in Fields, Order(f) < n + 1, ~(Order(f) < n) PROVE f = <<kind, port>>
  <2>1. CASE f = <<"total", PortCount>>
    BY <1>2, <2>1 DEF Order, Ports
  <2>2. CASE f \in {"power", "status"} \X Ports
    <3>1. PICK k \in {"power", "status"}, p \in Ports : f = <<k, p>>
      BY <2>2
    <3>2. Order(f) = IF k = "power" THEN 1 + 2 * p ELSE 2 + 2 * p
      BY <3>1 DEF Order
    <3>3. k = kind /\ p = port
      BY <1>2, <3>2 DEF Ports
    <3> QED
      BY <3>1, <3>3
  <2> QED
    BY <2>1, <2>2 DEF Fields
<1> QED
  BY <1>1, <1>2

-------------------------------------------------------------------------------
(* Values keep their types, nothing is counted that was not read, and the  *)
(* file is of one round.                                                   *)
THEOREM PollTypeCorrect == PollSpec => [](PollTypeOK /\ PollInv)
<1> DEFINE Inv == PollTypeOK /\ PollInv
<1> USE PollAssumption DEF Queued
<1>0. ASSUME NEW q, q = NoSignals
      PROVE  q \in [Sigs -> 0 .. MaxQueue] /\ q["pause"] + q["continue"] <= MaxQueue
  BY <1>0 DEF NoSignals, Sigs
<1>1. PollInit => Inv
  <2> SUFFICES ASSUME PollInit PROVE Inv
    OBVIOUS
  <2>0. signals \in [Sigs -> 0 .. MaxQueue] /\ Queued <= MaxQueue
    BY <1>0 DEF PollInit
  <2>1. PollTypeOK
    <3>1. opened \in BOOLEAN /\ check \in BOOLEAN
      BY Zenon DEF PollInit
    <3>2. pid \in 0 .. MaxPid /\ pidsUsed \in 0 .. MaxPid /\ target \in 0 .. MaxPid
      BY DEF PollInit
    <3>3. ppc \in {"off", "delay"} \cup InRound
      BY DEF PollInit
    <3>4. index \in 0 .. PortCount /\ cnt \in 0 .. 2 * PortCount + 1 /\ saves \in 0 .. 2
      BY DEF PollInit
    <3>5. fresh \in [Fields -> BOOLEAN]
      BY DEF PollInit
    <3>6. resultFile \in {"none", "empty", "fresh", "stale"} /\ tool \in {"off", "first", "second"} /\ typed \in {"none", "p", "c"}
      BY DEF PollInit
    <3> QED
      BY <2>0, <3>1, <3>2, <3>3, <3>4, <3>5, <3>6 DEF PollTypeOK
  <2>2. PollInv
    BY DEF PollInit, PollInv, IndexInLoop, CountedIsFresh, SavedFromOneRound, InRound
  <2> QED
    BY <2>1, <2>2
<1>2. Inv /\ [PollNext]_allPollVars => Inv'
  <2> SUFFICES ASSUME Inv, [PollNext]_allPollVars PROVE Inv'
    OBVIOUS
  <2> USE DEF pollVars, toolVars
  (* What a step leaves alone that leaves the round alone. *)
  <2>0. ASSUME UNCHANGED <<ppc, index, cnt, fresh, resultFile>> PROVE PollInv'
    BY <2>0 DEF PollInv, IndexInLoop, CountedIsFresh, SavedFromOneRound, Complete, Done, Order
  (* Outside a round nothing is said of it. *)
  <2>out. ASSUME ppc' \in {"off", "delay"}, UNCHANGED resultFile PROVE PollInv'
    BY <2>out DEF PollInv, IndexInLoop, CountedIsFresh, SavedFromOneRound, InRound
  <2>1. CASE Wake
    <3>1. PollTypeOK'
      BY <2>1 DEF Wake, PollTypeOK, InRound
    <3>2. Done' = 0 /\ cnt' = 0 /\ ppc' = "total"
      BY <2>1 DEF Wake, Done
    <3>3. ASSUME NEW f \in Fields PROVE ~(Order(f) < Done')
      <4>1. CASE f = <<"total", PortCount>>
        BY <3>2, <4>1 DEF Order
      <4>2. CASE f \in {"power", "status"} \X Ports
        <5>1. PICK kind \in {"power", "status"}, port \in Ports : f = <<kind, port>>
          BY <4>2
        <5> QED
          BY <3>2, <5>1 DEF Order, Ports
      <4> QED
        BY <4>1, <4>2 DEF Fields
    <3>4. CountedIsFresh'
      BY <3>2, <3>3 DEF CountedIsFresh
    <3> QED
      BY <2>1, <3>1, <3>4 DEF Wake, PollInv, IndexInLoop, SavedFromOneRound
  <2>2. CASE AskTotal
    <3>1. ppc = "total" /\ ppc' = "power" /\ index = 0 /\ index' = 0
      BY <2>2 DEF AskTotal, PollInv, IndexInLoop
    <3>2. CountedIsFresh' /\ cnt' \in 0 .. 2 * PortCount + 1 /\ fresh' \in [Fields -> BOOLEAN]
      BY <2>2, <3>1, TurnOfTotal, AskKeepsCount DEF AskTotal
    <3> QED
      BY <2>2, <3>1, <3>2 DEF AskTotal, Ask, PollTypeOK, PollInv, IndexInLoop, SavedFromOneRound,
                              InRound, Ports
  <2>3. CASE AskPower
    <3>1. ppc = "power" /\ ppc' = "status" /\ index \in Ports /\ index' = index
      BY <2>3 DEF AskPower, PollInv, IndexInLoop
    <3>2. Done = 1 + 2 * index /\ Done' = Done + 1 /\ Done \in Nat
      BY <3>1 DEF Done, Ports
    <3>3. CountedIsFresh' /\ cnt' \in 0 .. 2 * PortCount + 1 /\ fresh' \in [Fields -> BOOLEAN]
      BY <2>3, <3>1, <3>2, TurnOfPort, AskKeepsCount DEF AskPower
    <3> QED
      BY <2>3, <3>1, <3>3 DEF AskPower, Ask, PollTypeOK, PollInv, IndexInLoop, SavedFromOneRound,
                              InRound, Ports
  <2>4. CASE AskStatus
    <3>1. ppc = "status" /\ index \in Ports /\ index' = index + 1
            /\ ppc' = IF index + 1 < PortCount THEN "power" ELSE "save"
      BY <2>4 DEF AskStatus, PollInv, IndexInLoop
    <3>2. Done = 2 + 2 * index /\ Done' = Done + 1 /\ Done \in Nat
      BY <3>1 DEF Done, Ports
    <3>3. CountedIsFresh' /\ cnt' \in 0 .. 2 * PortCount + 1 /\ fresh' \in [Fields -> BOOLEAN]
      BY <2>4, <3>1, <3>2, TurnOfPort, AskKeepsCount DEF AskStatus
    <3> QED
      BY <2>4, <3>1, <3>3 DEF AskStatus, Ask, PollTypeOK, PollInv, IndexInLoop, SavedFromOneRound,
                              InRound, Ports
  <2>5. CASE SkipSave
    BY <2>5, <2>out DEF SkipSave, PollTypeOK
  <2>6. CASE OpenFile
    <3>1. PollTypeOK'
      BY <2>6 DEF OpenFile, PollTypeOK, InRound
    <3>2. CASE ppc' = "delay" /\ UNCHANGED resultFile
      BY <3>1, <3>2, <2>out
    <3>3. CASE resultFile' = "empty" /\ ppc' = "write"
      <4>1. CountedIsFresh'
        BY <2>6, <3>3 DEF OpenFile, PollInv, CountedIsFresh, Complete, Done, Order, InRound
      <4> QED
        BY <3>1, <3>3, <4>1 DEF PollInv, IndexInLoop, SavedFromOneRound
    <3> QED
      BY <2>6, <3>2, <3>3 DEF OpenFile
  <2>7. CASE WriteFile
    <3>1. \A f \in Fields : fresh[f]
      BY <2>7, CompleteIsFresh DEF WriteFile, PollInv, CountedIsFresh
    <3>2. resultFile' \in {resultFile, "fresh"} /\ ppc' = "delay"
      BY <2>7, <3>1 DEF WriteFile
    <3> QED
      BY <2>7, <3>2 DEF WriteFile, PollTypeOK, PollInv, IndexInLoop, CountedIsFresh,
                        SavedFromOneRound, InRound
  <2>8. CASE Start
    <3>1. ppc' \in {"off", "delay"} /\ UNCHANGED resultFile
      BY <2>8 DEF Start
    <3>2. signals' \in [Sigs -> 0 .. MaxQueue] /\ Queued' <= MaxQueue
      BY <1>0, <2>8 DEF Start
    <3>3. check' \in BOOLEAN /\ opened' \in BOOLEAN
      BY <2>8, Zenon DEF Start, PollTypeOK
    <3>4. ppc' \in {"off", "delay"} \cup InRound /\ pid' \in 0 .. MaxPid /\ saves' \in 0 .. 2
      BY <2>8 DEF Start, PollTypeOK
    <3>5. PollTypeOK'
      BY <3>2, <3>3, <3>4, <2>8 DEF Start, PollTypeOK
    <3> QED
      BY <3>1, <3>5, <2>out
  <2>9. CASE PollerDies
    <3>1. ppc' \in {"off", "delay"} /\ UNCHANGED resultFile
      BY <2>9 DEF PollerDies, PollerGone
    <3>2. signals' \in [Sigs -> 0 .. MaxQueue] /\ Queued' <= MaxQueue
      BY <1>0, <2>9 DEF PollerDies, PollerGone
    <3>3. check' \in BOOLEAN /\ opened' \in BOOLEAN
      BY <2>9, Zenon DEF PollerDies, PollerGone, PollTypeOK
    <3>4. ppc' \in {"off", "delay"} \cup InRound /\ pid' \in 0 .. MaxPid /\ saves' \in 0 .. 2
      BY <2>9 DEF PollerDies, PollerGone, PollTypeOK
    <3>5. PollTypeOK'
      BY <3>2, <3>3, <3>4, <2>9 DEF PollerDies, PollerGone, PollTypeOK
    <3> QED
      BY <3>1, <3>5, <2>out
  <2>10. CASE Handle
    <3>0. PICK s \in Sigs :
            /\ signals[s] > 0
            /\ \/ signals' = [signals EXCEPT ![s] = @ - 1] /\ check' = (s = "continue")
               \/ PollerGone
      BY <2>10 DEF Handle
    <3>1. signals' \in [Sigs -> 0 .. MaxQueue] /\ Queued' <= MaxQueue
      <4>1. CASE signals' = [signals EXCEPT ![s] = @ - 1]
        BY <3>0, <4>1 DEF PollTypeOK, Sigs
      <4>2. CASE PollerGone
        BY <1>0, <4>2 DEF PollerGone
      <4> QED
        BY <3>0, <4>1, <4>2
    <3>a. check' \in BOOLEAN
      <4>1. CASE check' = (s = "continue")
        BY <4>1, Zenon
      <4>2. CASE check' = FALSE
        BY <4>2, Zenon
      <4> QED
        BY <3>0, <4>1, <4>2, Zenon DEF PollerGone
    <3>b. ppc' \in {"off", "delay"} \cup InRound /\ pid' \in 0 .. MaxPid /\ saves' \in 0 .. 2
      BY <2>10 DEF Handle, PollerGone, PollTypeOK
    <3>2. PollTypeOK'
      BY <2>10, <3>1, <3>a, <3>b DEF Handle, PollTypeOK
    <3>3. CASE UNCHANGED ppc
      BY <2>10, <3>2, <3>3, <2>0 DEF Handle
    <3>4. CASE PollerGone
      BY <2>10, <3>2, <3>4, <2>out DEF Handle, PollerGone
    <3> QED
      BY <2>10, <3>3, <3>4 DEF Handle
  <2>11. CASE StartTool \/ StopTool
    <3>1. PollTypeOK' /\ UNCHANGED <<ppc, index, cnt, fresh, resultFile>>
      BY <2>11 DEF StartTool, StopTool, PollTypeOK
    <3> QED
      BY <3>1, <2>0
  <2>12. CASE FirstKey \/ SecondKey
    <3>1. signals' \in [Sigs -> 0 .. MaxQueue] /\ Queued' <= MaxQueue
      <4>1. ASSUME NEW s \in Sigs, Kill(s)
            PROVE  signals' \in [Sigs -> 0 .. MaxQueue] /\ Queued' <= MaxQueue
        <5>1. CASE UNCHANGED signals
          BY <5>1 DEF PollTypeOK
        <5>2. CASE Queued < MaxQueue /\ signals' = [signals EXCEPT ![s] = @ + 1]
          BY <5>2 DEF PollTypeOK, Sigs
        <5> QED
          BY <4>1, <5>1, <5>2 DEF Kill
      <4>2. CASE UNCHANGED signals
        BY <4>2 DEF PollTypeOK
      <4>3. UNCHANGED signals \/ Kill("pause") \/ Kill("continue")
        BY <2>12 DEF FirstKey, SecondKey
      <4> QED
        BY <4>1, <4>2, <4>3 DEF Sigs
    <3>2. PollTypeOK' /\ UNCHANGED <<ppc, index, cnt, fresh, resultFile>>
      BY <2>12, <3>1 DEF FirstKey, SecondKey, Kill, PollTypeOK
    <3> QED
      BY <3>2, <2>0
  <2>13. CASE UNCHANGED allPollVars
    BY <2>13, <2>0 DEF allPollVars, PollTypeOK
  <2> QED
    BY <2>1, <2>2, <2>3, <2>4, <2>5, <2>6, <2>7, <2>8, <2>9, <2>10, <2>11, <2>12, <2>13
       DEF PollNext, Poll
<1> QED
  BY <1>1, <1>2, PTL DEF PollSpec

(* The result file never mixes rounds, however many reads fail.            *)
THEOREM SavedFromOneRoundCorrect == PollSpec => []SavedFromOneRound
<1>1. PollInv => SavedFromOneRound
  BY DEF PollInv
<1> QED
  BY <1>1, PollTypeCorrect, PTL

(* A pause lets the round under way reach the file, and no other.          *)
THEOREM OneSaveAfterPauseCorrect == PollSpec => []OneSaveAfterPause
<1>1. PollInit => RoundBeforePause
  BY DEF PollInit, RoundBeforePause
<1>2. PollTypeOK /\ RoundBeforePause /\ [PollNext]_allPollVars => RoundBeforePause'
  <2> SUFFICES ASSUME PollTypeOK, RoundBeforePause, [PollNext]_allPollVars PROVE RoundBeforePause'
    OBVIOUS
  <2> USE DEF RoundBeforePause, InRound, pollVars, toolVars
  <2>1. CASE Wake
    BY <2>1 DEF Wake
  <2>2. CASE AskTotal \/ AskPower \/ AskStatus
    BY <2>2 DEF AskTotal, AskPower, AskStatus, Ask
  <2>3. CASE SkipSave \/ OpenFile
    BY <2>3 DEF SkipSave, OpenFile
  <2>4. CASE WriteFile
    BY <2>4 DEF WriteFile, PollTypeOK
  <2>5. CASE Start \/ PollerDies \/ Handle
    BY <2>5 DEF Start, PollerDies, Handle, PollerGone
  <2>6. CASE StartTool \/ StopTool \/ FirstKey \/ SecondKey
    BY <2>6 DEF StartTool, StopTool, FirstKey, SecondKey, Kill
  <2>7. CASE UNCHANGED allPollVars
    BY <2>7 DEF allPollVars
  <2> QED
    BY <2>1, <2>2, <2>3, <2>4, <2>5, <2>6, <2>7 DEF PollNext, Poll
<1>3. RoundBeforePause => OneSaveAfterPause
  BY DEF RoundBeforePause, OneSaveAfterPause
<1> QED
  BY <1>1, <1>2, <1>3, PollTypeCorrect, PTL DEF PollSpec

-------------------------------------------------------------------------------
(* The status file *)

(* Type correctness, wherever processes die.                               *)
THEOREM StatusTypeCorrect == Spec => []TypeOK
<1> USE StatusAssumption DEF Writing
<1>1. Init => TypeOK
  BY DEF Init, TypeOK
<1>2. TypeOK /\ [Next]_vars => TypeOK'
  <2> SUFFICES ASSUME TypeOK, [Next]_vars PROVE TypeOK'
    OBVIOUS
  <2> USE DEF TypeOK, Goto, Return, TakeLock
  <2>1. ASSUME NEW p \in Processes, OpenToSet(p) PROVE TypeOK'
    BY <2>1 DEF OpenToSet
  <2>2. ASSUME NEW p \in Processes, LockToSet(p) PROVE TypeOK'
    BY <2>2 DEF LockToSet
  <2>3. ASSUME NEW p \in Processes, Truncate(p) PROVE TypeOK'
    BY <2>3 DEF Truncate
  <2>4. ASSUME NEW p \in Processes, WriteStatus(p) PROVE TypeOK'
    BY <2>4 DEF WriteStatus
  <2>5. ASSUME NEW p \in Processes, UnlockSet(p) PROVE TypeOK'
    BY <2>5 DEF UnlockSet
  <2>6. ASSUME NEW p \in Processes, OpenToGet(p) PROVE TypeOK'
    BY <2>6 DEF OpenToGet
  <2>7. ASSUME NEW p \in Processes, LockToGet(p) PROVE TypeOK'
    BY <2>7 DEF LockToGet
  <2>8. ASSUME NEW p \in Processes, Measure(p) PROVE TypeOK'
    BY <2>8 DEF Measure
  <2>9. ASSUME NEW p \in Processes, ReadStatus(p) PROVE TypeOK'
    BY <2>9 DEF ReadStatus
  <2>10. ASSUME NEW p \in Processes, Crash(p) PROVE TypeOK'
    BY <2>10 DEF Crash
  <2>11. CASE UNCHANGED vars
    BY <2>11 DEF vars
  <2> QED
    BY <2>1, <2>2, <2>3, <2>4, <2>5, <2>6, <2>7, <2>8, <2>9, <2>10, <2>11 DEF Next
<1> QED
  BY <1>1, <1>2, PTL DEF Spec

(* The locks keep writers and readers apart, so that what a reader measured *)
(* is what it reads, wherever processes die.                               *)
THEOREM FileInvCorrect == Spec => []FileInv
<1> USE StatusAssumption DEF Writing
<1>1. Init => FileInv
  BY DEF Init, FileInv, LocksHeld, LocksExclude, MeasureHolds, NeverTorn
<1>2. TypeOK /\ FileInv /\ [Next]_vars => FileInv'
  <2> SUFFICES ASSUME TypeOK, FileInv, [Next]_vars PROVE FileInv'
    OBVIOUS
  <2> USE DEF TypeOK, FileInv, LocksHeld, LocksExclude, MeasureHolds, NeverTorn,
              Goto, Return, TakeLock
  <2>1. ASSUME NEW p \in Processes, OpenToSet(p) PROVE FileInv'
    BY <2>1 DEF OpenToSet
  <2>2. ASSUME NEW p \in Processes, LockToSet(p) PROVE FileInv'
    BY <2>2 DEF LockToSet, MayWrite
  <2>3. ASSUME NEW p \in Processes, Truncate(p) PROVE FileInv'
    BY <2>3 DEF Truncate
  <2>4. ASSUME NEW p \in Processes, WriteStatus(p) PROVE FileInv'
    BY <2>4 DEF WriteStatus
  <2>5. ASSUME NEW p \in Processes, UnlockSet(p) PROVE FileInv'
    BY <2>5 DEF UnlockSet
  <2>6. ASSUME NEW p \in Processes, OpenToGet(p) PROVE FileInv'
    BY <2>6 DEF OpenToGet
  <2>7. ASSUME NEW p \in Processes, LockToGet(p) PROVE FileInv'
    BY <2>7 DEF LockToGet, MayRead
  <2>8. ASSUME NEW p \in Processes, Measure(p) PROVE FileInv'
    BY <2>8 DEF Measure
  <2>9. ASSUME NEW p \in Processes, ReadStatus(p) PROVE FileInv'
    BY <2>9 DEF ReadStatus
  <2>10. ASSUME NEW p \in Processes, Crash(p) PROVE FileInv'
    BY <2>10 DEF Crash
  <2>11. CASE UNCHANGED vars
    BY <2>11 DEF vars
  <2> QED
    BY <2>1, <2>2, <2>3, <2>4, <2>5, <2>6, <2>7, <2>8, <2>9, <2>10, <2>11 DEF Next
<1> QED
  BY <1>1, <1>2, StatusTypeCorrect, PTL DEF Spec

(* No get returns torn bytes, and a writer is alone with the file.         *)
THEOREM WriterAloneCorrect == Spec => [](WriterAlone /\ NeverTorn)
<1>1. TypeOK /\ FileInv => WriterAlone /\ NeverTorn
  <2> SUFFICES ASSUME TypeOK, FileInv PROVE WriterAlone
    BY DEF FileInv
  <2> QED
    BY DEF TypeOK, FileInv, LocksHeld, LocksExclude, WriterAlone, Writing
<1> QED
  BY <1>1, StatusTypeCorrect, FileInvCorrect, PTL

(* A reader gets a whole status, or an empty file, or nothing.             *)
THEOREM NeverTornCorrect == Spec => []NeverTorn
BY WriterAloneCorrect, PTL

-------------------------------------------------------------------------------
(* The register that readers and writers see: while a writer is at work it *)
(* is what the file held before.                                           *)
Status == IF \E p \in Processes : pc[p] \in {"write", "wunlock"}
          THEN before[CHOOSE p \in Processes : pc[p] \in {"write", "wunlock"}]
          ELSE file

(* A writer that has not emptied the file yet knows what is in it.         *)
BeforeHolds == \A p \in Processes : pc[p] = "truncate" => before[p] = file

(* Whoever has written, or is about to, has looked at the file before.     *)
BeforeKnown == \A p \in Processes : pc[p] \in Writing => before[p] \in Values \cup {"empty"}

LEMMA BeforeCorrect == Spec => [](BeforeHolds /\ BeforeKnown)
<1> DEFINE Inv == BeforeHolds /\ BeforeKnown
<1> USE StatusAssumption DEF Writing
<1>1. Init => Inv
  BY DEF Init, BeforeHolds, BeforeKnown
<1>2. TypeOK /\ FileInv /\ Inv /\ [Next]_vars => Inv'
  <2> SUFFICES ASSUME TypeOK, FileInv, Inv, [Next]_vars PROVE Inv'
    OBVIOUS
  <2> USE DEF TypeOK, FileInv, LocksHeld, LocksExclude, BeforeHolds, BeforeKnown,
              Goto, Return, TakeLock
  <2>1. ASSUME NEW p \in Processes, OpenToSet(p) PROVE Inv'
    BY <2>1 DEF OpenToSet
  <2>2. ASSUME NEW p \in Processes, LockToSet(p) PROVE Inv'
    BY <2>2 DEF LockToSet, MayWrite
  <2>3. ASSUME NEW p \in Processes, Truncate(p) PROVE Inv'
    BY <2>3 DEF Truncate
  <2>4. ASSUME NEW p \in Processes, WriteStatus(p) PROVE Inv'
    BY <2>4 DEF WriteStatus
  <2>5. ASSUME NEW p \in Processes, UnlockSet(p) PROVE Inv'
    BY <2>5 DEF UnlockSet
  <2>6. ASSUME NEW p \in Processes, OpenToGet(p) PROVE Inv'
    BY <2>6 DEF OpenToGet
  <2>7. ASSUME NEW p \in Processes, LockToGet(p) PROVE Inv'
    BY <2>7 DEF LockToGet
  <2>8. ASSUME NEW p \in Processes, Measure(p) PROVE Inv'
    BY <2>8 DEF Measure
  <2>9. ASSUME NEW p \in Processes, ReadStatus(p) PROVE Inv'
    BY <2>9 DEF ReadStatus
  <2>10. ASSUME NEW p \in Processes, Crash(p) PROVE Inv'
    BY <2>10 DEF Crash
  <2>11. CASE UNCHANGED vars
    BY <2>11 DEF vars
  <2> QED
    BY <2>1, <2>2, <2>3, <2>4, <2>5, <2>6, <2>7, <2>8, <2>9, <2>10, <2>11 DEF Next
<1> QED
  BY <1>1, <1>2, StatusTypeCorrect, FileInvCorrect, PTL DEF Spec

(* What the register is, by whether there is a writer; there is one at     *)
(* most.                                                                   *)
LEMMA StatusIs ==
  /\ (\A q \in Processes : pc[q] \notin {"write", "wunlock"}) => Status = file
  /\ \A p \in Processes :
       pc[p] \in {"write", "wunlock"}
         /\ (\A q \in Processes \ {p} : pc[q] \notin {"write", "wunlock"})
       => Status = before[p]
<1>1. ASSUME \A q \in Processes : pc[q] \notin {"write", "wunlock"} PROVE Status = file
  BY <1>1 DEF Status
<1>2. ASSUME NEW p \in Processes, pc[p] \in {"write", "wunlock"},
             \A q \in Processes \ {p} : pc[q] \notin {"write", "wunlock"}
      PROVE  Status = before[p]
  <2>1. (CHOOSE q \in Processes : pc[q] \in {"write", "wunlock"}) = p
    BY <1>2
  <2> QED
    BY <1>2, <2>1, Zenon DEF Status
<1> QED
  BY <1>1, <1>2, Zenon

LEMMA StatusIsNext ==
  /\ (\A q \in Processes : pc'[q] \notin {"write", "wunlock"}) => Status' = file'
  /\ \A p \in Processes :
       pc'[p] \in {"write", "wunlock"}
         /\ (\A q \in Processes \ {p} : pc'[q] \notin {"write", "wunlock"})
       => Status' = before'[p]
<1>1. ASSUME \A q \in Processes : pc'[q] \notin {"write", "wunlock"} PROVE Status' = file'
  BY <1>1 DEF Status
<1>2. ASSUME NEW p \in Processes, pc'[p] \in {"write", "wunlock"},
             \A q \in Processes \ {p} : pc'[q] \notin {"write", "wunlock"}
      PROVE  Status' = before'[p]
  <2>1. (CHOOSE q \in Processes : pc'[q] \in {"write", "wunlock"}) = p
    BY <1>2
  <2> QED
    BY <1>2, <2>1, Zenon DEF Status
<1> QED
  BY <1>1, <1>2, Zenon

(* A step that neither makes nor ends a writer leaves the register alone.  *)
LEMMA StatusStays ==
  ASSUME TypeOK, FileInv, UNCHANGED file,
         \A q \in Processes : pc'[q] \in {"write", "wunlock"} <=> pc[q] \in {"write", "wunlock"},
         \A q \in Processes : pc[q] \in {"write", "wunlock"} => before'[q] = before[q]
  PROVE  Status' = Status
<1>1. CASE \A q \in Processes : pc[q] \notin {"write", "wunlock"}
  BY <1>1, StatusIs, StatusIsNext
<1>2. CASE \E p \in Processes : pc[p] \in {"write", "wunlock"}
  <2>1. PICK p \in Processes : pc[p] \in {"write", "wunlock"}
    BY <1>2
  <2>2. \A q \in Processes \ {p} : pc[q] \notin {"write", "wunlock"}
    BY <2>1 DEF FileInv, LocksHeld, LocksExclude, Writing
  <2> QED
    BY <2>1, <2>2, StatusIs, StatusIsNext
<1> QED
  BY <1>1, <1>2

-------------------------------------------------------------------------------
(* The steps of the register, of the status as the file has it.            *)
StatusCreate == Status = "absent" /\ Status' = "empty" /\ UNCHANGED got
StatusSet    == Status # "absent" /\ Status' \in Values \cup {"empty"} /\ UNCHANGED got
StatusGet(p) == got' = [got EXCEPT ![p] = Status] /\ Status # "absent" /\ Status' = Status
StatusGetFails(p) == got' = [got EXCEPT ![p] = "none"] /\ Status' = Status

StatusStep ==
  \/ StatusCreate \/ StatusSet
  \/ \E p \in Processes : StatusGet(p) \/ StatusGetFails(p)
  \/ Status' = Status /\ UNCHANGED got

LEMMA StatusStepIsRegisters == StatusStep => [Register!Next]_Register!vars
BY DEF StatusStep, StatusCreate, StatusSet, StatusGet, StatusGetFails, Status,
       Register!Next, Register!Create, Register!Set, Register!Get, Register!GetFails,
       Register!vars

(* Every step of a process is one step of the register, or none.           *)
LEMMA StepIsStatusStep ==
  ASSUME TypeOK, FileInv, BeforeHolds, BeforeKnown, [Next]_vars PROVE StatusStep
<1> USE StatusAssumption
<1> DEFINE W == {"write", "wunlock"}
<1>alone. ASSUME NEW p \in Processes, pc[p] \in Writing
          PROVE  \A q \in Processes \ {p} : pc[q] \notin Writing
  BY <1>alone DEF FileInv, LocksHeld, LocksExclude, Writing
<1>file. ASSUME NEW p \in Processes, pc[p] # "idle" PROVE file \in Values \cup {"empty"}
  BY <1>file DEF TypeOK
<1> USE DEF Goto, Return, TakeLock
<1>1. ASSUME NEW p \in Processes, OpenToSet(p) PROVE StatusStep
  <2>1. CASE file = "absent"
    <3>1. \A q \in Processes : pc[q] = "idle"
      BY <2>1 DEF TypeOK
    <3>2. \A q \in Processes : pc'[q] \notin W
      BY <3>1, <1>1 DEF OpenToSet, TypeOK
    <3>3. Status = "absent" /\ Status' = "empty"
      BY <2>1, <3>1, <3>2, <1>1, StatusIs, StatusIsNext DEF OpenToSet
    <3> QED
      BY <3>3, <1>1 DEF OpenToSet, StatusStep, StatusCreate
  <2>2. CASE file # "absent"
    BY <2>2, <1>1, StatusStays DEF OpenToSet, TypeOK, StatusStep
  <2> QED
    BY <2>1, <2>2
<1>2. ASSUME NEW p \in Processes, LockToSet(p) PROVE StatusStep
  BY <1>2, StatusStays DEF LockToSet, TypeOK, StatusStep
<1>3. ASSUME NEW p \in Processes, Truncate(p) PROVE StatusStep
  <2>1. pc[p] = "truncate" /\ pc' = [pc EXCEPT ![p] = "write"] /\ UNCHANGED <<before, got>>
    BY <1>3 DEF Truncate
  <2>2. \A q \in Processes : pc[q] \notin W
    BY <2>1, <1>alone DEF Writing
  <2>3. pc'[p] = "write" /\ \A q \in Processes \ {p} : pc'[q] \notin W
    BY <2>1, <2>2 DEF TypeOK
  <2>4. Status = file /\ Status' = before'[p]
    BY <2>2, <2>3, StatusIs, StatusIsNext
  <2> QED
    BY <2>1, <2>4 DEF BeforeHolds, StatusStep
<1>4. ASSUME NEW p \in Processes, WriteStatus(p) PROVE StatusStep
  <2>1. pc[p] = "write" /\ pc' = [pc EXCEPT ![p] = "wunlock"] /\ UNCHANGED <<before, got>>
    BY <1>4 DEF WriteStatus
  <2>2. \A q \in Processes \ {p} : pc[q] \notin W /\ pc'[q] \notin W
    BY <2>1, <1>alone DEF Writing, TypeOK
  <2>3. pc'[p] = "wunlock"
    BY <2>1 DEF TypeOK
  <2>4. Status = before[p] /\ Status' = before'[p]
    BY <2>1, <2>2, <2>3, StatusIs, StatusIsNext
  <2> QED
    BY <2>1, <2>4 DEF StatusStep
(* The writer's last step, or its death. *)
<1>ends. ASSUME NEW p \in Processes, pc[p] \in W, pc' = [pc EXCEPT ![p] = "idle"],
                UNCHANGED <<file, got>>
         PROVE  StatusStep
  <2>1. \A q \in Processes \ {p} : pc[q] \notin W
    BY <1>ends, <1>alone DEF Writing
  <2>2. \A q \in Processes : pc'[q] \notin W
    BY <1>ends, <2>1 DEF TypeOK
  <2>3. Status = before[p] /\ Status' = file
    BY <1>ends, <2>1, <2>2, StatusIs, StatusIsNext
  <2>4. before[p] # "absent"
    BY <1>ends DEF BeforeKnown, Writing
  <2> QED
    BY <1>ends, <1>file, <2>3, <2>4 DEF StatusStep, StatusSet
<1>5. ASSUME NEW p \in Processes, UnlockSet(p) PROVE StatusStep
  BY <1>5, <1>ends DEF UnlockSet
<1>6. ASSUME NEW p \in Processes, OpenToGet(p) PROVE StatusStep
  <2>1. Status' = Status
    BY <1>6, StatusStays DEF OpenToGet, TypeOK
  <2> QED
    BY <2>1, <1>6 DEF OpenToGet, StatusStep, StatusGetFails
<1>7. ASSUME NEW p \in Processes, LockToGet(p) PROVE StatusStep
  <2>1. Status' = Status
    BY <1>7, StatusStays DEF LockToGet, TypeOK
  <2> QED
    BY <2>1, <1>7 DEF LockToGet, StatusStep, StatusGetFails
<1>8. ASSUME NEW p \in Processes, Measure(p) PROVE StatusStep
  <2>1. Status' = Status
    BY <1>8, StatusStays DEF Measure, TypeOK
  <2> QED
    BY <2>1, <1>8 DEF Measure, StatusStep, StatusGetFails
<1>9. ASSUME NEW p \in Processes, ReadStatus(p) PROVE StatusStep
  <2>1. Status' = Status
    BY <1>9, StatusStays DEF ReadStatus, TypeOK
  <2>2. \A q \in Processes : pc[q] \notin W
    BY <1>9 DEF ReadStatus, FileInv, LocksHeld, LocksExclude, Writing
  <2>3. Status = file /\ file # "absent" /\ total[p] = file
    BY <2>2, <1>9, <1>file, StatusIs DEF ReadStatus, FileInv, MeasureHolds
  <2> QED
    BY <2>1, <2>3, <1>9 DEF ReadStatus, StatusStep, StatusGet, StatusGetFails
<1>10. ASSUME NEW p \in Processes, Crash(p) PROVE StatusStep
  <2>1. CASE pc[p] \in W
    BY <2>1, <1>10, <1>ends DEF Crash
  <2>2. CASE pc[p] \notin W
    BY <2>2, <1>10, StatusStays DEF Crash, TypeOK, StatusStep
  <2> QED
    BY <2>1, <2>2
<1>11. CASE UNCHANGED vars
  BY <1>11, StatusStays DEF vars, StatusStep
<1> QED
  BY <1>1, <1>2, <1>3, <1>4, <1>5, <1>6, <1>7, <1>8, <1>9, <1>10, <1>11 DEF Next

(* Readers and writers see one register that changes at one moment,        *)
(* however their steps interleave and wherever processes die.              *)
THEOREM ImplementsRegisterCorrect == Spec => ImplementsRegister
<1>1. Init => Register!Init
  <2> SUFFICES ASSUME Init PROVE Register!Init
    OBVIOUS
  <2>1. Status = "absent"
    BY StatusIs DEF Init
  <2> QED
    BY <2>1 DEF Init, Register!Init, Status
<1>2. TypeOK /\ FileInv /\ BeforeHolds /\ BeforeKnown /\ [Next]_vars
        => [Register!Next]_Register!vars
  BY StepIsStatusStep, StatusStepIsRegisters
<1> QED
  BY <1>1, <1>2, StatusTypeCorrect, FileInvCorrect, BeforeCorrect, PTL
     DEF Spec, ImplementsRegister, Register!Spec

-------------------------------------------------------------------------------
(* The pid file *)

(* The daemon does not call already_stoprunning. *)
NoSelfCheck == SelfCheck = FALSE

(* Type correctness, for any processes.                                    *)
THEOREM PidTypeCorrect == PidSpec => []PidTypeOK
<1> USE PidAssumption DEF Started
<1>1. PidInit => PidTypeOK
  BY DEF PidInit, PidTypeOK
<1>2. PidTypeOK /\ [PidNext]_pidvars => PidTypeOK'
  <2> SUFFICES ASSUME PidTypeOK, [PidNext]_pidvars PROVE PidTypeOK'
    OBVIOUS
  <2> USE DEF PidTypeOK
  <2>1. ASSUME NEW p \in Daemons, OpenPidFile(p) PROVE PidTypeOK'
    BY <2>1 DEF OpenPidFile, PidGoto
  <2>2. ASSUME NEW p \in Daemons, LockPidFile(p) PROVE PidTypeOK'
    BY <2>2 DEF LockPidFile, PidGoto
  <2>3. ASSUME NEW p \in Daemons, TruncatePidFile(p) PROVE PidTypeOK'
    BY <2>3 DEF TruncatePidFile, PidGoto
  <2>4. ASSUME NEW p \in Daemons, WritePid(p) PROVE PidTypeOK'
    BY <2>4 DEF WritePid, PidGoto
  <2>5. ASSUME NEW p \in Daemons, Check(p) PROVE PidTypeOK'
    BY <2>5 DEF Check
  <2>6. ASSUME NEW p \in Daemons, Exit(p) PROVE PidTypeOK'
    BY <2>6 DEF Exit, PidGoto
  <2>7. CASE UNCHANGED pidvars
    BY <2>7 DEF pidvars
  <2> QED
    BY <2>1, <2>2, <2>3, <2>4, <2>5, <2>6, <2>7 DEF PidNext
<1> QED
  BY <1>1, <1>2, PTL DEF PidSpec

(* The file is empty between its truncation and the write.                 *)
EmptyAtWrite == \A p \in Daemons : dpc[p] = "write" => pidFile = "empty"

(* Whoever got past the lock of already_running still has it.              *)
THEOREM StartedHoldsLockCorrect ==
  ASSUME NoSelfCheck PROVE PidSpec => [](StartedHoldsLock /\ PidOfRunning)
<1> DEFINE Inv == StartedHoldsLock /\ EmptyAtWrite /\ PidOfRunning
<1> USE PidAssumption, NoSelfCheck DEF NoSelfCheck, Started
<1>1. PidInit => Inv
  BY DEF PidInit, StartedHoldsLock, EmptyAtWrite, PidOfRunning
<1>2. PidTypeOK /\ Inv /\ [PidNext]_pidvars => Inv'
  <2> SUFFICES ASSUME PidTypeOK, Inv, [PidNext]_pidvars PROVE Inv'
    OBVIOUS
  <2> USE DEF PidTypeOK, StartedHoldsLock, EmptyAtWrite, PidOfRunning
  <2>1. ASSUME NEW p \in Daemons, OpenPidFile(p) PROVE Inv'
    BY <2>1 DEF OpenPidFile, PidGoto
  <2>2. ASSUME NEW p \in Daemons, LockPidFile(p) PROVE Inv'
    BY <2>2 DEF LockPidFile, PidGoto
  <2>3. ASSUME NEW p \in Daemons, TruncatePidFile(p) PROVE Inv'
    BY <2>3 DEF TruncatePidFile, PidGoto
  <2>4. ASSUME NEW p \in Daemons, WritePid(p) PROVE Inv'
    BY <2>4 DEF WritePid, PidGoto
  <2>5. ASSUME NEW p \in Daemons, Check(p) PROVE Inv'
    BY <2>5 DEF Check
  <2>6. ASSUME NEW p \in Daemons, Exit(p) PROVE Inv'
    BY <2>6 DEF Exit, PidGoto
  <2>7. CASE UNCHANGED pidvars
    BY <2>7 DEF pidvars
  <2> QED
    BY <2>1, <2>2, <2>3, <2>4, <2>5, <2>6, <2>7 DEF PidNext
<1> QED
  BY <1>1, <1>2, PidTypeCorrect, PTL DEF PidSpec

(* The daemon runs at most once, and its pid file names nobody else: it    *)
(* names the daemon, or nobody if the write of its pid failed.             *)
THEOREM OneInstanceCorrect ==
  ASSUME NoSelfCheck PROVE PidSpec => [](OneInstance /\ PidOfRunning)
<1>1. StartedHoldsLock /\ PidOfRunning => OneInstance /\ PidOfRunning
  BY DEF StartedHoldsLock, OneInstance
<1> QED
  BY <1>1, StartedHoldsLockCorrect, PTL

(* The pid file names the daemon as long as it runs, or nobody, if the     *)
(* write of its pid failed, which already_running does not look at.        *)
THEOREM PidOfRunningCorrect ==
  ASSUME NoSelfCheck PROVE PidSpec => []PidOfRunning
BY StartedHoldsLockCorrect, PTL
===============================================================================
