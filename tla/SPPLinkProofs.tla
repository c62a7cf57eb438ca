---------------------------- MODULE SPPLinkProofs ----------------------------
(***************************************************************************)
(* Proofs about SPPLink for any set of tasks, processes, ports and values, *)
(* any number of calls, and a controller that may answer late.             *)
(* With prompt answers: a successful call returns its own answer, and the  *)
(* link implements SPPService.                                             *)
(***************************************************************************)
EXTENDS SPPLink, SequenceTheorems, TLAPS

(* What the three ways of leaving a receive do to the typed variables. *)
LEMMA ReturnType ==
  ASSUME TypeOK, NEW t \in Tasks, pc[t] # "idle",
         NEW status \in Errors \cup {"ANSWERED", "NONE"}, NEW from \in CallIds,
         NEW val \in Opt, Return(t, status, from, val)
  PROVE  /\ pc' \in [Tasks -> PCs] /\ pc'[t] = "idle"
         /\ \A u \in Tasks \ {t} : pc'[u] = pc[u]
         /\ outcome' \in [Tasks -> [id : CallIds, status : Errors \cup {"ANSWERED", "NONE"},
                                    from : CallIds, val : Opt]]
         /\ packet' \in [Tasks \cup Processes -> [hdr : Segments, body : Segments]]
<1>1. call[t].id \in CallIds
  BY DEF TypeOK, Calls
<1>2. EmptyPacket \in [hdr : Segments, body : Segments]
  BY LinkAssumption DEF EmptyPacket, NoSegment, Segments, Answers, CallIds, Opt
<1>3. QED
  BY <1>1, <1>2 DEF TypeOK, Return, PCs

LEMMA ReceiveFailedType ==
  ASSUME TypeOK, NEW t \in Tasks, pc[t] # "idle", NEW e \in Errors, ReceiveFailed(t, e)
  PROVE  /\ pc' \in [Tasks -> PCs] /\ pc'[t] \in {"idle", "lock"}
         /\ \A u \in Tasks \ {t} : pc'[u] = pc[u]
         /\ call' \in [Tasks -> Calls \cup {NoCall}]
         /\ \A u \in Tasks : pc'[u] # "idle" => call'[u] \in Calls
         /\ outcome' \in [Tasks -> [id : CallIds, status : Errors \cup {"ANSWERED", "NONE"},
                                    from : CallIds, val : Opt]]
         /\ packet' \in [Tasks \cup Processes -> [hdr : Segments, body : Segments]]
<1>1. CASE /\ pc' = [pc EXCEPT ![t] = "lock"]
           /\ call' = [call EXCEPT ![t].try = 2]
           /\ UNCHANGED <<outcome, packet>>
  <2>1. [call[t] EXCEPT !.try = 2] \in Calls
    <3>1. call[t] \in Calls
      BY DEF TypeOK
    <3>2. 2 \in 1 .. 2
      OBVIOUS
    <3>3. CASE call[t].rtn = "SET"
      BY <3>1, <3>2, <3>3 DEF Calls
    <3>4. CASE call[t].rtn # "SET"
      BY <3>1, <3>2, <3>4 DEF Calls
    <3>5. QED
      BY <3>3, <3>4
  <2>2. QED
    BY <1>1, <2>1 DEF TypeOK, PCs
<1>2. CASE /\ Return(t, IF call[t].rtn = "INFO" THEN e ELSE "NOT_FND", 0, NoVal)
           /\ UNCHANGED call
  <2>1. 0 \in CallIds /\ NoVal \in Opt
    BY LinkAssumption DEF CallIds, Opt
  <2>2. (IF call[t].rtn = "INFO" THEN e ELSE "NOT_FND") \in Errors \cup {"ANSWERED", "NONE"}
    BY DEF Errors
  <2>3. QED
    BY <1>2, <2>1, <2>2, ReturnType DEF TypeOK
<1>3. QED
  BY <1>1, <1>2 DEF ReceiveFailed

LEMMA LockType ==
  ASSUME TypeOK, NEW p \in Processes
  PROVE  /\ SerialLock(p) => sem' \in [Processes -> Nat]
         /\ SerialUnlock(p) => sem' \in [Processes -> Nat]
<1>1. sem \in [Processes -> Nat] /\ sem[p] \in Nat
  BY DEF TypeOK
<1>2. ASSUME SerialLock(p) PROVE sem' \in [Processes -> Nat]
  <2>1. sem[p] - 1 \in Nat
    BY <1>1, <1>2 DEF SerialLock
  <2>2. QED
    BY <1>1, <1>2, <2>1 DEF SerialLock
<1>3. ASSUME SerialUnlock(p) PROVE sem' \in [Processes -> Nat]
  <2>1. sem[p] + 1 \in Nat
    BY <1>1
  <2>2. QED
    BY <1>1, <1>3, <2>1 DEF SerialUnlock
<1>4. QED
  BY <1>2, <1>3

LEMMA TakeType ==
  ASSUME TypeOK, NEW t \in Tasks, Take(t)
  PROVE  Head(rx) \in Segments /\ rx' \in Seq(Segments)
BY HeadTailProperties DEF TypeOK, Take

LEMMA GiveUpType ==
  ASSUME TypeOK, NEW t \in Tasks, pc[t] \in Reading, NEW e \in Errors, GiveUp(t, e),
         rx' \in Seq(Segments), UNCHANGED <<reqs, answering, devVars, calls>>
  PROVE  TypeOK'
<1>1. pc[t] # "idle" /\ Process[t] \in Processes
  BY LinkAssumption DEF Reading
<1>2. sem' \in [Processes -> Nat]
  BY <1>1, LockType DEF GiveUp
<1>3. expired' \in [Tasks -> BOOLEAN]
  BY DEF GiveUp, TypeOK
<1>4. QED
  BY <1>1, <1>2, <1>3, ReceiveFailedType DEF GiveUp, TypeOK, devVars

(* The packets the controller answers with. *)
LEMMA PacketOfType ==
  ASSUME NEW a \in Answers PROVE PacketOf(a) \in Seq(Segments)
<1>1. \A k \in {"SOP", "HDR", "BODY"} : [kind |-> k, ans |-> a] \in Segments
  BY DEF Segments
<1>2. QED
  BY <1>1 DEF PacketOf

LEMMA CtrlType ==
  ASSUME TypeOK, CtrlPerform
  PROVE  TypeOK'
<1> DEFINE r == Head(reqs)
<1>1. r \in Requests /\ reqs' \in Seq(Requests)
  BY HeadTailProperties DEF TypeOK, CtrlPerform
<1>2. limit' \in [Ports -> Values] /\ limit'[r.port] \in Values
  BY <1>1 DEF TypeOK, CtrlPerform, Requests
<1>3. served' \in [Tasks -> Opt]
  BY <1>2 DEF TypeOK, CtrlPerform, Opt
<1>4. answering' \in Seq(Segments)
  <2>1. CASE answering' = <<>>
    BY <2>1
  <2>2. ASSUME NEW ok \in BOOLEAN,
               answering' = PacketOf([id |-> r.id, rtn |-> r.rtn,
                                      val |-> limit'[r.port], good |-> ok])
        PROVE  answering' \in Seq(Segments)
    <3>1. [id |-> r.id, rtn |-> r.rtn, val |-> limit'[r.port], good |-> ok] \in Answers
      BY <1>1, <1>2 DEF Answers, Requests, Opt
    <3>2. QED
      BY <2>2, <3>1, PacketOfType
  <2>3. QED
    BY <2>1, <2>2 DEF CtrlPerform
<1>5. QED
  BY <1>1, <1>2, <1>3, <1>4 DEF TypeOK, CtrlPerform

(***************************************************************************)
(* Type correctness.                                                       *)
(***************************************************************************)
LEMMA InitType == Init => TypeOK
<1> SUFFICES ASSUME Init PROVE TypeOK
  OBVIOUS
<1>1. NoSegment \in Segments /\ EmptyPacket \in [hdr : Segments, body : Segments]
  BY LinkAssumption DEF EmptyPacket, NoSegment, Segments, Answers, CallIds, Opt
<1>2. 0 \in CallIds /\ NoVal \in Opt /\ "idle" \in PCs
  BY LinkAssumption DEF CallIds, Opt, PCs
<1>3. QED
  BY <1>1, <1>2 DEF Init, TypeOK

LEMMA TaskType ==
  ASSUME TypeOK, NEW t \in Tasks, TaskNext(t)
  PROVE  TypeOK'
<1>1. CASE Begin(t)
  <2>1. calls' \in CallIds
    BY <1>1, LinkAssumption DEF Begin, TypeOK, CallIds
  <2>2. PICK a \in Args :
          call' = [call EXCEPT ![t] = [id |-> calls + 1, rtn |-> a.rtn, port |-> a.port,
                                       val |-> a.val, try |-> 1]]
    BY <1>1 DEF Begin
  <2>3. [id |-> calls + 1, rtn |-> a.rtn, port |-> a.port, val |-> a.val, try |-> 1] \in Calls
    BY <1>1, <2>1 DEF Begin, Calls, Args
  <2>4. NoVal \in Opt
    BY DEF Opt
  <2>5. QED
    BY <1>1, <2>1, <2>2, <2>3, <2>4 DEF Begin, TypeOK, PCs, lineVars
<1>2. CASE Lock(t)
  <2>1. sem' \in [Processes -> Nat]
    BY <1>2, LinkAssumption, LockType DEF Lock, SerialLock, TypeOK
  <2>2. QED
    BY <1>2, <2>1 DEF Lock, TypeOK, PCs, lineVars, devVars
<1>3. CASE Send(t)
  <2>1. [id |-> call[t].id, rtn |-> call[t].rtn, port |-> call[t].port, val |-> call[t].val]
          \in Requests
    BY <1>3 DEF Send, TypeOK, Calls, Requests
  <2>2. reqs' \in Seq(Requests)
    BY <1>3, <2>1, AppendProperties DEF Send, TypeOK
  <2>3. QED
    BY <1>3, <2>2 DEF Send, TypeOK, PCs, Reading, devVars
<1>4. CASE SendFails(t)
  <2>1. sem' \in [Processes -> Nat]
    BY <1>4, LinkAssumption, LockType DEF SendFails
  <2>2. 0 \in CallIds /\ NoVal \in Opt /\ "WRITE" \in Errors
    BY LinkAssumption DEF CallIds, Opt, Errors
  <2>3. QED
    BY <1>4, <2>1, <2>2, ReturnType DEF SendFails, TypeOK, lineVars, devVars
<1>5. CASE TakeTooLate(t)
  BY <1>5, TakeType, GiveUpType DEF TakeTooLate, Errors
<1>6. CASE Hunt(t)
  BY <1>6, TakeType DEF Hunt, TypeOK, PCs, Reading, devVars
<1>7. CASE ReadHeader(t)
  <2>1. Buffer(t) \in Tasks \cup Processes
    BY LinkAssumption DEF Buffer
  <2>2. QED
    BY <1>7, <2>1, TakeType DEF ReadHeader, TypeOK, PCs, Reading, devVars
<1>8. CASE ReadBody(t)
  <2>1. Buffer(t) \in Tasks \cup Processes
    BY LinkAssumption DEF Buffer
  <2>2. sem' \in [Processes -> Nat]
    BY <1>8, LinkAssumption, LockType DEF ReadBody
  <2>3. QED
    BY <1>8, <2>1, <2>2, TakeType DEF ReadBody, TypeOK, PCs, Reading, devVars
<1>9. CASE ReadNothing(t)
  BY <1>9, GiveUpType DEF ReadNothing, Errors, TypeOK, lineVars
<1>10. CASE ReadFails(t)
  BY <1>10, GiveUpType DEF ReadFails, Errors, TypeOK, lineVars
<1>11. CASE Expire(t)
  BY <1>11 DEF Expire, TypeOK, lineVars, devVars
<1>12. CASE Verify(t)
  <2>1. CASE /\ pc' = [pc EXCEPT ![t] = "accept"]
             /\ UNCHANGED <<call, outcome, packet>>
    BY <1>12, <2>1 DEF Verify, TypeOK, PCs, lineVars, devVars
  <2>2. CASE ReceiveFailed(t, "INVALID")
    <3>1. pc[t] # "idle" /\ "INVALID" \in Errors
      BY <1>12 DEF Verify, Errors
    <3>2. QED
      BY <1>12, <2>2, <3>1, ReceiveFailedType DEF Verify, TypeOK, lineVars, devVars
  <2>3. QED
    BY <1>12, <2>1, <2>2 DEF Verify
<1>13. CASE Accept(t)
  <2> DEFINE p == packet[Buffer(t)]
  <2>1. Buffer(t) \in Tasks \cup Processes
    BY LinkAssumption DEF Buffer
  <2>2. p.body.ans.id \in CallIds /\ p.body.ans.val \in Opt
    BY <2>1 DEF TypeOK, Segments, Answers
  <2>3. 0 \in CallIds /\ NoVal \in Opt /\ "INVALID" \in Errors
    BY LinkAssumption DEF CallIds, Opt, Errors
  <2>4. pc[t] # "idle"
    BY <1>13 DEF Accept
  <2>5. \E s \in Errors \cup {"ANSWERED"}, f \in CallIds, v \in Opt : Return(t, s, f, v)
    BY <1>13, <2>2, <2>3 DEF Accept
  <2>6. QED
    BY <1>13, <2>4, <2>5, ReturnType DEF Accept, TypeOK, lineVars, devVars
<1>14. QED
  BY <1>1, <1>2, <1>3, <1>4, <1>5, <1>6, <1>7, <1>8, <1>9, <1>10, <1>11, <1>12, <1>13
     DEF TaskNext, Receive

LEMMA NextType == TypeOK /\ [Next]_vars => TypeOK'
<1> SUFFICES ASSUME TypeOK, [Next]_vars PROVE TypeOK'
  OBVIOUS
<1>1. ASSUME NEW t \in Tasks, TaskNext(t) PROVE TypeOK'
  BY <1>1, TaskType
<1>2. CASE CtrlPerform
  BY <1>2, CtrlType
<1>3. CASE LoseRequest
  BY <1>3, HeadTailProperties DEF LoseRequest, TypeOK, devVars
<1>4. CASE Deliver
  <2>1. Head(answering) \in Segments /\ answering' \in Seq(Segments)
    BY <1>4, HeadTailProperties DEF Deliver, TypeOK
  <2>2. rx' \in Seq(Segments)
    BY <1>4, <2>1, AppendProperties DEF Deliver, TypeOK
  <2>3. QED
    BY <1>4, <2>1, <2>2 DEF Deliver, TypeOK, devVars
<1>5. CASE Finished \/ UNCHANGED vars
  BY <1>5 DEF Finished, vars, TypeOK
<1>6. QED
  BY <1>1, <1>2, <1>3, <1>4, <1>5 DEF Next

(* Every variable of the link keeps its type, whatever the controller and  *)
(* the line do.                                                            *)
THEOREM TypeCorrect == Spec => []TypeOK
<1>1. Init => TypeOK
  BY InitType
<1>2. TypeOK /\ [Next]_vars => TypeOK'
  BY NextType
<1>3. QED
  BY <1>1, <1>2, PTL DEF Spec

(***************************************************************************)
(* The semaphore.                                                          *)
(***************************************************************************)

(* The semaphore of one process matches the tasks of that process. *)
Matches(p) ==
  \/ sem[p] = 1 /\ \A t \in Tasks : Process[t] = p => ~OnLine(t)
  \/ sem[p] = 0 /\ \E t \in Tasks : /\ Process[t] = p /\ OnLine(t)
                                    /\ \A u \in Tasks : Process[u] = p /\ OnLine(u) => u = t

(* A task that stays where it is, on the line or off it, changes nothing. *)
LEMMA MatchesStays ==
  ASSUME SemaphoreMatches, UNCHANGED sem, \A t \in Tasks : OnLine(t)' <=> OnLine(t)
  PROVE  SemaphoreMatches'
BY DEF SemaphoreMatches

(* Locking takes a task onto a free line. *)
LEMMA MatchesLock ==
  ASSUME TypeOK, SemaphoreMatches, NEW t \in Tasks, SerialLock(Process[t]), OnLine(t)',
         ~OnLine(t), \A u \in Tasks \ {t} : OnLine(u)' <=> OnLine(u)
  PROVE  SemaphoreMatches'
<1>1. SUFFICES ASSUME NEW p \in Processes PROVE Matches(p)'
  BY DEF SemaphoreMatches, Matches
<1>2. Matches(p) /\ Process[t] \in Processes /\ sem[p] \in Nat
  BY LinkAssumption DEF SemaphoreMatches, Matches, TypeOK
<1>3. CASE p = Process[t]
  <2>1. sem[p] = 1 /\ \A u \in Tasks : Process[u] = p => ~OnLine(u)
    BY <1>2, <1>3 DEF Matches, SerialLock
  <2>2. sem'[p] = 0
    BY <1>3, <2>1 DEF SerialLock, TypeOK
  <2>3. QED
    BY <1>3, <2>1, <2>2 DEF Matches
<1>4. CASE p # Process[t]
  <2>1. sem'[p] = sem[p]
    BY <1>4 DEF SerialLock, TypeOK
  <2>2. \A u \in Tasks : Process[u] = p => (OnLine(u)' <=> OnLine(u))
    BY <1>4
  <2>3. QED
    BY <1>2, <2>1, <2>2 DEF Matches
<1>5. QED
  BY <1>3, <1>4

(* Unlocking frees the line the task was on. *)
LEMMA MatchesUnlock ==
  ASSUME TypeOK, SemaphoreMatches, NEW t \in Tasks, SerialUnlock(Process[t]), OnLine(t),
         ~OnLine(t)', \A u \in Tasks \ {t} : OnLine(u)' <=> OnLine(u)
  PROVE  SemaphoreMatches'
<1>1. SUFFICES ASSUME NEW p \in Processes PROVE Matches(p)'
  BY DEF SemaphoreMatches, Matches
<1>2. Matches(p) /\ Process[t] \in Processes /\ sem[p] \in Nat
  BY LinkAssumption DEF SemaphoreMatches, Matches, TypeOK
<1>3. CASE p = Process[t]
  <2>1. sem[p] = 0 /\ \A u \in Tasks : Process[u] = p /\ OnLine(u) => u = t
    BY <1>2, <1>3 DEF Matches
  <2>2. sem'[p] = 1
    BY <1>3, <2>1 DEF SerialUnlock, TypeOK
  <2>3. QED
    BY <1>3, <2>1, <2>2 DEF Matches
<1>4. CASE p # Process[t]
  <2>1. sem'[p] = sem[p]
    BY <1>4 DEF SerialUnlock, TypeOK
  <2>2. \A u \in Tasks : Process[u] = p => (OnLine(u)' <=> OnLine(u))
    BY <1>4
  <2>3. QED
    BY <1>2, <2>1, <2>2 DEF Matches
<1>5. QED
  BY <1>3, <1>4

LEMMA MatchesGiveUp ==
  ASSUME TypeOK, SemaphoreMatches, NEW t \in Tasks, pc[t] \in Reading, NEW e \in Errors,
         GiveUp(t, e)
  PROVE  SemaphoreMatches'
<1>1. pc[t] # "idle" /\ OnLine(t)
  BY DEF Reading, OnLine
<1>2. pc'[t] \in {"idle", "lock"} /\ \A u \in Tasks \ {t} : pc'[u] = pc[u]
  BY <1>1, ReceiveFailedType DEF GiveUp
<1>3. ~OnLine(t)' /\ \A u \in Tasks \ {t} : OnLine(u)' <=> OnLine(u)
  BY <1>2 DEF OnLine, Reading
<1>4. QED
  BY <1>1, <1>3, MatchesUnlock DEF GiveUp

LEMMA MatchesTask ==
  ASSUME TypeOK, SemaphoreMatches, NEW t \in Tasks, TaskNext(t)
  PROVE  SemaphoreMatches'
<1>1. CASE Begin(t)
  BY <1>1, MatchesStays DEF Begin, OnLine, Reading, TypeOK
<1>2. CASE Lock(t)
  BY <1>2, MatchesLock DEF Lock, OnLine, Reading, TypeOK
<1>3. CASE Send(t)
  BY <1>3, MatchesStays DEF Send, OnLine, Reading, TypeOK
<1>4. CASE SendFails(t)
  BY <1>4, MatchesUnlock DEF SendFails, Return, OnLine, Reading, TypeOK
<1>5. CASE TakeTooLate(t)
  BY <1>5, MatchesGiveUp DEF TakeTooLate, Errors
<1>6. CASE Hunt(t)
  BY <1>6, MatchesStays DEF Hunt, OnLine, Reading, TypeOK
<1>7. CASE ReadHeader(t)
  BY <1>7, MatchesStays DEF ReadHeader, OnLine, Reading, TypeOK
<1>8. CASE ReadBody(t)
  BY <1>8, MatchesUnlock DEF ReadBody, OnLine, Reading, TypeOK
<1>9. CASE ReadNothing(t)
  BY <1>9, MatchesGiveUp DEF ReadNothing, Errors
<1>10. CASE ReadFails(t)
  BY <1>10, MatchesGiveUp DEF ReadFails, Errors
<1>11. CASE Expire(t)
  BY <1>11, MatchesStays DEF Expire, OnLine
<1>12. CASE Verify(t)
  <2>1. CASE pc' = [pc EXCEPT ![t] = "accept"]
    BY <1>12, <2>1, MatchesStays DEF Verify, OnLine, Reading, TypeOK
  <2>2. CASE ReceiveFailed(t, "INVALID")
    <3>1. pc'[t] \in {"idle", "lock"} /\ \A u \in Tasks \ {t} : pc'[u] = pc[u]
      BY <1>12, <2>2, ReceiveFailedType DEF Verify, Errors
    <3>2. QED
      BY <1>12, <3>1, MatchesStays DEF Verify, OnLine, Reading
  <2>3. QED
    BY <1>12, <2>1, <2>2 DEF Verify
<1>13. CASE Accept(t)
  BY <1>13, MatchesStays DEF Accept, Return, OnLine, Reading, TypeOK
<1>14. QED
  BY <1>1, <1>2, <1>3, <1>4, <1>5, <1>6, <1>7, <1>8, <1>9, <1>10, <1>11, <1>12, <1>13
     DEF TaskNext, Receive

LEMMA MatchesNext == TypeOK /\ SemaphoreMatches /\ [Next]_vars => SemaphoreMatches'
<1> SUFFICES ASSUME TypeOK, SemaphoreMatches, [Next]_vars PROVE SemaphoreMatches'
  OBVIOUS
<1>1. ASSUME NEW t \in Tasks, TaskNext(t) PROVE SemaphoreMatches'
  BY <1>1, MatchesTask
<1>2. CASE CtrlPerform \/ LoseRequest \/ Deliver \/ Finished \/ UNCHANGED vars
  <2>1. UNCHANGED <<sem, pc>>
    BY <1>2 DEF CtrlPerform, LoseRequest, Deliver, Finished, vars
  <2>2. QED
    BY <2>1, MatchesStays DEF OnLine
<1>3. QED
  BY <1>1, <1>2 DEF Next

(* At most one task of a process is between SerialLock and SerialUnlock,   *)
(* and the semaphore is 1 whenever no task is: also after short writes,    *)
(* read errors, timeouts, torn answers and bad checksums.                  *)
THEOREM SemaphoreCorrect == Spec => []SemaphoreMatches
<1>1. Init => SemaphoreMatches
  BY DEF Init, SemaphoreMatches, OnLine, Reading
<1>2. TypeOK /\ SemaphoreMatches /\ [Next]_vars => SemaphoreMatches'
  BY MatchesNext
<1>3. QED
  BY <1>1, <1>2, TypeCorrect, PTL DEF Spec

-------------------------------------------------------------------------------
(* When the controller answers before the caller stops looking for an      *)
(* answer, the tasks share one process and one of them at most calls       *)
(* get_poe_port_info, every successful call returns the answer to its own  *)
(* request: for any number of tasks and calls, and with requests and       *)
(* answers lost, answers corrupted, answers torn by a timeout in their     *)
(* middle and requests sent again.                                         *)

LineAssumption ==
  /\ Prompt
  /\ \A t, u \in Tasks : Process[t] = Process[u]
  /\ \A t, u \in InfoTasks : t = u

IInv == TypeOK /\ SemaphoreMatches /\ OwnAnswerInv

(* Nothing is on its way that a hunt would find. *)
Quiet == reqs = <<>> /\ \A i \in DOMAIN line : ~Starts(i)

-------------------------------------------------------------------------------
(* The line as one sequence *)

LEMMA LineType == ASSUME TypeOK PROVE line \in Seq(Segments) /\ DOMAIN line = 1 .. Len(line)
BY ConcatProperties DEF TypeOK, line

LEMMA LineTake ==
  ASSUME TypeOK, TypeOK', NEW t \in Tasks, Take(t), UNCHANGED answering
  PROVE  /\ Len(line) > 0
         /\ Head(rx) = line[1]
         /\ Len(line') = Len(line) - 1
         /\ \A i \in 1 .. Len(line') : line'[i] = line[i + 1]
<1>1. rx \in Seq(Segments) /\ rx # <<>> /\ answering \in Seq(Segments) /\ rx' = Tail(rx)
  BY DEF TypeOK, Take
<1>2. /\ Len(rx) > 0 /\ Head(rx) = rx[1]
      /\ rx' \in Seq(Segments) /\ Len(rx') = Len(rx) - 1
      /\ \A i \in 1 .. Len(rx') : rx'[i] = rx[i + 1]
  BY <1>1, HeadTailProperties
<1>3. /\ Len(line) = Len(rx) + Len(answering)
      /\ \A i \in 1 .. Len(rx) + Len(answering) :
           line[i] = IF i <= Len(rx) THEN rx[i] ELSE answering[i - Len(rx)]
  BY <1>1, ConcatProperties DEF line
<1>4. /\ Len(line') = Len(rx') + Len(answering)
      /\ \A i \in 1 .. Len(rx') + Len(answering) :
           line'[i] = IF i <= Len(rx') THEN rx'[i] ELSE answering[i - Len(rx')]
  BY <1>1, <1>2, ConcatProperties DEF line
<1>5. Len(rx) \in Nat /\ Len(answering) \in Nat
  BY <1>1
<1>6. ASSUME NEW i \in 1 .. Len(line') PROVE line'[i] = line[i + 1]
  <2>1. CASE i <= Len(rx')
    BY <1>2, <1>3, <1>4, <1>5, <1>6, <2>1
  <2>2. CASE ~(i <= Len(rx'))
    BY <1>2, <1>3, <1>4, <1>5, <1>6, <2>2
  <2>3. QED
    BY <2>1, <2>2
<1>7. QED
  BY <1>2, <1>3, <1>4, <1>5, <1>6

LEMMA LineDeliver ==
  ASSUME TypeOK, Deliver PROVE line' = line
<1>1. /\ rx \in Seq(Segments) /\ answering \in Seq(Segments) /\ answering # <<>>
      /\ rx' = Append(rx, Head(answering)) /\ answering' = Tail(answering)
  BY DEF TypeOK, Deliver
<1>2. Head(answering) \in Segments /\ Tail(answering) \in Seq(Segments)
  BY <1>1, HeadTailProperties
<1>3. rx' = rx \o <<Head(answering)>>
  BY <1>1, <1>2, AppendIsConcat
<1>4. answering = <<Head(answering)>> \o Tail(answering)
  BY <1>1, <1>2
<1>5. (rx \o <<Head(answering)>>) \o Tail(answering)
        = rx \o (<<Head(answering)>> \o Tail(answering))
  BY <1>1, <1>2, ConcatAssociative
<1>6. QED
  BY <1>1, <1>3, <1>4, <1>5 DEF line

LEMMA PacketOfContent ==
  ASSUME NEW a
  PROVE  /\ Len(PacketOf(a)) = 3
         /\ \A k \in 1 .. 3 : /\ PacketOf(a)[k].ans = a
                              /\ PacketOf(a)[k].kind = "SOP" => k = 1
<1>1. Len(PacketOf(a)) = 3
  BY DEF PacketOf
<1>2. PacketOf(a)[1].ans = a /\ PacketOf(a)[2].ans = a /\ PacketOf(a)[3].ans = a
  BY DEF PacketOf
<1>3. PacketOf(a)[2].kind # "SOP" /\ PacketOf(a)[3].kind # "SOP"
  BY DEF PacketOf
<1>4. \A k \in 1 .. 3 : k = 1 \/ k = 2 \/ k = 3
  OBVIOUS
<1>5. QED
  BY <1>1, <1>2, <1>3, <1>4

(* The controller adds at most one answer, to the request it took. *)
LEMMA LinePerform ==
  ASSUME TypeOK, TypeOK', CtrlPerform
  PROVE  \/ line' = line
         \/ /\ Len(line') = Len(line) + 3
            /\ \A i \in 1 .. Len(line) : line'[i] = line[i]
            /\ \A i \in Len(line) + 1 .. Len(line) + 3 :
                 /\ line'[i].ans.id = Head(reqs).id
                 /\ line'[i].ans.val = limit'[Head(reqs).port]
                 /\ line'[i].kind = "SOP" => i = Len(line) + 1
<1>1. answering = <<>> /\ rx' = rx /\ rx \in Seq(Segments) /\ answering' \in Seq(Segments)
  BY DEF CtrlPerform, TypeOK
<1>2. line = rx
  BY <1>1, ConcatEmptySeq DEF line
<1>3. CASE answering' = <<>>
  BY <1>1, <1>2, <1>3, ConcatEmptySeq DEF line
<1>4. ASSUME NEW ok \in BOOLEAN,
             answering' = PacketOf([id |-> Head(reqs).id, rtn |-> Head(reqs).rtn,
                                    val |-> limit'[Head(reqs).port], good |-> ok])
      PROVE  /\ Len(line') = Len(line) + 3
             /\ \A i \in 1 .. Len(line) : line'[i] = line[i]
             /\ \A i \in Len(line) + 1 .. Len(line) + 3 :
                  /\ line'[i].ans.id = Head(reqs).id
                  /\ line'[i].ans.val = limit'[Head(reqs).port]
                  /\ line'[i].kind = "SOP" => i = Len(line) + 1
  <2> DEFINE a == [id |-> Head(reqs).id, rtn |-> Head(reqs).rtn,
                   val |-> limit'[Head(reqs).port], good |-> ok]
  <2>0. a.id = Head(reqs).id /\ a.val = limit'[Head(reqs).port] /\ answering' = PacketOf(a)
    BY <1>4
  <2> HIDE DEF a
  <2>1. /\ Len(answering') = 3
        /\ \A k \in 1 .. 3 : /\ answering'[k].ans.id = Head(reqs).id
                             /\ answering'[k].ans.val = limit'[Head(reqs).port]
                             /\ answering'[k].kind = "SOP" => k = 1
    BY <2>0, PacketOfContent
  <2>2. /\ Len(line') = Len(rx) + 3
        /\ \A i \in 1 .. Len(rx) + 3 :
             line'[i] = IF i <= Len(rx) THEN rx[i] ELSE answering'[i - Len(rx)]
    <3> DEFINE s == answering'
    <3>1. line' = rx \o s
      BY <1>1 DEF line
    <3>2. s \in Seq(Segments) /\ Len(s) = 3
      BY <1>1, <2>1
    <3> HIDE DEF s
    <3>3. /\ Len(rx \o s) = Len(rx) + Len(s)
          /\ \A i \in 1 .. Len(rx) + Len(s) :
               (rx \o s)[i] = IF i <= Len(rx) THEN rx[i] ELSE s[i - Len(rx)]
      BY <1>1, <3>2, ConcatProperties
    <3>4. QED
      BY <3>1, <3>2, <3>3 DEF s
  <2>3. Len(rx) \in Nat
    BY <1>1
  <2>4. ASSUME NEW i \in Len(rx) + 1 .. Len(rx) + 3
        PROVE  line'[i] = answering'[i - Len(rx)] /\ i - Len(rx) \in 1 .. 3
    BY <2>2, <2>3
  <2>5. QED
    BY <1>2, <2>1, <2>2, <2>3, <2>4, SMTT(30)
<1>5. QED
  BY <1>3, <1>4 DEF CtrlPerform

-------------------------------------------------------------------------------
(* Who is on the line *)

LEMMA Alone ==
  ASSUME LineAssumption, SemaphoreMatches, NEW t \in Tasks, NEW u \in Tasks,
         OnLine(t), OnLine(u)
  PROVE  u = t
<1>1. Process[t] \in Processes /\ Process[u] = Process[t]
  BY LinkAssumption DEF LineAssumption
<1>2. QED
  BY <1>1 DEF SemaphoreMatches

LEMMA HuntsOnLine ==
  ASSUME NEW t \in Tasks, NEW id, HuntsFor(t, id) PROVE OnLine(t)
BY DEF HuntsFor, OnLine, Reading

(* While the line is used by a task that is not hunting in time, nothing   *)
(* is awaited.                                                             *)
LEMMA QuietOtherwise ==
  ASSUME LineAssumption, IInv, NEW t \in Tasks, OnLine(t), ~(pc[t] = "hunt" /\ ~expired[t])
  PROVE  Quiet
<1>1. \A u \in Tasks : \A id : ~HuntsFor(u, id)
  BY Alone, HuntsOnLine DEF IInv, HuntsFor
<1>2. QED
  BY <1>1 DEF Quiet, IInv, OwnAnswerInv, RequestAwaited, AnswerAwaited

(* A hunt that may be abandoned awaits nothing. *)
LEMMA QuietWhenAbandoned ==
  ASSUME LineAssumption, IInv, NEW t \in Tasks, pc[t] \in Reading, MayAbandon(t)
  PROVE  Quiet
<1>1. OnLine(t) /\ Prompt
  BY DEF OnLine, LineAssumption
<1>2. CASE ~(pc[t] = "hunt" /\ ~expired[t])
  BY <1>1, <1>2, QuietOtherwise
<1>3. CASE pc[t] = "hunt" /\ ~expired[t]
  <2>1. ~Outstanding(t)
    BY <1>1, <1>3 DEF MayAbandon
  <2>2. \A u \in Tasks : \A id : HuntsFor(u, id) => id = call[t].id
    BY <1>1, Alone, HuntsOnLine DEF IInv, HuntsFor
  <2>3. reqs = <<>>
    <3>1. SUFFICES ASSUME reqs # <<>> PROVE FALSE
      OBVIOUS
    <3>2. Len(reqs) = 1 /\ reqs[1].id = call[t].id
      BY <3>1, <2>2 DEF IInv, OwnAnswerInv, RequestAwaited
    <3>3. 1 \in DOMAIN reqs
      BY <3>2 DEF IInv, TypeOK
    <3>4. QED
      BY <2>1, <3>2, <3>3 DEF Outstanding
  <2>4. ASSUME NEW i \in DOMAIN line, Starts(i) PROVE FALSE
    <3>1. line[i].kind = "SOP" /\ line[i].ans.id = call[t].id
      BY <2>2, <2>4 DEF IInv, OwnAnswerInv, AnswerAwaited, Starts
    <3>2. rx \in Seq(Segments) /\ answering \in Seq(Segments)
      BY DEF IInv, TypeOK
    <3>3. /\ Len(line) = Len(rx) + Len(answering)
          /\ \A k \in 1 .. Len(rx) + Len(answering) :
               line[k] = IF k <= Len(rx) THEN rx[k] ELSE answering[k - Len(rx)]
      BY <3>2, ConcatProperties DEF line
    <3>4. i \in 1 .. Len(line)
      BY LineType DEF IInv
    <3>5. Len(rx) \in Nat /\ Len(answering) \in Nat
      BY <3>2
    <3>6. CASE i <= Len(rx)
      <4>1. i \in 1 .. Len(rx) /\ line[i] = rx[i]
        BY <3>3, <3>4, <3>5, <3>6
      <4>2. i \in DOMAIN rx
        BY <3>2, <4>1
      <4>3. QED
        BY <2>1, <3>1, <4>1, <4>2 DEF Outstanding
    <3>7. CASE ~(i <= Len(rx))
      <4>1. i - Len(rx) \in 1 .. Len(answering) /\ line[i] = answering[i - Len(rx)]
        BY <3>3, <3>4, <3>5, <3>7
      <4>2. i - Len(rx) \in DOMAIN answering
        BY <3>2, <4>1
      <4>3. QED
        BY <2>1, <3>1, <4>1, <4>2 DEF Outstanding
    <3>8. QED
      BY <3>6, <3>7
  <2>5. QED
    BY <2>3, <2>4 DEF Quiet
<1>4. QED
  BY <1>2, <1>3

(* A segment taken from a quiet line leaves it quiet. *)
LEMMA QuietTake ==
  ASSUME TypeOK, TypeOK', Quiet, NEW t \in Tasks, Take(t), UNCHANGED <<answering, reqs>>
  PROVE  Quiet'
<1>1. /\ Len(line') = Len(line) - 1
      /\ \A i \in 1 .. Len(line') : line'[i] = line[i + 1]
  BY LineTake
<1>2. DOMAIN line = 1 .. Len(line) /\ (DOMAIN line)' = 1 .. Len(line')
      /\ Len(line) \in Nat
  BY LineType
<1>3. ASSUME NEW i \in 1 .. Len(line') PROVE ~(line'[i].kind = "SOP")
  <2>1. i + 1 \in 1 .. Len(line)
    BY <1>1, <1>2
  <2>2. QED
    BY <1>1, <1>2, <2>1 DEF Quiet, Starts
<1>4. QED
  BY <1>2, <1>3 DEF Quiet, Starts

-------------------------------------------------------------------------------
(* What a step preserves *)

LineInv == RequestAwaited /\ AnswerAwaited /\ AnswerRead
CallInv == CallsDiffer /\ AnswerReceived /\ OwnAnswer

(* The line and the tasks reading from it stay as they are. *)
LEMMA LineFrame ==
  ASSUME LineInv, UNCHANGED <<reqs, line>>,
         \A u \in Tasks : pc[u] = "hunt" =>
           pc'[u] = "hunt" /\ call'[u] = call[u] /\ expired'[u] = expired[u],
         \A u \in Tasks : pc'[u] \in {"header", "body"} =>
           pc'[u] = pc[u] /\ call'[u] = call[u]
  PROVE  LineInv'
<1>1. \A u \in Tasks : \A id : HuntsFor(u, id) => HuntsFor(u, id)' /\ call'[u] = call[u]
  BY DEF HuntsFor
<1>2. RequestAwaited'
  BY <1>1 DEF LineInv, RequestAwaited, Starts
<1>3. AnswerAwaited'
  BY <1>1 DEF LineInv, AnswerAwaited, Starts
<1>4. AnswerRead'
  BY DEF LineInv, AnswerRead, Starts
<1>5. QED
  BY <1>2, <1>3, <1>4 DEF LineInv

(* A quiet line asks nothing of the tasks that do not read an answer. *)
LEMMA LineQuiet ==
  ASSUME Quiet', \A u \in Tasks : pc'[u] \notin {"header", "body"}
  PROVE  LineInv'
BY DEF Quiet, LineInv, RequestAwaited, AnswerAwaited, AnswerRead

(* The calls stay as they are, and a task that has received an answer had  *)
(* received it before.                                                     *)
LEMMA CallFrame ==
  ASSUME CallInv, UNCHANGED <<call, calls, outcome>>,
         \A u \in Tasks : pc'[u] # "idle" => pc[u] # "idle",
         \A u \in Tasks : pc'[u] \in {"verify", "accept"} =>
           pc[u] \in {"verify", "accept"} /\ packet'[Buffer(u)] = packet[Buffer(u)]
  PROVE  CallInv'
BY DEF CallInv, CallsDiffer, AnswerReceived, OwnAnswer, Buffer

(* Two calls are never received into one buffer, and no other task's call  *)
(* is received into the stack of a task.                                   *)
LEMMA BuffersDiffer ==
  ASSUME LineAssumption, CallsDiffer, NEW t \in Tasks, NEW u \in Tasks \ {t}, pc[u] # "idle"
  PROVE  /\ Buffer(u) # t
         /\ pc[t] # "idle" => Buffer(u) # Buffer(t)
         /\ Buffer(u) \in Tasks \cup Processes
<1>1. Process[t] \in Processes /\ Process[u] \in Processes /\ Tasks \cap Processes = {}
  BY LinkAssumption
<1>2. pc[t] # "idle" => ~(call[t].rtn = "INFO" /\ call[u].rtn = "INFO")
  BY DEF CallsDiffer, LineAssumption
<1>3. QED
  BY <1>1, <1>2 DEF Buffer

LEMMA CallReturn ==
  ASSUME TypeOK, CallInv, LineAssumption, NEW t \in Tasks, NEW status, NEW from, NEW val,
         Return(t, status, from, val), status = "ANSWERED" => from = call[t].id,
         UNCHANGED <<call, calls>>
  PROVE  CallInv'
<1>1. pc'[t] = "idle" /\ \A u \in Tasks \ {t} : pc'[u] = pc[u]
  BY DEF TypeOK, Return
<1>2. \A u \in Tasks \ {t} : packet'[u] = packet[u] /\ outcome'[u] = outcome[u]
  BY DEF TypeOK, Return
<1>3. outcome'[t] = [id |-> call[t].id, status |-> status, from |-> from, val |-> val]
  BY DEF TypeOK, Return
<1>4. CallsDiffer'
  BY <1>1 DEF CallInv, CallsDiffer
<1>5. AnswerReceived'
  <2>1. SUFFICES ASSUME NEW u \in Tasks \ {t}, pc[u] \in {"verify", "accept"}
                 PROVE  packet'[Buffer(u)] = packet[Buffer(u)] /\ Buffer(u)' = Buffer(u)
    BY <1>1 DEF CallInv, AnswerReceived
  <2>2. Buffer(u) # t
    BY <2>1, BuffersDiffer DEF CallInv
  <2>3. QED
    BY <2>2 DEF TypeOK, Return, Buffer
<1>6. OwnAnswer'
  <2>1. outcome'[t].status = "ANSWERED" => outcome'[t].from = outcome'[t].id
    BY <1>3
  <2>2. QED
    BY <1>2, <2>1 DEF CallInv, OwnAnswer
<1>7. QED
  BY <1>4, <1>5, <1>6 DEF CallInv

(* A failed receive returns an error or has the request sent again. *)
LEMMA CallFails ==
  ASSUME TypeOK, CallInv, LineAssumption, NEW t \in Tasks, pc[t] # "idle",
         NEW e \in Errors, ReceiveFailed(t, e), UNCHANGED calls
  PROVE  /\ CallInv' /\ pc'[t] \in {"idle", "lock"}
         /\ \A u \in Tasks \ {t} : pc'[u] = pc[u] /\ call'[u] = call[u]
<1>1. CASE /\ pc' = [pc EXCEPT ![t] = "lock"]
           /\ call' = [call EXCEPT ![t].try = 2]
           /\ UNCHANGED <<outcome, packet>>
  <2>1. /\ pc'[t] = "lock" /\ call'[t].id = call[t].id /\ call'[t].rtn = call[t].rtn
        /\ \A u \in Tasks \ {t} : pc'[u] = pc[u] /\ call'[u] = call[u]
    BY <1>1 DEF TypeOK, Calls
  <2>2. CallsDiffer'
    BY <2>1 DEF CallInv, CallsDiffer
  <2>3. AnswerReceived'
    BY <1>1, <2>1 DEF CallInv, AnswerReceived, Buffer
  <2>4. OwnAnswer'
    BY <1>1 DEF CallInv, OwnAnswer
  <2>5. QED
    BY <2>1, <2>2, <2>3, <2>4 DEF CallInv
<1>2. ASSUME NEW status \in Errors, Return(t, status, 0, NoVal), UNCHANGED call
      PROVE  /\ CallInv' /\ pc'[t] \in {"idle", "lock"}
             /\ \A u \in Tasks \ {t} : pc'[u] = pc[u] /\ call'[u] = call[u]
  <2>1. status # "ANSWERED"
    BY DEF Errors
  <2>2. CallInv'
    BY <1>2, <2>1, CallReturn
  <2>3. QED
    BY <1>2, <2>2 DEF Return, TypeOK
<1>3. QED
  BY <1>1, <1>2 DEF ReceiveFailed, Errors

LEMMA GiveUpInv ==
  ASSUME IInv, LineAssumption, NEW t \in Tasks, pc[t] \in Reading, NEW e \in Errors,
         GiveUp(t, e), UNCHANGED calls, Quiet'
  PROVE  LineInv' /\ CallInv'
<1>1. pc[t] # "idle" /\ OnLine(t) /\ TypeOK /\ CallInv
  BY DEF Reading, OnLine, IInv, OwnAnswerInv, CallInv
<1>2. CallInv' /\ pc'[t] \in {"idle", "lock"} /\ \A u \in Tasks \ {t} : pc'[u] = pc[u]
  BY <1>1, CallFails DEF GiveUp
<1>3. \A u \in Tasks : pc'[u] \notin {"header", "body"}
  <2>1. \A u \in Tasks \ {t} : ~OnLine(u)
    BY <1>1, Alone DEF IInv
  <2>2. QED
    BY <1>2, <2>1 DEF OnLine, Reading
<1>4. QED
  BY <1>2, <1>3, LineQuiet

-------------------------------------------------------------------------------
(* One lemma per step that reads from the line or writes to it *)

LEMMA SendInv ==
  ASSUME IInv, LineAssumption, NEW t \in Tasks, Send(t)
  PROVE  LineInv'
<1>1. OnLine(t) /\ Quiet
  BY QuietOtherwise DEF Send, OnLine, Reading
<1>2. UNCHANGED line /\ pc'[t] = "hunt" /\ \A u \in Tasks \ {t} : pc'[u] = pc[u]
  BY DEF Send, line, IInv, TypeOK
<1>3. ~expired'[t]
  BY DEF Send, IInv, OwnAnswerInv, FreshClock, Reading
<1>4. Len(reqs') = 1 /\ reqs'[1].id = call[t].id
  BY <1>1 DEF Quiet, Send
<1>5. HuntsFor(t, reqs[1].id)'
  BY <1>2, <1>3, <1>4 DEF HuntsFor, Send
<1>6. RequestAwaited'
  <2>1. \A i \in DOMAIN line' : ~(line'[i].kind = "SOP")
    BY <1>1, <1>2 DEF Quiet, Starts
  <2>2. QED
    BY <2>1, <1>4, <1>5 DEF RequestAwaited, Starts
<1>7. AnswerAwaited'
  BY <1>1, <1>2 DEF AnswerAwaited, Quiet, Starts
<1>8. AnswerRead'
  <2>1. \A u \in Tasks \ {t} : ~OnLine(u)
    BY <1>1, Alone DEF IInv
  <2>2. QED
    BY <1>2, <2>1 DEF AnswerRead, OnLine, Reading
<1>9. QED
  BY <1>6, <1>7, <1>8 DEF LineInv

(* The first character after a quiet stretch of the line, or the start of  *)
(* the answer the task waits for.                                          *)
LEMMA HuntInv ==
  ASSUME IInv, TypeOK', LineAssumption, NEW t \in Tasks, Hunt(t)
  PROVE  LineInv'
<1>1. /\ Len(line) > 0 /\ Head(rx) = line[1]
      /\ Len(line') = Len(line) - 1
      /\ \A i \in 1 .. Len(line') : line'[i] = line[i + 1]
  BY LineTake DEF Hunt, IInv
<1>2. DOMAIN line = 1 .. Len(line) /\ (DOMAIN line)' = 1 .. Len(line') /\ Len(line) \in Nat
  BY LineType DEF IInv
<1>3. /\ OnLine(t) /\ pc[t] = "hunt" /\ ~expired[t]
      /\ \A u \in Tasks \ {t} : pc'[u] = pc[u]
      /\ UNCHANGED <<reqs, call, expired>>
  BY DEF Hunt, OnLine, Reading, IInv, TypeOK
<1>4. \A u \in Tasks : OnLine(u) => u = t
  BY <1>3, Alone DEF IInv
<1>5. CASE line[1].kind = "SOP"
  <2>1. pc'[t] = "header"
    BY <1>1, <1>5 DEF Hunt, IInv, TypeOK
  <2>2. 1 \in DOMAIN line /\ Starts(1)
    BY <1>1, <1>2, <1>5 DEF Starts
  <2>3. reqs' = <<>>
    BY <1>3, <2>2 DEF IInv, OwnAnswerInv, RequestAwaited
  <2>4. /\ \A j \in DOMAIN line : Starts(j) => j = 1
        /\ \A j \in 1 .. Len(line) : line[j].ans.id = call[t].id
    BY <2>2, <1>4, HuntsOnLine DEF IInv, OwnAnswerInv, AnswerAwaited
  <2>5. ASSUME NEW i \in 1 .. Len(line')
        PROVE  line'[i].kind # "SOP" /\ line'[i].ans.id = call[t].id
    <3>1. i + 1 \in 1 .. Len(line) /\ i + 1 # 1 /\ line'[i] = line[i + 1]
      BY <1>1, <1>2
    <3>2. QED
      BY <1>2, <2>4, <3>1 DEF Starts
  <2>6. AnswerRead'
    BY <1>2, <1>3, <1>4, <2>5 DEF AnswerRead, Starts, OnLine, Reading
  <2>7. RequestAwaited' /\ AnswerAwaited'
    BY <1>2, <2>3, <2>5 DEF RequestAwaited, AnswerAwaited, Starts
  <2>8. QED
    BY <2>6, <2>7 DEF LineInv
<1>6. CASE line[1].kind # "SOP"
  <2>1. pc' = pc
    BY <1>1, <1>6 DEF Hunt, IInv, TypeOK
  <2>2. \A u \in Tasks : \A id : HuntsFor(u, id) => HuntsFor(u, id)'
    BY <1>3, <2>1 DEF HuntsFor
  <2>3. ASSUME NEW i \in 1 .. Len(line')
        PROVE  i + 1 \in 1 .. Len(line) /\ line'[i] = line[i + 1]
    BY <1>1, <1>2
  <2>4. RequestAwaited'
    BY <1>2, <1>3, <2>2, <2>3 DEF IInv, OwnAnswerInv, RequestAwaited, Starts
  <2>5. AnswerAwaited'
    <3>1. SUFFICES ASSUME NEW i \in 1 .. Len(line'), line'[i].kind = "SOP"
                   PROVE  /\ \A j \in 1 .. Len(line') : line'[j].kind = "SOP" => j = i
                          /\ \E u \in Tasks : /\ HuntsFor(u, line[i].ans.id)'
                                              /\ \A j \in i .. Len(line') :
                                                   line'[j].ans.id = call'[u].id
      BY <1>2 DEF AnswerAwaited, Starts
    <3>2. i + 1 \in DOMAIN line /\ Starts(i + 1) /\ line'[i] = line[i + 1]
      BY <1>2, <2>3, <3>1 DEF Starts
    <3>3. \A j \in DOMAIN line : Starts(j) => j = i + 1
      BY <3>2 DEF IInv, OwnAnswerInv, AnswerAwaited
    <3>4. ASSUME NEW j \in 1 .. Len(line'), line'[j].kind = "SOP" PROVE j = i
      <4>1. j + 1 \in DOMAIN line /\ Starts(j + 1)
        BY <1>2, <2>3, <3>4 DEF Starts
      <4>2. j + 1 = i + 1
        BY <3>3, <4>1
      <4>3. QED
        BY <4>2
    <3>5. PICK u \in Tasks : /\ HuntsFor(u, line[i + 1].ans.id)
                             /\ \A j \in i + 1 .. Len(line) : line[j].ans.id = call[u].id
      BY <3>2 DEF IInv, OwnAnswerInv, AnswerAwaited
    <3>6. ASSUME NEW j \in i .. Len(line') PROVE line'[j].ans.id = call'[u].id
      <4>1. j \in 1 .. Len(line') /\ j + 1 \in i + 1 .. Len(line)
        BY <1>1, <1>2
      <4>2. QED
        BY <1>3, <2>3, <3>5, <4>1
    <3>7. HuntsFor(u, line[i].ans.id)'
      BY <1>3, <2>1, <3>2, <3>5 DEF HuntsFor
    <3>8. QED
      BY <3>4, <3>6, <3>7
  <2>6. AnswerRead'
    BY <1>3, <1>4, <2>1 DEF AnswerRead, OnLine, Reading
  <2>7. QED
    BY <2>4, <2>5, <2>6 DEF LineInv
<1>7. QED
  BY <1>5, <1>6

LEMMA ReadHeaderInv ==
  ASSUME IInv, TypeOK', LineAssumption, NEW t \in Tasks, ReadHeader(t)
  PROVE  LineInv' /\ CallInv'
<1>1. OnLine(t) /\ Quiet /\ UNCHANGED <<answering, reqs, call, calls, outcome>>
  BY QuietOtherwise DEF ReadHeader, OnLine, Reading
<1>2. Quiet'
  BY <1>1, QuietTake DEF ReadHeader, IInv
<1>3. pc'[t] = "body" /\ \A u \in Tasks \ {t} : pc'[u] = pc[u]
  BY DEF ReadHeader, IInv, TypeOK
<1>4. AnswerRead'
  <2>1. /\ Len(line') = Len(line) - 1
        /\ \A i \in 1 .. Len(line') : line'[i] = line[i + 1]
    BY <1>1, LineTake DEF ReadHeader, IInv
  <2>2. DOMAIN line = 1 .. Len(line) /\ (DOMAIN line)' = 1 .. Len(line') /\ Len(line) \in Nat
    BY LineType DEF IInv
  <2>3. \A u \in Tasks : OnLine(u) => u = t
    BY <1>1, Alone DEF IInv
  <2>4. \A i \in 1 .. Len(line) : line[i].ans.id = call[t].id
    BY <2>2 DEF ReadHeader, IInv, OwnAnswerInv, AnswerRead
  <2>5. \A i \in 1 .. Len(line') : line'[i].ans.id = call[t].id
    <3>1. ASSUME NEW i \in 1 .. Len(line') PROVE i + 1 \in 1 .. Len(line)
      BY <2>1, <2>2
    <3>2. QED
      BY <2>1, <2>4, <3>1
  <2>6. QED
    BY <1>1, <1>2, <1>3, <2>2, <2>3, <2>5 DEF AnswerRead, Quiet, OnLine, Reading
<1>5. RequestAwaited' /\ AnswerAwaited'
  BY <1>2 DEF Quiet, RequestAwaited, AnswerAwaited
<1>6. CallInv'
  <2>1. pc[t] = "header"
    BY DEF ReadHeader
  <2>2. \A u \in Tasks \ {t} : pc[u] # "idle" => packet'[Buffer(u)] = packet[Buffer(u)]
    BY <2>1, BuffersDiffer DEF ReadHeader, IInv, TypeOK, OwnAnswerInv
  <2>3. CallInv
    BY DEF IInv, OwnAnswerInv, CallInv
  <2>5. QED
    BY <1>1, <1>3, <2>1, <2>2, <2>3, CallFrame
<1>7. QED
  BY <1>4, <1>5, <1>6 DEF LineInv

LEMMA ReadBodyInv ==
  ASSUME IInv, TypeOK', LineAssumption, NEW t \in Tasks, ReadBody(t)
  PROVE  LineInv' /\ CallInv'
<1>1. /\ OnLine(t) /\ Quiet /\ pc[t] = "body"
      /\ UNCHANGED <<answering, reqs, call, calls, outcome>>
  BY QuietOtherwise DEF ReadBody, OnLine, Reading
<1>2. Quiet'
  BY <1>1, QuietTake DEF ReadBody, IInv
<1>3. pc'[t] = "verify" /\ \A u \in Tasks \ {t} : pc'[u] = pc[u]
  BY DEF ReadBody, IInv, TypeOK
<1>4. \A u \in Tasks : pc'[u] \notin {"header", "body"}
  <2>1. \A u \in Tasks \ {t} : ~OnLine(u)
    BY <1>1, Alone DEF IInv
  <2>2. QED
    BY <1>3, <2>1 DEF OnLine, Reading
<1>5. LineInv'
  BY <1>2, <1>4, LineQuiet
<1>6. Buffer(t) \in Tasks \cup Processes
  BY LinkAssumption DEF Buffer
<1>7. packet'[Buffer(t)].body.ans.id = call[t].id
  <2>1. Len(line) > 0 /\ Head(rx) = line[1]
    BY <1>1, LineTake DEF ReadBody, IInv
  <2>2. 1 \in DOMAIN line
    BY <2>1, LineType DEF IInv
  <2>3. line[1].ans.id = call[t].id
    BY <1>1, <2>2 DEF IInv, OwnAnswerInv, AnswerRead
  <2>4. packet'[Buffer(t)].body = line[1]
    BY <1>6, <2>1 DEF ReadBody, IInv, TypeOK
  <2>5. QED
    BY <2>3, <2>4
<1>8. \A u \in Tasks \ {t} : pc[u] # "idle" => packet'[Buffer(u)] = packet[Buffer(u)]
  BY <1>1, BuffersDiffer DEF ReadBody, IInv, TypeOK, OwnAnswerInv
<1>9. AnswerReceived'
  BY <1>1, <1>3, <1>7, <1>8 DEF AnswerReceived, IInv, OwnAnswerInv, Buffer
<1>10. CallsDiffer'
  BY <1>1, <1>3 DEF CallsDiffer, IInv, OwnAnswerInv
<1>11. OwnAnswer'
  BY <1>1 DEF OwnAnswer, IInv, OwnAnswerInv
<1>12. QED
  BY <1>5, <1>9, <1>10, <1>11 DEF CallInv

(* The controller takes the request a task hunts for and puts its answer   *)
(* behind everything that is on the line.                                  *)
LEMMA PerformInv ==
  ASSUME IInv, TypeOK', LineAssumption, CtrlPerform
  PROVE  LineInv'
<1>1. /\ reqs # <<>> /\ Len(reqs) = 1 /\ reqs \in Seq(Requests)
      /\ \A i \in DOMAIN line : ~Starts(i)
  BY DEF CtrlPerform, IInv, TypeOK, OwnAnswerInv, RequestAwaited
<1>2. Head(reqs) = reqs[1] /\ reqs' = <<>>
  BY <1>1, HeadTailProperties DEF CtrlPerform
<1>3. UNCHANGED <<pc, call, expired>>
  BY DEF CtrlPerform
<1>4. PICK t \in Tasks : HuntsFor(t, reqs[1].id)
  BY <1>1 DEF IInv, OwnAnswerInv, RequestAwaited
<1>5. \A u \in Tasks : OnLine(u) => u = t
  BY <1>4, Alone, HuntsOnLine DEF IInv
<1>6. DOMAIN line = 1 .. Len(line) /\ (DOMAIN line)' = 1 .. Len(line') /\ Len(line) \in Nat
  BY LineType DEF IInv
<1>7. RequestAwaited'
  BY <1>2 DEF RequestAwaited
<1>8. AnswerRead'
  BY <1>3, <1>4, <1>5 DEF AnswerRead, HuntsFor, OnLine, Reading
<1>9. CASE line' = line
  BY <1>1, <1>7, <1>8, <1>9 DEF AnswerAwaited, Starts, LineInv
<1>10. CASE /\ Len(line') = Len(line) + 3
            /\ \A i \in 1 .. Len(line) : line'[i] = line[i]
            /\ \A i \in Len(line) + 1 .. Len(line) + 3 :
                 /\ line'[i].ans.id = Head(reqs).id
                 /\ line'[i].kind = "SOP" => i = Len(line) + 1
  <2>1. ASSUME NEW i \in 1 .. Len(line'), line'[i].kind = "SOP"
        PROVE  i = Len(line) + 1
    <3>1. CASE i \in 1 .. Len(line)
      BY <1>1, <1>6, <1>10, <2>1, <3>1 DEF Starts
    <3>2. CASE i \in Len(line) + 1 .. Len(line) + 3
      BY <1>10, <2>1, <3>2
    <3>3. QED
      BY <1>6, <1>10, <3>1, <3>2
  <2>2. \A j \in Len(line) + 1 .. Len(line') : line'[j].ans.id = call[t].id
    BY <1>2, <1>4, <1>10 DEF HuntsFor
  <2>3. ASSUME NEW i \in 1 .. Len(line'), line'[i].kind = "SOP"
        PROVE  HuntsFor(t, line[i].ans.id)'
    <3>1. line'[i].ans.id = call[t].id
      BY <1>6, <1>10, <2>1, <2>2, <2>3
    <3>2. QED
      BY <1>3, <1>4, <3>1 DEF HuntsFor
  <2>4. AnswerAwaited'
    BY <1>3, <1>6, <2>1, <2>2, <2>3 DEF AnswerAwaited, Starts
  <2>5. QED
    BY <1>7, <1>8, <2>4 DEF LineInv
<1>11. QED
  BY <1>9, <1>10, LinePerform DEF IInv

-------------------------------------------------------------------------------
(* Every step of a task *)

LEMMA TaskInv ==
  ASSUME IInv, TypeOK', LineAssumption, NEW t \in Tasks, TaskNext(t)
  PROVE  LineInv' /\ CallInv'
<1>0. TypeOK /\ LineInv /\ CallInv
  BY DEF IInv, OwnAnswerInv, LineInv, CallInv
<1>1. CASE Begin(t)
  <2>1. /\ pc[t] = "idle" /\ pc'[t] = "lock" /\ \A u \in Tasks \ {t} : pc'[u] = pc[u]
        /\ call'[t].id = calls + 1 /\ (call'[t].rtn = "INFO" => t \in InfoTasks) /\ \A u \in Tasks \ {t} : call'[u] = call[u]
        /\ calls' = calls + 1 /\ UNCHANGED <<expired, packet, outcome, reqs, line>>
    BY <1>0, <1>1 DEF Begin, TypeOK, lineVars, line
  <2>2. LineInv'
    BY <1>0, <2>1, LineFrame
  <2>3. calls \in Nat
    BY <1>0, LinkAssumption DEF TypeOK, CallIds
  <2>4. CallsDiffer'
    <3>1. \A u \in Tasks \ {t} : pc[u] # "idle" => call[u].id <= calls /\ call[u].id \in Nat
      BY <1>0, SMTT(30) DEF CallInv, CallsDiffer, TypeOK, Calls, CallIds
    <3>2. QED
      BY <1>0, <2>1, <2>3, <3>1 DEF CallInv, CallsDiffer
  <2>5. AnswerReceived' /\ OwnAnswer'
    BY <1>0, <2>1 DEF CallInv, AnswerReceived, OwnAnswer, Buffer
  <2>6. QED
    BY <2>2, <2>4, <2>5 DEF CallInv
<1>2. CASE Lock(t)
  <2>1. /\ pc[t] = "lock" /\ pc'[t] = "send" /\ \A u \in Tasks \ {t} : pc'[u] = pc[u]
        /\ UNCHANGED <<call, expired, packet, outcome, reqs, line, calls>>
    BY <1>0, <1>2 DEF Lock, TypeOK, lineVars, line
  <2>2. QED
    BY <1>0, <2>1, LineFrame, CallFrame
<1>3. CASE Send(t)
  <2>1. /\ pc[t] = "send" /\ pc'[t] = "hunt" /\ \A u \in Tasks \ {t} : pc'[u] = pc[u]
        /\ UNCHANGED <<call, packet, outcome, calls>>
    BY <1>0, <1>3 DEF Send, TypeOK
  <2>2. QED
    BY <1>0, <1>3, <2>1, SendInv, CallFrame
<1>4. CASE SendFails(t)
  <2>1. /\ pc[t] = "send" /\ pc'[t] = "idle" /\ \A u \in Tasks \ {t} : pc'[u] = pc[u]
        /\ UNCHANGED <<call, expired, reqs, line, calls>>
        /\ Return(t, "WRITE", 0, NoVal)
    BY <1>0, <1>4 DEF SendFails, Return, TypeOK, lineVars, line
  <2>2. QED
    BY <1>0, <2>1, LineFrame, CallReturn
<1>5. CASE TakeTooLate(t)
  <2>1. Quiet
    BY <1>5, QuietOtherwise DEF TakeTooLate, OnLine
  <2>2. Quiet'
    BY <1>0, <1>5, <2>1, QuietTake DEF TakeTooLate
  <2>3. QED
    BY <1>5, <2>2, GiveUpInv DEF TakeTooLate, Errors
<1>6. CASE Hunt(t)
  <2>1. /\ pc[t] = "hunt" /\ pc'[t] \in {"hunt", "header"}
        /\ \A u \in Tasks \ {t} : pc'[u] = pc[u]
        /\ UNCHANGED <<call, packet, outcome, calls>>
    BY <1>0, <1>6 DEF Hunt, TypeOK
  <2>2. QED
    BY <1>0, <1>6, <2>1, HuntInv, CallFrame
<1>7. CASE ReadHeader(t)
  BY <1>7, ReadHeaderInv
<1>8. CASE ReadBody(t)
  BY <1>8, ReadBodyInv
<1>9. CASE ReadNothing(t)
  <2>1. Quiet /\ UNCHANGED <<reqs, line>>
    BY <1>9, QuietOtherwise DEF ReadNothing, OnLine, lineVars, line
  <2>2. Quiet'
    BY <2>1 DEF Quiet, Starts
  <2>3. QED
    BY <1>9, <2>2, GiveUpInv DEF ReadNothing, Errors
<1>10. CASE ReadFails(t)
  <2>1. Quiet /\ UNCHANGED <<reqs, line>>
    BY <1>10, QuietWhenAbandoned DEF ReadFails, lineVars, line
  <2>2. Quiet'
    BY <2>1 DEF Quiet, Starts
  <2>3. QED
    BY <1>10, <2>2, GiveUpInv DEF ReadFails, Errors
<1>11. CASE Expire(t)
  <2>1. /\ pc[t] \in Reading /\ Quiet
        /\ UNCHANGED <<pc, call, packet, outcome, reqs, line, calls>>
        /\ \A u \in Tasks \ {t} : expired'[u] = expired[u]
    BY <1>0, <1>11, QuietWhenAbandoned DEF Expire, TypeOK, lineVars, line
  <2>2. CallInv'
    BY <1>0, <2>1, CallFrame
  <2>3. CASE pc[t] = "hunt"
    <3>1. Quiet'
      BY <2>1 DEF Quiet, Starts
    <3>2. \A u \in Tasks \ {t} : ~OnLine(u)
      BY <2>1, Alone DEF IInv, OnLine
    <3>3. \A u \in Tasks : pc'[u] \notin {"header", "body"}
      BY <2>1, <2>3, <3>2 DEF OnLine, Reading
    <3>4. QED
      BY <2>2, <3>1, <3>3, LineQuiet
  <2>4. CASE pc[t] # "hunt"
    BY <1>0, <2>1, <2>2, <2>4, LineFrame
  <2>5. QED
    BY <2>3, <2>4
<1>12. CASE Verify(t)
  <2>1. /\ pc[t] = "verify" /\ UNCHANGED <<expired, reqs, line, calls>>
    BY <1>12 DEF Verify, lineVars, line
  <2>2. CASE /\ pc' = [pc EXCEPT ![t] = "accept"]
             /\ UNCHANGED <<call, outcome, packet>>
    <3>1. pc'[t] = "accept" /\ \A u \in Tasks \ {t} : pc'[u] = pc[u]
      BY <1>0, <2>2 DEF TypeOK
    <3>2. QED
      BY <1>0, <2>1, <2>2, <3>1, LineFrame, CallFrame
  <2>3. CASE ReceiveFailed(t, "INVALID")
    <3>1. /\ CallInv' /\ pc'[t] \in {"idle", "lock"}
          /\ \A u \in Tasks \ {t} : pc'[u] = pc[u] /\ call'[u] = call[u]
      BY <1>0, <2>1, <2>3, CallFails DEF Errors
    <3>2. QED
      BY <1>0, <2>1, <3>1, LineFrame
  <2>4. QED
    BY <1>12, <2>2, <2>3 DEF Verify
<1>13. CASE Accept(t)
  <2>1. pc[t] = "accept"
    BY <1>13 DEF Accept
  <2>2. packet[Buffer(t)].body.ans.id = call[t].id
    BY <1>0, <2>1 DEF CallInv, AnswerReceived
  <2>3. UNCHANGED <<call, expired, reqs, line, calls>>
    BY <1>13 DEF Accept, lineVars, line
  <2>4. \/ Return(t, "ANSWERED", call[t].id, packet[Buffer(t)].body.ans.val)
        \/ Return(t, "INVALID", 0, NoVal)
    BY <1>13, <2>2 DEF Accept
  <2>5. CallInv'
    BY <1>0, <2>3, <2>4, CallReturn
  <2>6. pc'[t] = "idle" /\ \A u \in Tasks \ {t} : pc'[u] = pc[u]
    BY <1>0, <2>4 DEF Return, TypeOK
  <2>7. QED
    BY <1>0, <2>1, <2>3, <2>5, <2>6, LineFrame
<1>14. QED
  BY <1>1, <1>2, <1>3, <1>4, <1>5, <1>6, <1>7, <1>8, <1>9, <1>10, <1>11, <1>12, <1>13
     DEF TaskNext, Receive

LEMMA ClockTask ==
  ASSUME IInv, NEW t \in Tasks, TaskNext(t)
  PROVE  FreshClock'
<1>0. TypeOK /\ FreshClock
  BY DEF IInv, OwnAnswerInv
<1>1. CASE \E e \in Errors : pc[t] \in Reading /\ GiveUp(t, e)
  <2>1. \A u \in Tasks \ {t} : pc'[u] = pc[u] /\ expired'[u] = expired[u]
    BY <1>0, <1>1, ReceiveFailedType DEF GiveUp, TypeOK, Reading
  <2>2. ~expired'[t]
    BY <1>0, <1>1 DEF GiveUp, TypeOK
  <2>3. QED
    BY <1>0, <2>1, <2>2 DEF FreshClock
<1>2. CASE /\ ~expired[t] /\ UNCHANGED expired
           /\ \A u \in Tasks \ {t} : pc'[u] = pc[u]
  BY <1>0, <1>2 DEF FreshClock
<1>3. CASE Expire(t)
  BY <1>0, <1>3 DEF Expire, FreshClock, TypeOK
<1>4. CASE Begin(t) \/ Lock(t) \/ Send(t) \/ SendFails(t) \/ Verify(t) \/ Accept(t)
  <2>1. ~expired[t] /\ UNCHANGED expired
    BY <1>0, <1>4
       DEF FreshClock, Reading, Begin, Lock, Send, SendFails, Verify, Accept
  <2>2. \A u \in Tasks \ {t} : pc'[u] = pc[u]
    BY <1>0, <1>4
       DEF TypeOK, Begin, Lock, Send, SendFails, Verify, Accept, Return, ReceiveFailed
  <2>3. QED
    BY <2>1, <2>2, <1>2
<1>5. CASE Hunt(t) \/ ReadHeader(t) \/ ReadBody(t)
  <2>1. ~expired[t] /\ UNCHANGED expired /\ \A u \in Tasks \ {t} : pc'[u] = pc[u]
    BY <1>0, <1>5 DEF TypeOK, Hunt, ReadHeader, ReadBody
  <2>2. QED
    BY <2>1, <1>2
<1>6. CASE TakeTooLate(t) \/ ReadNothing(t) \/ ReadFails(t)
  BY <1>1, <1>6 DEF TakeTooLate, ReadNothing, ReadFails, Errors
<1>7. QED
  BY <1>3, <1>4, <1>5, <1>6 DEF TaskNext, Receive

LEMMA OwnAnswerNext ==
  ASSUME IInv, TypeOK', LineAssumption, [Next]_vars
  PROVE  OwnAnswerInv'
<1>0. TypeOK /\ LineInv /\ CallInv /\ FreshClock
  BY DEF IInv, OwnAnswerInv, LineInv, CallInv
<1>1. SUFFICES LineInv' /\ CallInv' /\ FreshClock'
  BY DEF OwnAnswerInv, LineInv, CallInv
<1>2. ASSUME NEW t \in Tasks, TaskNext(t) PROVE LineInv' /\ CallInv' /\ FreshClock'
  BY <1>2, TaskInv, ClockTask
<1>3. CASE CtrlPerform
  <2>1. UNCHANGED <<pc, call, expired, packet, outcome, calls>>
    BY <1>3 DEF CtrlPerform
  <2>2. QED
    BY <1>0, <1>3, <2>1, PerformInv, CallFrame DEF FreshClock
<1>4. CASE LoseRequest
  <2>1. UNCHANGED <<pc, call, expired, packet, outcome, calls, line>>
    BY <1>4 DEF LoseRequest, line
  <2>2. reqs' = <<>>
    <3>1. reqs # <<>> /\ Len(reqs) = 1 /\ reqs \in Seq(Requests) /\ reqs' = Tail(reqs)
      BY <1>0, <1>4 DEF LoseRequest, TypeOK, LineInv, RequestAwaited
    <3>2. reqs' \in Seq(Requests) /\ Len(reqs') = 0
      BY <3>1, HeadTailProperties
    <3>3. QED
      BY <3>2, EmptySeq
  <2>3. RequestAwaited'
    BY <2>2 DEF RequestAwaited
  <2>4. AnswerAwaited' /\ AnswerRead'
    BY <1>0, <2>1 DEF LineInv, AnswerAwaited, AnswerRead, HuntsFor, Starts
  <2>5. CallInv' /\ FreshClock'
    BY <1>0, <2>1, CallFrame DEF FreshClock
  <2>6. QED
    BY <2>3, <2>4, <2>5 DEF LineInv
<1>5. CASE Deliver \/ Finished \/ UNCHANGED vars
  <2>1. UNCHANGED <<pc, call, expired, packet, outcome, calls, reqs, line>>
    BY <1>0, <1>5, LineDeliver DEF Deliver, Finished, vars, line
  <2>2. QED
    BY <1>0, <2>1, LineFrame, CallFrame DEF FreshClock
<1>6. QED
  BY <1>2, <1>3, <1>4, <1>5 DEF Next

LEMMA OwnAnswerInit == ASSUME Init PROVE OwnAnswerInv
<1>1. reqs = <<>> /\ line = <<>> /\ \A t \in Tasks : pc[t] = "idle" /\ ~expired[t]
  BY DEF Init, line
<1>2. \A t \in Tasks : outcome[t].status = "NONE"
  BY DEF Init
<1>3. DOMAIN line = {}
  BY <1>1
<1>4. QED
  BY <1>1, <1>2, <1>3
     DEF OwnAnswerInv, CallsDiffer, FreshClock, RequestAwaited, AnswerAwaited, AnswerRead,
         AnswerReceived, OwnAnswer, Reading

(* With prompt answers, one process and one user of PortInfoPacket, the    *)
(* invariant that says whose answer is where on the line always holds.     *)
THEOREM OwnAnswerInvCorrect ==
  ASSUME LineAssumption PROVE Spec => []OwnAnswerInv
<1>1. Init => OwnAnswerInv
  BY OwnAnswerInit
<1>2. TypeOK /\ TypeOK' /\ SemaphoreMatches /\ OwnAnswerInv /\ [Next]_vars => OwnAnswerInv'
  BY LineAssumption, OwnAnswerNext DEF IInv
<1>3. QED
  BY <1>1, <1>2, TypeCorrect, SemaphoreCorrect, PTL DEF Spec

(* A successful call returns the answer to its own request, although an    *)
(* answer carries nothing that says whose it is.                           *)
THEOREM OwnAnswerCorrect ==
  ASSUME LineAssumption PROVE Spec => []OwnAnswer
<1>1. OwnAnswerInv => OwnAnswer
  BY DEF OwnAnswerInv
<1>2. QED
  BY <1>1, OwnAnswerInvCorrect, PTL

-------------------------------------------------------------------------------
(* Under the same conditions the link implements the service: what a       *)
(* successful call returns is not only of its own request, it is what the  *)
(* controller computed last for it.                                        *)

(* A request on its way is the hunter's; a set was not carried out yet.    *)
RequestServed ==
  \A t \in Tasks : reqs # <<>> /\ HuntsFor(t, reqs[1].id) =>
    /\ reqs[1].rtn = call[t].rtn /\ reqs[1].port = call[t].port /\ reqs[1].val = call[t].val
    /\ call[t].rtn = "SET" => served[t] = NoVal

(* An answer on its way, from its start on, is what was computed.          *)
StartServed ==
  \A t \in Tasks : \A i \in DOMAIN line : Starts(i) /\ HuntsFor(t, line[i].ans.id) =>
    served[t] \in Values /\ \A j \in i .. Len(line) : line[j].ans.val = served[t]

(* So is what is left of an answer being read.                             *)
ReadServed ==
  \A t \in Tasks : pc[t] \in {"header", "body"} =>
    served[t] \in Values /\ \A i \in DOMAIN line : line[i].ans.val = served[t]

(* So is an answer that was received.                                      *)
ReceivedServed ==
  \A t \in Tasks : pc[t] \in {"verify", "accept"} =>
    served[t] \in Values /\ packet[Buffer(t)].body.ans.val = served[t]

(* A set that has not been sent was not carried out.                       *)
SetUnserved ==
  \A t \in Tasks : pc[t] \in {"lock", "send"} /\ call[t].rtn = "SET" => served[t] = NoVal

LineServed == RequestServed /\ StartServed /\ ReadServed
CallServed == ReceivedServed /\ SetUnserved
ServedInv  == LineServed /\ CallServed

(* The line stays as it is, and so do hunts and receives.                  *)
LEMMA LineServedFrame ==
  ASSUME LineServed, UNCHANGED <<reqs, line>>,
         \A u \in Tasks : pc'[u] = "hunt" /\ ~expired'[u] =>
           pc[u] = "hunt" /\ ~expired[u] /\ call'[u] = call[u] /\ served'[u] = served[u],
         \A u \in Tasks : pc'[u] \in {"header", "body"} =>
           pc[u] \in {"header", "body"} /\ served'[u] = served[u]
  PROVE  LineServed'
<1>1. \A u \in Tasks : \A id :
        HuntsFor(u, id)' => HuntsFor(u, id) /\ call'[u] = call[u] /\ served'[u] = served[u]
  BY DEF HuntsFor
<1>2. RequestServed'
  <2>1. SUFFICES ASSUME NEW u \in Tasks, reqs # <<>>, HuntsFor(u, reqs[1].id)'
                 PROVE  /\ reqs[1].rtn = call'[u].rtn /\ reqs[1].port = call'[u].port
                        /\ reqs[1].val = call'[u].val
                        /\ call'[u].rtn = "SET" => served'[u] = NoVal
    BY DEF RequestServed
  <2>2. HuntsFor(u, reqs[1].id) /\ call'[u] = call[u] /\ served'[u] = served[u]
    BY <1>1, <2>1
  <2>3. QED
    BY <2>1, <2>2 DEF LineServed, RequestServed
<1>3. StartServed'
  <2>1. SUFFICES ASSUME NEW u \in Tasks, NEW i \in DOMAIN line, Starts(i),
                        HuntsFor(u, line[i].ans.id)'
                 PROVE  served'[u] \in Values
                        /\ \A j \in i .. Len(line) : line[j].ans.val = served'[u]
    BY DEF StartServed, Starts
  <2>2. HuntsFor(u, line[i].ans.id) /\ served'[u] = served[u]
    BY <1>1, <2>1
  <2>3. QED
    BY <2>1, <2>2 DEF LineServed, StartServed
<1>4. ReadServed'
  BY DEF LineServed, ReadServed
<1>5. QED
  BY <1>2, <1>3, <1>4 DEF LineServed

LEMMA LineServedQuiet ==
  ASSUME Quiet', \A u \in Tasks : pc'[u] \notin {"header", "body"}
  PROVE  LineServed'
BY DEF Quiet, LineServed, RequestServed, StartServed, ReadServed

LEMMA CallServedFrame ==
  ASSUME CallServed,
         \A u \in Tasks : pc'[u] \in {"verify", "accept"} =>
           /\ pc[u] \in {"verify", "accept"} /\ call'[u] = call[u] /\ served'[u] = served[u]
           /\ packet'[Buffer(u)] = packet[Buffer(u)],
         \A u \in Tasks : pc'[u] \in {"lock", "send"} =>
           \/ call'[u].rtn # "SET"
           \/ served'[u] = NoVal
           \/ pc[u] \in {"lock", "send"} /\ call'[u] = call[u] /\ served'[u] = served[u]
  PROVE  CallServed'
<1>1. ReceivedServed'
  BY DEF CallServed, ReceivedServed, Buffer
<1>2. SetUnserved'
  BY DEF CallServed, SetUnserved
<1>3. QED
  BY <1>1, <1>2 DEF CallServed

LEMMA ReturnServed ==
  ASSUME TypeOK, CallInv, CallServed, LineAssumption, NEW t \in Tasks,
         NEW status, NEW from, NEW val, Return(t, status, from, val), UNCHANGED <<call, served>>
  PROVE  CallServed'
<1>1. pc'[t] = "idle" /\ \A u \in Tasks \ {t} : pc'[u] = pc[u]
  BY DEF TypeOK, Return
<1>2. ASSUME NEW u \in Tasks \ {t}, pc[u] # "idle" PROVE packet'[Buffer(u)] = packet[Buffer(u)]
  <2>1. Buffer(u) # t
    BY <1>2, BuffersDiffer DEF CallInv
  <2>2. QED
    BY <2>1 DEF TypeOK, Return
<1>3. QED
  BY <1>1, <1>2, CallServedFrame

(* Only get_poe_port_info comes back to send again, and that sets nothing. *)
LEMMA FailServed ==
  ASSUME TypeOK, CallInv, CallServed, LineAssumption, NEW t \in Tasks, NEW e,
         ReceiveFailed(t, e), UNCHANGED served
  PROVE  CallServed'
<1>1. CASE /\ MayRetry(t) /\ pc' = [pc EXCEPT ![t] = "lock"]
           /\ call' = [call EXCEPT ![t].try = 2]
           /\ UNCHANGED <<outcome, packet>>
  <2>1. /\ pc'[t] = "lock" /\ call'[t].rtn = call[t].rtn /\ call[t].rtn = "INFO"
        /\ \A u \in Tasks \ {t} : pc'[u] = pc[u] /\ call'[u] = call[u]
    BY <1>1 DEF TypeOK, Calls, MayRetry, NoCall
  <2>2. QED
    BY <1>1, <2>1, CallServedFrame
<1>2. ASSUME NEW status, Return(t, status, 0, NoVal), UNCHANGED call PROVE CallServed'
  BY <1>2, ReturnServed
<1>3. QED
  BY <1>1, <1>2 DEF ReceiveFailed

LEMMA GiveUpServed ==
  ASSUME IInv, CallServed, LineAssumption, NEW t \in Tasks, pc[t] \in Reading, NEW e \in Errors,
         GiveUp(t, e), UNCHANGED served, Quiet'
  PROVE  LineServed' /\ CallServed'
<1>1. pc[t] # "idle" /\ OnLine(t) /\ TypeOK /\ CallInv
  BY DEF Reading, OnLine, IInv, OwnAnswerInv, CallInv
<1>2. pc'[t] \in {"idle", "lock"} /\ \A u \in Tasks \ {t} : pc'[u] = pc[u]
  BY <1>1, ReceiveFailedType DEF GiveUp
<1>3. \A u \in Tasks \ {t} : ~OnLine(u)
  BY <1>1, Alone DEF IInv
<1>4. \A u \in Tasks : pc'[u] \notin {"header", "body"}
  BY <1>2, <1>3 DEF OnLine, Reading
<1>5. QED
  BY <1>1, <1>4, LineServedQuiet, FailServed DEF GiveUp

LEMMA SendServed ==
  ASSUME IInv, ServedInv, LineAssumption, NEW t \in Tasks, Send(t)
  PROVE  LineServed'
<1>1. OnLine(t) /\ Quiet
  BY QuietOtherwise DEF Send, OnLine, Reading
<1>2. UNCHANGED line /\ pc[t] = "send" /\ pc'[t] = "hunt" /\ \A u \in Tasks \ {t} : pc'[u] = pc[u]
  BY DEF Send, line, IInv, TypeOK
<1>3. \A u \in Tasks \ {t} : ~OnLine(u)
  BY <1>1, Alone DEF IInv
<1>4. \A u \in Tasks \ {t} : pc'[u] \notin {"hunt", "header", "body"}
  BY <1>2, <1>3 DEF OnLine, Reading
<1>5. reqs'[1] = [id |-> call[t].id, rtn |-> call[t].rtn, port |-> call[t].port, val |-> call[t].val]
  BY <1>1 DEF Quiet, Send
<1>6. call[t].rtn = "SET" => served[t] = NoVal
  BY <1>2 DEF ServedInv, CallServed, SetUnserved
<1>7. RequestServed'
  BY <1>4, <1>5, <1>6 DEF Send, devVars, RequestServed, HuntsFor
<1>8. StartServed'
  BY <1>1, <1>2 DEF StartServed, Quiet, Starts
<1>9. ReadServed'
  BY <1>2, <1>4 DEF ReadServed
<1>10. QED
  BY <1>7, <1>8, <1>9 DEF LineServed

LEMMA HuntServed ==
  ASSUME IInv, TypeOK', ServedInv, LineAssumption, NEW t \in Tasks, Hunt(t)
  PROVE  LineServed'
<1>1. /\ Len(line) > 0 /\ Head(rx) = line[1]
      /\ Len(line') = Len(line) - 1
      /\ \A i \in 1 .. Len(line') : line'[i] = line[i + 1]
  BY LineTake DEF Hunt, IInv
<1>2. DOMAIN line = 1 .. Len(line) /\ (DOMAIN line)' = 1 .. Len(line') /\ Len(line) \in Nat
  BY LineType DEF IInv
<1>3. /\ OnLine(t) /\ pc[t] = "hunt" /\ ~expired[t]
      /\ \A u \in Tasks \ {t} : pc'[u] = pc[u]
      /\ UNCHANGED <<reqs, call, expired, served>>
  BY DEF Hunt, OnLine, Reading, IInv, TypeOK, devVars
<1>4. \A u \in Tasks \ {t} : pc[u] \notin {"hunt", "header", "body"}
  BY <1>3, Alone DEF IInv, OnLine, Reading
<1>5. ASSUME NEW i \in 1 .. Len(line') PROVE i + 1 \in 1 .. Len(line) /\ line'[i] = line[i + 1]
  BY <1>1, <1>2
<1>6. CASE line[1].kind = "SOP"
  <2>1. pc'[t] = "header"
    BY <1>1, <1>6 DEF Hunt, IInv, TypeOK
  <2>2. 1 \in DOMAIN line /\ Starts(1)
    BY <1>1, <1>2, <1>6 DEF Starts
  <2>3. \E u \in Tasks : HuntsFor(u, line[1].ans.id)
    BY <2>2 DEF IInv, OwnAnswerInv, AnswerAwaited
  <2>4. HuntsFor(t, line[1].ans.id)
    BY <1>4, <2>3 DEF HuntsFor
  <2>5. served[t] \in Values /\ \A j \in 1 .. Len(line) : line[j].ans.val = served[t]
    BY <2>2, <2>4 DEF ServedInv, LineServed, StartServed
  <2>6. ReadServed'
    BY <1>2, <1>3, <1>4, <1>5, <2>5 DEF ReadServed
  <2>7. RequestServed' /\ StartServed'
    BY <1>3, <1>4, <2>1 DEF RequestServed, StartServed, HuntsFor
  <2>8. QED
    BY <2>6, <2>7 DEF LineServed
<1>7. CASE line[1].kind # "SOP"
  <2>1. pc' = pc
    BY <1>1, <1>7 DEF Hunt, IInv, TypeOK
  <2>2. RequestServed'
    BY <1>3, <2>1 DEF ServedInv, LineServed, RequestServed, HuntsFor
  <2>3. ReadServed'
    BY <1>3, <1>4, <2>1 DEF ReadServed
  <2>4. StartServed'
    <3>1. SUFFICES ASSUME NEW u \in Tasks, NEW i \in 1 .. Len(line'), line'[i].kind = "SOP",
                          HuntsFor(u, line[i].ans.id)'
                   PROVE  served[u] \in Values
                          /\ \A j \in i .. Len(line') : line'[j].ans.val = served[u]
      BY <1>2, <1>3 DEF StartServed, Starts
    <3>2. i + 1 \in DOMAIN line /\ Starts(i + 1) /\ HuntsFor(u, line[i + 1].ans.id)
      BY <1>2, <1>3, <1>5, <2>1, <3>1 DEF Starts, HuntsFor
    <3>3. served[u] \in Values /\ \A j \in i + 1 .. Len(line) : line[j].ans.val = served[u]
      BY <3>2 DEF ServedInv, LineServed, StartServed
    <3>4. ASSUME NEW j \in i .. Len(line') PROVE line'[j].ans.val = served[u]
      <4>1. j \in 1 .. Len(line') /\ j + 1 \in i + 1 .. Len(line)
        BY <1>1, <1>2
      <4>2. QED
        BY <1>5, <3>3, <4>1
    <3>5. QED
      BY <3>3, <3>4
  <2>5. QED
    BY <2>2, <2>3, <2>4 DEF LineServed
<1>8. QED
  BY <1>6, <1>7

LEMMA ReadHeaderServed ==
  ASSUME IInv, TypeOK', ServedInv, LineAssumption, NEW t \in Tasks, ReadHeader(t)
  PROVE  LineServed' /\ CallServed'
<1>1. /\ OnLine(t) /\ Quiet /\ pc[t] = "header"
      /\ UNCHANGED <<answering, reqs, call, served>>
  BY QuietOtherwise DEF ReadHeader, OnLine, Reading, devVars
<1>2. Quiet'
  BY <1>1, QuietTake DEF ReadHeader, IInv
<1>3. pc'[t] = "body" /\ \A u \in Tasks \ {t} : pc'[u] = pc[u]
  BY DEF ReadHeader, IInv, TypeOK
<1>4. \A u \in Tasks \ {t} : pc[u] \notin {"header", "body"}
  BY <1>1, Alone DEF IInv, OnLine, Reading
<1>5. ReadServed'
  <2>1. /\ Len(line') = Len(line) - 1
        /\ \A i \in 1 .. Len(line') : line'[i] = line[i + 1]
    BY <1>1, LineTake DEF ReadHeader, IInv
  <2>2. DOMAIN line = 1 .. Len(line) /\ (DOMAIN line)' = 1 .. Len(line') /\ Len(line) \in Nat
    BY LineType DEF IInv
  <2>3. served[t] \in Values /\ \A i \in 1 .. Len(line) : line[i].ans.val = served[t]
    BY <1>1, <2>2 DEF ServedInv, LineServed, ReadServed
  <2>4. ASSUME NEW i \in 1 .. Len(line') PROVE line'[i].ans.val = served[t]
    <3>1. i + 1 \in 1 .. Len(line)
      BY <2>1, <2>2
    <3>2. QED
      BY <2>1, <2>3, <3>1
  <2>5. QED
    BY <1>1, <1>3, <1>4, <2>2, <2>3, <2>4 DEF ReadServed
<1>6. RequestServed' /\ StartServed'
  BY <1>2 DEF Quiet, RequestServed, StartServed
<1>7. \A u \in Tasks \ {t} : pc[u] # "idle" => packet'[Buffer(u)] = packet[Buffer(u)]
  BY <1>1, BuffersDiffer DEF ReadHeader, IInv, TypeOK, OwnAnswerInv
<1>8. CallServed'
  BY <1>1, <1>3, <1>7, CallServedFrame DEF ServedInv
<1>9. QED
  BY <1>5, <1>6, <1>8 DEF LineServed

LEMMA ReadBodyServed ==
  ASSUME IInv, TypeOK', ServedInv, LineAssumption, NEW t \in Tasks, ReadBody(t)
  PROVE  LineServed' /\ CallServed'
<1>1. /\ OnLine(t) /\ Quiet /\ pc[t] = "body"
      /\ UNCHANGED <<answering, reqs, call, served>>
  BY QuietOtherwise DEF ReadBody, OnLine, Reading, devVars
<1>2. Quiet'
  BY <1>1, QuietTake DEF ReadBody, IInv
<1>3. pc'[t] = "verify" /\ \A u \in Tasks \ {t} : pc'[u] = pc[u]
  BY DEF ReadBody, IInv, TypeOK
<1>4. \A u \in Tasks \ {t} : pc[u] \notin {"header", "body"}
  BY <1>1, Alone DEF IInv, OnLine, Reading
<1>5. LineServed'
  BY <1>2, <1>3, <1>4, LineServedQuiet
<1>6. Buffer(t) \in Tasks \cup Processes
  BY LinkAssumption DEF Buffer
<1>7. served[t] \in Values /\ packet'[Buffer(t)].body.ans.val = served[t]
  <2>1. Len(line) > 0 /\ Head(rx) = line[1]
    BY <1>1, LineTake DEF ReadBody, IInv
  <2>2. 1 \in DOMAIN line
    BY <2>1, LineType DEF IInv
  <2>3. served[t] \in Values /\ line[1].ans.val = served[t]
    BY <1>1, <2>2 DEF ServedInv, LineServed, ReadServed
  <2>4. packet'[Buffer(t)].body = line[1]
    BY <1>6, <2>1 DEF ReadBody, IInv, TypeOK
  <2>5. QED
    BY <2>3, <2>4
<1>8. \A u \in Tasks \ {t} : pc[u] # "idle" => packet'[Buffer(u)] = packet[Buffer(u)]
  BY <1>1, BuffersDiffer DEF ReadBody, IInv, TypeOK, OwnAnswerInv
<1>9. ReceivedServed'
  BY <1>1, <1>3, <1>7, <1>8 DEF ReceivedServed, ServedInv, CallServed, Buffer
<1>10. SetUnserved'
  BY <1>1, <1>3 DEF SetUnserved, ServedInv, CallServed
<1>11. QED
  BY <1>5, <1>9, <1>10 DEF CallServed

(* The task whose request the controller takes: it hunts, and nobody else  *)
(* is on the line or has its number.                                       *)
LEMMA Performed ==
  ASSUME IInv, LineAssumption, CtrlPerform
  PROVE  \E t \in Tasks :
           /\ HuntsFor(t, Head(reqs).id) /\ Head(reqs) = reqs[1] /\ Head(reqs) \in Requests
           /\ \A u \in Tasks \ {t} : pc[u] \notin {"hunt", "header", "body"}
           /\ served' = [served EXCEPT ![t] = limit'[Head(reqs).port]]
           /\ reqs' = <<>> /\ \A i \in DOMAIN line : ~Starts(i)
<1>1. /\ reqs # <<>> /\ Len(reqs) = 1 /\ reqs \in Seq(Requests)
      /\ \A i \in DOMAIN line : ~Starts(i)
  BY DEF CtrlPerform, IInv, TypeOK, OwnAnswerInv, RequestAwaited
<1>2. Head(reqs) = reqs[1] /\ reqs' = <<>> /\ Head(reqs) \in Requests
  BY <1>1, HeadTailProperties DEF CtrlPerform
<1>3. PICK t \in Tasks : HuntsFor(t, reqs[1].id)
  BY <1>1 DEF IInv, OwnAnswerInv, RequestAwaited
<1>4. \A u \in Tasks \ {t} : ~OnLine(u)
  BY <1>3, Alone, HuntsOnLine DEF IInv
<1>5. \A u \in Tasks : call[u].id = reqs[1].id /\ pc[u] # "idle" <=> u = t
  BY <1>3 DEF HuntsFor, IInv, OwnAnswerInv, CallsDiffer
<1>6. served' = [u \in Tasks |-> IF u = t THEN limit'[Head(reqs).port] ELSE served[u]]
  BY <1>2, <1>5 DEF CtrlPerform
<1>7. served' = [served EXCEPT ![t] = limit'[Head(reqs).port]]
  BY <1>6 DEF IInv, TypeOK
<1>8. QED
  BY <1>1, <1>2, <1>3, <1>4, <1>7 DEF OnLine, Reading

LEMMA PerformServed ==
  ASSUME IInv, TypeOK', ServedInv, LineAssumption, CtrlPerform
  PROVE  LineServed' /\ CallServed'
<1>1. PICK t \in Tasks :
        /\ HuntsFor(t, Head(reqs).id) /\ Head(reqs) = reqs[1] /\ Head(reqs) \in Requests
        /\ \A u \in Tasks \ {t} : pc[u] \notin {"hunt", "header", "body"}
        /\ served' = [served EXCEPT ![t] = limit'[Head(reqs).port]]
        /\ reqs' = <<>> /\ \A i \in DOMAIN line : ~Starts(i)
  BY Performed
<1>2. UNCHANGED <<pc, call, expired, packet>> /\ pc[t] = "hunt"
  BY <1>1 DEF CtrlPerform, HuntsFor
<1>3. /\ served'[t] = limit'[Head(reqs).port] /\ served'[t] \in Values
      /\ \A u \in Tasks \ {t} : served'[u] = served[u]
  <2>1. Head(reqs).port \in Ports
    BY <1>1 DEF Requests
  <2>2. QED
    BY <1>1, <2>1 DEF IInv, TypeOK
<1>4. CallServed'
  BY <1>2, <1>3, CallServedFrame DEF ServedInv
<1>5. RequestServed' /\ ReadServed'
  BY <1>1, <1>2 DEF RequestServed, ReadServed
<1>6. DOMAIN line = 1 .. Len(line) /\ (DOMAIN line)' = 1 .. Len(line') /\ Len(line) \in Nat
  BY LineType DEF IInv
<1>7. CASE line' = line
  <2>1. StartServed'
    BY <1>1, <1>7 DEF StartServed, Starts
  <2>2. QED
    BY <1>4, <1>5, <2>1 DEF LineServed
<1>8. CASE /\ Len(line') = Len(line) + 3
           /\ \A i \in 1 .. Len(line) : line'[i] = line[i]
           /\ \A i \in Len(line) + 1 .. Len(line) + 3 :
                /\ line'[i].ans.id = Head(reqs).id
                /\ line'[i].ans.val = limit'[Head(reqs).port]
                /\ line'[i].kind = "SOP" => i = Len(line) + 1
  <2>1. ASSUME NEW i \in 1 .. Len(line'), line'[i].kind = "SOP" PROVE i = Len(line) + 1
    <3>1. CASE i \in 1 .. Len(line)
      BY <1>1, <1>6, <1>8, <2>1, <3>1 DEF Starts
    <3>2. CASE i \in Len(line) + 1 .. Len(line) + 3
      BY <1>8, <2>1, <3>2
    <3>3. QED
      BY <1>6, <1>8, <3>1, <3>2
  <2>2. \A j \in Len(line) + 1 .. Len(line') : line'[j].ans.val = served'[t]
    BY <1>3, <1>8
  <2>3. \A u \in Tasks : \A id : HuntsFor(u, id)' => u = t
    BY <1>1, <1>2 DEF HuntsFor
  <2>4. StartServed'
    BY <1>3, <1>6, <2>1, <2>2, <2>3 DEF StartServed, Starts
  <2>5. QED
    BY <1>4, <1>5, <2>4 DEF LineServed
<1>9. QED
  BY <1>7, <1>8, LinePerform DEF IInv

LEMMA TaskServed ==
  ASSUME IInv, TypeOK', ServedInv, LineAssumption, NEW t \in Tasks, TaskNext(t)
  PROVE  LineServed' /\ CallServed'
<1>0. TypeOK /\ CallInv /\ LineServed /\ CallServed
  BY DEF IInv, OwnAnswerInv, CallInv, ServedInv
<1>1. CASE Begin(t)
  <2>1. /\ pc[t] = "idle" /\ pc'[t] = "lock" /\ \A u \in Tasks \ {t} : pc'[u] = pc[u]
        /\ served'[t] = NoVal /\ \A u \in Tasks \ {t} : served'[u] = served[u] /\ call'[u] = call[u]
        /\ UNCHANGED <<expired, packet, reqs, line>>
    BY <1>0, <1>1 DEF Begin, TypeOK, lineVars, line
  <2>2. QED
    BY <1>0, <2>1, LineServedFrame, CallServedFrame
<1>2. CASE Lock(t)
  <2>1. /\ pc[t] = "lock" /\ pc'[t] = "send" /\ \A u \in Tasks \ {t} : pc'[u] = pc[u]
        /\ UNCHANGED <<call, expired, packet, reqs, line, served>>
    BY <1>0, <1>2 DEF Lock, TypeOK, lineVars, devVars, line
  <2>2. QED
    BY <1>0, <2>1, LineServedFrame, CallServedFrame
<1>3. CASE Send(t)
  <2>1. /\ pc'[t] = "hunt" /\ \A u \in Tasks \ {t} : pc'[u] = pc[u]
        /\ UNCHANGED <<call, packet, served>>
    BY <1>0, <1>3 DEF Send, TypeOK, devVars
  <2>2. CallServed'
    BY <1>0, <2>1, CallServedFrame
  <2>3. QED
    BY <1>3, <2>2, SendServed
<1>4. CASE SendFails(t)
  <2>1. /\ pc'[t] = "idle" /\ \A u \in Tasks \ {t} : pc'[u] = pc[u]
        /\ UNCHANGED <<call, expired, reqs, line, served>>
        /\ Return(t, "WRITE", 0, NoVal)
    BY <1>0, <1>4 DEF SendFails, Return, TypeOK, lineVars, devVars, line
  <2>2. QED
    BY <1>0, <2>1, LineServedFrame, ReturnServed
<1>5. CASE TakeTooLate(t)
  <2>1. Quiet
    BY <1>5, QuietOtherwise DEF TakeTooLate, OnLine
  <2>2. Quiet'
    BY <1>0, <1>5, <2>1, QuietTake DEF TakeTooLate
  <2>3. QED
    BY <1>0, <1>5, <2>2, GiveUpServed DEF TakeTooLate, Errors, devVars
<1>6. CASE Hunt(t)
  <2>1. /\ pc'[t] \in {"hunt", "header"} /\ \A u \in Tasks \ {t} : pc'[u] = pc[u]
        /\ UNCHANGED <<call, packet, served>>
    BY <1>0, <1>6 DEF Hunt, TypeOK, devVars
  <2>2. CallServed'
    BY <1>0, <2>1, CallServedFrame
  <2>3. QED
    BY <1>6, <2>2, HuntServed
<1>7. CASE ReadHeader(t) \/ ReadBody(t)
  BY <1>7, ReadHeaderServed, ReadBodyServed
<1>8. CASE ReadNothing(t)
  <2>1. Quiet /\ UNCHANGED <<reqs, line>>
    BY <1>8, QuietOtherwise DEF ReadNothing, OnLine, lineVars, line
  <2>2. Quiet'
    BY <2>1 DEF Quiet, Starts
  <2>3. QED
    BY <1>0, <1>8, <2>2, GiveUpServed DEF ReadNothing, Errors, devVars
<1>9. CASE ReadFails(t)
  <2>1. Quiet /\ UNCHANGED <<reqs, line>>
    BY <1>9, QuietWhenAbandoned DEF ReadFails, lineVars, line
  <2>2. Quiet'
    BY <2>1 DEF Quiet, Starts
  <2>3. QED
    BY <1>0, <1>9, <2>2, GiveUpServed DEF ReadFails, Errors, devVars
<1>10. CASE Expire(t)
  <2>1. /\ expired'[t] /\ \A u \in Tasks \ {t} : expired'[u] = expired[u]
        /\ UNCHANGED <<pc, call, packet, reqs, line, served>>
    BY <1>0, <1>10 DEF Expire, TypeOK, lineVars, devVars, line
  <2>2. QED
    BY <1>0, <2>1, LineServedFrame, CallServedFrame
<1>11. CASE Verify(t)
  <2>1. pc[t] = "verify" /\ UNCHANGED <<expired, reqs, line, served, calls>>
    BY <1>11 DEF Verify, lineVars, devVars, line
  <2>2. CASE pc' = [pc EXCEPT ![t] = "accept"] /\ UNCHANGED <<call, outcome, packet>>
    <3>1. pc'[t] = "accept" /\ \A u \in Tasks \ {t} : pc'[u] = pc[u]
      BY <1>0, <2>2 DEF TypeOK
    <3>2. QED
      BY <1>0, <2>1, <2>2, <3>1, LineServedFrame, CallServedFrame
  <2>3. CASE ReceiveFailed(t, "INVALID")
    <3>1. /\ pc'[t] \in {"idle", "lock"}
          /\ \A u \in Tasks \ {t} : pc'[u] = pc[u] /\ call'[u] = call[u]
      BY <1>0, <2>1, <2>3, CallFails DEF Errors
    <3>2. QED
      BY <1>0, <2>1, <2>3, <3>1, LineServedFrame, FailServed
  <2>4. QED
    BY <1>11, <2>2, <2>3 DEF Verify
<1>12. CASE Accept(t)
  <2>1. UNCHANGED <<call, expired, reqs, line, served>>
    BY <1>12 DEF Accept, lineVars, devVars, line
  <2>2. \/ Return(t, "ANSWERED", packet[Buffer(t)].body.ans.id, packet[Buffer(t)].body.ans.val)
        \/ Return(t, "INVALID", 0, NoVal)
    BY <1>12 DEF Accept
  <2>3. pc'[t] = "idle" /\ \A u \in Tasks \ {t} : pc'[u] = pc[u]
    BY <1>0, <2>2 DEF Return, TypeOK
  <2>4. QED
    BY <1>0, <2>1, <2>2, <2>3, LineServedFrame, ReturnServed
<1>13. QED
  BY <1>1, <1>2, <1>3, <1>4, <1>5, <1>6, <1>7, <1>8, <1>9, <1>10, <1>11, <1>12
     DEF TaskNext, Receive

LEMMA ServedNext ==
  ASSUME IInv, TypeOK', ServedInv, LineAssumption, [Next]_vars
  PROVE  ServedInv'
<1>0. TypeOK /\ LineServed /\ CallServed
  BY DEF IInv, ServedInv
<1>1. SUFFICES LineServed' /\ CallServed'
  BY DEF ServedInv
<1>2. ASSUME NEW t \in Tasks, TaskNext(t) PROVE LineServed' /\ CallServed'
  BY <1>2, TaskServed
<1>3. CASE CtrlPerform
  BY <1>3, PerformServed
<1>4. CASE LoseRequest
  <2>1. UNCHANGED <<pc, call, expired, packet, line, served>>
    BY <1>4 DEF LoseRequest, line, devVars
  <2>2. reqs' = <<>>
    <3>1. reqs # <<>> /\ Len(reqs) = 1 /\ reqs \in Seq(Requests) /\ reqs' = Tail(reqs)
      BY <1>0, <1>4 DEF LoseRequest, TypeOK, IInv, OwnAnswerInv, RequestAwaited
    <3>2. reqs' \in Seq(Requests) /\ Len(reqs') = 0
      BY <3>1, HeadTailProperties
    <3>3. QED
      BY <3>2, EmptySeq
  <2>3. RequestServed'
    BY <2>2 DEF RequestServed
  <2>4. StartServed' /\ ReadServed'
    BY <1>0, <2>1 DEF LineServed, StartServed, ReadServed, HuntsFor, Starts
  <2>5. CallServed'
    BY <1>0, <2>1, CallServedFrame
  <2>6. QED
    BY <2>3, <2>4, <2>5 DEF LineServed
<1>5. CASE Deliver \/ Finished \/ UNCHANGED vars
  <2>1. UNCHANGED <<pc, call, expired, packet, reqs, line, served>>
    BY <1>0, <1>5, LineDeliver DEF Deliver, Finished, vars, line, devVars
  <2>2. QED
    BY <1>0, <2>1, LineServedFrame, CallServedFrame
<1>6. QED
  BY <1>2, <1>3, <1>4, <1>5 DEF Next

LEMMA ServedInit == ASSUME Init PROVE ServedInv
<1>1. reqs = <<>> /\ line = <<>> /\ \A t \in Tasks : pc[t] = "idle"
  BY DEF Init, line
<1>2. DOMAIN line = {}
  BY <1>1
<1>3. QED
  BY <1>1, <1>2
     DEF ServedInv, LineServed, CallServed, RequestServed, StartServed, ReadServed,
         ReceivedServed, SetUnserved

LEMMA ServedInvCorrect ==
  ASSUME LineAssumption PROVE Spec => []ServedInv
<1>1. Init => ServedInv
  BY ServedInit
<1>2. TypeOK /\ TypeOK' /\ SemaphoreMatches /\ OwnAnswerInv /\ ServedInv /\ [Next]_vars => ServedInv'
  BY LineAssumption, ServedNext DEF IInv
<1>3. QED
  BY <1>1, <1>2, TypeCorrect, SemaphoreCorrect, OwnAnswerInvCorrect, PTL DEF Spec

-------------------------------------------------------------------------------
(* Every step of the link is one step of the service, or none.             *)

CallOf    == [t \in Tasks |-> [rtn |-> call[t].rtn, port |-> call[t].port, val |-> call[t].val]]
Busy      == {t \in Tasks : pc[t] # "idle"}
OutcomeOf == [t \in Tasks |-> [status |-> outcome[t].status, val |-> outcome[t].val]]

ServiceVars == <<limit, CallOf, Busy, served, OutcomeOf>>

ServiceInvoke(t) ==
  /\ t \notin Busy
  /\ Busy' = Busy \cup {t}
  /\ \E a \in Args : CallOf' = [CallOf EXCEPT ![t] = a]
  /\ served' = [served EXCEPT ![t] = NoVal]
  /\ UNCHANGED <<limit, OutcomeOf>>

ServicePerform(t) ==
  LET c == CallOf[t] IN
  /\ t \in Busy
  /\ c.rtn = "SET" => served[t] = NoVal
  /\ limit' = IF c.rtn = "SET" THEN [limit EXCEPT ![c.port] = c.val] ELSE limit
  /\ served' = [served EXCEPT ![t] = limit'[c.port]]
  /\ UNCHANGED <<CallOf, Busy, OutcomeOf>>

ServiceSuccess(t) ==
  /\ t \in Busy
  /\ served[t] # NoVal
  /\ Busy' = Busy \ {t}
  /\ OutcomeOf' = [OutcomeOf EXCEPT ![t] = [status |-> "ANSWERED", val |-> served[t]]]
  /\ UNCHANGED <<limit, CallOf, served>>

ServiceError(t) ==
  /\ t \in Busy
  /\ Busy' = Busy \ {t}
  /\ \E e \in Errors : OutcomeOf' = [OutcomeOf EXCEPT ![t] = [status |-> e, val |-> NoVal]]
  /\ UNCHANGED <<limit, CallOf, served>>

ServiceStep ==
  \/ \E t \in Tasks : \/ ServiceInvoke(t) \/ ServicePerform(t)
                      \/ ServiceSuccess(t) \/ ServiceError(t)
  \/ UNCHANGED ServiceVars

LEMMA ServiceStepIsServices == ServiceStep => [Service!Next]_Service!vars
BY DEF ServiceStep, ServiceInvoke, ServicePerform, ServiceSuccess, ServiceError, ServiceVars,
       CallOf, Busy, OutcomeOf, Errors, Args,
       Service!Next, Service!Invoke, Service!Perform, Service!ReturnSuccess,
       Service!ReturnError, Service!Args, Service!vars

LEMMA BeginIsInvoke ==
  ASSUME TypeOK, NEW t \in Tasks, Begin(t)
  PROVE  ServiceStep
<1>1. t \notin Busy /\ Busy' = Busy \cup {t}
  BY DEF Begin, Busy, TypeOK
<1>2. PICK a \in Args :
        call' = [call EXCEPT ![t] = [id |-> calls + 1, rtn |-> a.rtn, port |-> a.port,
                                     val |-> a.val, try |-> 1]]
  BY DEF Begin
<1>3. a = [rtn |-> a.rtn, port |-> a.port, val |-> a.val]
  BY DEF Args
<1>4. CallOf' = [CallOf EXCEPT ![t] = a]
  BY <1>2, <1>3 DEF CallOf, TypeOK
<1>5. UNCHANGED <<limit, OutcomeOf>>
  BY DEF Begin, OutcomeOf
<1>6. ServiceInvoke(t)
  BY <1>1, <1>4, <1>5 DEF ServiceInvoke, Begin
<1>7. QED
  BY <1>6 DEF ServiceStep

LEMMA ReturnIsReturn ==
  ASSUME TypeOK, NEW t \in Tasks, pc[t] # "idle", NEW status, NEW from, NEW val,
         Return(t, status, from, val), UNCHANGED <<call, limit, served>>,
         \/ status = "ANSWERED" /\ val = served[t] /\ served[t] # NoVal
         \/ status \in Errors /\ val = NoVal
  PROVE  ServiceStep
<1>1. t \in Busy /\ Busy' = Busy \ {t}
  BY DEF Return, Busy, TypeOK
<1>2. OutcomeOf' = [OutcomeOf EXCEPT ![t] = [status |-> status, val |-> val]]
  BY DEF Return, OutcomeOf, TypeOK
<1>3. UNCHANGED CallOf
  BY DEF CallOf
<1>4. ServiceSuccess(t) \/ ServiceError(t)
  BY <1>1, <1>2, <1>3 DEF ServiceSuccess, ServiceError
<1>5. QED
  BY <1>4 DEF ServiceStep

(* A receive that failed is tried again, which is no step, or reported.    *)
LEMMA FailIsError ==
  ASSUME TypeOK, NEW t \in Tasks, pc[t] # "idle", NEW e \in Errors,
         ReceiveFailed(t, e), UNCHANGED <<limit, served>>
  PROVE  ServiceStep
<1>1. CASE /\ pc' = [pc EXCEPT ![t] = "lock"]
           /\ call' = [call EXCEPT ![t].try = 2]
           /\ UNCHANGED <<outcome, packet>>
  <2>1. UNCHANGED Busy
    BY <1>1 DEF Busy, TypeOK
  <2>2. call[t] \in Calls
    BY DEF TypeOK
  <2>3. \A u \in Tasks : /\ call'[u].rtn = call[u].rtn /\ call'[u].port = call[u].port
                         /\ call'[u].val = call[u].val
    BY <1>1, <2>2 DEF TypeOK, Calls
  <2>4. UNCHANGED CallOf
    BY <2>3 DEF CallOf
  <2>5. UNCHANGED OutcomeOf
    BY <1>1 DEF OutcomeOf
  <2>6. QED
    BY <2>1, <2>4, <2>5 DEF ServiceStep, ServiceVars
<1>2. ASSUME NEW status \in Errors, Return(t, status, 0, NoVal), UNCHANGED call
      PROVE  ServiceStep
  BY <1>2, ReturnIsReturn
<1>3. QED
  BY <1>1, <1>2 DEF ReceiveFailed, Errors

(* Steps within a call that neither end it nor come from the controller.   *)
LEMMA WithinIsNoStep ==
  ASSUME TypeOK, UNCHANGED <<call, limit, served, outcome>>,
         \A t \in Tasks : pc'[t] = "idle" <=> pc[t] = "idle"
  PROVE  ServiceStep
BY DEF ServiceStep, ServiceVars, CallOf, Busy, OutcomeOf

LEMMA PerformIsPerform ==
  ASSUME IInv, ServedInv, LineAssumption, CtrlPerform
  PROVE  ServiceStep
<1>1. PICK t \in Tasks :
        /\ HuntsFor(t, Head(reqs).id) /\ Head(reqs) = reqs[1]
        /\ served' = [served EXCEPT ![t] = limit'[Head(reqs).port]]
  BY Performed
<1>2. /\ Head(reqs).rtn = call[t].rtn /\ Head(reqs).port = call[t].port
      /\ Head(reqs).val = call[t].val
      /\ call[t].rtn = "SET" => served[t] = NoVal
  BY <1>1 DEF CtrlPerform, ServedInv, LineServed, RequestServed
<1>3. t \in Busy
  BY <1>1 DEF HuntsFor, Busy
<1>4. UNCHANGED <<CallOf, Busy, OutcomeOf>>
  BY DEF CtrlPerform, CallOf, Busy, OutcomeOf
<1>5. CallOf[t].rtn = call[t].rtn /\ CallOf[t].port = call[t].port /\ CallOf[t].val = call[t].val
  BY DEF CallOf
<1>6. limit' = IF call[t].rtn = "SET" THEN [limit EXCEPT ![call[t].port] = call[t].val] ELSE limit
  BY <1>2 DEF CtrlPerform
<1>7. ServicePerform(t)
  BY <1>1, <1>2, <1>3, <1>4, <1>5, <1>6 DEF ServicePerform
<1>8. QED
  BY <1>7 DEF ServiceStep

LEMMA TaskIsServiceStep ==
  ASSUME IInv, ServedInv, NEW t \in Tasks, TaskNext(t)
  PROVE  ServiceStep
<1>0. TypeOK
  BY DEF IInv
<1>1. CASE Begin(t)
  BY <1>0, <1>1, BeginIsInvoke
<1>2. CASE Lock(t) \/ Send(t) \/ Hunt(t) \/ ReadHeader(t) \/ ReadBody(t) \/ Expire(t)
  BY <1>0, <1>2, WithinIsNoStep
     DEF Lock, Send, Hunt, ReadHeader, ReadBody, Expire, TypeOK, devVars
<1>3. CASE SendFails(t)
  BY <1>0, <1>3, ReturnIsReturn DEF SendFails, devVars, Errors
<1>4. CASE TakeTooLate(t) \/ ReadNothing(t) \/ ReadFails(t)
  <2>1. PICK e \in Errors : pc[t] # "idle" /\ ReceiveFailed(t, e) /\ UNCHANGED <<limit, served>>
    BY <1>4 DEF TakeTooLate, ReadNothing, ReadFails, GiveUp, Errors, Reading, devVars
  <2>2. QED
    BY <1>0, <2>1, FailIsError
<1>5. CASE Verify(t)
  <2>1. CASE pc' = [pc EXCEPT ![t] = "accept"] /\ UNCHANGED <<call, outcome, packet>>
    BY <1>0, <1>5, <2>1, WithinIsNoStep DEF Verify, TypeOK, devVars
  <2>2. CASE ReceiveFailed(t, "INVALID")
    BY <1>0, <1>5, <2>2, FailIsError DEF Verify, Errors, devVars
  <2>3. QED
    BY <1>5, <2>1, <2>2 DEF Verify
<1>6. CASE Accept(t)
  <2>1. served[t] # NoVal /\ packet[Buffer(t)].body.ans.val = served[t]
    BY <1>6, LinkAssumption DEF Accept, ServedInv, CallServed, ReceivedServed
  <2>2. QED
    BY <1>0, <1>6, <2>1, ReturnIsReturn DEF Accept, Errors, devVars
<1>7. QED
  BY <1>1, <1>2, <1>3, <1>4, <1>5, <1>6 DEF TaskNext, Receive

(* With prompt answers, one process and one user of PortInfoPacket, the    *)
(* link implements the service for any tasks, ports, values and calls: a   *)
(* call is carried out at one moment while it lasts, a set once at most,   *)
(* and a success returns what the controller computed then.                *)
THEOREM ImplementsServiceCorrect ==
  ASSUME LineAssumption PROVE Spec => ImplementsService
<1>1. Init => Service!Init
  BY DEF Init, NoCall, Service!Init
<1>2. TypeOK /\ SemaphoreMatches /\ OwnAnswerInv /\ ServedInv /\ [Next]_vars
        => [Service!Next]_Service!vars
  <2>1. SUFFICES ASSUME IInv, ServedInv, [Next]_vars PROVE ServiceStep
    BY ServiceStepIsServices DEF IInv
  <2>2. ASSUME NEW t \in Tasks, TaskNext(t) PROVE ServiceStep
    BY <2>1, <2>2, TaskIsServiceStep
  <2>3. CASE CtrlPerform
    BY <2>1, <2>3, LineAssumption, PerformIsPerform
  <2>4. CASE LoseRequest \/ Deliver \/ Finished \/ UNCHANGED vars
    BY <2>1, <2>4, WithinIsNoStep DEF IInv, LoseRequest, Deliver, Finished, vars, devVars
  <2>5. QED
    BY <2>1, <2>2, <2>3, <2>4 DEF Next
<1>3. QED
  BY <1>1, <1>2, TypeCorrect, SemaphoreCorrect, OwnAnswerInvCorrect, ServedInvCorrect, PTL
     DEF Spec, ImplementsService, Service!Spec
===============================================================================
