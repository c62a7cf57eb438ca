------------------------------- MODULE SPPLink -------------------------------
(***************************************************************************)
(* The serial link to the PoE controller: CallRoutine, get_poe_port_info,  *)
(* SendPacket and ReceivePacket of poe/poe_tools.c over the serial port    *)
(* and the semaphore of poe/SPP_Serial.c.                                  *)
(*                                                                         *)
(* An answer travels as three segments, the three things ReceivePacket     *)
(* waits for: the start-of-packet character, the routine and length        *)
(* fields, the data and checksum.  Bytes inside a segment are not told     *)
(* apart; a data byte that happens to equal SOP is outside the model.      *)
(*                                                                         *)
(* Call numbers (id), served and outcome.from are history: the packets of  *)
(* the program carry no such number, and no guard of the program's steps   *)
(* reads them.                                                             *)
(***************************************************************************)
EXTENDS Naturals, Sequences

CONSTANTS
  Tasks,     (* the tasks that use the serial port                         *)
  Processes, (* the processes they run in: each has a semaphore of its own *)
  Process,   (* the process of every task                                  *)
  Ports,     (* the PoE ports                                              *)
  Values,    (* the values a port's power limit takes                      *)
  Routines,  (* routines called: "GET" and "SET" stand for the routines    *)
             (* that go through CallRoutine, "INFO" for get_poe_port_info  *)
  InfoTasks, (* the tasks that call get_poe_port_info                      *)
  NoVal,     (* "no value"                                                 *)
  MaxCalls,  (* bound: the number of calls made by all tasks together      *)
  Prompt     (* TRUE: the controller never answers a hunt given up before  *)

ASSUME LinkAssumption ==
  /\ Process \in [Tasks -> Processes]
  /\ Tasks \cap Processes = {}
  /\ Routines \subseteq {"GET", "SET", "INFO"}
  /\ InfoTasks \subseteq Tasks
  /\ NoVal \notin Values
  /\ MaxCalls \in Nat
  /\ Prompt \in BOOLEAN

VARIABLES
  sem,       (* SerialMutex of every process                               *)
  pc,        (* where every task is in its call                            *)
  call,      (* the request of the call: number, routine, port, value, try *)
  expired,   (* ElapsedTime(StartTime) > 1000 in the task's ReceivePacket  *)
  packet,    (* the packet buffers: ParmsPacket on a task's stack and the  *)
             (* global PortInfoPacket of a process                         *)
  outcome,   (* what the last finished call of every task returned         *)
  rx,        (* segments in the tty's input queue                          *)
  reqs,      (* requests the controller has not looked at                  *)
  answering, (* segments of the answer the controller is sending           *)
  limit,     (* the controller's registers                                 *)
  served,    (* history: what the controller computed for the call         *)
  calls      (* history: the number of calls begun                         *)

lineVars == <<rx, reqs, answering>>
devVars  == <<limit, served>>
vars == <<sem, pc, call, expired, packet, outcome, rx, reqs, answering,
          limit, served, calls>>

-------------------------------------------------------------------------------
(* Types *)

Reading  == {"hunt", "header", "body"}
PCs      == {"idle", "lock", "send", "verify", "accept"} \cup Reading
Errors   == {"READ", "WRITE", "INVALID", "NOT_FND"}
CallIds  == 0 .. MaxCalls
Opt      == Values \cup {NoVal}

Args ==
  [rtn : Routines \ {"SET"}, port : Ports, val : {NoVal}]
    \cup [rtn : Routines \cap {"SET"}, port : Ports, val : Values]

NoCall == [id |-> 0, rtn |-> "NONE", port |-> NoVal, val |-> NoVal, try |-> 1]

Requests ==
  [id : CallIds, rtn : Routines \ {"SET"}, port : Ports, val : {NoVal}]
    \cup [id : CallIds, rtn : Routines \cap {"SET"}, port : Ports, val : Values]
Calls    ==
  [id : CallIds, rtn : Routines \ {"SET"}, port : Ports, val : {NoVal}, try : 1 .. 2]
    \cup [id : CallIds, rtn : Routines \cap {"SET"}, port : Ports, val : Values, try : 1 .. 2]
Answers  == [id : CallIds, rtn : Routines \cup {"NONE"}, val : Opt, good : BOOLEAN]
Segments == [kind : {"SOP", "HDR", "BODY", "NONE"}, ans : Answers]

NoSegment == [kind |-> "NONE",
              ans |-> [id |-> 0, rtn |-> "NONE", val |-> NoVal, good |-> FALSE]]

EmptyPacket == [hdr |-> NoSegment, body |-> NoSegment]

(* The three segments of an answer, in the order they are sent. *)
PacketOf(a) == << [kind |-> "SOP", ans |-> a], [kind |-> "HDR", ans |-> a],
                  [kind |-> "BODY", ans |-> a] >>

(* The buffer the answer of a task's call is received into. *)
Buffer(t) == IF call[t].rtn = "INFO" THEN Process[t] ELSE t

Init ==
  /\ sem = [p \in Processes |-> 1]
  /\ pc = [t \in Tasks |-> "idle"]
  /\ call = [t \in Tasks |-> NoCall]
  /\ expired = [t \in Tasks |-> FALSE]
  /\ packet = [b \in Tasks \cup Processes |-> EmptyPacket]
  /\ outcome = [t \in Tasks |-> [id |-> 0, status |-> "NONE", from |-> 0, val |-> NoVal]]
  /\ rx = <<>>
  /\ reqs = <<>>
  /\ answering = <<>>
  /\ limit \in [Ports -> Values]
  /\ served = [t \in Tasks |-> NoVal]
  /\ calls = 0

-------------------------------------------------------------------------------
(* Returning, giving up and retrying *)

SerialLock(p)   == sem[p] > 0 /\ sem' = [sem EXCEPT ![p] = @ - 1]
SerialUnlock(p) == sem' = [sem EXCEPT ![p] = @ + 1]

(* The packet on the stack goes, PortInfoPacket stays. *)
Return(t, status, from, val) ==
  /\ pc' = [pc EXCEPT ![t] = "idle"]
  /\ packet' = [packet EXCEPT ![t] = EmptyPacket]
  /\ outcome' = [outcome EXCEPT ![t] =
       [id |-> call[t].id, status |-> status, from |-> from, val |-> val]]

(* Mutant of MayRetry: the retry of CallRoutine is compiled in. *)
RetryAlways(t) == call[t].try = 1

(* Only get_poe_port_info sends its request a second time: the retry of    *)
(* CallRoutine is compiled out.                                            *)
MayRetry(t) == call[t].rtn = "INFO" /\ call[t].try = 1

(* Mutant of ReceiveFailed: the result of the second try is not looked at. *)
SecondResultIgnored(t, e) ==
  \/ /\ MayRetry(t)
     /\ pc' = [pc EXCEPT ![t] = "lock"]
     /\ call' = [call EXCEPT ![t].try = 2]
     /\ UNCHANGED <<outcome, packet>>
  \/ /\ ~MayRetry(t)
     /\ pc' = [pc EXCEPT ![t] = "accept"]
     /\ UNCHANGED <<call, outcome, packet>>

(* ReceivePacket failed with error e: CallRoutine answers every failure    *)
(* with ERROR_RESOURCE_NOT_FND, get_poe_port_info sends a fresh request    *)
(* once and then returns the error itself.                                 *)
ReceiveFailed(t, e) ==
  \/ /\ MayRetry(t)
     /\ pc' = [pc EXCEPT ![t] = "lock"]
     /\ call' = [call EXCEPT ![t].try = 2]
     /\ UNCHANGED <<outcome, packet>>
  \/ /\ ~MayRetry(t)
     /\ Return(t, IF call[t].rtn = "INFO" THEN e ELSE "NOT_FND", 0, NoVal)
     /\ UNCHANGED call

(* Mutant of GiveUp: an early return that forgets the port. *)
GiveUpKeepingPort(t, e) ==
  /\ expired' = [expired EXCEPT ![t] = FALSE]
  /\ ReceiveFailed(t, e)
  /\ UNCHANGED sem

(* Leaving ReceivePacket early: the port is unlocked on the way out. *)
GiveUp(t, e) ==
  /\ SerialUnlock(Process[t])
  /\ expired' = [expired EXCEPT ![t] = FALSE]
  /\ ReceiveFailed(t, e)

-------------------------------------------------------------------------------
(* The steps of a call *)

(* The routine is entered and the request packet built. *)
Begin(t) ==
  /\ pc[t] = "idle"
  /\ calls < MaxCalls
  /\ calls' = calls + 1
  /\ \E a \in Args :
       /\ a.rtn = "INFO" => t \in InfoTasks
       /\ call' = [call EXCEPT ![t] = [id |-> calls + 1, rtn |-> a.rtn, port |-> a.port,
                                       val |-> a.val, try |-> 1]]
  /\ pc' = [pc EXCEPT ![t] = "lock"]
  /\ served' = [served EXCEPT ![t] = NoVal]
  /\ UNCHANGED <<sem, expired, packet, outcome, lineVars, limit>>

(* SendPacket: wait for the port. *)
Lock(t) ==
  /\ pc[t] = "lock"
  /\ SerialLock(Process[t])
  /\ pc' = [pc EXCEPT ![t] = "send"]
  /\ UNCHANGED <<call, expired, packet, outcome, lineVars, devVars, calls>>

(* SendPacket: the whole packet is written; ReceivePacket notes the time. *)
Send(t) ==
  /\ pc[t] = "send"
  /\ reqs' = Append(reqs, [id |-> call[t].id, rtn |-> call[t].rtn,
                           port |-> call[t].port, val |-> call[t].val])
  /\ pc' = [pc EXCEPT ![t] = "hunt"]
  /\ UNCHANGED <<sem, call, expired, packet, outcome, rx, answering, devVars, calls>>

(* Mutant of SendFails: a packet that was written counts as not written. *)
SentCountsAsFailed(t) ==
  /\ pc[t] = "send"
  /\ reqs' = Append(reqs, [id |-> call[t].id, rtn |-> call[t].rtn,
                           port |-> call[t].port, val |-> call[t].val])
  /\ SerialUnlock(Process[t])
  /\ Return(t, "WRITE", 0, NoVal)
  /\ UNCHANGED <<call, expired, rx, answering, devVars, calls>>

(* SendPacket: write() took less than the packet; nobody retries that. *)
SendFails(t) ==
  /\ pc[t] = "send"
  /\ SerialUnlock(Process[t])
  /\ Return(t, "WRITE", 0, NoVal)
  /\ UNCHANGED <<call, expired, lineVars, devVars, calls>>

(* ReceivePacket has read the segment at the head of the input queue.  The *)
(* clock is looked at after every read, also after one that brought what   *)
(* was waited for.                                                         *)
Take(t) == rx # <<>> /\ rx' = Tail(rx)

TakeTooLate(t) ==
  /\ pc[t] \in Reading
  /\ expired[t]
  /\ Take(t)
  /\ GiveUp(t, "NOT_FND")
  /\ UNCHANGED <<reqs, answering, devVars, calls>>

(* Characters are discarded until one equals SOP. *)
Hunt(t) ==
  /\ pc[t] = "hunt"
  /\ ~expired[t]
  /\ Take(t)
  /\ pc' = [pc EXCEPT ![t] = IF Head(rx).kind = "SOP" THEN "header" ELSE "hunt"]
  /\ UNCHANGED <<sem, call, expired, packet, outcome, reqs, answering, devVars, calls>>

ReadHeader(t) ==
  /\ pc[t] = "header"
  /\ ~expired[t]
  /\ Take(t)
  /\ packet' = [packet EXCEPT ![Buffer(t)].hdr = Head(rx)]
  /\ pc' = [pc EXCEPT ![t] = "body"]
  /\ UNCHANGED <<sem, call, expired, outcome, reqs, answering, devVars, calls>>

(* Mutant of ReadBody: the port is not unlocked after the last segment. *)
ReadBodyKeepsPort(t) ==
  /\ pc[t] = "body"
  /\ ~expired[t]
  /\ Take(t)
  /\ packet' = [packet EXCEPT ![Buffer(t)].body = Head(rx)]
  /\ pc' = [pc EXCEPT ![t] = "verify"]
  /\ UNCHANGED <<sem, call, expired, outcome, reqs, answering, devVars, calls>>

(* The last segment: "Another task can use the serial port now". *)
ReadBody(t) ==
  /\ pc[t] = "body"
  /\ ~expired[t]
  /\ Take(t)
  /\ packet' = [packet EXCEPT ![Buffer(t)].body = Head(rx)]
  /\ SerialUnlock(Process[t])
  /\ pc' = [pc EXCEPT ![t] = "verify"]
  /\ UNCHANGED <<call, expired, outcome, reqs, answering, devVars, calls>>

(* Mutant of ReadNothing: StartTime is taken anew with every empty read. *)
ReadNothingRestarts(t) ==
  /\ pc[t] \in Reading
  /\ rx = <<>>
  /\ expired[t]
  /\ expired' = [expired EXCEPT ![t] = FALSE]
  /\ UNCHANGED <<sem, pc, call, packet, outcome, lineVars, devVars, calls>>

(* read() returns nothing and the time is over. *)
ReadNothing(t) ==
  /\ pc[t] \in Reading
  /\ rx = <<>>
  /\ expired[t]
  /\ GiveUp(t, "NOT_FND")
  /\ UNCHANGED <<lineVars, devVars, calls>>

(* Some answer to the task's call has not reached its start character yet. *)
Outstanding(t) ==
  \/ \E i \in DOMAIN reqs : reqs[i].id = call[t].id
  \/ \E i \in DOMAIN answering : answering[i].kind = "SOP" /\ answering[i].ans.id = call[t].id
  \/ \E i \in DOMAIN rx : rx[i].kind = "SOP" /\ rx[i].ans.id = call[t].id

(* What Prompt assumes of the controller and the line. *)
MayAbandon(t) == Prompt /\ pc[t] = "hunt" => ~Outstanding(t)

(* read() fails. *)
ReadFails(t) ==
  /\ pc[t] \in Reading
  /\ MayAbandon(t)
  /\ GiveUp(t, "READ")
  /\ UNCHANGED <<lineVars, devVars, calls>>

(* A second has passed since StartTime. *)
Expire(t) ==
  /\ pc[t] \in Reading
  /\ ~expired[t]
  /\ MayAbandon(t)
  /\ expired' = [expired EXCEPT ![t] = TRUE]
  /\ UNCHANGED <<sem, pc, call, packet, outcome, lineVars, devVars, calls>>

(* The bytes in the buffer sum to zero. *)
ChecksumGood(p) ==
  /\ p.hdr.kind = "HDR" /\ p.body.kind = "BODY"
  /\ p.hdr.ans = p.body.ans
  /\ p.body.ans.good

(* The checksum is computed over the buffer after the port is unlocked. *)
Verify(t) ==
  /\ pc[t] = "verify"
  /\ \/ /\ ChecksumGood(packet[Buffer(t)])
        /\ pc' = [pc EXCEPT ![t] = "accept"]
        /\ UNCHANGED <<call, outcome, packet>>
     \/ /\ ~ChecksumGood(packet[Buffer(t)])
        /\ ReceiveFailed(t, "INVALID")
  /\ UNCHANGED <<sem, expired, lineVars, devVars, calls>>

(* "Verify that the correct response packet was received": the routines    *)
(* are compared, then the data are copied out of the buffer.  CallRoutine  *)
(* returns SUCCESS then, and get_poe_port_info the result that the         *)
(* controller put among the data, which is part of val.                    *)
Accept(t) ==
  LET p == packet[Buffer(t)] IN
  /\ pc[t] = "accept"
  /\ \/ /\ p.hdr.ans.rtn = call[t].rtn
        /\ Return(t, "ANSWERED", p.body.ans.id, p.body.ans.val)
     \/ /\ p.hdr.ans.rtn # call[t].rtn
        /\ Return(t, "INVALID", 0, NoVal)
  /\ UNCHANGED <<sem, call, expired, lineVars, devVars, calls>>

-------------------------------------------------------------------------------
(* The controller and the line, external to the repository: requests are   *)
(* served in order, one answer at a time; requests and answers get lost    *)
(* and answers arrive corrupted.                                           *)

CtrlPerform ==
  LET r == Head(reqs) IN
  /\ answering = <<>>
  /\ reqs # <<>>
  /\ reqs' = Tail(reqs)
  /\ limit' = IF r.rtn = "SET" THEN [limit EXCEPT ![r.port] = r.val] ELSE limit
  /\ served' = [t \in Tasks |->
       IF call[t].id = r.id /\ pc[t] # "idle" THEN limit'[r.port] ELSE served[t]]
  /\ \/ answering' = <<>>
     \/ \E ok \in BOOLEAN : answering' =
          PacketOf([id |-> r.id, rtn |-> r.rtn, val |-> limit'[r.port], good |-> ok])
  /\ UNCHANGED <<sem, pc, call, expired, packet, outcome, rx, calls>>

LoseRequest ==
  /\ reqs # <<>>
  /\ reqs' = Tail(reqs)
  /\ UNCHANGED <<sem, pc, call, expired, packet, outcome, rx, answering, devVars, calls>>

Deliver ==
  /\ answering # <<>>
  /\ rx' = Append(rx, Head(answering))
  /\ answering' = Tail(answering)
  /\ UNCHANGED <<sem, pc, call, expired, packet, outcome, reqs, devVars, calls>>

(* All calls of the bound were made and answered: nothing is left to do.   *)
(* Any other state without a successor is a deadlock of the program.       *)
Finished ==
  /\ calls = MaxCalls
  /\ \A t \in Tasks : pc[t] = "idle"
  /\ UNCHANGED vars

Receive(t) ==
  TakeTooLate(t) \/ Hunt(t) \/ ReadHeader(t) \/ ReadBody(t) \/ ReadNothing(t)

TaskNext(t) ==
  \/ Begin(t) \/ Lock(t) \/ Send(t) \/ SendFails(t) \/ Receive(t)
  \/ ReadFails(t) \/ Expire(t) \/ Verify(t) \/ Accept(t)

Next == (\E t \in Tasks : TaskNext(t)) \/ CtrlPerform \/ LoseRequest \/ Deliver \/ Finished

Spec == Init /\ [][Next]_vars

(* Fairness: a task that can run runs, and time passes.  Nothing is asked  *)
(* of the controller, of the line or of the order semaphore waiters wake.  *)
Fairness ==
  \A t \in Tasks : /\ WF_vars(Send(t) \/ SendFails(t))
                   /\ WF_vars(Receive(t))
                   /\ WF_vars(Expire(t))
                   /\ WF_vars(Verify(t) \/ Accept(t))

FairSpec == Spec /\ Fairness
-------------------------------------------------------------------------------
(* Properties *)

(* The task is between SerialLock and SerialUnlock. *)
OnLine(t) == pc[t] \in {"send"} \cup Reading

(* Type invariant. *)
TypeOK ==
  /\ sem \in [Processes -> Nat]
  /\ pc \in [Tasks -> PCs]
  /\ call \in [Tasks -> Calls \cup {NoCall}]
  /\ \A t \in Tasks : pc[t] # "idle" => call[t] \in Calls
  /\ expired \in [Tasks -> BOOLEAN]
  /\ packet \in [Tasks \cup Processes -> [hdr : Segments, body : Segments]]
  /\ outcome \in [Tasks -> [id : CallIds, status : Errors \cup {"ANSWERED", "NONE"},
                            from : CallIds, val : Opt]]
  /\ rx \in Seq(Segments)
  /\ reqs \in Seq(Requests)
  /\ answering \in Seq(Segments)
  /\ limit \in [Ports -> Values]
  /\ served \in [Tasks -> Opt]
  /\ calls \in CallIds

(* Within a process at most one task is between SerialLock and             *)
(* SerialUnlock, and every way out of SendPacket and ReceivePacket has     *)
(* given the semaphore back exactly once: it is 1 whenever nobody is       *)
(* there.                                                                  *)
SemaphoreMatches ==
  \A p \in Processes :
    \/ sem[p] = 1 /\ \A t \in Tasks : Process[t] = p => ~OnLine(t)
    \/ sem[p] = 0 /\ \E t \in Tasks : /\ Process[t] = p /\ OnLine(t)
                                    /\ \A u \in Tasks : Process[u] = p /\ OnLine(u) => u = t

(* A call that accepts an answer returns that to its own request.          *)
OwnAnswer ==
  \A t \in Tasks : outcome[t].status = "ANSWERED" => outcome[t].from = outcome[t].id

(* The inductive invariant behind OwnAnswer, for prompt answers, one       *)
(* process and one task that uses PortInfoPacket.                          *)

(* Everything on its way to the reader. *)
line == rx \o answering

Starts(i) == line[i].kind = "SOP"

(* The task hunts for the answer to the call numbered id and has time left. *)
HuntsFor(t, id) == pc[t] = "hunt" /\ ~expired[t] /\ call[t].id = id

(* Tasks that are in a call have calls of their own, and may make them. *)
CallsDiffer ==
  \A t \in Tasks : pc[t] # "idle" =>
    /\ call[t].id <= calls
    /\ call[t].rtn = "INFO" => t \in InfoTasks
    /\ \A u \in Tasks : pc[u] # "idle" /\ call[u].id = call[t].id => u = t

(* A request the controller has not seen belongs to a hunting task, and no *)
(* answer is about to start.                                               *)
RequestAwaited ==
  reqs # <<>> =>
    /\ Len(reqs) = 1
    /\ \A i \in DOMAIN line : ~Starts(i)
    /\ \E t \in Tasks : HuntsFor(t, reqs[1].id)

(* An answer that has not begun to be read belongs to a hunting task, and  *)
(* nothing but that answer follows its start.                              *)
AnswerAwaited ==
  \A i \in DOMAIN line : Starts(i) =>
    /\ \A j \in DOMAIN line : Starts(j) => j = i
    /\ \E t \in Tasks : /\ HuntsFor(t, line[i].ans.id)
                       /\ \A j \in i .. Len(line) : line[j].ans.id = call[t].id

(* What is left on the line of an answer being read is that answer's. *)
AnswerRead ==
  \A t \in Tasks : pc[t] \in {"header", "body"} =>
    \A i \in DOMAIN line : ~Starts(i) /\ line[i].ans.id = call[t].id

(* A received answer is the call's own. *)
AnswerReceived ==
  \A t \in Tasks : pc[t] \in {"verify", "accept"} => packet[Buffer(t)].body.ans.id = call[t].id

(* Every receive starts with its second before it. *)
FreshClock == \A t \in Tasks : expired[t] => pc[t] \in Reading

OwnAnswerInv ==
  /\ CallsDiffer
  /\ FreshClock
  /\ RequestAwaited
  /\ AnswerAwaited
  /\ AnswerRead
  /\ AnswerReceived
  /\ OwnAnswer

(* poe_tools.c:1026 and 396, "Verify that the correct response packet was  *)
(* received": the comparison of routines is all that tells answers apart.  *)
CorrectResponse == OwnAnswer

(* Whatever the controller does or fails to do, the port is given back: no *)
(* silence, noise or torn answer keeps the other tasks waiting for ever.   *)
LineReleased == \A p \in Processes : (sem[p] = 0) ~> (sem[p] = 1)

(* The link implements the service: every call is carried out at one       *)
(* moment during the call, a set at most once, and a success returns what  *)
(* the controller computed then.                                           *)
Service == INSTANCE SPPService WITH
  call    <- [t \in Tasks |-> [rtn |-> call[t].rtn, port |-> call[t].port,
                              val |-> call[t].val]],
  busy    <- {t \in Tasks : pc[t] # "idle"},
  reply   <- served,
  outcome <- [t \in Tasks |-> [status |-> outcome[t].status, val |-> outcome[t].val]]

ImplementsService == Service!Spec
===============================================================================
