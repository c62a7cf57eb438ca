--------------------------- MODULE ScfgClientProofs ---------------------------
(***************************************************************************)
(* What is proved of the calls to the configuration manager, for any       *)
(* number of clients and calls, however an answer is cut in pieces and     *)
(* wherever a connection ends: a client keeps no descriptor between its    *)
(* calls but those of calls that ended early, and the calls implement the  *)
(* store of ConfigStore.                                                   *)
(***************************************************************************)
EXTENDS ScfgClient, TLAPS

Open  == {"header", "data", "rheader", "rdata"}
Codes == {"NONE", "OK", "ERR", "EOF"}

Requests == {r \in [id : 1 .. MaxCalls, cmd : Cmds, val : Values \cup {NoVal}] :
               r.cmd = "SET" => r.val \in Values}

(* What the calls and their answers look like.                             *)
DataInv ==
  /\ \A c \in Clients : pc[c] # "idle" => call[c] \in Requests
  /\ call \in [Clients -> Requests \cup {NoCall}]
  /\ pending \subseteq Requests
  /\ answer \in [Clients -> [code : Codes, val : Values \cup {NoVal},
                             len : {0, Chunks}, sent : 0 .. Chunks]]

(* A descriptor belongs to the call under way, or to one that ended early. *)
FdsOfCalls ==
  \A c \in Clients :
    fds[c] <= IF pc[c] \in Open THEN broken[c] + 1 ELSE broken[c]

(* The call under way has a descriptor.                                    *)
FdOpen == \A c \in Clients : pc[c] \in Open => fds[c] >= 1

(* A call ends once.                                                       *)
EndsOnce ==
  \A c \in Clients :
    /\ broken[c] <= calls
    /\ pc[c] # "idle" => broken[c] < calls

ScfgInv == DataInv /\ FdsOfCalls /\ FdOpen /\ EndsOnce

-------------------------------------------------------------------------------
(* How a call ends *)

LEMMA BreakInv ==
  ASSUME TypeOK, ScfgInv, NEW c \in Clients, pc[c] # "idle", Break(c),
         fds' = IF pc[c] = "connect" THEN [fds EXCEPT ![c] = @ + 1] ELSE fds,
         fds' \in [Clients -> 0 .. MaxFds]
  PROVE  TypeOK' /\ ScfgInv'
<1> USE ScfgAssumption
<1>1. broken[c] \in Nat /\ broken[c] < calls /\ calls \in Nat /\ calls <= MaxCalls
  BY DEF TypeOK, ScfgInv, EndsOnce
<1>2. TypeOK'
  BY <1>1 DEF Break, ReturnError, managerVars, TypeOK, PCs
<1>3. DataInv'
  BY DEF Break, ReturnError, managerVars, ScfgInv, DataInv, TypeOK, Requests
<1>4. FdsOfCalls' /\ FdOpen'
  BY <1>1 DEF Break, ReturnError, ScfgInv, FdsOfCalls, FdOpen, TypeOK, Open
<1>5. EndsOnce'
  BY <1>1 DEF Break, ReturnError, managerVars, ScfgInv, EndsOnce, TypeOK
<1> QED
  BY <1>2, <1>3, <1>4, <1>5 DEF ScfgInv

LEMMA FinishInv ==
  ASSUME TypeOK, ScfgInv, NEW c \in Clients, pc[c] \in Open, Finish(c),
         buffer' \in [Clients -> Values \cup {NoVal}]
  PROVE  TypeOK' /\ ScfgInv'
<1> USE ScfgAssumption
<1>1. fds[c] \in 1 .. MaxFds
  BY DEF TypeOK, ScfgInv, FdOpen
<1>2. Status(call[c].cmd, answer[c].code) \in {"ok", "error"}
  BY DEF Status
<1>3. TypeOK'
  <2>1. result' \in [Clients -> [status : {"none", "ok", "error"}, data : Values \cup {NoVal}]]
    BY <1>2 DEF Finish, TypeOK
  <2>2. fds' \in [Clients -> 0 .. MaxFds]
    BY <1>1 DEF Finish, TypeOK
  <2> QED
    BY <2>1, <2>2 DEF Finish, managerVars, TypeOK, PCs
<1>4. DataInv'
  BY DEF Finish, managerVars, ScfgInv, DataInv, TypeOK
<1>5. FdsOfCalls' /\ FdOpen'
  BY <1>1 DEF Finish, ScfgInv, FdsOfCalls, FdOpen, TypeOK, Open
<1>6. EndsOnce'
  BY DEF Finish, ScfgInv, EndsOnce, TypeOK, Open
<1> QED
  BY <1>3, <1>4, <1>5, <1>6 DEF ScfgInv

(* A step of a call that goes on with the descriptor it has.               *)
LEMMA GoesOn ==
  ASSUME TypeOK, ScfgInv, NEW c \in Clients, pc[c] \in Open, NEW to \in Open,
         pc' = [pc EXCEPT ![c] = to],
         UNCHANGED <<call, fds, buffer, result, stored, saved, broken, calls>>,
         left' \in [Clients -> 0 .. Chunks],
         pending' \subseteq Requests,
         answer' \in [Clients -> [code : Codes, val : Values \cup {NoVal},
                                  len : {0, Chunks}, sent : 0 .. Chunks]]
  PROVE  TypeOK' /\ ScfgInv'
<1> USE ScfgAssumption
<1>1. TypeOK'
  BY DEF TypeOK, PCs, Open, Requests
<1>2. DataInv'
  BY DEF ScfgInv, DataInv, TypeOK, Open
<1>3. FdsOfCalls' /\ FdOpen' /\ EndsOnce'
  BY DEF ScfgInv, FdsOfCalls, FdOpen, EndsOnce, TypeOK, Open
<1> QED
  BY <1>1, <1>2, <1>3 DEF ScfgInv

-------------------------------------------------------------------------------
LEMMA BeginInv ==
  ASSUME TypeOK, ScfgInv, NEW c \in Clients, Begin(c)
  PROVE  TypeOK' /\ ScfgInv'
<1> USE ScfgAssumption
<1>1. calls \in Nat /\ calls < MaxCalls /\ calls' = calls + 1
  BY DEF Begin, TypeOK
<1>2. PICK cmd \in Cmds, v \in Values \cup {NoVal} :
        /\ v = NoVal <=> cmd # "SET"
        /\ call' = [call EXCEPT ![c] = [id |-> calls + 1, cmd |-> cmd, val |-> v]]
  BY DEF Begin
<1> DEFINE r == [id |-> calls + 1, cmd |-> cmd, val |-> v]
<1>3. r \in Requests
  BY <1>1, <1>2 DEF Requests
<1>4. \A d \in Clients : call'[d] = IF d = c THEN r ELSE call[d]
  BY <1>2 DEF ScfgInv, DataInv
<1>5. TypeOK'
  <2>1. \A d \in Clients : call'[d].id \in 0 .. MaxCalls /\ call'[d].cmd \in Cmds \cup {"NONE"}
    BY <1>1, <1>4 DEF TypeOK
  <2>2. answer' \in [Clients -> [code : Codes, val : Values \cup {NoVal},
                                 len : {0, Chunks}, sent : 0 .. Chunks]]
    BY DEF Begin, ScfgInv, DataInv, NoAnswer, Codes
  <2> QED
    BY <1>1, <2>1, <2>2 DEF Begin, TypeOK, PCs
<1>6. DataInv'
  <2>1. answer' \in [Clients -> [code : Codes, val : Values \cup {NoVal},
                                 len : {0, Chunks}, sent : 0 .. Chunks]]
    BY DEF Begin, ScfgInv, DataInv, NoAnswer, Codes
  <2>2. call' \in [Clients -> Requests \cup {NoCall}]
    BY <1>2, <1>3 DEF ScfgInv, DataInv
  <2>3. ASSUME NEW d \in Clients, pc'[d] # "idle" PROVE call'[d] \in Requests
    BY <1>3, <1>4, <2>3 DEF Begin, TypeOK, ScfgInv, DataInv
  <2> QED
    BY <2>1, <2>2, <2>3 DEF Begin, ScfgInv, DataInv
<1>7. FdsOfCalls' /\ FdOpen' /\ EndsOnce'
  BY <1>1 DEF Begin, ScfgInv, FdsOfCalls, FdOpen, EndsOnce, TypeOK, Open
<1> QED
  BY <1>5, <1>6, <1>7 DEF ScfgInv

LEMMA ConnectInv ==
  ASSUME TypeOK, ScfgInv, NEW c \in Clients, SocketFails(c) \/ ConnectFails(c) \/ Connect(c)
  PROVE  TypeOK' /\ ScfgInv'
<1> USE ScfgAssumption
<1>1. pc[c] = "connect" /\ fds[c] <= broken[c] /\ fds[c] \in Nat /\ broken[c] \in Nat
  BY DEF SocketFails, ConnectFails, Connect, ScfgInv, FdsOfCalls, Open, TypeOK
<1>2. CASE SocketFails(c)
  <2>1. TypeOK'
    BY <1>2 DEF SocketFails, ReturnError, managerVars, TypeOK, PCs
  <2>2. DataInv'
    BY <1>2 DEF SocketFails, ReturnError, managerVars, ScfgInv, DataInv, TypeOK
  <2>3. FdsOfCalls' /\ FdOpen' /\ EndsOnce'
    BY <1>1, <1>2 DEF SocketFails, ReturnError, ScfgInv, FdsOfCalls, FdOpen, EndsOnce, TypeOK, Open
  <2> QED
    BY <2>1, <2>2, <2>3 DEF ScfgInv
<1>3. CASE ConnectFails(c)
  <2>1. fds' \in [Clients -> 0 .. MaxFds]
    BY <1>3 DEF ConnectFails, TypeOK
  <2> QED
    BY <1>1, <1>3, <2>1, BreakInv DEF ConnectFails
<1>4. CASE Connect(c)
  <2>1. TypeOK'
    BY <1>4 DEF Connect, managerVars, TypeOK, PCs
  <2>2. DataInv'
    BY <1>4 DEF Connect, managerVars, ScfgInv, DataInv, TypeOK
  <2>3. FdsOfCalls' /\ FdOpen' /\ EndsOnce'
    BY <1>1, <1>4 DEF Connect, ScfgInv, FdsOfCalls, FdOpen, EndsOnce, TypeOK, Open
  <2> QED
    BY <2>1, <2>2, <2>3 DEF ScfgInv
<1> QED
  BY <1>2, <1>3, <1>4

LEMMA WriteInv ==
  ASSUME TypeOK, ScfgInv, NEW c \in Clients, WriteHeader(c) \/ WriteData(c)
  PROVE  TypeOK' /\ ScfgInv'
<1>1. pc[c] \in Open /\ call[c] \in Requests
  BY DEF WriteHeader, WriteData, ScfgInv, DataInv, Open
<1>2. pending' \subseteq Requests /\ UNCHANGED <<answer, left>>
  BY <1>1 DEF WriteHeader, WriteData, ScfgInv, DataInv
<1>3. PICK to \in Open : pc' = [pc EXCEPT ![c] = to]
  BY DEF WriteHeader, WriteData, Open
<1> QED
  BY <1>1, <1>2, <1>3, GoesOn DEF WriteHeader, WriteData, TypeOK, ScfgInv, DataInv

LEMMA ReadInv ==
  ASSUME TypeOK, ScfgInv, NEW c \in Clients, ReadHeader(c) \/ ReadData(c) \/ ReadNoData(c)
  PROVE  TypeOK' /\ ScfgInv'
<1> USE ScfgAssumption
<1>1. pc[c] \in Open
  BY DEF ReadHeader, ReadData, ReadNoData, Open
<1>2. answer[c] \in [code : Codes, val : Values \cup {NoVal}, len : {0, Chunks}, sent : 0 .. Chunks]
  BY DEF ScfgInv, DataInv
<1>3. CASE ReadHeader(c)
  <2>1. CASE answer[c].len > 0
    <3>1. pc' = [pc EXCEPT ![c] = "rdata"] /\ left' = [left EXCEPT ![c] = answer[c].len]
            /\ UNCHANGED <<call, fds, buffer, result, managerVars, broken, calls>>
      BY <1>2, <1>3, <2>1 DEF ReadHeader
    <3>2. left' \in [Clients -> 0 .. Chunks]
      BY <1>2, <3>1 DEF TypeOK
    <3> QED
      BY <1>1, <3>1, <3>2, GoesOn DEF Open, managerVars, ScfgInv, DataInv
  <2>2. CASE UNCHANGED buffer /\ Finish(c)
    BY <1>1, <2>2, FinishInv DEF TypeOK
  <2> QED
    BY <1>2, <1>3, <2>1, <2>2 DEF ReadHeader
<1>4. CASE ReadData(c)
  <2>1. PICK n \in 1 .. answer[c].sent :
          \/ /\ n < left[c]
             /\ left' = [left EXCEPT ![c] = @ - n]
             /\ answer' = [answer EXCEPT ![c].sent = @ - n]
             /\ UNCHANGED <<pc, call, fds, buffer, result, pending, stored, saved, broken, calls>>
          \/ /\ n = left[c]
             /\ buffer' = [buffer EXCEPT ![c] = answer[c].val]
             /\ Finish(c)
    BY <1>4 DEF ReadData
  <2>2. CASE n < left[c] /\ left' = [left EXCEPT ![c] = @ - n]
             /\ answer' = [answer EXCEPT ![c].sent = @ - n]
             /\ UNCHANGED <<pc, call, fds, buffer, result, pending, stored, saved, broken, calls>>
    <3>1. left' \in [Clients -> 0 .. Chunks]
      <4>1. left[c] - n \in 0 .. Chunks
        BY <1>2, <2>2 DEF TypeOK
      <4> QED
        BY <2>2, <4>1 DEF TypeOK
    <3>2. answer' \in [Clients -> [code : Codes, val : Values \cup {NoVal},
                                   len : {0, Chunks}, sent : 0 .. Chunks]]
      <4>1. answer[c].sent - n \in 0 .. Chunks
        BY <1>2
      <4> QED
        BY <2>2, <4>1 DEF ScfgInv, DataInv
    <3>3. pc' = [pc EXCEPT ![c] = pc[c]]
      BY <2>2 DEF TypeOK
    <3> QED
      BY <1>1, <2>2, <3>1, <3>2, <3>3, GoesOn DEF ScfgInv, DataInv
  <2>3. CASE buffer' = [buffer EXCEPT ![c] = answer[c].val] /\ Finish(c)
    <3>1. buffer' \in [Clients -> Values \cup {NoVal}]
      BY <1>2, <2>3 DEF TypeOK
    <3> QED
      BY <1>1, <2>3, <3>1, FinishInv
  <2> QED
    BY <2>1, <2>2, <2>3
<1>5. CASE ReadNoData(c)
  BY <1>5 DEF ReadNoData, vars, TypeOK, ScfgInv, DataInv, FdsOfCalls, FdOpen, EndsOnce
<1> QED
  BY <1>3, <1>4, <1>5

LEMMA ConnectionEnds ==
  ASSUME TypeOK, ScfgInv, NEW c \in Clients, ConnectionFails(c) \/ ReadNoHeader(c)
  PROVE  TypeOK' /\ ScfgInv'
<1>1. pc[c] \in Open /\ Break(c) /\ UNCHANGED fds
  BY DEF ConnectionFails, ReadNoHeader, Open
<1> QED
  BY <1>1, BreakInv DEF Open, TypeOK

(* The manager does nothing to the calls but answer them.                  *)
LEMMA ManagerInv ==
  ASSUME TypeOK, ScfgInv, NEW r \in pending, Serve(r) \/ Die(r)
  PROVE  TypeOK' /\ ScfgInv'
<1> USE ScfgAssumption
<1>1. r \in Requests /\ pending' \subseteq Requests /\ pending' \subseteq pending
  BY DEF Serve, Die, ScfgInv, DataInv
<1>2. UNCHANGED <<pc, call, fds, left, buffer, result, broken, calls>>
  BY DEF Serve, Die
<1>3. stored' \in Values /\ saved' \in Values
  BY <1>1 DEF Serve, Die, TypeOK, Requests
<1>4. answer' \in [Clients -> [code : Codes, val : Values \cup {NoVal},
                               len : {0, Chunks}, sent : 0 .. Chunks]]
  <2>1. CASE Serve(r)
    <3>1. PICK code \in {"OK", "ERR"}, len \in {0, Chunks}, sent \in 0 .. Chunks :
            answer' = [c \in Clients |->
              IF Waiting(c, r) THEN [code |-> code, val |-> stored', len |-> len, sent |-> sent]
              ELSE answer[c]]
      BY <2>1 DEF Serve
    <3> QED
      BY <1>3, <3>1 DEF ScfgInv, DataInv, Codes
  <2>2. CASE Die(r)
    BY <2>2 DEF Die, NoAnswer, ScfgInv, DataInv, Codes
  <2> QED
    BY <2>1, <2>2
<1>5. TypeOK'
  <2>1. \A c \in Clients : answer'[c].sent \in 0 .. Chunks /\ answer'[c].len \in {0, Chunks}
    BY <1>4
  <2> QED
    BY <1>1, <1>2, <1>3, <2>1 DEF TypeOK
<1>6. ScfgInv'
  BY <1>1, <1>2, <1>4 DEF ScfgInv, DataInv, FdsOfCalls, FdOpen, EndsOnce
<1> QED
  BY <1>5, <1>6

-------------------------------------------------------------------------------
(* Types, and where every descriptor belongs.                              *)
THEOREM ScfgTypeCorrect == Spec => [](TypeOK /\ ScfgInv)
<1> USE ScfgAssumption
<1>1. Init => TypeOK /\ ScfgInv
  <2> SUFFICES ASSUME Init PROVE TypeOK /\ ScfgInv
    OBVIOUS
  <2>1. TypeOK
    BY DEF Init, TypeOK, PCs, NoCall, NoAnswer
  <2>2. DataInv
    BY DEF Init, DataInv, NoCall, NoAnswer, Codes
  <2>3. FdsOfCalls /\ FdOpen /\ EndsOnce
    BY DEF Init, FdsOfCalls, FdOpen, EndsOnce, Open
  <2> QED
    BY <2>1, <2>2, <2>3 DEF ScfgInv
<1>2. TypeOK /\ ScfgInv /\ [Next]_vars => TypeOK' /\ ScfgInv'
  <2> SUFFICES ASSUME TypeOK, ScfgInv, [Next]_vars PROVE TypeOK' /\ ScfgInv'
    OBVIOUS
  <2>1. ASSUME NEW c \in Clients, Begin(c) PROVE TypeOK' /\ ScfgInv'
    BY <2>1, BeginInv
  <2>2. ASSUME NEW c \in Clients, Step(c) PROVE TypeOK' /\ ScfgInv'
    BY <2>2, ConnectInv, WriteInv, ReadInv, ConnectionEnds DEF Step
  <2>3. ASSUME NEW c \in Clients, ConnectionFails(c) PROVE TypeOK' /\ ScfgInv'
    BY <2>3, ConnectionEnds
  <2>4. ASSUME NEW r \in pending, Serve(r) \/ Die(r) PROVE TypeOK' /\ ScfgInv'
    BY <2>4, ManagerInv
  <2>5. CASE UNCHANGED vars
    BY <2>5 DEF vars, TypeOK, ScfgInv, DataInv, FdsOfCalls, FdOpen, EndsOnce
  <2> QED
    BY <2>1, <2>2, <2>3, <2>4, <2>5 DEF Next, Finished
<1> QED
  BY <1>1, <1>2, PTL DEF Spec

(* Between its calls a client holds no descriptor but those of connections *)
(* that ended early, whatever the manager answered.                        *)
THEOREM NoDescriptorLeftCorrect == Spec => []NoDescriptorLeft
<1>1. ScfgInv => NoDescriptorLeft
  BY DEF ScfgInv, FdsOfCalls, NoDescriptorLeft, Open
<1> QED
  BY <1>1, ScfgTypeCorrect, PTL

-------------------------------------------------------------------------------
(* The calls implement the store, if the manager refuses sets and commits  *)
(* only: the reading calls do not look at the code of their answer.        *)
OnlyChangesRefused == Refusals \subseteq {"SET", "COMMIT"}

(* The variables of the store.                                             *)
Asked == pending \cup {call[c] : c \in {d \in Clients : pc[d] \in {"connect", "header", "data"}}}
Busy  == {c \in Clients : pc[c] # "idle"}
Reply == [c \in Clients |-> IF answer[c].code = "OK" THEN answer[c].val ELSE NoVal]

(* No two calls have one number.                                           *)
CallsDiffer ==
  /\ \A c \in Clients : call[c].id <= calls
  /\ \A r \in pending : r.id <= calls
  /\ \A c, d \in Clients : call[c].id # 0 /\ call[c].id = call[d].id => c = d

(* A request reaches the manager once, and is answered after that.         *)
AskedOnce ==
  \A c \in Clients :
    /\ pc[c] \in {"connect", "header", "data"} =>
         call[c] \notin pending /\ answer[c].code = "NONE"
    /\ pc[c] # "idle" /\ answer[c].code # "NONE" => call[c] \notin pending

(* Data come with a success, and with every success of a reading call.     *)
DataFit ==
  \A c \in Clients :
    /\ answer[c].code = "OK" =>
         answer[c].val \in Values /\ answer[c].len = IF HasBody(call[c].cmd) THEN Chunks ELSE 0
    /\ answer[c].code # "OK" => answer[c].len = 0
    /\ answer[c].code = "ERR" => call[c].cmd \in Refusals
    /\ pc[c] = "rdata" => answer[c].code = "OK" /\ answer[c].len > 0

(* Until a call ends nothing was handed over.                              *)
NothingHanded == \A c \in Clients : pc[c] # "idle" => buffer[c] = NoVal

StoreInv == CallsDiffer /\ AskedOnce /\ DataFit /\ NothingHanded

LEMMA BeginStoreInv ==
  ASSUME TypeOK, ScfgInv, StoreInv, NEW c \in Clients, Begin(c)
  PROVE  StoreInv'
<1> USE ScfgAssumption
<1>1. calls \in Nat /\ calls' = calls + 1 /\ UNCHANGED pending
  BY DEF Begin, TypeOK
<1>2. PICK cmd \in Cmds, v \in Values \cup {NoVal} :
        call' = [call EXCEPT ![c] = [id |-> calls + 1, cmd |-> cmd, val |-> v]]
  BY DEF Begin
<1> DEFINE r == [id |-> calls + 1, cmd |-> cmd, val |-> v]
<1>3. /\ \A d \in Clients : call'[d] = IF d = c THEN r ELSE call[d]
      /\ \A d \in Clients : pc'[d] = IF d = c THEN "connect" ELSE pc[d]
      /\ \A d \in Clients : buffer'[d] = IF d = c THEN NoVal ELSE buffer[d]
      /\ \A d \in Clients : answer'[d] = IF d = c THEN NoAnswer ELSE answer[d]
  BY <1>2 DEF Begin, TypeOK, ScfgInv, DataInv
<1>4. \A d \in Clients : call[d].id \in Nat /\ call[d].id <= calls
  BY DEF TypeOK, StoreInv, CallsDiffer
<1>5. \A q \in pending : q.id \in Nat /\ q.id <= calls /\ q # r
  BY <1>1 DEF TypeOK, StoreInv, CallsDiffer
<1> HIDE DEF r
<1>6. r.id = calls + 1
  BY DEF r
<1>7. CallsDiffer'
  BY <1>1, <1>3, <1>4, <1>5, <1>6 DEF StoreInv, CallsDiffer
<1>8. AskedOnce'
  BY <1>1, <1>3, <1>5 DEF StoreInv, AskedOnce, NoAnswer
<1>9. DataFit'
  BY <1>3 DEF StoreInv, DataFit, NoAnswer
<1>10. NothingHanded'
  BY <1>3 DEF StoreInv, NothingHanded
<1> QED
  BY <1>7, <1>8, <1>9, <1>10 DEF StoreInv

(* A call that ends, however it ends, asks for nothing more.               *)
LEMMA EndStoreInv ==
  ASSUME TypeOK, StoreInv, NEW c \in Clients, pc' = [pc EXCEPT ![c] = "idle"],
         \A d \in Clients \ {c} : buffer'[d] = buffer[d],
         UNCHANGED <<call, answer, pending, calls>>
  PROVE  StoreInv'
<1>1. CallsDiffer'
  BY DEF StoreInv, CallsDiffer
<1>2. AskedOnce' /\ DataFit' /\ NothingHanded'
  BY DEF TypeOK, StoreInv, AskedOnce, DataFit, NothingHanded
<1> QED
  BY <1>1, <1>2 DEF StoreInv

LEMMA ErrorStoreInv ==
  ASSUME TypeOK, StoreInv, NEW c \in Clients, ReturnError(c)
  PROVE  StoreInv'
BY EndStoreInv DEF ReturnError, managerVars, TypeOK

LEMMA WriteStoreInv ==
  ASSUME TypeOK, ScfgInv, StoreInv, NEW c \in Clients,
         Connect(c) \/ WriteHeader(c) \/ WriteData(c)
  PROVE  StoreInv'
<1>1. UNCHANGED <<call, answer, buffer, calls>>
  BY DEF Connect, WriteHeader, WriteData, managerVars
<1>2. pc[c] \in {"connect", "header", "data"}
  BY DEF Connect, WriteHeader, WriteData
<1>3. PICK to \in {"header", "data", "rheader"} : pc' = [pc EXCEPT ![c] = to]
  BY DEF Connect, WriteHeader, WriteData
<1>4. \/ to # "rheader" /\ UNCHANGED pending
      \/ to = "rheader" /\ pending' = pending \cup {call[c]}
  BY <1>3 DEF Connect, WriteHeader, WriteData, managerVars, TypeOK
<1>5. call[c] \in Requests /\ answer[c].code = "NONE"
  BY <1>2 DEF ScfgInv, DataInv, StoreInv, AskedOnce
<1>6. call[c].id # 0
  BY <1>5 DEF Requests
<1>7. CallsDiffer'
  BY <1>1, <1>4 DEF StoreInv, CallsDiffer
<1>8. \A d \in Clients \ {c} : call[d] # call[c]
  BY <1>6 DEF StoreInv, CallsDiffer
<1>9. AskedOnce'
  BY <1>1, <1>2, <1>3, <1>4, <1>5, <1>8 DEF StoreInv, AskedOnce, TypeOK
<1>10. DataFit' /\ NothingHanded'
  BY <1>1, <1>2, <1>3 DEF StoreInv, DataFit, NothingHanded, TypeOK
<1> QED
  BY <1>7, <1>9, <1>10 DEF StoreInv

LEMMA FinishStoreInv ==
  ASSUME TypeOK, StoreInv, NEW c \in Clients, Finish(c),
         \A d \in Clients \ {c} : buffer'[d] = buffer[d]
  PROVE  StoreInv'
BY EndStoreInv DEF Finish, managerVars

LEMMA ReadStoreInv ==
  ASSUME TypeOK, ScfgInv, StoreInv, NEW c \in Clients,
         ReadHeader(c) \/ ReadData(c) \/ ReadNoData(c)
  PROVE  StoreInv'
<1> USE ScfgAssumption
<1>1. CASE ReadHeader(c)
  <2>1. CASE UNCHANGED buffer /\ Finish(c)
    BY <2>1, FinishStoreInv
  <2>2. CASE answer[c].len > 0 /\ pc' = [pc EXCEPT ![c] = "rdata"]
             /\ UNCHANGED <<call, fds, buffer, result, managerVars, broken, calls>>
    <3>1. pc[c] = "rheader" /\ answer[c].code = "OK"
      BY <1>1, <2>2 DEF ReadHeader, StoreInv, DataFit
    <3>2. CallsDiffer' /\ AskedOnce'
      BY <2>2, <3>1 DEF StoreInv, CallsDiffer, AskedOnce, TypeOK, managerVars
    <3>3. DataFit' /\ NothingHanded'
      BY <2>2, <3>1 DEF StoreInv, DataFit, NothingHanded, TypeOK, managerVars
    <3> QED
      BY <3>2, <3>3 DEF StoreInv
  <2> QED
    BY <1>1, <2>1, <2>2 DEF ReadHeader
<1>2. CASE ReadData(c)
  <2>1. CASE buffer' = [buffer EXCEPT ![c] = answer[c].val] /\ Finish(c)
    BY <2>1, FinishStoreInv DEF TypeOK
  <2>2. ASSUME NEW n \in 1 .. answer[c].sent,
               answer' = [answer EXCEPT ![c].sent = @ - n],
               UNCHANGED <<pc, call, fds, buffer, result, pending, stored, saved, broken, calls>>
        PROVE  StoreInv'
    <3>1. \A d \in Clients : answer'[d].code = answer[d].code /\ answer'[d].val = answer[d].val
                               /\ answer'[d].len = answer[d].len
      BY <2>2 DEF ScfgInv, DataInv
    <3> QED
      BY <2>2, <3>1 DEF StoreInv, CallsDiffer, AskedOnce, DataFit, NothingHanded
  <2> QED
    BY <1>2, <2>1, <2>2 DEF ReadData
<1>3. CASE ReadNoData(c)
  BY <1>3 DEF ReadNoData, vars, StoreInv, CallsDiffer, AskedOnce, DataFit, NothingHanded
<1> QED
  BY <1>1, <1>2, <1>3

(* An answer goes to who waits for it, and is the first it gets.           *)
LEMMA ManagerStoreInv ==
  ASSUME TypeOK, ScfgInv, StoreInv, NEW r \in pending, Serve(r) \/ Die(r)
  PROVE  StoreInv'
<1> USE ScfgAssumption
<1>1. UNCHANGED <<pc, call, buffer, calls>> /\ pending' = pending \ {r}
  BY DEF Serve, Die
<1>2. CallsDiffer' /\ NothingHanded'
  BY <1>1 DEF StoreInv, CallsDiffer, NothingHanded
<1>3. ASSUME NEW c \in Clients, ~Waiting(c, r) PROVE answer'[c] = answer[c]
  BY <1>3 DEF Serve, Die
<1>4. ASSUME NEW c \in Clients, Waiting(c, r)
      PROVE  /\ answer'[c].code = "OK" => answer'[c].val \in Values
                    /\ answer'[c].len = IF HasBody(r.cmd) THEN Chunks ELSE 0
             /\ answer'[c].code # "OK" => answer'[c].len = 0
             /\ answer'[c].code = "ERR" => r.cmd \in Refusals
  <2>1. CASE Serve(r)
    <3>1. stored' \in Values
      BY <2>1 DEF Serve, TypeOK, ScfgInv, DataInv, Requests
    <3>2. PICK code \in {"OK"} \cup (IF r.cmd \in Refusals THEN {"ERR"} ELSE {}), sent \in Nat :
            answer' = [d \in Clients |->
              IF Waiting(d, r)
              THEN [code |-> code, val |-> stored',
                    len |-> IF HasBody(r.cmd) /\ code = "OK" THEN Chunks ELSE 0, sent |-> sent]
              ELSE answer[d]]
      BY <2>1 DEF Serve
    <3> QED
      BY <1>4, <3>1, <3>2
  <2>2. CASE Die(r)
    BY <1>4, <2>2 DEF Die, NoAnswer
  <2> QED
    BY <2>1, <2>2
<1>5. AskedOnce'
  BY <1>1, <1>3 DEF Waiting, StoreInv, AskedOnce
<1>6. DataFit'
  BY <1>1, <1>3, <1>4 DEF Waiting, StoreInv, DataFit
<1> QED
  BY <1>2, <1>5, <1>6 DEF StoreInv

LEMMA StoreInvCorrect == Spec => []StoreInv
<1>1. Init => StoreInv
  BY DEF Init, StoreInv, CallsDiffer, AskedOnce, DataFit, NothingHanded, NoCall, NoAnswer
<1>2. TypeOK /\ ScfgInv /\ StoreInv /\ [Next]_vars => StoreInv'
  <2> SUFFICES ASSUME TypeOK, ScfgInv, StoreInv, [Next]_vars PROVE StoreInv'
    OBVIOUS
  <2>1. ASSUME NEW c \in Clients, Begin(c) PROVE StoreInv'
    BY <2>1, BeginStoreInv
  <2>2. ASSUME NEW c \in Clients, Step(c) \/ ConnectionFails(c) PROVE StoreInv'
    BY <2>2, ErrorStoreInv, WriteStoreInv, ReadStoreInv
       DEF Step, SocketFails, ConnectFails, ReadNoHeader, ConnectionFails, Break
  <2>3. ASSUME NEW r \in pending, Serve(r) \/ Die(r) PROVE StoreInv'
    BY <2>3, ManagerStoreInv
  <2>4. CASE UNCHANGED vars
    BY <2>4 DEF vars, StoreInv, CallsDiffer, AskedOnce, DataFit, NothingHanded
  <2> QED
    BY <2>1, <2>2, <2>3, <2>4 DEF Next, Finished
<1> QED
  BY <1>1, <1>2, ScfgTypeCorrect, PTL DEF Spec

-------------------------------------------------------------------------------
(* Every step of a client or of the manager is one step of the store, or   *)
(* none.                                                                   *)

StoreVars == <<stored, saved, Asked, call, Busy, Reply, result>>

StoreInvoke(c) ==
  /\ c \notin Busy
  /\ Busy' = Busy \cup {c}
  /\ \E id \in 1 .. MaxCalls, cmd \in Cmds, v \in Values \cup {NoVal} :
       /\ call' = [call EXCEPT ![c] = [id |-> id, cmd |-> cmd, val |-> v]]
       /\ Asked' = Asked \cup {call'[c]}
  /\ Reply' = [Reply EXCEPT ![c] = NoVal]
  /\ UNCHANGED <<stored, saved, result>>

StorePerform(r) ==
  /\ Asked' = Asked \ {r}
  /\ stored' = IF r.cmd = "SET" THEN r.val ELSE stored
  /\ saved' = IF r.cmd = "COMMIT" THEN stored ELSE saved
  /\ Reply' = [c \in Clients |-> IF call[c] = r /\ c \in Busy THEN stored' ELSE Reply[c]]
  /\ UNCHANGED <<call, Busy, result>>

StoreDrop(r) ==
  /\ Asked' = Asked \ {r}
  /\ UNCHANGED <<stored, saved, call, Busy, Reply, result>>

StoreSucceed(c) ==
  /\ c \in Busy
  /\ Reply[c] # NoVal
  /\ Busy' = Busy \ {c}
  /\ result' = [result EXCEPT ![c] =
       [status |-> "ok", data |-> IF call[c].cmd \in {"GET", "GETALL"} THEN Reply[c] ELSE NoVal]]
  /\ UNCHANGED <<stored, saved, Asked, call, Reply>>

StoreFail(c) ==
  /\ c \in Busy
  /\ Busy' = Busy \ {c}
  /\ result' = [result EXCEPT ![c] = [status |-> "error", data |-> NoVal]]
  /\ \/ UNCHANGED Asked
     \/ Asked' = Asked \ {call[c]}
  /\ UNCHANGED <<stored, saved, call, Reply>>

StoreStep ==
  \/ \E c \in Clients : StoreInvoke(c) \/ StoreSucceed(c) \/ StoreFail(c)
  \/ \E r \in Asked : StorePerform(r) \/ StoreDrop(r)
  \/ UNCHANGED StoreVars

LEMMA StoreStepIsStores == StoreStep => [Store!Next]_Store!vars
BY DEF StoreStep, StoreInvoke, StorePerform, StoreDrop, StoreSucceed, StoreFail, StoreVars,
       Asked, Busy, Reply,
       Store!Next, Store!Invoke, Store!Perform, Store!Drop, Store!Succeed, Store!Fail,
       Store!vars

LEMMA BeginIsInvoke ==
  ASSUME TypeOK, ScfgInv, StoreInv, NEW c \in Clients, Begin(c)
  PROVE  StoreStep
<1>1. c \notin Busy /\ Busy' = Busy \cup {c}
  BY DEF Begin, Busy, TypeOK
<1>2. PICK cmd \in Cmds, v \in Values \cup {NoVal} :
        call' = [call EXCEPT ![c] = [id |-> calls + 1, cmd |-> cmd, val |-> v]]
  BY DEF Begin
<1>3. calls + 1 \in 1 .. MaxCalls
  BY ScfgAssumption DEF Begin, TypeOK
<1>4. Asked' = Asked \cup {call'[c]}
  BY <1>2 DEF Begin, Asked, TypeOK, ScfgInv, DataInv
<1>5. Reply' = [Reply EXCEPT ![c] = NoVal]
  BY DEF Begin, Reply, ScfgInv, DataInv, NoAnswer
<1>6. StoreInvoke(c)
  BY <1>1, <1>2, <1>3, <1>4, <1>5 DEF StoreInvoke, Begin
<1> QED
  BY <1>6 DEF StoreStep

(* A call that reports an error has perhaps not reached the manager, and   *)
(* is given up then.                                                       *)
LEMMA ErrorIsFail ==
  ASSUME TypeOK, ScfgInv, StoreInv, NEW c \in Clients, pc[c] # "idle", ReturnError(c)
  PROVE  StoreStep
<1>1. c \in Busy /\ Busy' = Busy \ {c}
  BY DEF ReturnError, Busy, TypeOK
<1>2. UNCHANGED Reply
  BY DEF ReturnError, managerVars, Reply
<1>3. UNCHANGED Asked \/ Asked' = Asked \ {call[c]}
  <2>1. CASE pc[c] \in {"connect", "header", "data"}
    <3>1. call[c] \in Requests /\ call[c].id # 0
      BY <2>1 DEF ScfgInv, DataInv, Requests
    <3>2. call[c] \notin pending /\ \A d \in Clients \ {c} : call[d] # call[c]
      BY <2>1, <3>1 DEF StoreInv, CallsDiffer, AskedOnce
    <3> QED
      BY <2>1, <3>2 DEF ReturnError, managerVars, Asked, TypeOK
  <2>2. CASE pc[c] \notin {"connect", "header", "data"}
    BY <2>2 DEF ReturnError, managerVars, Asked, TypeOK
  <2> QED
    BY <2>1, <2>2
<1>4. StoreFail(c)
  BY <1>1, <1>2, <1>3 DEF StoreFail, ReturnError, managerVars
<1> QED
  BY <1>4 DEF StoreStep

(* Up to its end a call asks for one thing, whichever way it is written.   *)
LEMMA WriteIsNoStep ==
  ASSUME TypeOK, ScfgInv, StoreInv, NEW c \in Clients,
         Connect(c) \/ WriteHeader(c) \/ WriteData(c)
  PROVE  StoreStep
<1>1. UNCHANGED <<call, answer, stored, saved, result>>
  BY DEF Connect, WriteHeader, WriteData, managerVars
<1>2. pc[c] \in {"connect", "header", "data"}
  BY DEF Connect, WriteHeader, WriteData
<1>3. PICK to \in {"header", "data", "rheader"} : pc' = [pc EXCEPT ![c] = to]
  BY DEF Connect, WriteHeader, WriteData
<1>4. \/ to # "rheader" /\ UNCHANGED pending
      \/ to = "rheader" /\ pending' = pending \cup {call[c]}
  BY <1>3 DEF Connect, WriteHeader, WriteData, managerVars, TypeOK
<1>5. UNCHANGED <<Asked, Busy, Reply>>
  <2>1. UNCHANGED Asked
    BY <1>1, <1>2, <1>3, <1>4 DEF Asked, TypeOK
  <2>2. UNCHANGED Busy
    BY <1>2, <1>3 DEF Busy, TypeOK
  <2>3. UNCHANGED Reply
    BY <1>1 DEF Reply
  <2> QED
    BY <2>1, <2>2, <2>3
<1> QED
  BY <1>1, <1>5 DEF StoreStep, StoreVars

(* A call that got its answer reports it.                                  *)
LEMMA FinishIsReturn ==
  ASSUME TypeOK, ScfgInv, StoreInv, OnlyChangesRefused, NEW c \in Clients,
         pc[c] \in {"rheader", "rdata"}, answer[c].code \in {"OK", "ERR"},
         buffer'[c] = (IF HasBody(call[c].cmd) /\ answer[c].code = "OK"
                       THEN answer[c].val ELSE NoVal),
         Finish(c)
  PROVE  StoreStep
<1>1. c \in Busy /\ Busy' = Busy \ {c}
  BY DEF Finish, Busy, TypeOK
<1>2. UNCHANGED <<Reply, Asked>>
  BY DEF Finish, managerVars, Reply, Asked, TypeOK
<1>3. UNCHANGED <<stored, saved, call>>
  BY DEF Finish, managerVars
<1>4. CASE answer[c].code = "OK"
  <2>1. Reply[c] = answer[c].val /\ Reply[c] \in Values
    BY <1>4 DEF Reply, StoreInv, DataFit
  <2>2. Status(call[c].cmd, answer[c].code) = "ok"
    BY <1>4 DEF Status
  <2>3. buffer'[c] = IF call[c].cmd \in {"GET", "GETALL"} THEN Reply[c] ELSE NoVal
    BY <1>4, <2>1 DEF HasBody
  <2>4. StoreSucceed(c)
    BY <1>1, <1>2, <1>3, <2>1, <2>2, <2>3, ScfgAssumption DEF StoreSucceed, Finish
  <2> QED
    BY <2>4 DEF StoreStep
<1>5. CASE answer[c].code = "ERR"
  <2>1. call[c].cmd \in {"SET", "COMMIT"}
    BY <1>5 DEF StoreInv, DataFit, OnlyChangesRefused
  <2>2. Status(call[c].cmd, answer[c].code) = "error" /\ buffer'[c] = NoVal
    BY <1>5, <2>1 DEF Status
  <2>3. StoreFail(c)
    BY <1>1, <1>2, <1>3, <2>2 DEF StoreFail, Finish
  <2> QED
    BY <2>3 DEF StoreStep
<1> QED
  BY <1>4, <1>5

LEMMA ReadIsReturn ==
  ASSUME TypeOK, ScfgInv, StoreInv, OnlyChangesRefused, NEW c \in Clients,
         ReadHeader(c) \/ ReadData(c) \/ ReadNoData(c)
  PROVE  StoreStep
<1> USE ScfgAssumption
<1>1. CASE ReadHeader(c)
  <2>1. pc[c] = "rheader" /\ answer[c].code \in {"OK", "ERR"}
    BY <1>1 DEF ReadHeader
  <2>2. CASE answer[c].len = 0 /\ UNCHANGED buffer /\ Finish(c)
    <3>1. buffer'[c] = NoVal
      BY <2>1, <2>2 DEF StoreInv, NothingHanded
    <3>2. answer[c].code = "OK" => ~HasBody(call[c].cmd)
      BY <2>2 DEF StoreInv, DataFit
    <3> QED
      BY <2>1, <2>2, <3>1, <3>2, FinishIsReturn
  <2>3. CASE /\ pc' = [pc EXCEPT ![c] = "rdata"]
             /\ UNCHANGED <<call, fds, buffer, result, managerVars, broken, calls>>
    BY <2>1, <2>3 DEF managerVars, TypeOK, StoreStep, StoreVars, Asked, Busy, Reply
  <2> QED
    BY <1>1, <2>2, <2>3 DEF ReadHeader
<1>2. CASE ReadData(c)
  <2>1. pc[c] = "rdata" /\ answer[c].code = "OK" /\ HasBody(call[c].cmd)
    BY <1>2 DEF ReadData, StoreInv, DataFit
  <2>2. CASE buffer' = [buffer EXCEPT ![c] = answer[c].val] /\ Finish(c)
    <3>1. buffer'[c] = answer[c].val
      BY <2>2 DEF TypeOK
    <3> QED
      BY <2>1, <2>2, <3>1, FinishIsReturn
  <2>3. ASSUME NEW n \in 1 .. answer[c].sent,
               answer' = [answer EXCEPT ![c].sent = @ - n],
               UNCHANGED <<pc, call, fds, buffer, result, pending, stored, saved, broken, calls>>
        PROVE  StoreStep
    <3>1. \A d \in Clients : answer'[d].code = answer[d].code /\ answer'[d].val = answer[d].val
      BY <2>3 DEF ScfgInv, DataInv
    <3>2. UNCHANGED Reply
      BY <3>1 DEF Reply
    <3>3. UNCHANGED <<Asked, Busy>>
      BY <2>3 DEF Asked, Busy
    <3> QED
      BY <2>3, <3>2, <3>3 DEF StoreStep, StoreVars
  <2> QED
    BY <1>2, <2>2, <2>3 DEF ReadData
<1>3. CASE ReadNoData(c)
  BY <1>3 DEF ReadNoData, vars, StoreStep, StoreVars, Asked, Busy, Reply
<1> QED
  BY <1>1, <1>2, <1>3

(* The manager carries a request out, or drops it.                         *)
LEMMA ManagerIsPerform ==
  ASSUME TypeOK, ScfgInv, StoreInv, NEW r \in pending, Serve(r) \/ Die(r)
  PROVE  StoreStep
<1> USE ScfgAssumption
<1>1. UNCHANGED <<pc, call, result>> /\ pending' = pending \ {r}
  BY DEF Serve, Die
<1>2. r \in Asked /\ Asked' = Asked \ {r} /\ UNCHANGED Busy
  BY <1>1 DEF Asked, Busy, StoreInv, AskedOnce
<1>3. ASSUME NEW c \in Clients
      PROVE  /\ Waiting(c, r) <=> call[c] = r /\ c \in Busy
             /\ Waiting(c, r) => Reply[c] = NoVal
             /\ ~Waiting(c, r) => Reply'[c] = Reply[c]
  <2>1. Waiting(c, r) <=> call[c] = r /\ c \in Busy
    BY DEF Waiting, Busy, TypeOK, PCs, StoreInv, AskedOnce, DataFit
  <2>2. Waiting(c, r) => Reply[c] = NoVal
    BY DEF Waiting, Reply, StoreInv, AskedOnce
  <2>3. ~Waiting(c, r) => Reply'[c] = Reply[c]
    BY DEF Serve, Die, Reply
  <2> QED
    BY <2>1, <2>2, <2>3
<1>4. Reply' = [c \in Clients |-> Reply'[c]] /\ Reply = [c \in Clients |-> Reply[c]]
  BY DEF Reply
<1>5. CASE Die(r)
  <2>1. \A c \in Clients : Waiting(c, r) => Reply'[c] = NoVal
    BY <1>5 DEF Die, Reply, NoAnswer
  <2>2. UNCHANGED Reply
    BY <1>3, <1>4, <2>1
  <2> QED
    BY <1>1, <1>2, <1>5, <2>2 DEF StoreStep, StoreDrop, Die
<1>6. CASE Serve(r)
  <2>1. PICK code \in {"OK"} \cup (IF r.cmd \in Refusals THEN {"ERR"} ELSE {}) :
          /\ stored' = IF r.cmd = "SET" /\ code = "OK" THEN r.val ELSE stored
          /\ saved' = IF r.cmd = "COMMIT" /\ code = "OK" THEN stored ELSE saved
          /\ \E sent \in Nat :
               answer' = [c \in Clients |->
                 IF Waiting(c, r)
                 THEN [code |-> code, val |-> stored',
                       len |-> IF HasBody(r.cmd) /\ code = "OK" THEN Chunks ELSE 0, sent |-> sent]
                 ELSE answer[c]]
    BY <1>6 DEF Serve
  <2>2. \A c \in Clients : Waiting(c, r) => Reply'[c] = IF code = "OK" THEN stored' ELSE NoVal
    BY <2>1 DEF Reply
  <2>3. CASE code = "OK"
    <3>1. \A c \in Clients :
            Reply'[c] = IF call[c] = r /\ c \in Busy THEN stored' ELSE Reply[c]
      BY <1>3, <2>2, <2>3
    <3>2. Reply' = [c \in Clients |-> IF call[c] = r /\ c \in Busy THEN stored' ELSE Reply[c]]
      BY <1>4, <3>1
    <3>3. StorePerform(r)
      BY <1>1, <1>2, <2>1, <2>3, <3>2 DEF StorePerform
    <3> QED
      BY <1>2, <3>3 DEF StoreStep
  <2>4. CASE code # "OK"
    <3>1. UNCHANGED Reply
      BY <1>3, <1>4, <2>2, <2>4
    <3>2. StoreDrop(r)
      BY <1>1, <1>2, <2>1, <2>4, <3>1 DEF StoreDrop
    <3> QED
      BY <1>2, <3>2 DEF StoreStep
  <2> QED
    BY <2>3, <2>4
<1> QED
  BY <1>5, <1>6

(* If the manager refuses sets and commits only, the calls implement the   *)
(* store, for any clients and values: what a call reports as done was done *)
(* during the call, once, and what it hands over was stored then.          *)
THEOREM ImplementsStoreCorrect ==
  ASSUME OnlyChangesRefused
  PROVE  Spec => ImplementsStore
<1>1. Init => Store!Init
  BY DEF Init, NoCall, NoAnswer, Store!Init, Store!NoCall
<1>2. TypeOK /\ ScfgInv /\ StoreInv /\ [Next]_vars => [Store!Next]_Store!vars
  <2> SUFFICES ASSUME TypeOK, ScfgInv, StoreInv, [Next]_vars PROVE StoreStep
    BY StoreStepIsStores
  <2>1. ASSUME NEW c \in Clients, Begin(c) PROVE StoreStep
    BY <2>1, BeginIsInvoke
  <2>2. ASSUME NEW c \in Clients, Step(c) \/ ConnectionFails(c) PROVE StoreStep
    <3>1. ASSUME ReturnError(c), pc[c] # "idle" PROVE StoreStep
      BY <3>1, ErrorIsFail
    <3> QED
      BY <2>2, <3>1, WriteIsNoStep, ReadIsReturn
         DEF Step, SocketFails, ConnectFails, ReadNoHeader, ConnectionFails, Break
  <2>3. ASSUME NEW r \in pending, Serve(r) \/ Die(r) PROVE StoreStep
    BY <2>3, ManagerIsPerform
  <2>4. CASE UNCHANGED vars
    BY <2>4 DEF vars, StoreStep, StoreVars, Asked, Busy, Reply
  <2> QED
    BY <2>1, <2>2, <2>3, <2>4 DEF Next, Finished
<1> QED
  BY <1>1, <1>2, ScfgTypeCorrect, StoreInvCorrect, PTL DEF Spec, ImplementsStore, Store!Spec
===============================================================================
