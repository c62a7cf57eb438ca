------------------------------ MODULE ScfgClient ------------------------------
(***************************************************************************)
(* The client of the configuration manager: socket_connect, socket_write,  *)
(* socket_read and the scfgmgr_* calls of socket_tools.c.  Every call      *)
(* opens a connection of its own, writes a header and perhaps data, and    *)
(* reads a header and perhaps data.                                        *)
(*                                                                         *)
(* The whole configuration is one value; NvramConf tells keys apart.  The  *)
(* manager is external: it is modelled from what the client relies on.     *)
(***************************************************************************)
EXTENDS Naturals, FiniteSets

CONSTANTS
  Clients,
  Values,    (* what the configuration can be                              *)
  NoVal,
  Cmds,      (* the calls: "SET", "COMMIT" (scfgmgr_cmd), "GET", "GETALL"  *)
  Refusals,  (* the calls the manager may answer with SCFG_ERR             *)
  MayDie,    (* TRUE: the manager may be gone or end a connection early    *)
  Chunks,    (* in how many pieces the data of an answer can arrive        *)
  MaxFds,    (* a process can have this many descriptors for sockets       *)
  MaxCalls   (* bound: the number of calls made by all clients together    *)

ASSUME ScfgAssumption ==
  /\ Cmds \subseteq {"SET", "COMMIT", "GET", "GETALL"}
  /\ Refusals \subseteq Cmds
  /\ NoVal \notin Values
  /\ MayDie \in BOOLEAN
  /\ Chunks \in Nat \ {0} /\ MaxFds \in Nat \ {0} /\ MaxCalls \in Nat

VARIABLES
  pc,      (* where every client is in its call                            *)
  call,    (* its call: number, command, value to set                      *)
  fds,     (* descriptors of the process that refer to sockets             *)
  left,    (* pieces of the answer's data that socket_read still wants     *)
  buffer,  (* *rdata: allocated by socket_read, and what is in it          *)
  result,  (* what the last finished call returned, and its *rdata         *)
  answer,  (* on the connection: the header and the data sent so far       *)
  pending, (* requests that reached the manager in full                    *)
  stored,  (* the manager's configuration                                  *)
  saved,   (* the configuration in flash                                   *)
  broken,  (* history: the connections of every client that ended early    *)
  calls    (* history: the number of calls begun                           *)

managerVars == <<answer, pending, stored, saved>>
vars == <<pc, call, fds, left, buffer, result, answer, pending, stored, saved,
          broken, calls>>

PCs      == {"idle", "connect", "header", "data", "rheader", "rdata"}
HasData(cmd) == cmd \in {"SET", "GET"}
HasBody(cmd) == cmd \in {"GET", "GETALL"}

NoCall   == [id |-> 0, cmd |-> "NONE", val |-> NoVal]
NoAnswer == [code |-> "NONE", val |-> NoVal, len |-> 0, sent |-> 0]

Init ==
  /\ pc = [c \in Clients |-> "idle"]
  /\ call = [c \in Clients |-> NoCall]
  /\ fds = [c \in Clients |-> 0]
  /\ left = [c \in Clients |-> 0]
  /\ buffer = [c \in Clients |-> NoVal]
  /\ result = [c \in Clients |-> [status |-> "none", data |-> NoVal]]
  /\ answer = [c \in Clients |-> NoAnswer]
  /\ pending = {}
  /\ stored \in Values /\ saved = stored
  /\ broken = [c \in Clients |-> 0]
  /\ calls = 0

-------------------------------------------------------------------------------
(* The calls *)

(* scfgmgr_cmd, scfgmgr_set, scfgmgr_get, scfgmgr_getall: build the header. *)
Begin(c) ==
  /\ pc[c] = "idle"
  /\ calls < MaxCalls
  /\ calls' = calls + 1
  /\ \E cmd \in Cmds, v \in Values \cup {NoVal} :
       /\ v = NoVal <=> cmd # "SET"
       /\ call' = [call EXCEPT ![c] = [id |-> calls + 1, cmd |-> cmd, val |-> v]]
  /\ pc' = [pc EXCEPT ![c] = "connect"]
  /\ buffer' = [buffer EXCEPT ![c] = NoVal]
  /\ answer' = [answer EXCEPT ![c] = NoAnswer]
  /\ UNCHANGED <<fds, left, result, pending, stored, saved, broken>>

(* Every failure returns -1, and what was read is freed. *)
ReturnError(c) ==
  /\ pc' = [pc EXCEPT ![c] = "idle"]
  /\ left' = [left EXCEPT ![c] = 0]
  /\ buffer' = [buffer EXCEPT ![c] = NoVal]
  /\ result' = [result EXCEPT ![c] = [status |-> "error", data |-> NoVal]]
  /\ UNCHANGED <<call, managerVars, calls>>

(* A failure after the socket was opened: it is not closed. *)
Break(c) ==
  /\ ReturnError(c)
  /\ broken' = [broken EXCEPT ![c] = @ + 1]

(* Mutant of Status: the code of the answer is not looked at. *)
AlwaysOk(cmd, code) == "ok"

(* i is rhd->cmd in scfgmgr_cmd and scfgmgr_set, and 0 in the others. *)
Status(cmd, code) ==
  IF cmd \in {"SET", "COMMIT"} /\ code = "ERR" THEN "error" ELSE "ok"

(* Mutant of Finish: the socket is not closed. *)
FinishKeepsSocket(c) ==
  /\ pc' = [pc EXCEPT ![c] = "idle"]
  /\ left' = [left EXCEPT ![c] = 0]
  /\ result' = [result EXCEPT ![c] =
       [status |-> Status(call[c].cmd, answer[c].code), data |-> buffer'[c]]]
  /\ UNCHANGED <<call, fds, managerVars, broken, calls>>

(* socket_read succeeded: close the socket and report. *)
Finish(c) ==
  /\ pc' = [pc EXCEPT ![c] = "idle"]
  /\ left' = [left EXCEPT ![c] = 0]
  /\ fds' = [fds EXCEPT ![c] = @ - 1]
  /\ result' = [result EXCEPT ![c] =
       [status |-> Status(call[c].cmd, answer[c].code), data |-> buffer'[c]]]
  /\ UNCHANGED <<call, managerVars, broken, calls>>

SocketFails(c) ==
  /\ pc[c] = "connect"
  /\ ReturnError(c)
  /\ UNCHANGED <<fds, broken>>

(* connect() fails: the descriptor is not closed. *)
ConnectFails(c) ==
  /\ MayDie
  /\ pc[c] = "connect"
  /\ fds[c] < MaxFds
  /\ fds' = [fds EXCEPT ![c] = @ + 1]
  /\ Break(c)

Connect(c) ==
  /\ pc[c] = "connect"
  /\ fds[c] < MaxFds
  /\ fds' = [fds EXCEPT ![c] = @ + 1]
  /\ pc' = [pc EXCEPT ![c] = "header"]
  /\ UNCHANGED <<call, left, buffer, result, managerVars, broken, calls>>

(* socket_write: the header, then the data if there are any. *)
WriteHeader(c) ==
  /\ pc[c] = "header"
  /\ pc' = [pc EXCEPT ![c] = IF HasData(call[c].cmd) THEN "data" ELSE "rheader"]
  /\ pending' = IF HasData(call[c].cmd) THEN pending ELSE pending \cup {call[c]}
  /\ UNCHANGED <<call, fds, left, buffer, result, answer, stored, saved, broken, calls>>

WriteData(c) ==
  /\ pc[c] = "data"
  /\ pc' = [pc EXCEPT ![c] = "rheader"]
  /\ pending' = pending \cup {call[c]}
  /\ UNCHANGED <<call, fds, left, buffer, result, answer, stored, saved, broken, calls>>

(* write() or read() fails because the connection is gone. *)
ConnectionFails(c) ==
  /\ MayDie
  /\ pc[c] \in {"header", "data", "rheader", "rdata"}
  /\ Break(c)
  /\ UNCHANGED fds

(* Mutant of ReadHeader: the call returns before its data arrived. *)
ReadHeaderOnly(c) ==
  /\ pc[c] = "rheader"
  /\ answer[c].code \in {"OK", "ERR"}
  /\ buffer' = [buffer EXCEPT ![c] = NoVal]
  /\ Finish(c)

(* Mutant of ReadHeader: one byte more than announced is waited for. *)
ReadHeaderOneMore(c) ==
  /\ pc[c] = "rheader"
  /\ answer[c].code \in {"OK", "ERR"}
  /\ pc' = [pc EXCEPT ![c] = "rdata"]
  /\ left' = [left EXCEPT ![c] = answer[c].len + 1]
  /\ UNCHANGED <<call, fds, buffer, result, managerVars, broken, calls>>

(* socket_read: the header, with space for the data it announces. *)
ReadHeader(c) ==
  /\ pc[c] = "rheader"
  /\ answer[c].code \in {"OK", "ERR"}
  /\ \/ /\ answer[c].len > 0
        /\ pc' = [pc EXCEPT ![c] = "rdata"]
        /\ left' = [left EXCEPT ![c] = answer[c].len]
        /\ UNCHANGED <<call, fds, buffer, result, managerVars, broken, calls>>
     \/ /\ answer[c].len = 0
        /\ UNCHANGED buffer
        /\ Finish(c)

(* Nothing is there to read: the header, never written, has no SCM_MAGIC. *)
ReadNoHeader(c) ==
  /\ pc[c] = "rheader"
  /\ answer[c].code = "EOF"
  /\ Break(c)
  /\ UNCHANGED fds

(* Mutant of ReadData: the pieces are not added up (total = len). *)
ReadDataForgets(c) ==
  \E n \in 1 .. answer[c].sent :
    /\ pc[c] = "rdata"
    /\ \/ /\ n < answer[c].len
          /\ left' = [left EXCEPT ![c] = answer[c].len - n]
          /\ answer' = [answer EXCEPT ![c].sent = @ - n]
          /\ UNCHANGED <<pc, call, fds, buffer, result, pending, stored, saved, broken, calls>>
       \/ /\ n = answer[c].len
          /\ buffer' = [buffer EXCEPT ![c] = answer[c].val]
          /\ Finish(c)

(* while(total < len): pieces are read until all is there. *)
ReadData(c) ==
  \E n \in 1 .. answer[c].sent :
    /\ pc[c] = "rdata"
    /\ \/ /\ n < left[c]
          /\ left' = [left EXCEPT ![c] = @ - n]
          /\ answer' = [answer EXCEPT ![c].sent = @ - n]
          /\ UNCHANGED <<pc, call, fds, buffer, result, pending, stored, saved, broken, calls>>
       \/ /\ n = left[c]
          /\ buffer' = [buffer EXCEPT ![c] = answer[c].val]
          /\ Finish(c)

(* A connection that ended: the read brings nothing, and the loop goes on. *)
ReadNoData(c) ==
  /\ pc[c] = "rdata"
  /\ answer[c].sent = 0
  /\ UNCHANGED vars

-------------------------------------------------------------------------------
(* The manager, external to the repository *)

Waiting(c, r) == pc[c] = "rheader" /\ call[c] = r

(* It carries a request out, or refuses it, and answers whoever waits.  If *)
(* it dies on the way, part of the data or all of the answer is missing.   *)
Serve(r) ==
  /\ pending' = pending \ {r}
  /\ \E code \in {"OK"} \cup (IF r.cmd \in Refusals THEN {"ERR"} ELSE {}) :
       /\ stored' = IF r.cmd = "SET" /\ code = "OK" THEN r.val ELSE stored
       /\ saved' = IF r.cmd = "COMMIT" /\ code = "OK" THEN stored ELSE saved
       /\ LET len == IF HasBody(r.cmd) /\ code = "OK" THEN Chunks ELSE 0 IN
          \E sent \in (IF MayDie THEN 0 .. len ELSE {len}) :
            answer' = [c \in Clients |->
              IF Waiting(c, r) THEN [code |-> code, val |-> stored', len |-> len, sent |-> sent]
              ELSE answer[c]]
  /\ UNCHANGED <<pc, call, fds, left, buffer, result, broken, calls>>

Die(r) ==
  /\ MayDie
  /\ pending' = pending \ {r}
  /\ answer' = [c \in Clients |->
       IF Waiting(c, r) THEN [NoAnswer EXCEPT !.code = "EOF"] ELSE answer[c]]
  /\ UNCHANGED <<pc, call, fds, left, buffer, result, stored, saved, broken, calls>>

-------------------------------------------------------------------------------
Finished == calls = MaxCalls /\ (\A c \in Clients : pc[c] = "idle") /\ UNCHANGED vars

Step(c) ==
  \/ SocketFails(c) \/ ConnectFails(c) \/ Connect(c) \/ WriteHeader(c) \/ WriteData(c)
  \/ ReadHeader(c) \/ ReadNoHeader(c) \/ ReadData(c) \/ ReadNoData(c)

Next ==
  \/ \E c \in Clients : Begin(c) \/ Step(c) \/ ConnectionFails(c)
  \/ \E r \in pending : Serve(r) \/ Die(r)
  \/ Finished

Spec == Init /\ [][Next]_vars

(* A client runs; the manager is not asked to answer. *)
FairSpec == Spec /\ \A c \in Clients : WF_vars(Step(c))
-------------------------------------------------------------------------------
(* Properties *)

TypeOK ==
  /\ pc \in [Clients -> PCs]
  /\ \A c \in Clients : call[c].id \in 0 .. MaxCalls /\ call[c].cmd \in Cmds \cup {"NONE"}
  /\ fds \in [Clients -> 0 .. MaxFds]
  /\ left \in [Clients -> 0 .. Chunks]
  /\ buffer \in [Clients -> Values \cup {NoVal}]
  /\ result \in [Clients -> [status : {"none", "ok", "error"}, data : Values \cup {NoVal}]]
  /\ \A c \in Clients : answer[c].sent \in 0 .. Chunks /\ answer[c].len \in {0, Chunks}
  /\ pending \subseteq [id : 1 .. MaxCalls, cmd : Cmds, val : Values \cup {NoVal}]
  /\ stored \in Values /\ saved \in Values
  /\ broken \in [Clients -> 0 .. MaxCalls]
  /\ calls \in 0 .. MaxCalls

(* A call whose answer the manager has sent in full returns: no piece of   *)
(* it is waited for twice.                                                 *)
AnsweredReturns ==
  \A c \in Clients :
    (pc[c] = "rheader" /\ answer[c].code # "NONE" /\ answer[c].sent = answer[c].len)
      ~> (pc[c] = "idle")

(* Between two calls a client holds a descriptor only for a call that      *)
(* ended early: every call that got its answer, a refusal included, has    *)
(* closed the socket, in however many pieces the answer came.              *)
NoDescriptorLeft == \A c \in Clients : pc[c] = "idle" => fds[c] <= broken[c]

(* The calls implement the store: what they report as done was done during *)
(* the call, once, and what they hand over was stored at that moment.      *)
Store == INSTANCE ConfigStore WITH
  asked <- pending \cup {call[c] : c \in {d \in Clients : pc[d] \in {"connect", "header", "data"}}},
  busy  <- {c \in Clients : pc[c] # "idle"},
  reply <- [c \in Clients |-> IF answer[c].code = "OK" THEN answer[c].val ELSE NoVal]

ImplementsStore == Store!Spec
===============================================================================
