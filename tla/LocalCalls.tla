------------------------------ MODULE LocalCalls ------------------------------
(***************************************************************************)
(* Calls over local datagram sockets: aaa_send_msg_bcm of aaa.c, which     *)
(* opens a socket for every call and starts the daemon again when it is    *)
(* gone, and creat_sk_client, ipc_send_recv and ipc_recv_send of           *)
(* sk_define.c, where client and server keep their sockets.                *)
(*                                                                         *)
(* Requests and answers carry no number.  A datagram goes to the socket    *)
(* that is bound to a name at that moment, and waits in its inbox; sendto  *)
(* blocks on a full inbox, and nobody sets a limit for that.  A behaviour  *)
(* is about one of the two services.  The daemon behind AAA_SOCK is not in *)
(* the repository: it takes requests one after the other.                  *)
(***************************************************************************)
EXTENDS Integers, Sequences

CONSTANTS
  Clients,  (* process ids; one that is used again is the same client      *)
  Cmds,     (* what a request can ask for                                  *)
  Handled,  (* the command in the pstTx of the server of ipc_recv_send     *)
  Room,     (* datagrams an inbox holds                                    *)
  MaxCalls, (* bound: calls of one client                                  *)
  MaxFaults (* bound: deaths of processes and system calls that fail       *)

(* The largest values of an INT16 and of a char. *)
Int16Max == 32767
CharMax  == 127

(* get_sk_file_name keeps a process id in 16 bits with a sign; the kernel  *)
(* gives none above 32767 unless pid_max is raised.                        *)
ASSUME LocalAssumption ==
  /\ Clients \subseteq 1 .. Int16Max
  /\ Handled \in Cmds
  /\ Room \in Nat \ {0} /\ MaxCalls \in Nat /\ MaxFaults \in Nat

VARIABLES
  service, (* "aaa" or "ipc"                                               *)
  pc,      (* where every client is; "out": without a socket               *)
  call,    (* the number of the client's call                              *)
  name,    (* the file system: the client whose socket has a name          *)
  inbox,   (* answers that wait at the client's socket                     *)
  server,  (* "up", "down", or "starting": started, but not bound          *)
  queue,   (* requests that wait at the server's socket                    *)
  hand,    (* the request the server works on                              *)
  taken,   (* the answer the client's call took                            *)
  late,    (* history: the client has given up a call that was unanswered  *)
  earlier, (* history: calls at the server when the socket was bound       *)
  faults   (* history: the number of faults                                *)

vars == <<service, pc, call, name, inbox, server, queue, hand, taken, late,
          earlier, faults>>
serverVars == <<server, queue, hand>>
history == <<late, earlier>>

(* Values of name that are no client: no file, and a file without socket.  *)
NoFile == 0
Stale  == -1

NoReply == [who |-> 0, call |-> 0]
NoRequest == [from |-> 0, who |-> 0, call |-> 0, cmd |-> Handled]

(* What a signed integer up to max keeps of n. *)
Signed(n, max) == ((n + max + 1) % (2 * (max + 1))) - (max + 1)

(* Mutant of PathOf: the process id is kept in a char. *)
PathOfByte(c) == IF service = "aaa" THEN c ELSE Signed(c, CharMax)

(* The name a client binds: sprintf with %d, or get_sk_file_name. *)
PathOf(c) == IF service = "aaa" THEN c ELSE Signed(c, Int16Max)

Paths == {c : c \in Clients}
PCs   == {"out", "exist", "unlink", "bind", "ready", "send", "recv", "leave"}
Requests == [from : Paths, who : Clients, call : 1 .. MaxCalls, cmd : Cmds]
Replies  == [who : Clients, call : 1 .. MaxCalls]

Init ==
  /\ service \in {"aaa", "ipc"}
  /\ pc = [c \in Clients |-> "out"]
  /\ call = [c \in Clients |-> 0]
  /\ name = [p \in Paths |-> NoFile]
  /\ inbox = [c \in Clients |-> <<>>]
  /\ server = "up"
  /\ queue = <<>> /\ hand = NoRequest
  /\ taken = [c \in Clients |-> NoReply]
  /\ late = [c \in Clients |-> FALSE]
  /\ earlier = [c \in Clients |-> {}]
  /\ faults = 0

(* The calls of a client that the server has not answered. *)
AtServer(c) ==
  {r.call : r \in {q \in {queue[i] : i \in DOMAIN queue} \cup {hand} : q.who = c}}

(* What a call leaves to return to: ipc_send_recv keeps the socket. *)
Returned == IF service = "aaa" THEN "out" ELSE "ready"

Goto(c, l) == pc' = [pc EXCEPT ![c] = l]
Fault == faults < MaxFaults /\ faults' = faults + 1

-------------------------------------------------------------------------------
(* The client *)

(* aaa_send_msg_bcm and aaa_send_msg_struct_bcm are called. *)
BeginAaa(c) ==
  /\ service = "aaa" /\ pc[c] = "out" /\ call[c] < MaxCalls
  /\ call' = [call EXCEPT ![c] = @ + 1]
  /\ taken' = [taken EXCEPT ![c] = NoReply]
  /\ Goto(c, "exist")
  /\ UNCHANGED <<service, name, inbox, serverVars, history, faults>>

(* aaa_is_exist looks for AAA_SOCK in /proc/net/unix and starts the daemon *)
(* when it is not there; it does not wait until the daemon is bound.       *)
Exist(c) ==
  /\ pc[c] = "exist"
  /\ server' = IF server = "up" THEN "up" ELSE "starting"
  /\ Goto(c, "unlink")
  /\ UNCHANGED <<service, call, name, inbox, queue, hand, taken, history, faults>>

(* /proc/net/unix cannot be read: the call goes on all the same. *)
ExistFails(c) ==
  /\ pc[c] = "exist" /\ Fault
  /\ Goto(c, "unlink")
  /\ UNCHANGED <<service, call, name, inbox, serverVars, taken, history>>

(* creat_sk_client is called. *)
CreateClient(c) ==
  /\ service = "ipc" /\ pc[c] = "out"
  /\ Goto(c, "unlink")
  /\ UNCHANGED <<service, call, name, inbox, serverVars, taken, history, faults>>

(* socket and unlink: the name is given up, whoever it belongs to. *)
Unlink(c) ==
  /\ pc[c] = "unlink"
  /\ name' = [name EXCEPT ![PathOf(c)] = NoFile]
  /\ Goto(c, "bind")
  /\ UNCHANGED <<service, call, inbox, serverVars, taken, history, faults>>

(* Mutant of Bind: the socket of the call before is used again. *)
BindAgain(c) ==
  /\ pc[c] = "bind" /\ name[PathOf(c)] = NoFile
  /\ name' = [name EXCEPT ![PathOf(c)] = c]
  /\ earlier' = [earlier EXCEPT ![c] = AtServer(c)]
  /\ Goto(c, IF service = "aaa" THEN "send" ELSE "ready")
  /\ UNCHANGED <<service, call, inbox, serverVars, taken, late, faults>>

(* bind: the new socket has the name and an empty inbox. *)
Bind(c) ==
  /\ pc[c] = "bind" /\ name[PathOf(c)] = NoFile
  /\ name' = [name EXCEPT ![PathOf(c)] = c]
  /\ inbox' = [inbox EXCEPT ![c] = <<>>]
  /\ earlier' = [earlier EXCEPT ![c] = AtServer(c)]
  /\ Goto(c, IF service = "aaa" THEN "send" ELSE "ready")
  /\ UNCHANGED <<service, call, serverVars, taken, late, faults>>

(* socket or bind fails, because the name is taken or for another reason.  *)
BindFails(c) ==
  /\ pc[c] = "bind"
  /\ \/ name[PathOf(c)] # NoFile /\ UNCHANGED faults
     \/ Fault
  /\ Goto(c, "out")
  /\ UNCHANGED <<service, call, name, inbox, serverVars, taken, history>>

(* bind succeeds and the limit of recvfrom cannot be set: creat_sk_client  *)
(* returns -1 and leaves the socket bound.  aaa.c does not look at the     *)
(* result (aaa.c:77); the model takes it to set the limit there.           *)
LimitFails(c) ==
  /\ service = "ipc" /\ pc[c] = "bind" /\ name[PathOf(c)] = NoFile /\ Fault
  /\ name' = [name EXCEPT ![PathOf(c)] = c]
  /\ inbox' = [inbox EXCEPT ![c] = <<>>]
  /\ Goto(c, "out")
  /\ UNCHANGED <<service, call, serverVars, taken, history>>

(* ipc_send_recv is called. *)
BeginIpc(c) ==
  /\ service = "ipc" /\ pc[c] = "ready" /\ call[c] < MaxCalls
  /\ call' = [call EXCEPT ![c] = @ + 1]
  /\ taken' = [taken EXCEPT ![c] = NoReply]
  /\ Goto(c, "send")
  /\ UNCHANGED <<service, name, inbox, serverVars, history, faults>>

(* sendto waits for room. *)
Send(c) ==
  /\ pc[c] = "send" /\ server = "up" /\ Len(queue) < Room
  /\ \E m \in Cmds :
       queue' = Append(queue,
         [from |-> PathOf(c), who |-> c, call |-> call[c], cmd |-> m])
  /\ Goto(c, "recv")
  /\ UNCHANGED <<service, call, name, inbox, server, hand, taken, history, faults>>

(* sendto fails: neither the descriptor nor the name is given back. *)
SendFails(c) ==
  /\ pc[c] = "send"
  /\ \/ server # "up" /\ UNCHANGED faults
     \/ Fault
  /\ Goto(c, Returned)
  /\ UNCHANGED <<service, call, name, inbox, serverVars, taken, history>>

(* recvfrom returns the first answer of the inbox, whoever it is for.      *)
(* ipc_recv also writes the sender's address over that of the server       *)
(* (sk_define.c:250); only the server sends here, so it is the same.       *)
Receive(c) ==
  /\ pc[c] = "recv" /\ inbox[c] # <<>>
  /\ taken' = [taken EXCEPT ![c] = Head(inbox[c])]
  /\ inbox' = [inbox EXCEPT ![c] = Tail(@)]
  /\ Goto(c, IF service = "aaa" THEN "leave" ELSE "ready")
  /\ UNCHANGED <<service, call, name, serverVars, history, faults>>

(* Mutant of GiveUp: without SO_RCVTIMEO recvfrom fails only when the      *)
(* server is gone.                                                         *)
GiveUpWhenGone(c) ==
  /\ pc[c] = "recv" /\ inbox[c] = <<>> /\ server = "down"
  /\ Goto(c, IF service = "aaa" THEN "leave" ELSE "ready")
  /\ UNCHANGED <<service, call, name, inbox, serverVars, taken, history, faults>>

(* SO_RCVTIMEO: recvfrom returns -1 after 150 s, or 3 s in sk_define.c. *)
GiveUp(c) ==
  /\ pc[c] = "recv" /\ inbox[c] = <<>>
  /\ late' = [late EXCEPT ![c] = @ \/ call[c] \in AtServer(c)]
  /\ Goto(c, IF service = "aaa" THEN "leave" ELSE "ready")
  /\ UNCHANGED <<service, call, name, inbox, serverVars, taken, earlier, faults>>

(* close and unlink: an answer that still comes finds nobody. *)
Leave(c) ==
  /\ pc[c] = "leave"
  /\ name' = [name EXCEPT ![PathOf(c)] = NoFile]
  /\ inbox' = [inbox EXCEPT ![c] = <<>>]
  /\ Goto(c, "out")
  /\ UNCHANGED <<service, call, serverVars, taken, history, faults>>

(* The process dies, and one with its id may come after it. *)
ClientDies(c) ==
  /\ pc[c] # "out" /\ Fault
  /\ Goto(c, "out")
  /\ inbox' = [inbox EXCEPT ![c] = <<>>]
  /\ name' = [p \in Paths |-> IF name[p] = c THEN Stale ELSE name[p]]
  /\ late' = [late EXCEPT ![c] = @ \/ AtServer(c) # {}]
  /\ UNCHANGED <<service, call, serverVars, taken, earlier>>

-------------------------------------------------------------------------------
(* The server *)

(* The first recvfrom of the server's loop; ipc_recv_send goes on only     *)
(* with a request for its own command, and says nothing to others.         *)
Take ==
  /\ server = "up" /\ hand = NoRequest /\ queue # <<>>
  /\ hand' = IF service = "ipc" /\ Head(queue).cmd # Handled
             THEN NoRequest ELSE Head(queue)
  /\ queue' = Tail(queue)
  /\ UNCHANGED <<service, pc, call, name, inbox, server, taken, history, faults>>

Reply(r) == [who |-> r.who, call |-> r.call]

(* The name the request came from is bound to client d, who has room.  The *)
(* kernel looks the name up before it waits: an answer that waits for a    *)
(* socket that is closed is lost, which the model allows but does not ask. *)
Deliver(d) == name[hand.from] = d /\ Len(inbox[d]) < Room

(* sendto at the sender's name: into the inbox of the socket that has it   *)
(* now, as soon as there is room.                                          *)
Answer ==
  /\ hand # NoRequest
  /\ \E d \in Clients :
       /\ Deliver(d)
       /\ inbox' = [inbox EXCEPT ![d] = Append(@, Reply(hand))]
  /\ hand' = NoRequest
  /\ UNCHANGED <<service, pc, call, name, server, queue, taken, history, faults>>

(* sendto fails because nobody has the name. *)
AnswerLost ==
  /\ hand # NoRequest /\ name[hand.from] \notin Clients
  /\ hand' = NoRequest
  /\ UNCHANGED <<service, pc, call, name, inbox, server, queue, taken, history, faults>>

(* The server dies, and what waited at its socket is lost. *)
ServerDies ==
  /\ server # "down" /\ Fault
  /\ server' = "down" /\ queue' = <<>> /\ hand' = NoRequest
  /\ UNCHANGED <<service, pc, call, name, inbox, taken, history>>

(* creat_sk_server unlinks and binds the name, and so does the aaa daemon  *)
(* once aaa_is_exist has started it.                                       *)
ServerBinds ==
  /\ IF service = "aaa" THEN server = "starting" ELSE server = "down"
  /\ server' = "up"
  /\ UNCHANGED <<service, pc, call, name, inbox, queue, hand, taken, history, faults>>

-------------------------------------------------------------------------------
(* What a client does by itself inside a call. *)
Step(c) ==
  \/ Exist(c) \/ Unlink(c) \/ Bind(c) \/ BindFails(c) \/ LimitFails(c)
  \/ Send(c) \/ SendFails(c) \/ Receive(c) \/ GiveUp(c) \/ Leave(c)

Client(c) ==
  Step(c) \/ BeginAaa(c) \/ ExistFails(c) \/ CreateClient(c) \/ BeginIpc(c)
          \/ ClientDies(c)

Next ==
  \/ \E c \in Clients : Client(c)
  \/ Take \/ Answer \/ AnswerLost \/ ServerDies \/ ServerBinds

Spec == Init /\ [][Next]_vars

(* A process that can run does, and time passes.  Nothing is asked of the  *)
(* server, nor of callers: a process need not call.                        *)
FairSpec == Spec /\ \A c \in Clients : WF_vars(Step(c))

-------------------------------------------------------------------------------
(* Properties *)

(* Every variable has its type; an inbox never holds more than its room. *)
TypeOK ==
  /\ service \in {"aaa", "ipc"}
  /\ pc \in [Clients -> PCs]
  /\ call \in [Clients -> 0 .. MaxCalls]
  /\ \A c \in Clients : call[c] = 0 =>
       pc[c] \notin {"send", "recv"} /\ (service = "aaa" => pc[c] = "out")
  /\ name \in [Paths -> Clients \cup {NoFile, Stale}]
  /\ inbox \in [Clients -> Seq(Replies)]
  /\ server \in {"up", "down", "starting"}
  /\ queue \in Seq(Requests) /\ Len(queue) <= Room
  /\ \A c \in Clients : Len(inbox[c]) <= Room
  /\ hand \in Requests \cup {NoRequest}
  /\ taken \in [Clients -> Replies \cup {NoReply}]
  /\ late \in [Clients -> BOOLEAN]
  /\ earlier \in [Clients -> SUBSET (1 .. MaxCalls)]
  /\ faults \in 0 .. MaxFaults

(* No process takes the answer to another process, whatever is late, gives *)
(* up, dies or is started again: the names that sprintf (aaa.c:64) and     *)
(* get_sk_file_name (sk_define.c:69) make are different and the server     *)
(* answers at the name the request came from.                              *)
OnlyOwnReplies ==
  \A c \in Clients : taken[c] # NoReply => taken[c].who = c

(* A call takes its own answer, unless its client has given up a call that *)
(* was answered later.  Even then aaa_send_msg_bcm, which opens a socket   *)
(* for each call and closes it (aaa.c:57, 96), takes no answer that was    *)
(* sent before its own socket was bound.                                   *)
OwnReply ==
  \A c \in Clients : taken[c] # NoReply =>
    \/ taken[c].call = call[c]
    \/ /\ late[c]
       /\ service = "aaa" => taken[c].call \in earlier[c]

(* Until client c gives up, one request or answer of its is under way at   *)
(* most, that of the call that waits for it.                               *)
OneUnderWay(c) ==
  /\ \A i \in DOMAIN queue : queue[i].who = c =>
       /\ pc[c] = "recv" /\ queue[i].call = call[c]
       /\ hand.who # c /\ inbox[c] = <<>>
       /\ \A j \in DOMAIN queue : queue[j].who = c => i = j
  /\ hand.who = c => pc[c] = "recv" /\ hand.call = call[c] /\ inbox[c] = <<>>
  /\ inbox[c] # <<>> =>
       pc[c] = "recv" /\ Len(inbox[c]) = 1 /\ inbox[c][1].call = call[c]

(* While a call of the aaa client has its socket bound, nothing can reach  *)
(* it but answers to it and to what was at the server when it was bound.   *)
SocketOfOneCall(c) ==
  /\ pc[c] \in {"exist", "unlink", "bind", "send", "recv"} => taken[c] = NoReply
  /\ pc[c] \in {"send", "recv"} =>
       /\ \A i \in DOMAIN queue : queue[i].who = c =>
            queue[i].call \in earlier[c] \cup {call[c]}
       /\ hand.who = c => hand.call \in earlier[c] \cup {call[c]}
       /\ \A i \in DOMAIN inbox[c] :
            inbox[c][i].call \in earlier[c] \cup {call[c]}

(* What makes OwnReply inductive. *)
OwnReplyInv ==
  /\ \A c \in Clients : ~late[c] => OneUnderWay(c)
  /\ service = "aaa" => \A c \in Clients : SocketOfOneCall(c)
  /\ OwnReply

(* Every call returns, because recvfrom has a time limit (aaa.c:77,        *)
(* sk_define.c:169), unless sendto, which has none, finds the server's     *)
(* inbox full for ever: it never waits behind an answer that does not come.*)
CallReturns ==
  \A c \in Clients :
    \/ []<>(pc[c] \in {"out", "ready"})
    \/ []<>(Len(queue) = Room)
===============================================================================
