--------------------------- MODULE LocalCallsProofs ---------------------------
(***************************************************************************)
(* Proofs about LocalCalls for any number of clients whose process ids fit *)
(* in 15 bits, inboxes of any size, and any number of calls and faults.    *)
(***************************************************************************)
EXTENDS LocalCalls, SequenceTheorems, TLAPS

LEMMA SmallModulus == ASSUME NEW n \in Int, NEW m \in Int, 0 <= n, n < m PROVE n % m = n
BY SMT

LEMMA SignedKeeps ==
  ASSUME NEW max \in Nat, NEW n \in Nat, n <= max PROVE Signed(n, max) = n
<1>1. /\ n + max + 1 \in Int /\ 2 * (max + 1) \in Int
      /\ 0 <= n + max + 1 /\ n + max + 1 < 2 * (max + 1)
  BY SMT
<1>2. (n + max + 1) % (2 * (max + 1)) = n + max + 1
  BY <1>1, SmallModulus
<1>3. QED
  BY <1>2, SMT DEF Signed

(* A process id up to 32767 survives the 16 bits it is kept in. *)
LEMMA PathIsId == ASSUME NEW c \in Clients PROVE PathOf(c) = c /\ PathOf(c) \in Paths
<1>1. Int16Max \in Nat
  BY DEF Int16Max
<1>2. c \in 1 .. Int16Max
  BY LocalAssumption
<1>3. Signed(c, Int16Max) = c
  BY <1>1, <1>2, SignedKeeps
<1>4. QED
  BY <1>3 DEF PathOf, Paths

LEMMA Bounds == Room \in Nat \ {0} /\ MaxCalls \in Nat /\ MaxFaults \in Nat
BY LocalAssumption

LEMMA NobodyIsAClient == NoFile \notin Clients /\ Stale \notin Clients /\ 0 \notin Clients
BY LocalAssumption DEF NoFile, Stale

-------------------------------------------------------------------------------
(* Type correctness *)

LEMMA InitType == Init => TypeOK
BY LocalAssumption DEF Init, TypeOK, PCs

LEMMA AtServerType == ASSUME TypeOK, NEW c \in Clients PROVE AtServer(c) \subseteq 1 .. MaxCalls
<1> SUFFICES ASSUME NEW q \in {queue[i] : i \in DOMAIN queue} \cup {hand}, q.who = c
             PROVE  q.call \in 1 .. MaxCalls
  BY DEF AtServer
<1>1. CASE q = hand
  BY <1>1, NobodyIsAClient DEF TypeOK, NoRequest, Requests
<1>2. CASE q # hand
  <2>1. PICK i \in DOMAIN queue : q = queue[i]
    BY <1>2
  <2>2. queue[i] \in Requests
    BY <2>1 DEF TypeOK
  <2>3. QED
    BY <2>1, <2>2 DEF Requests
<1>3. QED
  BY <1>1, <1>2

LEMMA ClientType == ASSUME TypeOK, NEW c \in Clients, Client(c) PROVE TypeOK'
<1> USE DEF serverVars, history
<1>0. PathOf(c) \in Paths
  BY PathIsId
<1>1. CASE BeginAaa(c)
  <2>1. call[c] + 1 \in 0 .. MaxCalls /\ call[c] + 1 # 0
    BY <1>1, Bounds DEF BeginAaa, TypeOK
  <2>2. QED
    BY <1>1, <2>1 DEF BeginAaa, Goto, TypeOK, PCs
<1>2. CASE Exist(c)
  BY <1>2 DEF Exist, Goto, TypeOK, PCs
<1>3. CASE ExistFails(c)
  BY <1>3, Bounds DEF ExistFails, Fault, Goto, TypeOK, PCs
<1>4. CASE CreateClient(c)
  BY <1>4 DEF CreateClient, Goto, TypeOK, PCs
<1>5. CASE Unlink(c)
  BY <1>0, <1>5 DEF Unlink, Goto, TypeOK, PCs
<1>6. CASE Bind(c)
  <2>1. AtServer(c) \in SUBSET (1 .. MaxCalls)
    BY AtServerType
  <2>2. <<>> \in Seq(Replies) /\ Len(<<>>) <= Room
    BY Bounds
  <2>3. name' \in [Paths -> Clients \cup {NoFile, Stale}]
    BY <1>0, <1>6 DEF Bind, TypeOK
  <2>4. /\ inbox' \in [Clients -> Seq(Replies)]
        /\ \A d \in Clients : Len(inbox'[d]) <= Room
    BY <1>6, <2>2 DEF Bind, TypeOK
  <2>5. /\ pc' \in [Clients -> PCs]
        /\ \A d \in Clients : call'[d] = 0 =>
             pc'[d] \notin {"send", "recv"} /\ (service' = "aaa" => pc'[d] = "out")
    BY <1>6 DEF Bind, Goto, TypeOK, PCs
  <2>6. QED
    BY <1>6, <2>1, <2>3, <2>4, <2>5 DEF Bind, TypeOK
<1>6a. CASE LimitFails(c)
  <2>1. <<>> \in Seq(Replies) /\ Len(<<>>) <= Room
    BY Bounds
  <2>2. name' \in [Paths -> Clients \cup {NoFile, Stale}]
    BY <1>0, <1>6a DEF LimitFails, TypeOK
  <2>3. /\ inbox' \in [Clients -> Seq(Replies)]
        /\ \A d \in Clients : Len(inbox'[d]) <= Room
    BY <1>6a, <2>1 DEF LimitFails, TypeOK
  <2>4. /\ pc' \in [Clients -> PCs]
        /\ \A d \in Clients : call'[d] = 0 =>
             pc'[d] \notin {"send", "recv"} /\ (service' = "aaa" => pc'[d] = "out")
    BY <1>6a DEF LimitFails, Goto, TypeOK, PCs
  <2>5. faults' \in 0 .. MaxFaults
    BY <1>6a, Bounds DEF LimitFails, Fault, TypeOK
  <2>6. QED
    BY <1>6a, <2>2, <2>3, <2>4, <2>5 DEF LimitFails, TypeOK
<1>7. CASE BindFails(c)
  BY <1>7, Bounds DEF BindFails, Fault, Goto, TypeOK, PCs
<1>8. CASE BeginIpc(c)
  <2>1. call[c] + 1 \in 0 .. MaxCalls /\ call[c] + 1 # 0
    BY <1>8, Bounds DEF BeginIpc, TypeOK
  <2>2. QED
    BY <1>8, <2>1 DEF BeginIpc, Goto, TypeOK, PCs
<1>9. CASE Send(c)
  <2>1. call[c] \in 1 .. MaxCalls
    BY <1>9, Bounds DEF Send, TypeOK
  <2>2. PICK m \in Cmds : queue' = Append(queue,
          [from |-> PathOf(c), who |-> c, call |-> call[c], cmd |-> m])
    BY <1>9 DEF Send
  <2>3. [from |-> PathOf(c), who |-> c, call |-> call[c], cmd |-> m] \in Requests
    BY <1>0, <2>1 DEF Requests
  <2>4. queue' \in Seq(Requests) /\ Len(queue') = Len(queue) + 1
    BY <2>2, <2>3, AppendProperties DEF TypeOK
  <2>5. Len(queue') <= Room
    BY <1>9, <2>4, Bounds DEF Send, TypeOK
  <2>6. QED
    BY <1>9, <2>1, <2>4, <2>5 DEF Send, Goto, TypeOK, PCs
<1>10. CASE SendFails(c)
  BY <1>10, Bounds DEF SendFails, Returned, Fault, Goto, TypeOK, PCs
<1>11. CASE Receive(c)
  <2>1. inbox[c] \in Seq(Replies) /\ inbox[c] # <<>>
    BY <1>11 DEF Receive, TypeOK
  <2>2. /\ Head(inbox[c]) \in Replies /\ Tail(inbox[c]) \in Seq(Replies)
        /\ Len(Tail(inbox[c])) = Len(inbox[c]) - 1
    BY <2>1, HeadTailProperties
  <2>3. Len(Tail(inbox[c])) <= Room
    BY <2>1, <2>2, Bounds DEF TypeOK
  <2>4. /\ inbox' \in [Clients -> Seq(Replies)]
        /\ \A d \in Clients : Len(inbox'[d]) <= Room
    BY <1>11, <2>2, <2>3 DEF Receive, TypeOK
  <2>5. taken' \in [Clients -> Replies \cup {NoReply}]
    BY <1>11, <2>2 DEF Receive, TypeOK
  <2>6. /\ pc' \in [Clients -> PCs]
        /\ \A d \in Clients : call'[d] = 0 =>
             pc'[d] \notin {"send", "recv"} /\ (service' = "aaa" => pc'[d] = "out")
    BY <1>11 DEF Receive, Goto, TypeOK, PCs
  <2>7. QED
    BY <1>11, <2>4, <2>5, <2>6 DEF Receive, TypeOK
<1>12. CASE GiveUp(c)
  <2>1. late' \in [Clients -> BOOLEAN]
    <3>1. (late[c] \/ call[c] \in AtServer(c)) \in BOOLEAN
      OBVIOUS
    <3>2. QED
      BY <1>12, <3>1, Zenon DEF GiveUp, TypeOK
  <2>2. QED
    BY <1>12, <2>1 DEF GiveUp, Goto, TypeOK, PCs
<1>13. CASE Leave(c)
  <2>1. <<>> \in Seq(Replies) /\ Len(<<>>) <= Room
    BY Bounds
  <2>2. QED
    BY <1>0, <1>13, <2>1 DEF Leave, Goto, TypeOK, PCs
<1>14. CASE ClientDies(c)
  <2>1. <<>> \in Seq(Replies) /\ Len(<<>>) <= Room
    BY Bounds
  <2>2. late' \in [Clients -> BOOLEAN]
    <3>1. (late[c] \/ AtServer(c) # {}) \in BOOLEAN
      OBVIOUS
    <3>2. QED
      BY <1>14, <3>1, Zenon DEF ClientDies, TypeOK
  <2>3. name' \in [Paths -> Clients \cup {NoFile, Stale}]
    BY <1>14 DEF ClientDies, TypeOK
  <2>4. /\ inbox' \in [Clients -> Seq(Replies)]
        /\ \A d \in Clients : Len(inbox'[d]) <= Room
    BY <1>14, <2>1 DEF ClientDies, TypeOK
  <2>5. QED
    BY <1>14, <2>2, <2>3, <2>4, Bounds DEF ClientDies, Fault, Goto, TypeOK, PCs
<1>15. QED
  BY <1>1, <1>2, <1>3, <1>4, <1>5, <1>6, <1>6a, <1>7, <1>8, <1>9, <1>10, <1>11, <1>12,
     <1>13, <1>14 DEF Client, Step

LEMMA ServerType ==
  ASSUME TypeOK, Take \/ Answer \/ AnswerLost \/ ServerDies \/ ServerBinds PROVE TypeOK'
<1> USE DEF history
<1>1. CASE Take
  <2>1. queue \in Seq(Requests) /\ queue # <<>> /\ queue' = Tail(queue)
    BY <1>1 DEF Take, TypeOK
  <2>2. /\ Head(queue) \in Requests /\ queue' \in Seq(Requests)
        /\ Len(queue') = Len(queue) - 1
    BY <2>1, HeadTailProperties
  <2>3. Len(queue') <= Room
    BY <2>1, <2>2, Bounds DEF TypeOK
  <2>4. hand' \in Requests \cup {NoRequest}
    BY <1>1, <2>2 DEF Take
  <2>5. QED
    BY <1>1, <2>2, <2>3, <2>4 DEF Take, TypeOK
<1>2. CASE Answer
  <2>1. PICK d \in Clients : Deliver(d) /\ inbox' = [inbox EXCEPT ![d] = Append(@, Reply(hand))]
    BY <1>2 DEF Answer
  <2>2. Reply(hand) \in Replies
    BY <1>2 DEF Answer, TypeOK, Reply, Replies, Requests
  <2>3. inbox[d] \in Seq(Replies)
    BY DEF TypeOK
  <2>4. /\ Append(inbox[d], Reply(hand)) \in Seq(Replies)
        /\ Len(Append(inbox[d], Reply(hand))) = Len(inbox[d]) + 1
    BY <2>2, <2>3, AppendProperties
  <2>5. Len(Append(inbox[d], Reply(hand))) <= Room
    BY <2>1, <2>3, <2>4, Bounds DEF Deliver
  <2>6. /\ inbox' \in [Clients -> Seq(Replies)]
        /\ \A c \in Clients : Len(inbox'[c]) <= Room
    BY <2>1, <2>4, <2>5 DEF TypeOK
  <2>7. QED
    BY <1>2, <2>6 DEF Answer, TypeOK
<1>3. CASE AnswerLost
  BY <1>3 DEF AnswerLost, TypeOK
<1>4. CASE ServerDies
  <2>1. <<>> \in Seq(Requests) /\ Len(<<>>) <= Room
    BY Bounds
  <2>2. QED
    BY <1>4, <2>1, Bounds DEF ServerDies, Fault, TypeOK
<1>5. CASE ServerBinds
  BY <1>5 DEF ServerBinds, TypeOK
<1>6. QED
  BY <1>1, <1>2, <1>3, <1>4, <1>5

LEMMA NextType == ASSUME TypeOK, [Next]_vars PROVE TypeOK'
<1>1. CASE UNCHANGED vars
  BY <1>1 DEF vars, TypeOK
<1>2. CASE Next
  BY <1>2, ClientType, ServerType DEF Next
<1>3. QED
  BY <1>1, <1>2

(* Every variable keeps its type, and no inbox holds more than its room.   *)
THEOREM TypeCorrect == Spec => []TypeOK
<1>1. Init => TypeOK
  BY InitType
<1>2. TypeOK /\ [Next]_vars => TypeOK'
  BY NextType
<1>3. QED
  BY <1>1, <1>2, PTL DEF Spec

-------------------------------------------------------------------------------
(* Nobody takes another's answer *)

(* What makes OnlyOwnReplies inductive: names, requests on their way and   *)
(* answers in an inbox belong to one and the same client.                  *)
NamesInv ==
  /\ \A p \in Paths : name[p] \in Clients => name[p] = p
  /\ \A i \in DOMAIN queue : queue[i].from = queue[i].who
  /\ hand # NoRequest => hand.from = hand.who
  /\ \A c \in Clients : \A i \in DOMAIN inbox[c] : inbox[c][i].who = c
  /\ OnlyOwnReplies

LEMMA InitNames == Init => NamesInv
BY NobodyIsAClient DEF Init, NamesInv, OnlyOwnReplies

LEMMA ClientNames == ASSUME TypeOK, NamesInv, NEW c \in Clients, Client(c) PROVE NamesInv'
<1> USE DEF serverVars, history
<1>0. PathOf(c) = c /\ c \in Paths
  BY PathIsId
<1>1. CASE UNCHANGED <<name, queue, hand, inbox>> /\ taken' = [taken EXCEPT ![c] = NoReply]
  BY <1>1 DEF NamesInv, OnlyOwnReplies, TypeOK
<1>2. CASE UNCHANGED <<name, queue, hand, inbox, taken>>
  BY <1>2 DEF NamesInv, OnlyOwnReplies
<1>3. CASE Unlink(c)
  BY <1>0, <1>3, NobodyIsAClient DEF Unlink, NamesInv, OnlyOwnReplies, TypeOK
<1>4. CASE Bind(c) \/ LimitFails(c)
  <2>1. /\ name' = [name EXCEPT ![c] = c] /\ inbox' = [inbox EXCEPT ![c] = <<>>]
        /\ UNCHANGED <<queue, hand, taken>>
    BY <1>0, <1>4 DEF Bind, LimitFails
  <2>2. QED
    BY <1>0, <2>1 DEF NamesInv, OnlyOwnReplies, TypeOK
<1>5. CASE Send(c)
  <2>1. PICK m \in Cmds : queue' = Append(queue,
          [from |-> c, who |-> c, call |-> call[c], cmd |-> m])
    BY <1>0, <1>5 DEF Send
  <2>2. queue \in Seq(Requests)
    BY DEF TypeOK
  <2>3. \A i \in DOMAIN queue' : queue'[i].from = queue'[i].who
    <3> SUFFICES ASSUME NEW i \in DOMAIN queue' PROVE queue'[i].from = queue'[i].who
      OBVIOUS
    <3>1. CASE i \in DOMAIN queue
      BY <2>1, <2>2, <3>1 DEF NamesInv
    <3>2. CASE i \notin DOMAIN queue
      <4>1. i = Len(queue) + 1
        BY <2>1, <2>2, <3>2
      <4>2. QED
        BY <2>1, <2>2, <4>1
    <3>3. QED
      BY <3>1, <3>2
  <2>4. QED
    BY <1>5, <2>3 DEF Send, NamesInv, OnlyOwnReplies
<1>6. CASE Receive(c)
  <2>1. inbox[c] \in Seq(Replies) /\ inbox[c] # <<>>
    BY <1>6 DEF Receive, TypeOK
  <2>2. /\ Head(inbox[c]) = inbox[c][1] /\ 1 \in DOMAIN inbox[c]
        /\ \A i \in DOMAIN Tail(inbox[c]) :
             i + 1 \in DOMAIN inbox[c] /\ Tail(inbox[c])[i] = inbox[c][i + 1]
    BY <2>1
  <2>3. Head(inbox[c]).who = c
    BY <2>2 DEF NamesInv
  <2>4. \A i \in DOMAIN Tail(inbox[c]) : Tail(inbox[c])[i].who = c
    BY <2>2 DEF NamesInv
  <2>5. \A d \in Clients : \A i \in DOMAIN inbox'[d] : inbox'[d][i].who = d
    BY <1>6, <2>4 DEF Receive, NamesInv, TypeOK
  <2>6. OnlyOwnReplies'
    BY <1>6, <2>3 DEF Receive, NamesInv, OnlyOwnReplies, TypeOK
  <2>7. QED
    BY <1>6, <2>5, <2>6 DEF Receive, NamesInv
<1>7. CASE Leave(c)
  BY <1>0, <1>7, NobodyIsAClient DEF Leave, NamesInv, OnlyOwnReplies, TypeOK
<1>8. CASE ClientDies(c)
  BY <1>8, NobodyIsAClient DEF ClientDies, NamesInv, OnlyOwnReplies, TypeOK
<1>9. QED
  BY <1>1, <1>2, <1>3, <1>4, <1>5, <1>6, <1>7, <1>8 DEF Client, Step, BeginAaa, Exist,
     ExistFails, CreateClient, BindFails, LimitFails, BeginIpc, SendFails, GiveUp

LEMMA ServerNames ==
  ASSUME TypeOK, NamesInv, Take \/ Answer \/ AnswerLost \/ ServerDies \/ ServerBinds
  PROVE  NamesInv'
<1> USE DEF history
<1>1. CASE Take
  <2>1. queue \in Seq(Requests) /\ queue # <<>> /\ queue' = Tail(queue)
    BY <1>1 DEF Take, TypeOK
  <2>2. /\ Head(queue) = queue[1] /\ 1 \in DOMAIN queue
        /\ \A i \in DOMAIN queue' : i + 1 \in DOMAIN queue /\ queue'[i] = queue[i + 1]
    BY <2>1
  <2>3. Head(queue).from = Head(queue).who
    BY <2>2 DEF NamesInv
  <2>4. \A i \in DOMAIN queue' : queue'[i].from = queue'[i].who
    BY <2>2 DEF NamesInv
  <2>5. QED
    BY <1>1, <2>3, <2>4 DEF Take, NamesInv, OnlyOwnReplies
<1>2. CASE Answer
  <2>1. PICK d \in Clients : Deliver(d) /\ inbox' = [inbox EXCEPT ![d] = Append(@, Reply(hand))]
    BY <1>2 DEF Answer
  <2>2. hand \in Requests
    BY <1>2 DEF Answer, TypeOK
  <2>3. hand.who = d
    BY <1>2, <2>1, <2>2 DEF Answer, Deliver, NamesInv, Requests
  <2>4. inbox[d] \in Seq(Replies)
    BY DEF TypeOK
  <2>5. \A i \in DOMAIN inbox'[d] : inbox'[d][i].who = d
    <3> SUFFICES ASSUME NEW i \in DOMAIN inbox'[d] PROVE inbox'[d][i].who = d
      OBVIOUS
    <3>1. inbox'[d] = Append(inbox[d], Reply(hand))
      BY <2>1 DEF TypeOK
    <3>2. CASE i \in DOMAIN inbox[d]
      BY <2>4, <3>1, <3>2 DEF NamesInv
    <3>3. CASE i \notin DOMAIN inbox[d]
      <4>1. i = Len(inbox[d]) + 1
        BY <2>4, <3>1, <3>3
      <4>2. QED
        BY <2>3, <2>4, <3>1, <4>1 DEF Reply
    <3>4. QED
      BY <3>2, <3>3
  <2>6. \A c \in Clients : \A i \in DOMAIN inbox'[c] : inbox'[c][i].who = c
    BY <2>1, <2>5 DEF NamesInv, TypeOK
  <2>7. QED
    BY <1>2, <2>6 DEF Answer, NamesInv, OnlyOwnReplies
<1>3. CASE AnswerLost
  BY <1>3 DEF AnswerLost, NamesInv, OnlyOwnReplies
<1>4. CASE ServerDies
  BY <1>4 DEF ServerDies, NamesInv, OnlyOwnReplies
<1>5. CASE ServerBinds
  BY <1>5 DEF ServerBinds, NamesInv, OnlyOwnReplies
<1>6. QED
  BY <1>1, <1>2, <1>3, <1>4, <1>5

LEMMA NextNames == ASSUME TypeOK, NamesInv, [Next]_vars PROVE NamesInv'
<1>1. CASE UNCHANGED vars
  BY <1>1 DEF vars, NamesInv, OnlyOwnReplies
<1>2. CASE Next
  BY <1>2, ClientNames, ServerNames DEF Next
<1>3. QED
  BY <1>1, <1>2

LEMMA NamesCorrect == Spec => []NamesInv
<1>1. TypeOK /\ NamesInv /\ [Next]_vars => NamesInv'
  BY NextNames
<1>2. QED
  BY <1>1, InitNames, TypeCorrect, PTL DEF Spec

(* No process takes the answer to another one, whatever is late or dies.   *)
THEOREM OnlyOwnRepliesCorrect == Spec => []OnlyOwnReplies
<1>1. NamesInv => OnlyOwnReplies
  BY DEF NamesInv
<1>2. QED
  BY <1>1, NamesCorrect, PTL

-------------------------------------------------------------------------------
(* A call takes its own answer *)

(* No request of c is at the server and no answer in its inbox. *)
Nothing(c) ==
  /\ \A i \in DOMAIN queue : queue[i].who # c
  /\ hand.who # c
  /\ inbox[c] = <<>>

LEMMA NothingUnderWay ==
  ASSUME NEW c \in Clients
  PROVE  /\ OneUnderWay(c) /\ pc[c] # "recv" => Nothing(c)
         /\ Nothing(c) => OneUnderWay(c)
BY DEF OneUnderWay, Nothing

LEMMA NothingUnderWayNext ==
  ASSUME NEW c \in Clients PROVE Nothing(c)' => OneUnderWay(c)'
BY DEF OneUnderWay, Nothing

LEMMA CallsAtServer ==
  ASSUME NEW c \in Clients
  PROVE  /\ \A i \in DOMAIN queue : queue[i].who = c => queue[i].call \in AtServer(c)
         /\ hand.who = c => hand.call \in AtServer(c)
BY DEF AtServer

LEMMA InitOwn == Init => OwnReplyInv
BY NobodyIsAClient DEF Init, OwnReplyInv, OneUnderWay, SocketOfOneCall, OwnReply, NoRequest

(* What client c does changes nothing for another client but the queue,    *)
(* where a request of c may be new.                                        *)
LEMMA OthersKeep ==
  ASSUME TypeOK, OwnReplyInv, NEW c \in Clients, Client(c), NEW d \in Clients, d # c
  PROVE  /\ ~late'[d] => OneUnderWay(d)'
         /\ service' = "aaa" => SocketOfOneCall(d)'
         /\ taken'[d] = taken[d] /\ call'[d] = call[d] /\ late'[d] = late[d]
         /\ earlier'[d] = earlier[d] /\ service' = service
<1> USE DEF serverVars, history
<1>1. /\ pc'[d] = pc[d] /\ call'[d] = call[d] /\ inbox'[d] = inbox[d]
      /\ taken'[d] = taken[d] /\ late'[d] = late[d] /\ earlier'[d] = earlier[d]
      /\ service' = service /\ hand' = hand
  BY DEF Client, Step, BeginAaa, Exist, ExistFails, CreateClient, Unlink, Bind, BindFails,
     LimitFails, BeginIpc, Send, SendFails, Receive, GiveUp, Leave, ClientDies, Goto, TypeOK
<1>2. \A i \in DOMAIN queue' : queue'[i].who = d => i \in DOMAIN queue /\ queue'[i] = queue[i]
  <2>1. CASE Send(c)
    <3>1. PICK m \in Cmds : queue' = Append(queue,
            [from |-> PathOf(c), who |-> c, call |-> call[c], cmd |-> m])
      BY <2>1 DEF Send
    <3>2. queue \in Seq(Requests)
      BY DEF TypeOK
    <3> SUFFICES ASSUME NEW i \in DOMAIN queue', queue'[i].who = d
                 PROVE  i \in DOMAIN queue /\ queue'[i] = queue[i]
      OBVIOUS
    <3>3. CASE i = Len(queue) + 1
      BY <3>1, <3>2, <3>3
    <3>4. CASE i # Len(queue) + 1
      BY <3>1, <3>2, <3>4
    <3>5. QED
      BY <3>3, <3>4
  <2>2. CASE ~Send(c)
    BY <2>2 DEF Client, Step, BeginAaa, Exist, ExistFails, CreateClient, Unlink, Bind,
       BindFails, LimitFails, BeginIpc, SendFails, Receive, GiveUp, Leave, ClientDies
  <2>3. QED
    BY <2>1, <2>2
<1>3. ~late'[d] => OneUnderWay(d)'
  BY <1>1, <1>2 DEF OwnReplyInv, OneUnderWay
<1>4. service' = "aaa" => SocketOfOneCall(d)'
  BY <1>1, <1>2 DEF OwnReplyInv, SocketOfOneCall
<1>5. QED
  BY <1>1, <1>3, <1>4

LEMMA ClientUnderWay ==
  ASSUME TypeOK, OwnReplyInv, NEW c \in Clients, Client(c), ~late'[c]
  PROVE  OneUnderWay(c)'
<1> USE DEF serverVars, history
<1>1. ~late[c]
  BY DEF Client, Step, BeginAaa, Exist, ExistFails, CreateClient, Unlink, Bind, BindFails,
     LimitFails, BeginIpc, Send, SendFails, Receive, GiveUp, Leave, ClientDies, TypeOK
<1>2. OneUnderWay(c)
  BY <1>1 DEF OwnReplyInv
<1>3. CASE Send(c)
  <2>1. Nothing(c)
    BY <1>2, <1>3, NothingUnderWay DEF Send
  <2>2. PICK m \in Cmds : queue' = Append(queue,
          [from |-> PathOf(c), who |-> c, call |-> call[c], cmd |-> m])
    BY <1>3 DEF Send
  <2>3. queue \in Seq(Requests)
    BY DEF TypeOK
  <2>4. \A i \in DOMAIN queue' : queue'[i].who = c =>
          i = Len(queue) + 1 /\ queue'[i].call = call[c]
    <3> SUFFICES ASSUME NEW i \in DOMAIN queue', queue'[i].who = c
                 PROVE  i = Len(queue) + 1 /\ queue'[i].call = call[c]
      OBVIOUS
    <3>1. CASE i = Len(queue) + 1
      BY <2>2, <2>3, <3>1
    <3>2. CASE i # Len(queue) + 1
      BY <2>1, <2>2, <2>3, <3>2 DEF Nothing
    <3>3. QED
      BY <3>1, <3>2
  <2>5. pc'[c] = "recv"
    BY <1>3 DEF Send, Goto, TypeOK
  <2>6. QED
    BY <1>3, <2>1, <2>4, <2>5 DEF Send, OneUnderWay, Nothing
<1>4. CASE Receive(c)
  <2>1. /\ Len(inbox[c]) = 1
        /\ \A i \in DOMAIN queue : queue[i].who # c
        /\ hand.who # c
    BY <1>2, <1>4 DEF Receive, OneUnderWay
  <2>2. inbox[c] \in Seq(Replies)
    BY DEF TypeOK
  <2>3. inbox'[c] = <<>>
    BY <1>4, <2>1, <2>2 DEF Receive, TypeOK
  <2>4. QED
    BY <1>4, <2>1, <2>3, NothingUnderWayNext DEF Receive, Nothing
<1>5. CASE GiveUp(c)
  <2>1. call[c] \notin AtServer(c)
    BY <1>5 DEF GiveUp, TypeOK
  <2>2. Nothing(c)
    BY <1>2, <1>5, <2>1, CallsAtServer DEF GiveUp, OneUnderWay, Nothing
  <2>3. QED
    BY <1>5, <2>2, NothingUnderWayNext DEF GiveUp, Nothing
<1>6. CASE ClientDies(c)
  <2>1. AtServer(c) = {}
    BY <1>6 DEF ClientDies, TypeOK
  <2>2. QED
    BY <1>6, <2>1, CallsAtServer, NothingUnderWayNext DEF ClientDies, Nothing, TypeOK
<1>7. CASE ~(Send(c) \/ Receive(c) \/ GiveUp(c) \/ ClientDies(c))
  <2>1. pc[c] # "recv" /\ UNCHANGED <<queue, hand>> /\ inbox'[c] \in {inbox[c], <<>>}
    BY <1>7 DEF Client, Step, BeginAaa, Exist, ExistFails, CreateClient, Unlink, Bind,
       BindFails, LimitFails, BeginIpc, SendFails, Leave, TypeOK
  <2>2. QED
    BY <1>2, <2>1, NothingUnderWay, NothingUnderWayNext DEF Nothing
<1>8. QED
  BY <1>3, <1>4, <1>5, <1>6, <1>7

LEMMA ClientSocket ==
  ASSUME TypeOK, OwnReplyInv, NEW c \in Clients, Client(c), service' = "aaa"
  PROVE  SocketOfOneCall(c)'
<1> USE DEF serverVars, history
<1>1. service = "aaa"
  BY DEF Client, Step, BeginAaa, Exist, ExistFails, CreateClient, Unlink, Bind, BindFails,
     LimitFails, BeginIpc, Send, SendFails, Receive, GiveUp, Leave, ClientDies
<1>2. SocketOfOneCall(c)
  BY <1>1 DEF OwnReplyInv
<1>3. CASE Bind(c)
  <2>1. /\ earlier'[c] = AtServer(c) /\ inbox'[c] = <<>> /\ taken'[c] = NoReply
        /\ UNCHANGED <<queue, hand>>
    BY <1>2, <1>3 DEF Bind, SocketOfOneCall, TypeOK
  <2>2. QED
    BY <2>1, CallsAtServer DEF SocketOfOneCall
<1>4. CASE Send(c)
  <2>1. PICK m \in Cmds : queue' = Append(queue,
          [from |-> PathOf(c), who |-> c, call |-> call[c], cmd |-> m])
    BY <1>4 DEF Send
  <2>2. queue \in Seq(Requests)
    BY DEF TypeOK
  <2>3. /\ UNCHANGED <<hand, inbox, earlier, call, taken>> /\ pc[c] = "send"
    BY <1>4 DEF Send
  <2>4. \A i \in DOMAIN queue' : queue'[i].who = c =>
          queue'[i].call \in earlier[c] \cup {call[c]}
    <3> SUFFICES ASSUME NEW i \in DOMAIN queue', queue'[i].who = c
                 PROVE  queue'[i].call \in earlier[c] \cup {call[c]}
      OBVIOUS
    <3>1. CASE i = Len(queue) + 1
      BY <2>1, <2>2, <3>1
    <3>2. CASE i # Len(queue) + 1
      BY <1>2, <2>1, <2>2, <2>3, <3>2 DEF SocketOfOneCall
    <3>3. QED
      BY <3>1, <3>2
  <2>5. QED
    BY <1>2, <2>3, <2>4 DEF SocketOfOneCall
<1>5. CASE ~(Bind(c) \/ Send(c))
  <2>1. CASE BeginAaa(c)
    BY <2>1 DEF BeginAaa, Goto, SocketOfOneCall, TypeOK
  <2>2. CASE Exist(c) \/ ExistFails(c) \/ Unlink(c)
    <3>1. /\ pc[c] \in {"exist", "unlink"} /\ pc'[c] \in {"unlink", "bind"}
          /\ taken' = taken
      BY <2>2 DEF Exist, ExistFails, Unlink, Goto, TypeOK
    <3>2. QED
      BY <1>2, <3>1 DEF SocketOfOneCall
  <2>3. CASE BindFails(c) \/ LimitFails(c) \/ SendFails(c) \/ Receive(c) \/ GiveUp(c)
             \/ Leave(c) \/ ClientDies(c)
    <3>1. pc'[c] \in {"out", "leave"}
      BY <1>1, <2>3 DEF BindFails, LimitFails, SendFails, Receive, GiveUp, Leave, ClientDies, Goto,
         Returned, TypeOK
    <3>2. QED
      BY <3>1 DEF SocketOfOneCall
  <2>4. QED
    BY <1>1, <1>5, <2>1, <2>2, <2>3 DEF Client, Step, CreateClient, BeginIpc
<1>6. QED
  BY <1>3, <1>4, <1>5

(* OwnReply is about one client at a time. *)
Takes(c) ==
  taken[c] # NoReply =>
    \/ taken[c].call = call[c]
    \/ late[c] /\ (service = "aaa" => taken[c].call \in earlier[c])

LEMMA ClientTakes ==
  ASSUME TypeOK, OwnReplyInv, NEW c \in Clients, Client(c) PROVE Takes(c)'
<1> USE DEF serverVars, history
<1>1. Takes(c)
  BY DEF OwnReplyInv, OwnReply, Takes
<1>2. CASE BeginAaa(c) \/ BeginIpc(c)
  BY <1>2 DEF BeginAaa, BeginIpc, Takes, TypeOK
<1>3. CASE Bind(c)
  <2>1. service = "aaa" => taken[c] = NoReply
    BY <1>3 DEF Bind, OwnReplyInv, SocketOfOneCall
  <2>2. QED
    BY <1>1, <1>3, <2>1 DEF Bind, Takes
<1>4. CASE Receive(c)
  <2>1. inbox[c] \in Seq(Replies) /\ inbox[c] # <<>>
    BY <1>4 DEF Receive, TypeOK
  <2>2. Head(inbox[c]) = inbox[c][1] /\ 1 \in DOMAIN inbox[c]
    BY <2>1
  <2>3. ~late[c] => inbox[c][1].call = call[c]
    BY <1>4, <2>1 DEF OwnReplyInv, OneUnderWay
  <2>4. service = "aaa" => inbox[c][1].call \in earlier[c] \cup {call[c]}
    BY <1>4, <2>2 DEF Receive, OwnReplyInv, SocketOfOneCall
  <2>5. /\ taken'[c] = inbox[c][1] /\ UNCHANGED <<service, call, late, earlier>>
    BY <1>4, <2>2 DEF Receive, TypeOK
  <2>6. QED
    BY <2>3, <2>4, <2>5 DEF Takes
<1>5. CASE ~(BeginAaa(c) \/ BeginIpc(c) \/ Bind(c) \/ Receive(c))
  <2>1. UNCHANGED <<service, taken, call, earlier>> /\ (late[c] => late'[c])
    BY <1>5 DEF Client, Step, Exist, ExistFails, CreateClient, Unlink, BindFails,
       LimitFails, Send, SendFails, GiveUp, Leave, ClientDies, TypeOK
  <2>2. QED
    BY <1>1, <2>1 DEF Takes
<1>6. QED
  BY <1>2, <1>3, <1>4, <1>5

LEMMA ClientOwn ==
  ASSUME TypeOK, OwnReplyInv, NEW c \in Clients, Client(c) PROVE OwnReplyInv'
<1>1. \A d \in Clients : ~late'[d] => OneUnderWay(d)'
  BY ClientUnderWay, OthersKeep
<1>2. service' = "aaa" => \A d \in Clients : SocketOfOneCall(d)'
  BY ClientSocket, OthersKeep
<1>3. \A d \in Clients : Takes(d)'
  <2> SUFFICES ASSUME NEW d \in Clients, d # c PROVE Takes(d)'
    BY ClientTakes
  <2>1. Takes(d)
    BY DEF OwnReplyInv, OwnReply, Takes
  <2>2. QED
    BY <2>1, OthersKeep DEF Takes
<1>4. OwnReply'
  BY <1>3 DEF OwnReply, Takes
<1>5. QED
  BY <1>1, <1>2, <1>4 DEF OwnReplyInv

LEMMA ServerOwn ==
  ASSUME TypeOK, NamesInv, OwnReplyInv,
         Take \/ Answer \/ AnswerLost \/ ServerDies \/ ServerBinds
  PROVE  OwnReplyInv'
<1> USE DEF history
<1>1. UNCHANGED <<service, pc, call, taken, late, earlier>>
  BY DEF Take, Answer, AnswerLost, ServerDies, ServerBinds
<1>2. OwnReply'
  BY <1>1 DEF OwnReplyInv, OwnReply
<1>3. NoRequest.who \notin Clients
  BY NobodyIsAClient DEF NoRequest
<1>4. ASSUME NEW c \in Clients
      PROVE  /\ OneUnderWay(c) => OneUnderWay(c)'
             /\ SocketOfOneCall(c) => SocketOfOneCall(c)'
  <2>1. CASE Take
    <3>1. queue \in Seq(Requests) /\ queue # <<>> /\ queue' = Tail(queue)
      BY <2>1 DEF Take, TypeOK
    <3>2. /\ Head(queue) = queue[1] /\ 1 \in DOMAIN queue
          /\ \A i \in DOMAIN queue' :
               i \in Nat /\ i # 0 /\ i + 1 \in DOMAIN queue /\ queue'[i] = queue[i + 1]
      BY <3>1
    <3>3. hand.who # c /\ inbox' = inbox /\ hand' \in {NoRequest, queue[1]}
      BY <1>3, <2>1, <3>2 DEF Take
    <3>4. OneUnderWay(c) => OneUnderWay(c)'
      <4> SUFFICES ASSUME OneUnderWay(c) PROVE OneUnderWay(c)'
        OBVIOUS
      <4>1. ASSUME NEW i \in DOMAIN queue', queue'[i].who = c
            PROVE  /\ pc[c] = "recv" /\ queue'[i].call = call[c] /\ inbox[c] = <<>>
                   /\ queue[1].who # c
                   /\ \A j \in DOMAIN queue' : queue'[j].who = c => i = j
        <5>1. /\ pc[c] = "recv" /\ queue'[i].call = call[c] /\ inbox[c] = <<>>
          BY <3>2, <4>1 DEF OneUnderWay
        <5>2. queue[1].who # c
          <6>1. queue[i + 1].who = c /\ i + 1 \in DOMAIN queue /\ i + 1 # 1
            BY <3>2, <4>1
          <6>2. QED
            BY <3>2, <6>1 DEF OneUnderWay
        <5>3. ASSUME NEW j \in DOMAIN queue', queue'[j].who = c PROVE i = j
          <6>1. i + 1 = j + 1
            BY <3>2, <4>1, <5>3 DEF OneUnderWay
          <6>2. QED
            BY <3>2, <4>1, <5>3, <6>1
        <5>4. QED
          BY <5>1, <5>2, <5>3
      <4>2. hand'.who = c => pc[c] = "recv" /\ hand'.call = call[c] /\ inbox[c] = <<>>
        BY <1>3, <3>2, <3>3 DEF OneUnderWay
      <4>3. QED
        BY <1>1, <1>3, <3>3, <4>1, <4>2 DEF OneUnderWay
    <3>5. SocketOfOneCall(c) => SocketOfOneCall(c)'
      BY <1>1, <1>3, <3>2, <3>3 DEF SocketOfOneCall
    <3>6. QED
      BY <3>4, <3>5
  <2>2. CASE Answer
    <3>1. PICK d \in Clients :
            Deliver(d) /\ inbox' = [inbox EXCEPT ![d] = Append(@, Reply(hand))]
      BY <2>2 DEF Answer
    <3>2. hand \in Requests /\ hand' = NoRequest /\ queue' = queue
      BY <2>2 DEF Answer, TypeOK
    <3>3. hand.who = d
      BY <2>2, <3>1, <3>2 DEF Answer, Deliver, NamesInv, Requests
    <3>4. CASE c # d
      <4>1. inbox'[c] = inbox[c]
        BY <3>1, <3>4 DEF TypeOK
      <4>2. QED
        BY <1>1, <1>3, <3>2, <3>3, <3>4, <4>1 DEF OneUnderWay, SocketOfOneCall
    <3>5. CASE c = d
      <4>1. inbox[c] \in Seq(Replies) /\ inbox'[c] = Append(inbox[c], Reply(hand))
        BY <3>1, <3>5 DEF TypeOK
      <4>2. ASSUME OneUnderWay(c) PROVE OneUnderWay(c)'
        <5>1. /\ \A i \in DOMAIN queue : queue[i].who # c
              /\ pc[c] = "recv" /\ hand.call = call[c] /\ inbox[c] = <<>>
          BY <3>3, <3>5, <4>2 DEF OneUnderWay
        <5>2. Len(inbox'[c]) = 1 /\ inbox'[c][1].call = call[c]
          BY <4>1, <5>1 DEF Reply
        <5>3. QED
          BY <1>1, <1>3, <3>2, <5>1, <5>2 DEF OneUnderWay
      <4>3. ASSUME SocketOfOneCall(c), pc[c] \in {"send", "recv"},
                   NEW i \in DOMAIN inbox'[c]
            PROVE  inbox'[c][i].call \in earlier[c] \cup {call[c]}
        <5>1. CASE i = Len(inbox[c]) + 1
          BY <3>3, <3>5, <4>1, <4>3, <5>1 DEF SocketOfOneCall, Reply
        <5>2. CASE i # Len(inbox[c]) + 1
          BY <4>1, <4>3, <5>2 DEF SocketOfOneCall
        <5>3. QED
          BY <5>1, <5>2
      <4>4. SocketOfOneCall(c) => SocketOfOneCall(c)'
        BY <1>1, <1>3, <3>2, <4>3 DEF SocketOfOneCall
      <4>5. QED
        BY <4>2, <4>4
    <3>6. QED
      BY <3>4, <3>5
  <2>3. CASE AnswerLost \/ ServerDies \/ ServerBinds
    <3>1. queue' \in {queue, <<>>} /\ hand' \in {hand, NoRequest} /\ inbox' = inbox
      BY <2>3 DEF AnswerLost, ServerDies, ServerBinds
    <3>2. QED
      BY <1>1, <1>3, <3>1 DEF OneUnderWay, SocketOfOneCall
  <2>4. QED
    BY <2>1, <2>2, <2>3
<1>5. QED
  BY <1>1, <1>2, <1>4 DEF OwnReplyInv

LEMMA NextOwn ==
  ASSUME TypeOK, NamesInv, OwnReplyInv, [Next]_vars PROVE OwnReplyInv'
<1>1. CASE UNCHANGED vars
  BY <1>1 DEF vars, OwnReplyInv, OneUnderWay, SocketOfOneCall, OwnReply
<1>2. CASE Next
  BY <1>2, ClientOwn, ServerOwn DEF Next
<1>3. QED
  BY <1>1, <1>2

(* A call takes its own answer unless its client has given up one that was *)
(* answered later; and the aaa client takes none sent before it was bound. *)
THEOREM OwnReplyCorrect == Spec => []OwnReply
<1>1. TypeOK /\ NamesInv /\ OwnReplyInv /\ [Next]_vars => OwnReplyInv'
  BY NextOwn
<1>2. OwnReplyInv => OwnReply
  BY DEF OwnReplyInv
<1>3. QED
  BY <1>1, <1>2, InitOwn, TypeCorrect, NamesCorrect, PTL DEF Spec
===============================================================================
