---- MODULE DirectoryRpcProofs ----
(***************************************************************************)
(* Proofs about DirectoryRpc, for any number of nodes, threads, pools,     *)
(* receives and calls, and for any set of flaky or late nodes.             *)
(***************************************************************************)
EXTENDS DirectoryRpc, TLAPS

\* The endpoints of a connection: what Client, Server and Peer return.
LEMMA EndpointFacts ==
    ASSUME NEW n \in Nodes
    PROVE  /\ Client(n) \in EP /\ Server(n) \in EP
           /\ \A m \in Nodes : Client(n) # Server(m)
           /\ \A m \in Nodes : Client(n) = Client(m) => n = m
           /\ \A m \in Nodes : Server(n) = Server(m) => n = m
           /\ Peer(Client(n)) = Server(n) /\ Peer(Server(n)) = Client(n)
           /\ Client(n)[1] = n /\ Server(n)[1] = n
BY DEF EP, Sides, Client, Server, Peer

\* Every endpoint is the client's or the server's end of some node's connection.
LEMMA EndpointCases ==
    ASSUME NEW e \in EP
    PROVE  \E n \in Nodes : e = Client(n) \/ e = Server(n)
BY DEF EP, Sides, Client, Server

\* What is put on a completion queue is a sequence of completions.
LEMMA FlushType ==
    ASSUME NEW e \in EP
    PROVE  Flush(e) \in Seq(Completions)
<1>1. "ERR" \in Completions
  BY DEF Completions
<1>2. <<"ERR">> \in Seq(Completions)
  BY <1>1
<1>3. <<>> \in Seq(Completions)
  OBVIOUS
<1> QED
  BY <1>2, <1>3 DEF Flush

LEMMA ErrorsType ==
    ASSUME NEW k \in Nat
    PROVE  [i \in 1..k |-> "ERR"] \in Seq(Completions)
<1>1. [i \in 1..k |-> "ERR"] \in [1..k -> Completions]
  BY DEF Completions
<1> QED
  BY <1>1

\* The requests a thread makes and the responses ProcessRecv builds have their types.
LEMMA RequestsOfType ==
    ASSUME NEW t \in Threads, NEW r \in RequestsOf(t)
    PROVE  r \in Requests
BY RpcAssumption DEF RequestsOf, Requests, PoolRequests, OtherRequests, PoolTypes, Infos,
   CreateRequest, DeleteRequest, FindRequest, Greeting

LEMMA OutcomeType ==
    ASSUME NEW q \in Requests, NEW r \in Responses
    PROVE  Outcome(q, r) \in Outcomes
BY DEF Outcome, Outcomes, Responses

LEMMA TypeInit == Init => TypeOK
<1> SUFFICES ASSUME Init PROVE TypeOK
  OBVIOUS
<1> USE DEF Init
<1>1. BlankRequest \in Requests /\ BlankResponse \in Responses
  BY DEF BlankRequest, BlankResponse, Requests, OtherRequests, Responses
<1>2. /\ outBuf \in [EP -> Requests \union Responses]
      /\ inBuf \in [EP -> Requests \union Responses]
  BY <1>1
<1>3. \A n \in Nodes :
         /\ outBuf[Client(n)] \in Requests /\ inBuf[Client(n)] \in Responses
         /\ outBuf[Server(n)] \in Responses /\ inBuf[Server(n)] \in Requests
  BY <1>1 DEF Client, Server, EP, Sides
<1>4. cq \in [EP -> Seq(Completions)]
  OBVIOUS
<1>5. /\ up \in [Nodes -> BOOLEAN]
      /\ qp \in [EP -> {"RTS", "ERR"}]
      /\ sq \in [EP -> Nat] /\ acks \in [EP -> Nat] /\ rq \in [EP -> Nat]
  OBVIOUS
<1>6. /\ paired \subseteq Nodes /\ peers \subseteq Nodes /\ swallowed \subseteq Nodes
      /\ pool_info \in [Pools -> Infos \union {Null}]
  OBVIOUS
<1>7. /\ spc \in [Nodes -> {"off", "poll", "recv", "reply", "sent"}]
      /\ resp \in [Nodes -> Responses]
  BY <1>1
<1>8. /\ pc \in [Threads -> {"idle", "sending", "receiving", "answer"}]
      /\ call \in [Threads -> Requests \union {Null}]
      /\ calls \in [Threads -> Nat] /\ served \in [Threads -> Nat]
  OBVIOUS
<1>9. /\ answer \in [Threads -> Outcomes \union {Null}]
      /\ effect \in [Threads -> Outcomes \union {Null}]
  OBVIOUS
<1> HIDE DEF Init
<1> QED
  BY <1>2, <1>3, <1>4, <1>5, <1>6, <1>7, <1>8, <1>9, Zenon DEF TypeOK

\* The transport steps keep the shape of the queue pairs' state.
LEMMA TypeDeliver ==
    ASSUME TypeOK, NEW e \in EP, Deliver(e),
           UNCHANGED <<paired, serverVars, threadVars, historyVars>>
    PROVE  TypeOK'
<1> DEFINE p == Peer(e)
<1>1. PICK n \in Nodes : e = Client(n) \/ e = Server(n)
  BY EndpointCases
<1>2. p \in EP
  BY <1>1, EndpointFacts
<1>3. /\ sq' \in [EP -> Nat] /\ acks' \in [EP -> Nat] /\ rq' \in [EP -> Nat]
  <2>1. sq \in [EP -> Nat] /\ acks \in [EP -> Nat] /\ rq \in [EP -> Nat]
    BY DEF TypeOK
  <2>2. sq' = [sq EXCEPT ![e] = @ - 1] /\ sq[e] > 0
    BY DEF Deliver
  <2>3. acks' = [acks EXCEPT ![e] = @ + 1]
    BY DEF Deliver
  <2>4. rq' = [rq EXCEPT ![p] = @ - 1] /\ rq[p] > 0
    BY DEF Deliver
  <2> QED
    BY <2>1, <2>2, <2>3, <2>4, <1>2
<1>4. cq' \in [EP -> Seq(Completions)]
  BY <1>2 DEF TypeOK, Deliver, Completions
<1>5. inBuf' \in [EP -> Requests \union Responses]
  BY <1>2 DEF TypeOK, Deliver
<1>6. \A m \in Nodes : inBuf'[Client(m)] \in Responses /\ inBuf'[Server(m)] \in Requests
  <2>1. CASE e = Client(n)
    BY <2>1, EndpointFacts DEF TypeOK, Deliver
  <2>2. CASE e = Server(n)
    BY <2>2, EndpointFacts DEF TypeOK, Deliver
  <2> QED
    BY <1>1, <2>1, <2>2
<1> QED
  BY <1>3, <1>4, <1>5, <1>6 DEF TypeOK, Deliver, serverVars, threadVars, historyVars

LEMMA TypeTransport == TypeOK /\ Transport => TypeOK'
<1> SUFFICES ASSUME TypeOK, Transport PROVE TypeOK'
  OBVIOUS
<1> USE DEF serverVars, threadVars, historyVars
<1>1. ASSUME NEW e \in EP, Deliver(e) PROVE TypeOK'
  BY <1>1, TypeDeliver DEF Transport
<1>2. ASSUME NEW e \in EP, Ack(e) PROVE TypeOK'
  <2>1. acks' \in [EP -> Nat]
    BY <1>2 DEF TypeOK, Ack
  <2>2. cq' \in [EP -> Seq(Completions)]
    BY <1>2 DEF TypeOK, Ack, Completions
  <2> QED
    BY <1>2, <2>1, <2>2 DEF TypeOK, Ack, Transport
<1>3. ASSUME NEW e \in EP, RetryExceeded(e) PROVE TypeOK'
  <2>1. sq[e] + acks[e] + rq[e] \in Nat
    BY DEF TypeOK
  <2>2. [i \in 1..(sq[e] + acks[e] + rq[e]) |-> "ERR"] \in Seq(Completions)
    BY <2>1, ErrorsType
  <2>3. cq' \in [EP -> Seq(Completions)]
    BY <1>3, <2>2 DEF TypeOK, RetryExceeded
  <2>4. qp' \in [EP -> {"RTS", "ERR"}]
    BY <1>3 DEF TypeOK, RetryExceeded
  <2>5. /\ sq' \in [EP -> Nat] /\ acks' \in [EP -> Nat] /\ rq' \in [EP -> Nat]
    BY <1>3 DEF TypeOK, RetryExceeded
  <2> QED
    BY <1>3, <2>3, <2>4, <2>5 DEF TypeOK, RetryExceeded, Transport
<1>4. ASSUME NEW n \in Nodes, LinkDown(n) PROVE TypeOK'
  BY <1>4 DEF TypeOK, LinkDown, Transport
<1> QED
  BY <1>1, <1>2, <1>3, <1>4 DEF Transport

\* RdmaSend by an endpoint whose message has the type its send buffer holds.
LEMMA TypeRdmaSend ==
    ASSUME TypeOK, NEW e \in EP, NEW m, RdmaSend(e, m),
           NEW n \in Nodes,
           \/ e = Client(n) /\ m \in Requests
           \/ e = Server(n) /\ m \in Responses
    PROVE  /\ sq' \in [EP -> Nat]
           /\ cq' \in [EP -> Seq(Completions)]
           /\ outBuf' \in [EP -> Requests \union Responses]
           /\ \A k \in Nodes : outBuf'[Client(k)] \in Requests /\ outBuf'[Server(k)] \in Responses
<1>1. sq' \in [EP -> Nat]
  BY DEF TypeOK, RdmaSend
<1>2. cq' \in [EP -> Seq(Completions)]
  BY FlushType DEF TypeOK, RdmaSend
<1>3. outBuf' \in [EP -> Requests \union Responses]
  BY DEF TypeOK, RdmaSend
<1>4. \A k \in Nodes : outBuf'[Client(k)] \in Requests /\ outBuf'[Server(k)] \in Responses
  <2>1. CASE e = Client(n) /\ m \in Requests
    BY <2>1, EndpointFacts DEF TypeOK, RdmaSend
  <2>2. CASE e = Server(n) /\ m \in Responses
    BY <2>2, EndpointFacts DEF TypeOK, RdmaSend
  <2> QED
    BY <2>1, <2>2
<1> QED
  BY <1>1, <1>2, <1>3, <1>4

\* Polling a completion, and polling followed by RdmaRecv.
LEMMA TypePoll ==
    ASSUME TypeOK, NEW e \in EP, PollCompletion(e)
    PROVE  cq' \in [EP -> Seq(Completions)]
<1>1. Tail(cq[e]) \in Seq(Completions)
  BY DEF TypeOK, PollCompletion
<1> QED
  BY <1>1 DEF TypeOK, PollCompletion

LEMMA TypePollThenRecv ==
    ASSUME TypeOK, NEW e \in EP, PollThenRecv(e)
    PROVE  cq' \in [EP -> Seq(Completions)] /\ rq' \in [EP -> Nat]
<1>1. Tail(cq[e]) \o Flush(e) \in Seq(Completions)
  BY FlushType DEF TypeOK, PollThenRecv
<1> QED
  BY <1>1 DEF TypeOK, PollThenRecv

LEMMA TypeThread ==
    ASSUME TypeOK, NEW t \in Threads, Call(t) \/ ThreadStep(t)
    PROVE  TypeOK'
<1> DEFINE c == Client(NodeOf[t])
<1> USE DEF serverVars, threadVars, historyVars
<1>1. NodeOf[t] \in Nodes /\ c \in EP
  BY RpcAssumption, EndpointFacts
<1>2. CASE Call(t)
  <2>1. PICK request \in RequestsOf(t) :
           /\ call' = [call EXCEPT ![t] = request]
           /\ RdmaSend(c, request)
    BY <1>2 DEF Call
  <2>2. request \in Requests
    BY RequestsOfType
  <2>3. /\ sq' \in [EP -> Nat]
        /\ cq' \in [EP -> Seq(Completions)]
        /\ outBuf' \in [EP -> Requests \union Responses]
        /\ \A k \in Nodes : outBuf'[Client(k)] \in Requests /\ outBuf'[Server(k)] \in Responses
    BY <1>1, <2>1, <2>2, TypeRdmaSend
  <2> QED
    BY <1>2, <2>1, <2>2, <2>3 DEF TypeOK, Call
<1>3. CASE PollSend(t)
  BY <1>1, <1>3, TypePollThenRecv DEF TypeOK, PollSend
<1>4. CASE PollGreeting(t)
  BY <1>1, <1>4, TypePoll DEF TypeOK, PollGreeting
<1>5. CASE PollRecv(t)
  BY <1>1, <1>5, TypePoll DEF TypeOK, PollRecv
<1>6. CASE Return(t)
  <2>1. Outcome(call[t], inBuf[c]) \in Outcomes
    BY <1>1, <1>6 DEF TypeOK, Return, Outcome, Outcomes, Responses
  <2> QED
    BY <1>6, <2>1 DEF TypeOK, Return, transportVars
<1> QED
  BY <1>2, <1>3, <1>4, <1>5, <1>6 DEF ThreadStep

LEMMA TypeRespond ==
    ASSUME TypeOK, NEW n \in Nodes, NEW r \in Responses, Respond(n, r),
           inBuf[Server(n)].type \in PoolTypes,
           pool_info' \in [Pools -> Infos \union {Null}]
    PROVE  TypeOK'
<1> DEFINE request == inBuf[Server(n)]
<1>1. request \in Requests
  BY DEF TypeOK
<1>2. request.by \in Threads
  BY <1>1 DEF Requests, PoolRequests, OtherRequests, PoolTypes
<1>3. effect' \in [Threads -> Outcomes \union {Null}]
  BY <1>1, <1>2, OutcomeType DEF TypeOK, Respond
<1>4. served' \in [Threads -> Nat]
  BY <1>2 DEF TypeOK, Respond
<1> QED
  BY <1>3, <1>4 DEF TypeOK, Respond, transportVars, threadVars

LEMMA TypePollThread ==
    ASSUME TypeOK, NEW n \in Nodes, PollThreadStep(n)
    PROVE  TypeOK'
<1> DEFINE request == inBuf[Server(n)]
<1> USE DEF serverVars, threadVars, historyVars
<1>1. Server(n) \in EP /\ request \in Requests
  BY EndpointFacts DEF TypeOK
<1>2. CASE Poll(n)
  BY <1>1, <1>2, TypePoll DEF TypeOK, Poll
<1>3. CASE ServeCreate(n)
  <2>1. request \in PoolRequests
    BY <1>1, <1>3 DEF ServeCreate, Requests, OtherRequests
  <2>2. pool_info' \in [Pools -> Infos \union {Null}]
    BY <1>3, <2>1 DEF TypeOK, ServeCreate, PoolRequests
  <2>3. PICK r \in Responses : Respond(n, r)
    BY <1>3 DEF ServeCreate, Responses
  <2> QED
    BY <2>1, <2>2, <2>3, TypeRespond DEF PoolRequests
<1>4. CASE ServeDelete(n)
  <2>1. request \in PoolRequests
    BY <1>1, <1>4 DEF ServeDelete, Requests, OtherRequests
  <2>2. pool_info' \in [Pools -> Infos \union {Null}]
    BY <1>4, <2>1 DEF TypeOK, ServeDelete, PoolRequests
  <2>3. PICK r \in Responses : Respond(n, r)
    BY <1>4 DEF ServeDelete, Responses
  <2> QED
    BY <2>1, <2>2, <2>3, TypeRespond DEF PoolRequests
<1>5. CASE ServeFind(n)
  <2>1. request \in PoolRequests
    BY <1>1, <1>5 DEF ServeFind, Requests, OtherRequests
  <2>2. pool_info[request.pool] \in Infos \union {Null}
    BY <2>1 DEF TypeOK, PoolRequests
  <2>3. PICK r \in Responses : Respond(n, r)
    BY <1>5, <2>2 DEF ServeFind, Responses
  <2> QED
    BY <1>5, <2>1, <2>3, TypeRespond DEF ServeFind, PoolRequests, TypeOK
<1>6. CASE ServeOther(n)
  BY <1>6 DEF TypeOK, ServeOther, transportVars
<1>7. CASE Reply(n)
  <2>1. RdmaSend(Server(n), resp[n]) /\ resp[n] \in Responses
    BY <1>7 DEF TypeOK, Reply
  <2>2. /\ sq' \in [EP -> Nat]
        /\ cq' \in [EP -> Seq(Completions)]
        /\ outBuf' \in [EP -> Requests \union Responses]
        /\ \A k \in Nodes : outBuf'[Client(k)] \in Requests /\ outBuf'[Server(k)] \in Responses
    BY <1>1, <2>1, TypeRdmaSend
  <2> QED
    BY <1>7, <2>2 DEF TypeOK, Reply
<1>8. CASE AwaitSent(n)
  BY <1>1, <1>8, TypePoll DEF TypeOK, AwaitSent
<1> QED
  BY <1>2, <1>3, <1>4, <1>5, <1>6, <1>7, <1>8 DEF PollThreadStep

LEMMA TypeConnect ==
    ASSUME TypeOK, NEW n \in Nodes, ConnectServer(n) \/ Accept(n)
    PROVE  TypeOK'
<1> USE DEF serverVars, threadVars, historyVars
<1>1. CASE ConnectServer(n)
  BY <1>1 DEF TypeOK, ConnectServer, transportVars
<1>2. CASE Accept(n)
  BY <1>2, RpcAssumption DEF TypeOK, Accept
<1> QED
  BY <1>1, <1>2

LEMMA TypeNext == TypeOK /\ [Next]_vars => TypeOK'
<1> SUFFICES ASSUME TypeOK, [Next]_vars PROVE TypeOK'
  OBVIOUS
<1>1. CASE Next
  BY <1>1, TypeConnect, TypePollThread, TypeThread, TypeTransport DEF Next
<1>2. CASE UNCHANGED vars
  BY <1>2 DEF TypeOK, vars, transportVars, serverVars, threadVars, historyVars
<1> QED
  BY <1>1, <1>2

\* Type correctness: whatever the interleaving of threads and transport, the state
\* of queue pairs, buffers and directory keeps its shape; in particular the server
\* never reads a response as a request, nor stores anything but a PoolInfo.
THEOREM TypeCorrect == Spec => []TypeOK
BY TypeInit, TypeNext, PTL DEF Spec

-----------------------------------------------------------------------------
(* The inductive invariant behind the safety properties. *)

HasRecv(q) == \E i \in 1..Len(q) : q[i] = "RECV"
OneRecv(q) == \A i, j \in 1..Len(q) : q[i] = "RECV" /\ q[j] = "RECV" => i = j

\* A request on the connection of a node was made by a thread of that node, and the
\* owner it names is that node.
FromNode(r, n) ==
    /\ r.by # Null => NodeOf[r.by] = n
    /\ r.info # Null => r.info.node = n

Provenance ==
    /\ \A n \in Nodes : FromNode(outBuf[Client(n)], n) /\ FromNode(inBuf[Server(n)], n)
    /\ \A n \in Nodes : spc[n] # "off" => n \in peers

\* Where an exchange between an orderly thread t of node n and the server can be.
\* The five places of a request and its response exclude each other.
Requested(n) == sq[Client(n)] > 0
Arrived(n) == HasRecv(cq[Server(n)])
Serving(n) == spc[n] = "recv"
Replying(n) == spc[n] = "reply"
Replied(n) == sq[Server(n)] > 0
Underway(n) == Requested(n) \/ Arrived(n) \/ Serving(n)
Answered(n) == Replying(n) \/ Replied(n)

OnePlace(n) ==
    /\ Requested(n) => ~Arrived(n) /\ ~Serving(n) /\ ~Answered(n)
    /\ Arrived(n) => ~Serving(n) /\ ~Answered(n)
    /\ Serving(n) => ~Answered(n)
    /\ Replying(n) => ~Replied(n)
    /\ OneRecv(cq[Server(n)])

\* The client's end: what is posted and completed at each point of a call.
ClientEnd(t) ==
    LET c == Client(NodeOf[t]) IN
    /\ qp[c] = "ERR" => sq[c] = 0 /\ acks[c] = 0 /\ rq[c] = 0
    /\ qp[c] = "RTS" =>
         /\ pc[t] \in {"idle", "answer"} =>
              sq[c] = 0 /\ acks[c] = 0 /\ rq[c] = 0 /\ cq[c] = <<>>
         /\ pc[t] = "sending" =>
              /\ rq[c] = 0
              /\ \/ sq[c] + acks[c] = 1 /\ cq[c] = <<>>
                 \/ sq[c] + acks[c] = 0 /\ cq[c] = <<"SEND">>
         /\ pc[t] = "receiving" =>
              /\ sq[c] = 0 /\ acks[c] = 0
              /\ \/ rq[c] = 1 /\ cq[c] = <<>>
                 \/ rq[c] = 0 /\ cq[c] = <<"RECV">>

\* The current call, and the copies of it on the way to the server.
CallCopies(t) ==
    LET n == NodeOf[t] IN
    /\ pc[t] = "idle" <=> call[t] = Null
    /\ pc[t] # "idle" =>
         call[t] \in PoolRequests /\ call[t].by = t /\ outBuf[Client(n)] = call[t]
    /\ (Arrived(n) \/ Serving(n)) => inBuf[Server(n)] \in PoolRequests
    /\ served[t] <= calls[t]
    /\ Underway(n) => served[t] < calls[t]

\* While the client's queue pair works, a request under way is that of the current
\* call, and a response on its way carries what was done for that call.
Exchange(t) ==
    LET n == NodeOf[t]
        c == Client(n) IN
    qp[c] = "RTS" =>
        /\ Underway(n) \/ Answered(n) => pc[t] \in {"sending", "receiving"}
        /\ Underway(n) \/ pc[t] = "idle" => effect[t] = Null
        /\ Arrived(n) \/ Serving(n) => inBuf[Server(n)] = call[t]
        /\ Replying(n) => effect[t] = Outcome(call[t], resp[n])
        /\ Replied(n) => sq[Server(n)] = 1 /\ effect[t] = Outcome(call[t], outBuf[Server(n)])
        /\ cq[c] = <<"RECV">> \/ pc[t] = "answer" =>
             /\ effect[t] = Outcome(call[t], inBuf[c])
             /\ ~Underway(n) /\ ~Answered(n)

\* The server's wait for its send has a completion to expect; without late
\* acknowledgements no request completion can be in front of it.
ServerWait(n) ==
    /\ spc[n] = "sent" /\ cq[Server(n)] = <<>> => sq[Server(n)] + acks[Server(n)] > 0
    /\ n \notin LateAcks =>
         /\ spc[n] = "sent" /\ cq[Server(n)] # <<>> => Head(cq[Server(n)]) # "RECV"
         /\ n \notin swallowed

LinkInv(t) ==
    /\ OnePlace(NodeOf[t])
    /\ ClientEnd(t)
    /\ CallCopies(t)
    /\ Exchange(t)
    /\ ServerWait(NodeOf[t])

IInv ==
    /\ TypeOK
    /\ Provenance
    /\ OwnersConnected
    /\ \A t \in Threads : Orderly(t) => LinkInv(t)

\* What the three ways of changing a completion queue do to the receive completion
\* it may hold.
LEMMA RecvAppend ==
    ASSUME NEW q \in Seq(Completions), NEW x \in Completions
    PROVE  /\ Append(q, x) # <<>>
           /\ HasRecv(Append(q, x)) <=> HasRecv(q) \/ x = "RECV"
           /\ OneRecv(q) /\ (~HasRecv(q) \/ x # "RECV") => OneRecv(Append(q, x))
           /\ Head(Append(q, x)) = IF q = <<>> THEN x ELSE Head(q)
<1> DEFINE a == Append(q, x)
<1>1. /\ Len(q) \in Nat /\ Len(a) = Len(q) + 1
      /\ a[Len(q) + 1] = x
      /\ \A i \in 1..Len(q) : a[i] = q[i]
      /\ a # <<>>
  OBVIOUS
<1>2. HasRecv(a) <=> HasRecv(q) \/ x = "RECV"
  <2>1. ASSUME HasRecv(q) \/ x = "RECV" PROVE HasRecv(a)
    BY <1>1, <2>1 DEF HasRecv
  <2>2. ASSUME HasRecv(a) PROVE HasRecv(q) \/ x = "RECV"
    BY <1>1, <2>2 DEF HasRecv
  <2> QED
    BY <2>1, <2>2
<1>3. OneRecv(q) /\ (~HasRecv(q) \/ x # "RECV") => OneRecv(a)
  BY <1>1 DEF OneRecv, HasRecv
<1>4. Head(a) = IF q = <<>> THEN x ELSE Head(q)
  OBVIOUS
<1> QED
  BY <1>1, <1>2, <1>3, <1>4

LEMMA RecvTail ==
    ASSUME NEW q \in Seq(Completions), q # <<>>, OneRecv(q)
    PROVE  /\ Tail(q) \in Seq(Completions)
           /\ Head(q) = "RECV" => HasRecv(q) /\ ~HasRecv(Tail(q))
           /\ Head(q) # "RECV" => (HasRecv(Tail(q)) <=> HasRecv(q))
           /\ OneRecv(Tail(q))
<1> DEFINE r == Tail(q)
<1>1. /\ Len(q) \in Nat \ {0} /\ Len(r) = Len(q) - 1
      /\ \A i \in 1..Len(r) : r[i] = q[i + 1]
      /\ Head(q) = q[1]
      /\ r \in Seq(Completions)
  OBVIOUS
<1>2. Head(q) = "RECV" => HasRecv(q) /\ ~HasRecv(r)
  BY <1>1 DEF HasRecv, OneRecv
<1>3. HasRecv(r) => HasRecv(q)
  BY <1>1 DEF HasRecv
<1>4. Head(q) # "RECV" /\ HasRecv(q) => HasRecv(r)
  <2> SUFFICES ASSUME Head(q) # "RECV", NEW i \in 1..Len(q), q[i] = "RECV"
               PROVE  HasRecv(r)
    BY DEF HasRecv
  <2>1. i - 1 \in 1..Len(r) /\ r[i - 1] = "RECV"
    BY <1>1
  <2> QED
    BY <2>1 DEF HasRecv
<1>5. OneRecv(r)
  <2> SUFFICES ASSUME NEW i \in 1..Len(r), NEW j \in 1..Len(r), r[i] = "RECV", r[j] = "RECV"
               PROVE  i = j
    BY DEF OneRecv
  <2>1. i + 1 \in 1..Len(q) /\ j + 1 \in 1..Len(q) /\ q[i + 1] = "RECV" /\ q[j + 1] = "RECV"
    BY <1>1
  <2> QED
    BY <2>1 DEF OneRecv
<1> QED
  BY <1>1, <1>2, <1>3, <1>4, <1>5

LEMMA RecvConcat ==
    ASSUME NEW q \in Seq(Completions), NEW r \in Seq(Completions), ~HasRecv(r)
    PROVE  /\ q \o r \in Seq(Completions)
           /\ HasRecv(q \o r) <=> HasRecv(q)
           /\ OneRecv(q) => OneRecv(q \o r)
           /\ r # <<>> => q \o r # <<>>
           /\ q \o <<>> = q
           /\ q \o r # <<>> => Head(q \o r) = IF q = <<>> THEN Head(r) ELSE Head(q)
<1> DEFINE a == q \o r
<1>1. /\ Len(q) \in Nat /\ Len(r) \in Nat /\ Len(a) = Len(q) + Len(r)
      /\ \A i \in 1..Len(q) : a[i] = q[i]
      /\ a \in Seq(Completions)
  OBVIOUS
<1>2. \A i \in 1..Len(a) : i \notin 1..Len(q) => i - Len(q) \in 1..Len(r) /\ a[i] = r[i - Len(q)]
  BY <1>1
<1>3. \A i \in 1..Len(a) : a[i] = "RECV" => i \in 1..Len(q)
  BY <1>2 DEF HasRecv
<1>4. HasRecv(a) <=> HasRecv(q)
  <2>1. ASSUME HasRecv(q) PROVE HasRecv(a)
    BY <1>1, <2>1 DEF HasRecv
  <2>2. ASSUME HasRecv(a) PROVE HasRecv(q)
    BY <1>1, <1>3, <2>2 DEF HasRecv
  <2> QED
    BY <2>1, <2>2
<1>5. OneRecv(q) => OneRecv(a)
  BY <1>1, <1>3 DEF OneRecv
<1>6. /\ r # <<>> => a # <<>>
      /\ q \o <<>> = q
      /\ a # <<>> => Head(a) = IF q = <<>> THEN Head(r) ELSE Head(q)
  OBVIOUS
<1> QED
  BY <1>1, <1>4, <1>5, <1>6

\* The completion queues of length at most one that a client's end can hold.
LEMMA ShortQueues ==
    /\ <<"SEND">> # <<>> /\ <<"RECV">> # <<>> /\ <<"SEND">> # <<"RECV">> /\ <<"ERR">> # <<>>
    /\ Tail(<<"SEND">>) = <<>> /\ Tail(<<"RECV">>) = <<>>
    /\ Append(<<>>, "SEND") = <<"SEND">> /\ Append(<<>>, "RECV") = <<"RECV">>
    /\ <<>> \o <<>> = <<>>
<1>1. Len(<<>>) = 0 /\ Len(<<"SEND">>) = 1 /\ Len(<<"RECV">>) = 1 /\ Len(<<"ERR">>) = 1
  OBVIOUS
<1>2. <<"SEND">>[1] = "SEND" /\ <<"RECV">>[1] = "RECV"
  OBVIOUS
<1>3. Tail(<<"SEND">>) = <<>> /\ Tail(<<"RECV">>) = <<>>
  OBVIOUS
<1>4. Append(<<>>, "SEND") = <<"SEND">> /\ Append(<<>>, "RECV") = <<"RECV">>
  OBVIOUS
<1> QED
  BY <1>1, <1>2, <1>3, <1>4

LEMMA NoRecvFlush ==
    ASSUME NEW e \in EP
    PROVE  /\ Flush(e) \in Seq(Completions)
           /\ ~HasRecv(Flush(e))
           /\ qp[e] # "ERR" => Flush(e) = <<>>
           /\ qp[e] = "ERR" => Flush(e) = <<"ERR">>
BY FlushType DEF Flush, HasRecv

\* What a step leaves of the exchange of t when it touches neither t, nor the
\* connection of t's node, nor the polling thread of that connection.
Untouched(t) ==
    LET n == NodeOf[t]
        c == Client(n)
        s == Server(n) IN
    /\ qp'[c] = qp[c] /\ rq'[c] = rq[c] /\ inBuf'[c] = inBuf[c]
    /\ sq'[c] = sq[c] /\ acks'[c] = acks[c] /\ cq'[c] = cq[c] /\ outBuf'[c] = outBuf[c]
    /\ sq'[s] = sq[s] /\ acks'[s] = acks[s] /\ cq'[s] = cq[s] /\ outBuf'[s] = outBuf[s]
    /\ inBuf'[s] = inBuf[s]
    /\ pc'[t] = pc[t] /\ call'[t] = call[t] /\ calls'[t] = calls[t]
    /\ effect'[t] = effect[t] /\ served'[t] = served[t]
    /\ spc'[n] = spc[n] /\ resp'[n] = resp[n]
    /\ n \in swallowed' <=> n \in swallowed

LEMMA LinkFrame ==
    ASSUME NEW t \in Threads, LinkInv(t), Untouched(t)
    PROVE  LinkInv(t)'
<1> DEFINE n == NodeOf[t]
<1> USE DEF Untouched, Requested, Arrived, Serving, Replying, Replied, Underway, Answered
<1>1. OnePlace(n)'
  BY DEF LinkInv, OnePlace
<1>2. ClientEnd(t)'
  BY DEF LinkInv, ClientEnd
<1>3. CallCopies(t)'
  BY DEF LinkInv, CallCopies
<1>4. Exchange(t)'
  BY DEF LinkInv, Exchange
<1>5. ServerWait(n)'
  BY DEF LinkInv, ServerWait
<1> QED
  BY <1>1, <1>2, <1>3, <1>4, <1>5 DEF LinkInv

\* Where the exchange of an orderly thread lives.
LEMMA OwnEnds ==
    ASSUME IInv, NEW t \in Threads
    PROVE  LET n == NodeOf[t]
               c == Client(n)
               s == Server(n) IN
           /\ n \in Nodes /\ c \in EP /\ s \in EP /\ c # s
           /\ cq[c] \in Seq(Completions) /\ cq[s] \in Seq(Completions)
           /\ sq[c] \in Nat /\ acks[c] \in Nat /\ rq[c] \in Nat
           /\ sq[s] \in Nat /\ acks[s] \in Nat /\ rq[s] \in Nat
           /\ qp[c] \in {"RTS", "ERR"} /\ qp[s] \in {"RTS", "ERR"}
           /\ served[t] \in Nat /\ calls[t] \in Nat
           /\ t # Null /\ call[t] \in Requests \union {Null} /\ Null \notin Requests
BY RpcAssumption, EndpointFacts DEF IInv, TypeOK

LEMMA LinkCall ==
    ASSUME IInv, NEW t \in Threads, Orderly(t), Call(t)
    PROVE  LinkInv(t)'
<1> DEFINE n == NodeOf[t]
           c == Client(n)
           s == Server(n)
<1> USE DEF serverVars, historyVars, Requested, Arrived, Serving, Replying, Replied,
        Underway, Answered
<1>1. /\ n \in Nodes /\ c \in EP /\ s \in EP /\ c # s
      /\ sq[c] \in Nat /\ acks[c] \in Nat
      /\ qp[c] \in {"RTS", "ERR"}
      /\ served[t] \in Nat /\ calls[t] \in Nat
  BY OwnEnds
<1>2. LinkInv(t) /\ pc[t] = "idle"
  BY DEF IInv, Call
<1>3. PICK request \in RequestsOf(t) :
           /\ call' = [call EXCEPT ![t] = request]
           /\ RdmaSend(c, request)
  BY DEF Call
<1>4. request \in PoolRequests /\ request.by = t /\ request # Null
  <2>1. request \in PoolRequests /\ request.by = t
    BY RpcAssumption, <1>3 DEF RequestsOf, PoolRequests, PoolTypes, Infos, Orderly,
       CreateRequest, DeleteRequest, FindRequest
  <2> QED
    BY <2>1, RpcAssumption DEF Requests
<1>5. /\ sq'[c] = (IF qp[c] = "RTS" THEN sq[c] + 1 ELSE sq[c]) /\ sq'[s] = sq[s]
      /\ cq'[c] = cq[c] \o Flush(c) /\ cq'[s] = cq[s]
      /\ outBuf'[c] = request /\ outBuf'[s] = outBuf[s]
      /\ pc'[t] = "sending" /\ call'[t] = request /\ calls'[t] = calls[t] + 1
      /\ UNCHANGED <<qp, acks, rq, inBuf, peers, spc, resp, effect, served, swallowed>>
  BY <1>1, <1>3 DEF IInv, TypeOK, Call, RdmaSend
<1>6. qp[c] = "RTS" => cq[c] = <<>> /\ cq'[c] = <<>>
  BY <1>1, <1>2, <1>5, NoRecvFlush DEF LinkInv, ClientEnd
<1>7. OnePlace(n)'
  <2>1. CASE qp[c] = "RTS"
    <3>1. ~Underway(n) /\ ~Answered(n)
      BY <1>2, <2>1 DEF LinkInv, Exchange
    <3> QED
      BY <1>2, <1>5, <3>1 DEF LinkInv, OnePlace
  <2>2. CASE qp[c] = "ERR"
    BY <1>2, <1>5, <2>2 DEF LinkInv, OnePlace
  <2> QED
    BY <1>1, <2>1, <2>2
<1>8. ClientEnd(t)'
  <2>1. CASE qp[c] = "RTS"
    <3>1. sq[c] = 0 /\ acks[c] = 0 /\ rq[c] = 0
      BY <1>2, <2>1 DEF LinkInv, ClientEnd
    <3>2. sq'[c] = 1 /\ acks'[c] = 0 /\ rq'[c] = 0 /\ cq'[c] = <<>> /\ qp'[c] = "RTS"
      BY <1>5, <1>6, <2>1, <3>1
    <3> QED
      BY <1>5, <3>2 DEF ClientEnd
  <2>2. CASE qp[c] = "ERR"
    BY <1>2, <1>5, <2>2 DEF LinkInv, ClientEnd
  <2> QED
    BY <1>1, <2>1, <2>2
<1>9. CallCopies(t)'
  BY <1>1, <1>2, <1>4, <1>5 DEF LinkInv, CallCopies
<1>10. Exchange(t)'
  <2>1. CASE qp[c] = "RTS"
    <3>1. ~Underway(n) /\ ~Answered(n) /\ effect[t] = Null
      BY <1>2, <2>1 DEF LinkInv, Exchange
    <3>2. cq'[c] # <<"RECV">>
      BY <1>6, <2>1, ShortQueues
    <3> QED
      BY <1>5, <3>1, <3>2 DEF Exchange
  <2>2. CASE qp[c] = "ERR"
    BY <1>5, <2>2 DEF Exchange
  <2> QED
    BY <1>1, <2>1, <2>2
<1>11. ServerWait(n)'
  BY <1>1, <1>2, <1>5 DEF LinkInv, ServerWait
<1> QED
  BY <1>7, <1>8, <1>9, <1>10, <1>11 DEF LinkInv

LEMMA LinkPollSend ==
    ASSUME IInv, NEW t \in Threads, Orderly(t), PollSend(t)
    PROVE  LinkInv(t)'
<1> DEFINE n == NodeOf[t]
           c == Client(n)
           s == Server(n)
<1> USE DEF serverVars, historyVars, Requested, Arrived, Serving, Replying, Replied,
        Underway, Answered
<1>1. /\ n \in Nodes /\ c \in EP /\ s \in EP /\ c # s
      /\ sq[c] \in Nat /\ acks[c] \in Nat
      /\ qp[c] \in {"RTS", "ERR"}
  BY OwnEnds
<1>2. LinkInv(t) /\ pc[t] = "sending"
  BY DEF IInv, PollSend
<1>3. /\ cq[c] # <<>> /\ cq'[c] = Tail(cq[c]) \o Flush(c) /\ cq'[s] = cq[s]
      /\ rq'[c] = IF qp[c] = "RTS" THEN rq[c] + 1 ELSE rq[c]
      /\ pc'[t] = "receiving"
      /\ UNCHANGED <<qp, sq, acks, outBuf, inBuf, spc, resp, call, calls, effect, served,
                     swallowed>>
  BY <1>1 DEF IInv, TypeOK, PollSend, PollThenRecv
<1>4. qp[c] = "RTS" => /\ sq[c] = 0 /\ acks[c] = 0
                       /\ rq'[c] = 1 /\ cq[c] = <<"SEND">> /\ cq'[c] = <<>>
  <2> SUFFICES ASSUME qp[c] = "RTS"
               PROVE  /\ sq[c] = 0 /\ acks[c] = 0
                      /\ rq'[c] = 1 /\ cq[c] = <<"SEND">> /\ cq'[c] = <<>>
    OBVIOUS
  <2>1. sq[c] + acks[c] = 0 /\ rq[c] = 0 /\ cq[c] = <<"SEND">>
    BY <1>2, <1>3 DEF LinkInv, ClientEnd
  <2>2. Flush(c) = <<>>
    BY <1>1, NoRecvFlush
  <2>3. cq'[c] = <<>>
    BY <1>3, <2>1, <2>2, ShortQueues
  <2> QED
    BY <1>1, <1>3, <2>1, <2>3
<1>5. OnePlace(n)'
  BY <1>2, <1>3 DEF LinkInv, OnePlace
<1>6. ClientEnd(t)'
  BY <1>1, <1>2, <1>3, <1>4 DEF LinkInv, ClientEnd
<1>7. CallCopies(t)'
  BY <1>2, <1>3 DEF LinkInv, CallCopies
<1>8. Exchange(t)'
  BY <1>1, <1>2, <1>3, <1>4, ShortQueues DEF LinkInv, Exchange
<1>9. ServerWait(n)'
  BY <1>2, <1>3 DEF LinkInv, ServerWait
<1> QED
  BY <1>5, <1>6, <1>7, <1>8, <1>9 DEF LinkInv

LEMMA LinkPollRecv ==
    ASSUME IInv, NEW t \in Threads, Orderly(t), PollRecv(t)
    PROVE  LinkInv(t)'
<1> DEFINE n == NodeOf[t]
           c == Client(n)
           s == Server(n)
<1> USE DEF serverVars, historyVars, Requested, Arrived, Serving, Replying, Replied,
        Underway, Answered
<1>1. /\ n \in Nodes /\ c \in EP /\ s \in EP /\ c # s
      /\ qp[c] \in {"RTS", "ERR"}
  BY OwnEnds
<1>2. LinkInv(t) /\ pc[t] = "receiving"
  BY DEF IInv, PollRecv
<1>3. /\ cq[c] # <<>> /\ cq'[c] = Tail(cq[c]) /\ cq'[s] = cq[s]
      /\ pc'[t] = "answer"
      /\ UNCHANGED <<qp, sq, acks, rq, outBuf, inBuf, spc, resp, call, calls, effect, served,
                     swallowed>>
  BY <1>1 DEF IInv, TypeOK, PollRecv, PollCompletion
<1>4. qp[c] = "RTS" => /\ sq[c] = 0 /\ acks[c] = 0 /\ rq[c] = 0
                       /\ cq[c] = <<"RECV">> /\ cq'[c] = <<>>
  BY <1>1, <1>2, <1>3, ShortQueues DEF LinkInv, ClientEnd
<1>5. OnePlace(n)'
  BY <1>2, <1>3 DEF LinkInv, OnePlace
<1>6. ClientEnd(t)'
  BY <1>1, <1>2, <1>3, <1>4 DEF LinkInv, ClientEnd
<1>7. CallCopies(t)'
  BY <1>2, <1>3 DEF LinkInv, CallCopies
<1>8. Exchange(t)'
  BY <1>1, <1>2, <1>3, <1>4, ShortQueues DEF LinkInv, Exchange
<1>9. ServerWait(n)'
  BY <1>2, <1>3 DEF LinkInv, ServerWait
<1> QED
  BY <1>5, <1>6, <1>7, <1>8, <1>9 DEF LinkInv

LEMMA LinkReturn ==
    ASSUME IInv, NEW t \in Threads, Orderly(t), Return(t)
    PROVE  LinkInv(t)'
<1> DEFINE n == NodeOf[t]
           c == Client(n)
<1> USE DEF transportVars, serverVars, Requested, Arrived, Serving, Replying, Replied,
        Underway, Answered
<1>1. qp[c] \in {"RTS", "ERR"}
  BY OwnEnds
<1>2. LinkInv(t) /\ pc[t] = "answer"
  BY DEF IInv, Return
<1>3. /\ pc'[t] = "idle" /\ call'[t] = Null /\ effect'[t] = Null
      /\ UNCHANGED <<transportVars, spc, resp, calls, served, swallowed>>
  BY DEF IInv, TypeOK, Return
<1>4. qp[c] = "RTS" => /\ cq[c] = <<>> /\ cq[c] # <<"RECV">>
                       /\ ~Underway(n) /\ ~Answered(n)
  BY <1>1, <1>2, ShortQueues DEF LinkInv, ClientEnd, Exchange
<1>5. OnePlace(n)'
  BY <1>2, <1>3 DEF LinkInv, OnePlace
<1>6. ClientEnd(t)'
  BY <1>1, <1>2, <1>3, <1>4 DEF LinkInv, ClientEnd
<1>7. CallCopies(t)'
  BY <1>2, <1>3 DEF LinkInv, CallCopies
<1>8. Exchange(t)'
  BY <1>1, <1>3, <1>4 DEF Exchange
<1>9. ServerWait(n)'
  BY <1>2, <1>3 DEF LinkInv, ServerWait
<1> QED
  BY <1>5, <1>6, <1>7, <1>8, <1>9 DEF LinkInv

\* An orderly thread never greets.
LEMMA NoGreeting ==
    ASSUME IInv, NEW t \in Threads, Orderly(t)
    PROVE  ~PollGreeting(t)
BY DEF IInv, LinkInv, CallCopies, PollGreeting, PoolRequests, PoolTypes

LEMMA LinkPoll ==
    ASSUME IInv, NEW t \in Threads, Orderly(t), Poll(NodeOf[t])
    PROVE  LinkInv(t)'
<1> DEFINE n == NodeOf[t]
           c == Client(n)
           s == Server(n)
<1> USE DEF threadVars, historyVars, Requested, Arrived, Serving, Replying, Replied,
        Underway, Answered
<1>1. /\ n \in Nodes /\ c \in EP /\ s \in EP /\ c # s
      /\ cq[s] \in Seq(Completions)
  BY OwnEnds
<1>2. LinkInv(t) /\ spc[n] = "poll"
  BY DEF IInv, Poll
<1>3. /\ cq[s] # <<>> /\ cq'[s] = Tail(cq[s]) /\ cq'[c] = cq[c]
      /\ spc'[n] = IF Head(cq[s]) = "RECV" THEN "recv" ELSE "poll"
      /\ UNCHANGED <<qp, sq, acks, rq, outBuf, inBuf, resp, pc, call, calls, effect, served,
                     swallowed>>
  BY <1>1 DEF IInv, TypeOK, Poll, PollCompletion
<1>4. /\ OneRecv(cq'[s])
      /\ Head(cq[s]) = "RECV" => Arrived(n) /\ ~Arrived(n)' /\ Serving(n)'
      /\ Head(cq[s]) # "RECV" => (Arrived(n)' <=> Arrived(n)) /\ ~Serving(n)'
  <2>1. OneRecv(cq[s])
    BY <1>2 DEF LinkInv, OnePlace
  <2>2. /\ OneRecv(cq'[s])
        /\ Head(cq[s]) = "RECV" => HasRecv(cq[s]) /\ ~HasRecv(cq'[s])
        /\ Head(cq[s]) # "RECV" => (HasRecv(cq'[s]) <=> HasRecv(cq[s]))
    BY <1>1, <1>3, <2>1, RecvTail
  <2>3. Head(cq[s]) = "RECV" <=> spc'[n] = "recv"
    BY <1>3
  <2> QED
    BY <2>2, <2>3
<1>5. (Underway(n)' <=> Underway(n)) /\ (Answered(n)' <=> Answered(n))
  BY <1>2, <1>3, <1>4
<1>6. OnePlace(n)'
  BY <1>2, <1>3, <1>4 DEF LinkInv, OnePlace
<1>7. ClientEnd(t)'
  BY <1>2, <1>3 DEF LinkInv, ClientEnd
<1>8. CallCopies(t)'
  BY <1>2, <1>3, <1>4, <1>5 DEF LinkInv, CallCopies
<1>9. Exchange(t)'
  BY <1>2, <1>3, <1>4, <1>5 DEF LinkInv, Exchange
<1>10. ServerWait(n)'
  BY <1>2, <1>3 DEF LinkInv, ServerWait
<1> QED
  BY <1>6, <1>7, <1>8, <1>9, <1>10 DEF LinkInv

\* The three operations of the directory look alike from the exchange.
LEMMA LinkRespond ==
    ASSUME IInv, NEW t \in Threads, Orderly(t), NEW r \in Responses,
           spc[NodeOf[t]] = "recv", Respond(NodeOf[t], r)
    PROVE  LinkInv(t)'
<1> DEFINE n == NodeOf[t]
           c == Client(n)
           s == Server(n)
<1> USE DEF transportVars, threadVars, Requested, Arrived, Serving, Replying, Replied,
        Underway, Answered
<1>1. /\ n \in Nodes /\ qp[c] \in {"RTS", "ERR"}
      /\ served[t] \in Nat /\ calls[t] \in Nat /\ t # Null
  BY OwnEnds
<1>2. LinkInv(t) /\ Serving(n)
  BY DEF IInv
<1>3. ~Requested(n) /\ ~Arrived(n) /\ ~Answered(n)
  BY <1>2 DEF LinkInv, OnePlace
<1>4. inBuf[s] \in PoolRequests /\ inBuf[s].by = t
  <2>1. inBuf[s] \in PoolRequests
    BY <1>2 DEF LinkInv, CallCopies
  <2>2. inBuf[s].by \in Threads /\ inBuf[s].by # Null
    BY <2>1, RpcAssumption DEF PoolRequests
  <2>3. NodeOf[inBuf[s].by] = n
    BY <1>1, <2>2 DEF IInv, Provenance, FromNode
  <2> QED
    BY <2>1, <2>2, <2>3 DEF Orderly
<1>5. /\ effect'[t] = Outcome(inBuf[s], r) /\ served'[t] = served[t] + 1
      /\ resp'[n] = r /\ spc'[n] = "reply"
      /\ UNCHANGED <<transportVars, pc, call, calls, swallowed>>
  BY <1>1, <1>4 DEF IInv, TypeOK, Respond
<1>6. ~Underway(n)' /\ Replying(n)' /\ ~Replied(n)'
  BY <1>3, <1>5
<1>7. OnePlace(n)'
  BY <1>2, <1>5, <1>6 DEF LinkInv, OnePlace
<1>8. ClientEnd(t)'
  BY <1>2, <1>5 DEF LinkInv, ClientEnd
<1>9. CallCopies(t)'
  <2>1. served[t] < calls[t]
    BY <1>2 DEF LinkInv, CallCopies
  <2>2. served'[t] <= calls'[t]
    BY <1>1, <1>5, <2>1
  <2> QED
    BY <1>2, <1>5, <1>6, <2>2 DEF LinkInv, CallCopies
<1>10. Exchange(t)'
  <2>1. CASE qp[c] = "RTS"
    <3>1. /\ inBuf[s] = call[t]
          /\ pc[t] \in {"sending", "receiving"}
          /\ cq[c] # <<"RECV">>
      BY <1>2, <2>1 DEF LinkInv, Exchange
    <3> QED
      BY <1>5, <1>6, <3>1 DEF Exchange
  <2>2. CASE qp[c] = "ERR"
    BY <1>5, <2>2 DEF Exchange
  <2> QED
    BY <1>1, <2>1, <2>2
<1>11. ServerWait(n)'
  BY <1>2, <1>5 DEF LinkInv, ServerWait
<1> QED
  BY <1>7, <1>8, <1>9, <1>10, <1>11 DEF LinkInv

LEMMA LinkServe ==
    ASSUME IInv, NEW t \in Threads, Orderly(t),
           \/ ServeCreate(NodeOf[t]) \/ ServeDelete(NodeOf[t]) \/ ServeFind(NodeOf[t])
    PROVE  LinkInv(t)'
<1> DEFINE n == NodeOf[t]
<1>1. CASE ServeCreate(n)
  BY <1>1, LinkRespond DEF ServeCreate, Responses
<1>2. CASE ServeDelete(n)
  BY <1>2, LinkRespond DEF ServeDelete, Responses
<1>3. CASE ServeFind(n)
  <2>1. inBuf[Server(n)] \in PoolRequests
    BY <1>3, OwnEnds DEF IInv, TypeOK, ServeFind, Requests, OtherRequests
  <2>2. pool_info[inBuf[Server(n)].pool] \in Infos \union {Null}
    BY <2>1 DEF IInv, TypeOK, PoolRequests
  <2> QED
    BY <1>3, <2>2, LinkRespond DEF ServeFind, Responses
<1> QED
  BY <1>1, <1>2, <1>3

\* An orderly thread's node never sends a request that gets no response.
LEMMA NoServeOther ==
    ASSUME IInv, NEW t \in Threads, Orderly(t)
    PROVE  ~ServeOther(NodeOf[t])
BY DEF IInv, LinkInv, CallCopies, ServeOther, PoolRequests, PoolTypes, Serving

LEMMA LinkReply ==
    ASSUME IInv, NEW t \in Threads, Orderly(t), Reply(NodeOf[t])
    PROVE  LinkInv(t)'
<1> DEFINE n == NodeOf[t]
           c == Client(n)
           s == Server(n)
<1> USE DEF threadVars, historyVars, Requested, Arrived, Serving, Replying, Replied,
        Underway, Answered
<1>1. /\ n \in Nodes /\ c \in EP /\ s \in EP /\ c # s
      /\ cq[s] \in Seq(Completions)
      /\ sq[s] \in Nat /\ acks[s] \in Nat
      /\ qp[c] \in {"RTS", "ERR"} /\ qp[s] \in {"RTS", "ERR"}
  BY OwnEnds
<1>2. LinkInv(t) /\ Replying(n)
  BY DEF IInv, Reply
<1>3. /\ sq'[s] = (IF qp[s] = "RTS" THEN sq[s] + 1 ELSE sq[s]) /\ sq'[c] = sq[c]
      /\ cq'[s] = cq[s] \o Flush(s) /\ cq'[c] = cq[c]
      /\ outBuf'[s] = resp[n] /\ outBuf'[c] = outBuf[c]
      /\ spc'[n] = "sent"
      /\ UNCHANGED <<qp, acks, rq, inBuf, resp, pc, call, calls, effect, served, swallowed>>
  BY <1>1 DEF IInv, TypeOK, Reply, RdmaSend
<1>4. ~Underway(n) /\ ~Replied(n) /\ sq[s] = 0
  BY <1>1, <1>2 DEF LinkInv, OnePlace
<1>5. /\ OneRecv(cq'[s]) /\ ~Arrived(n)'
      /\ qp[s] = "RTS" => cq'[s] = cq[s]
      /\ qp[s] = "ERR" => cq'[s] # <<>>
  <2>1. Flush(s) \in Seq(Completions) /\ ~HasRecv(Flush(s))
    BY <1>1, NoRecvFlush
  <2>2. /\ OneRecv(cq'[s]) /\ ~HasRecv(cq'[s])
    BY <1>1, <1>2, <1>3, <1>4, <2>1, RecvConcat DEF LinkInv, OnePlace
  <2>3. qp[s] = "RTS" => cq'[s] = cq[s]
    <3>1. qp[s] = "RTS" => Flush(s) = <<>>
      BY <1>1, NoRecvFlush
    <3>2. cq[s] \o <<>> = cq[s]
      BY <1>1
    <3> QED
      BY <1>3, <3>1, <3>2
  <2>4. qp[s] = "ERR" => cq'[s] # <<>>
    <3>1. qp[s] = "ERR" => Flush(s) = <<"ERR">> /\ <<"ERR">> # <<>>
      BY <1>1, NoRecvFlush, ShortQueues
    <3>2. Flush(s) # <<>> => cq[s] \o Flush(s) # <<>>
      BY <1>1, <2>1, RecvConcat
    <3> QED
      BY <1>3, <3>1, <3>2
  <2> QED
    BY <2>2, <2>3, <2>4
<1>6. cq'[s] # <<>> => Head(cq'[s]) # "RECV"
  <2>1. cq'[s] \in Seq(Completions)
    BY <1>1, <1>3, NoRecvFlush, RecvConcat
  <2> QED
    BY <1>5, <2>1, RecvTail
<1>7. ~Underway(n)' /\ ~Replying(n)' /\ (Replied(n)' => sq'[s] = 1)
  BY <1>1, <1>3, <1>4, <1>5
<1>8. OnePlace(n)'
  BY <1>5, <1>7 DEF OnePlace
<1>9. ClientEnd(t)'
  BY <1>2, <1>3 DEF LinkInv, ClientEnd
<1>10. CallCopies(t)'
  BY <1>2, <1>3, <1>7 DEF LinkInv, CallCopies
<1>11. Exchange(t)'
  <2>1. CASE qp[c] = "RTS"
    <3>1. /\ effect[t] = Outcome(call[t], resp[n])
          /\ pc[t] \in {"sending", "receiving"}
          /\ cq[c] # <<"RECV">>
      BY <1>2, <2>1 DEF LinkInv, Exchange
    <3> QED
      BY <1>3, <1>7, <3>1 DEF Exchange
  <2>2. CASE qp[c] = "ERR"
    BY <1>3, <2>2 DEF Exchange
  <2> QED
    BY <1>1, <2>1, <2>2
<1>12. ServerWait(n)'
  <2>1. cq'[s] = <<>> => sq'[s] + acks'[s] > 0
    BY <1>1, <1>3, <1>4, <1>5
  <2> QED
    BY <1>2, <1>3, <1>6, <2>1 DEF LinkInv, ServerWait
<1> QED
  BY <1>8, <1>9, <1>10, <1>11, <1>12 DEF LinkInv

LEMMA LinkAwaitSent ==
    ASSUME IInv, NEW t \in Threads, Orderly(t), AwaitSent(NodeOf[t])
    PROVE  LinkInv(t)'
<1> DEFINE n == NodeOf[t]
           c == Client(n)
           s == Server(n)
<1> USE DEF threadVars, Requested, Arrived, Serving, Replying, Replied, Underway, Answered
<1>1. /\ n \in Nodes /\ c \in EP /\ s \in EP /\ c # s
      /\ cq[s] \in Seq(Completions)
  BY OwnEnds
<1>2. LinkInv(t) /\ spc[n] = "sent"
  BY DEF IInv, AwaitSent
<1>3. /\ cq[s] # <<>> /\ cq'[s] = Tail(cq[s]) /\ cq'[c] = cq[c]
      /\ spc'[n] = "poll"
      /\ swallowed' = IF Head(cq[s]) = "RECV" THEN swallowed \union {n} ELSE swallowed
      /\ UNCHANGED <<qp, sq, acks, rq, outBuf, inBuf, resp, pc, call, calls, effect, served>>
  BY <1>1 DEF IInv, TypeOK, AwaitSent, PollCompletion
<1>4. OneRecv(cq'[s]) /\ (Arrived(n)' => Arrived(n))
  <2>1. OneRecv(cq[s])
    BY <1>2 DEF LinkInv, OnePlace
  <2> QED
    BY <1>1, <1>3, <2>1, RecvTail
<1>5. OnePlace(n)'
  BY <1>2, <1>3, <1>4 DEF LinkInv, OnePlace
<1>6. ClientEnd(t)'
  BY <1>2, <1>3 DEF LinkInv, ClientEnd
<1>7. CallCopies(t)'
  BY <1>2, <1>3, <1>4 DEF LinkInv, CallCopies
<1>8. Exchange(t)'
  BY <1>2, <1>3, <1>4 DEF LinkInv, Exchange
<1>9. ServerWait(n)'
  BY <1>2, <1>3 DEF LinkInv, ServerWait
<1> QED
  BY <1>5, <1>6, <1>7, <1>8, <1>9 DEF LinkInv

\* A request reaches the server.
LEMMA LinkDeliverRequest ==
    ASSUME IInv, NEW t \in Threads, Orderly(t), Deliver(Client(NodeOf[t])),
           UNCHANGED <<serverVars, threadVars, historyVars>>
    PROVE  LinkInv(t)'
<1> DEFINE n == NodeOf[t]
           c == Client(n)
           s == Server(n)
<1> USE DEF serverVars, threadVars, historyVars,
        Requested, Arrived, Serving, Replying, Replied, Underway, Answered
<1>1. /\ n \in Nodes /\ c \in EP /\ s \in EP /\ c # s /\ Peer(c) = s /\ c[1] = n
      /\ cq[s] \in Seq(Completions) /\ "RECV" \in Completions
      /\ sq[c] \in Nat /\ acks[c] \in Nat /\ sq[s] \in Nat /\ acks[s] \in Nat
  BY OwnEnds, EndpointFacts DEF Completions
<1>2. LinkInv(t)
  BY DEF IInv
<1>3. /\ qp[c] = "RTS" /\ sq[c] > 0
      /\ n \in LateAcks \/ acks[s] = 0
      /\ sq'[c] = sq[c] - 1 /\ sq'[s] = sq[s]
      /\ acks'[c] = acks[c] + 1 /\ acks'[s] = acks[s]
      /\ rq'[c] = rq[c]
      /\ inBuf'[s] = outBuf[c] /\ inBuf'[c] = inBuf[c]
      /\ cq'[s] = Append(cq[s], "RECV") /\ cq'[c] = cq[c]
      /\ UNCHANGED <<qp, outBuf, spc, resp, pc, call, calls, effect, served, swallowed>>
  BY <1>1 DEF IInv, TypeOK, Deliver
<1>4. pc[t] = "sending" /\ sq[c] = 1 /\ acks[c] = 0 /\ rq[c] = 0 /\ cq[c] = <<>>
  <2>1. pc[t] = "sending"
    BY <1>2, <1>3 DEF IInv, TypeOK, LinkInv, ClientEnd
  <2>2. rq[c] = 0 /\ ((sq[c] + acks[c] = 1 /\ cq[c] = <<>>) \/ sq[c] + acks[c] = 0)
    BY <1>2, <1>3, <2>1 DEF LinkInv, ClientEnd
  <2> QED
    BY <1>1, <1>3, <2>1, <2>2
<1>5. Requested(n) /\ ~Arrived(n) /\ ~Serving(n) /\ ~Replying(n) /\ ~Replied(n)
  BY <1>2, <1>3 DEF LinkInv, OnePlace
<1>6. /\ OneRecv(cq'[s]) /\ HasRecv(cq'[s]) /\ cq'[s] # <<>>
      /\ cq[s] # <<>> => Head(cq'[s]) = Head(cq[s])
  BY <1>1, <1>2, <1>3, <1>5, RecvAppend DEF LinkInv, OnePlace
<1>7. ~Requested(n)' /\ Arrived(n)' /\ ~Serving(n)' /\ ~Replying(n)' /\ ~Replied(n)'
  BY <1>1, <1>3, <1>4, <1>5, <1>6
<1>8. OnePlace(n)'
  BY <1>6, <1>7 DEF OnePlace
<1>9. ClientEnd(t)'
  <2>1. sq'[c] = 0 /\ acks'[c] = 1 /\ rq'[c] = 0 /\ cq'[c] = <<>>
    BY <1>3, <1>4
  <2> QED
    BY <1>3, <1>4, <2>1 DEF ClientEnd
<1>10. CallCopies(t)'
  BY <1>2, <1>3, <1>4, <1>5, <1>7 DEF LinkInv, CallCopies
<1>11. Exchange(t)'
  <2>1. effect[t] = Null /\ call[t] = outBuf[c]
    BY <1>2, <1>3, <1>4, <1>5 DEF LinkInv, Exchange, CallCopies
  <2>2. cq'[c] # <<"RECV">>
    BY <1>3, <1>4, ShortQueues
  <2> QED
    BY <1>3, <1>4, <1>7, <2>1, <2>2 DEF Exchange
<1>12. ServerWait(n)'
  <2>1. n \notin LateAcks /\ spc[n] = "sent" => cq[s] # <<>>
    BY <1>1, <1>2, <1>3, <1>5 DEF LinkInv, ServerWait
  <2> QED
    BY <1>2, <1>3, <1>6, <2>1 DEF LinkInv, ServerWait
<1> QED
  BY <1>8, <1>9, <1>10, <1>11, <1>12 DEF LinkInv

\* A response reaches the client.
LEMMA LinkDeliverResponse ==
    ASSUME IInv, NEW t \in Threads, Orderly(t), Deliver(Server(NodeOf[t])),
           UNCHANGED <<serverVars, threadVars, historyVars>>
    PROVE  LinkInv(t)'
<1> DEFINE n == NodeOf[t]
           c == Client(n)
           s == Server(n)
<1> USE DEF serverVars, threadVars, historyVars,
        Requested, Arrived, Serving, Replying, Replied, Underway, Answered
<1>1. /\ n \in Nodes /\ c \in EP /\ s \in EP /\ c # s /\ Peer(s) = c /\ s[1] = n
      /\ sq[c] \in Nat /\ acks[c] \in Nat /\ sq[s] \in Nat /\ acks[s] \in Nat
      /\ rq[c] \in Nat
  BY OwnEnds, EndpointFacts
<1>2. LinkInv(t)
  BY DEF IInv
<1>3. /\ qp[c] = "RTS" /\ sq[s] > 0 /\ rq[c] > 0
      /\ sq'[s] = sq[s] - 1 /\ sq'[c] = sq[c]
      /\ acks'[s] = acks[s] + 1 /\ acks'[c] = acks[c]
      /\ rq'[c] = rq[c] - 1
      /\ inBuf'[c] = outBuf[s] /\ inBuf'[s] = inBuf[s]
      /\ cq'[c] = Append(cq[c], "RECV") /\ cq'[s] = cq[s]
      /\ UNCHANGED <<qp, outBuf, spc, resp, pc, call, calls, effect, served, swallowed>>
  BY <1>1 DEF IInv, TypeOK, Deliver
<1>4. /\ pc[t] = "receiving" /\ sq[c] = 0 /\ acks[c] = 0 /\ rq[c] = 1 /\ cq[c] = <<>>
  <2>1. pc[t] = "receiving"
    BY <1>2, <1>3 DEF IInv, TypeOK, LinkInv, ClientEnd
  <2> QED
    BY <1>2, <1>3, <2>1 DEF LinkInv, ClientEnd
<1>5. Replied(n) /\ ~Underway(n) /\ ~Replying(n)
  BY <1>2, <1>3 DEF LinkInv, OnePlace
<1>6. sq[s] = 1 /\ effect[t] = Outcome(call[t], outBuf[s])
  BY <1>2, <1>3, <1>5 DEF LinkInv, Exchange
<1>7. ~Underway(n)' /\ ~Replying(n)' /\ ~Replied(n)'
  BY <1>1, <1>3, <1>5, <1>6
<1>8. OnePlace(n)'
  BY <1>2, <1>3, <1>7 DEF LinkInv, OnePlace
<1>9. ClientEnd(t)'
  <2>1. sq'[c] = 0 /\ acks'[c] = 0 /\ rq'[c] = 0 /\ cq'[c] = <<"RECV">>
    BY <1>3, <1>4, ShortQueues
  <2> QED
    BY <1>3, <1>4, <2>1 DEF ClientEnd
<1>10. CallCopies(t)'
  BY <1>2, <1>3, <1>7 DEF LinkInv, CallCopies
<1>11. Exchange(t)'
  BY <1>3, <1>4, <1>6, <1>7 DEF Exchange
<1>12. ServerWait(n)'
  BY <1>1, <1>2, <1>3 DEF LinkInv, ServerWait
<1> QED
  BY <1>8, <1>9, <1>10, <1>11, <1>12 DEF LinkInv

\* The acknowledgement of a request, and of a response.
LEMMA LinkAckRequest ==
    ASSUME IInv, NEW t \in Threads, Orderly(t), Ack(Client(NodeOf[t])),
           UNCHANGED <<serverVars, threadVars, historyVars>>
    PROVE  LinkInv(t)'
<1> DEFINE n == NodeOf[t]
           c == Client(n)
           s == Server(n)
<1> USE DEF serverVars, threadVars, historyVars,
        Requested, Arrived, Serving, Replying, Replied, Underway, Answered
<1>1. /\ n \in Nodes /\ c \in EP /\ s \in EP /\ c # s
      /\ sq[c] \in Nat /\ acks[c] \in Nat
  BY OwnEnds
<1>2. LinkInv(t)
  BY DEF IInv
<1>3. /\ qp[c] = "RTS" /\ acks[c] > 0
      /\ acks'[c] = acks[c] - 1 /\ acks'[s] = acks[s]
      /\ cq'[c] = Append(cq[c], "SEND") /\ cq'[s] = cq[s]
      /\ UNCHANGED <<qp, sq, rq, outBuf, inBuf, spc, resp, pc, call, calls, effect, served,
                     swallowed>>
  BY <1>1 DEF IInv, TypeOK, Ack
<1>4. pc[t] = "sending" /\ sq[c] = 0 /\ acks[c] = 1 /\ rq[c] = 0 /\ cq[c] = <<>>
  <2>1. pc[t] = "sending"
    BY <1>2, <1>3 DEF IInv, TypeOK, LinkInv, ClientEnd
  <2>2. rq[c] = 0 /\ ((sq[c] + acks[c] = 1 /\ cq[c] = <<>>) \/ sq[c] + acks[c] = 0)
    BY <1>2, <1>3, <2>1 DEF LinkInv, ClientEnd
  <2> QED
    BY <1>1, <1>3, <2>1, <2>2
<1>5. OnePlace(n)'
  BY <1>2, <1>3 DEF LinkInv, OnePlace
<1>6. ClientEnd(t)'
  <2>1. sq'[c] = 0 /\ acks'[c] = 0 /\ rq'[c] = 0 /\ cq'[c] = <<"SEND">>
    BY <1>3, <1>4, ShortQueues
  <2> QED
    BY <1>3, <1>4, <2>1 DEF ClientEnd
<1>7. CallCopies(t)'
  BY <1>2, <1>3 DEF LinkInv, CallCopies
<1>8. Exchange(t)'
  <2>1. cq'[c] # <<"RECV">>
    BY <1>3, <1>4, ShortQueues
  <2> QED
    BY <1>2, <1>3, <1>4, <2>1 DEF LinkInv, Exchange
<1>9. ServerWait(n)'
  BY <1>2, <1>3 DEF LinkInv, ServerWait
<1> QED
  BY <1>5, <1>6, <1>7, <1>8, <1>9 DEF LinkInv

LEMMA LinkAckResponse ==
    ASSUME IInv, NEW t \in Threads, Orderly(t), Ack(Server(NodeOf[t])),
           UNCHANGED <<serverVars, threadVars, historyVars>>
    PROVE  LinkInv(t)'
<1> DEFINE n == NodeOf[t]
           c == Client(n)
           s == Server(n)
<1> USE DEF serverVars, threadVars, historyVars,
        Requested, Arrived, Serving, Replying, Replied, Underway, Answered
<1>1. /\ n \in Nodes /\ c \in EP /\ s \in EP /\ c # s
      /\ cq[s] \in Seq(Completions) /\ "SEND" \in Completions
  BY OwnEnds DEF Completions
<1>2. LinkInv(t)
  BY DEF IInv
<1>3. /\ acks'[c] = acks[c]
      /\ cq'[s] = Append(cq[s], "SEND") /\ cq'[c] = cq[c]
      /\ UNCHANGED <<qp, sq, rq, outBuf, inBuf, spc, resp, pc, call, calls, effect, served,
                     swallowed>>
  BY <1>1 DEF IInv, TypeOK, Ack
<1>4. /\ OneRecv(cq'[s]) /\ (Arrived(n)' <=> Arrived(n)) /\ cq'[s] # <<>>
      /\ Head(cq'[s]) = IF cq[s] = <<>> THEN "SEND" ELSE Head(cq[s])
  <2>1. OneRecv(cq[s])
    BY <1>2 DEF LinkInv, OnePlace
  <2> QED
    BY <1>1, <1>3, <2>1, RecvAppend
<1>5. OnePlace(n)'
  BY <1>2, <1>3, <1>4 DEF LinkInv, OnePlace
<1>6. ClientEnd(t)'
  BY <1>2, <1>3 DEF LinkInv, ClientEnd
<1>7. CallCopies(t)'
  BY <1>2, <1>3, <1>4 DEF LinkInv, CallCopies
<1>8. Exchange(t)'
  BY <1>2, <1>3, <1>4 DEF LinkInv, Exchange
<1>9. ServerWait(n)'
  BY <1>2, <1>3, <1>4 DEF LinkInv, ServerWait
<1> QED
  BY <1>5, <1>6, <1>7, <1>8, <1>9 DEF LinkInv

\* Either end gives up on a dead link.
LEMMA NoRecvErrors ==
    ASSUME NEW k \in Nat
    PROVE  LET errors == [i \in 1..k |-> "ERR"] IN
           /\ errors \in Seq(Completions) /\ ~HasRecv(errors)
           /\ k > 0 => errors # <<>> /\ Head(errors) = "ERR"
<1> DEFINE errors == [i \in 1..k |-> "ERR"]
<1>1. errors \in Seq(Completions)
  BY ErrorsType
<1>2. Len(errors) = k /\ \A i \in 1..k : errors[i] = "ERR"
  OBVIOUS
<1>3. ~HasRecv(errors)
  BY <1>2 DEF HasRecv
<1>4. k > 0 => errors # <<>> /\ Head(errors) = "ERR"
  <2> SUFFICES ASSUME k > 0 PROVE errors # <<>> /\ Head(errors) = "ERR"
    OBVIOUS
  <2>1. Len(errors) # Len(<<>>)
    BY <1>2
  <2>2. errors[1] = "ERR"
    BY <1>2
  <2> QED
    BY <2>1, <2>2
<1> QED
  BY <1>1, <1>3, <1>4

LEMMA LinkClientGivesUp ==
    ASSUME IInv, NEW t \in Threads, Orderly(t), RetryExceeded(Client(NodeOf[t])),
           UNCHANGED <<serverVars, threadVars, historyVars>>
    PROVE  LinkInv(t)'
<1> DEFINE n == NodeOf[t]
           c == Client(n)
           s == Server(n)
<1> USE DEF serverVars, threadVars, historyVars,
        Requested, Arrived, Serving, Replying, Replied, Underway, Answered
<1>1. /\ n \in Nodes /\ c \in EP /\ s \in EP /\ c # s
  BY OwnEnds
<1>2. LinkInv(t)
  BY DEF IInv
<1>3. /\ qp'[c] = "ERR" /\ sq'[c] = 0 /\ acks'[c] = 0 /\ rq'[c] = 0
      /\ sq'[s] = sq[s] /\ acks'[s] = acks[s] /\ cq'[s] = cq[s]
      /\ UNCHANGED <<outBuf, inBuf, spc, resp, pc, call, calls, effect, served, swallowed>>
  BY <1>1 DEF IInv, TypeOK, RetryExceeded
<1>4. OnePlace(n)'
  BY <1>2, <1>3 DEF LinkInv, OnePlace
<1>5. ClientEnd(t)'
  BY <1>3 DEF ClientEnd
<1>6. CallCopies(t)'
  BY <1>2, <1>3 DEF LinkInv, CallCopies
<1>7. Exchange(t)'
  BY <1>3 DEF Exchange
<1>8. ServerWait(n)'
  BY <1>2, <1>3 DEF LinkInv, ServerWait
<1> QED
  BY <1>4, <1>5, <1>6, <1>7, <1>8 DEF LinkInv

LEMMA LinkServerGivesUp ==
    ASSUME IInv, NEW t \in Threads, Orderly(t), RetryExceeded(Server(NodeOf[t])),
           UNCHANGED <<serverVars, threadVars, historyVars>>
    PROVE  LinkInv(t)'
<1> DEFINE n == NodeOf[t]
           c == Client(n)
           s == Server(n)
           k == sq[s] + acks[s] + rq[s]
           errors == [i \in 1..k |-> "ERR"]
<1> USE DEF serverVars, threadVars, historyVars,
        Requested, Arrived, Serving, Replying, Replied, Underway, Answered
<1>1. /\ n \in Nodes /\ c \in EP /\ s \in EP /\ c # s
      /\ cq[s] \in Seq(Completions)
      /\ sq[s] \in Nat /\ acks[s] \in Nat /\ rq[s] \in Nat
  BY OwnEnds
<1>2. LinkInv(t)
  BY DEF IInv
<1>3. /\ sq[s] + acks[s] > 0
      /\ qp'[c] = qp[c] /\ sq'[c] = sq[c] /\ acks'[c] = acks[c] /\ rq'[c] = rq[c]
      /\ cq'[c] = cq[c]
      /\ sq'[s] = 0 /\ cq'[s] = cq[s] \o errors
      /\ UNCHANGED <<outBuf, inBuf, spc, resp, pc, call, calls, effect, served, swallowed>>
  BY <1>1 DEF IInv, TypeOK, RetryExceeded
<1>4. /\ OneRecv(cq'[s]) /\ (Arrived(n)' <=> Arrived(n)) /\ cq'[s] # <<>>
      /\ Head(cq'[s]) = IF cq[s] = <<>> THEN "ERR" ELSE Head(cq[s])
  <2>1. OneRecv(cq[s])
    BY <1>2 DEF LinkInv, OnePlace
  <2>2. k \in Nat /\ k > 0
    BY <1>1, <1>3
  <2>3. errors \in Seq(Completions) /\ ~HasRecv(errors) /\ errors # <<>> /\ Head(errors) = "ERR"
    BY <2>2, NoRecvErrors
  <2> HIDE DEF errors
  <2>4. /\ HasRecv(cq[s] \o errors) <=> HasRecv(cq[s])
        /\ OneRecv(cq[s] \o errors)
        /\ cq[s] \o errors # <<>>
        /\ Head(cq[s] \o errors) = IF cq[s] = <<>> THEN "ERR" ELSE Head(cq[s])
    BY <1>1, <2>1, <2>3, RecvConcat
  <2> QED
    BY <1>3, <2>4
<1>5. OnePlace(n)'
  BY <1>2, <1>3, <1>4 DEF LinkInv, OnePlace
<1>6. ClientEnd(t)'
  BY <1>2, <1>3 DEF LinkInv, ClientEnd
<1>7. CallCopies(t)'
  BY <1>2, <1>3, <1>4 DEF LinkInv, CallCopies
<1>8. Exchange(t)'
  BY <1>2, <1>3, <1>4 DEF LinkInv, Exchange
<1>9. ServerWait(n)'
  BY <1>2, <1>3, <1>4 DEF LinkInv, ServerWait
<1> QED
  BY <1>5, <1>6, <1>7, <1>8, <1>9 DEF LinkInv

-----------------------------------------------------------------------------
(* Steps elsewhere, and the invariant as a whole. *)

\* What other threads, other polling threads and other connections do leaves the
\* exchange of an orderly thread alone.
LEMMA OtherThread ==
    ASSUME IInv, NEW t \in Threads, NEW u \in Threads, NodeOf[u] # NodeOf[t],
           Call(u) \/ ThreadStep(u)
    PROVE  Untouched(t)
<1> DEFINE n == NodeOf[t]
           m == NodeOf[u]
<1> USE DEF serverVars, threadVars, historyVars, transportVars
<1>1. /\ m \in Nodes /\ n \in Nodes /\ u # t
      /\ Client(m) \in EP /\ Client(n) # Client(m) /\ Server(n) # Client(m)
  BY RpcAssumption, EndpointFacts
<1>2. CASE Call(u)
  BY <1>1, <1>2 DEF IInv, TypeOK, Untouched, Call, RdmaSend
<1>3. CASE PollSend(u)
  BY <1>1, <1>3 DEF IInv, TypeOK, Untouched, PollSend, PollThenRecv
<1>4. CASE PollGreeting(u)
  BY <1>1, <1>4 DEF IInv, TypeOK, Untouched, PollGreeting, PollCompletion
<1>5. CASE PollRecv(u)
  BY <1>1, <1>5 DEF IInv, TypeOK, Untouched, PollRecv, PollCompletion
<1>6. CASE Return(u)
  BY <1>1, <1>6 DEF IInv, TypeOK, Untouched, Return
<1> QED
  BY <1>2, <1>3, <1>4, <1>5, <1>6 DEF ThreadStep

LEMMA OtherPollThread ==
    ASSUME IInv, NEW t \in Threads, NEW m \in Nodes, m # NodeOf[t], PollThreadStep(m)
    PROVE  Untouched(t)
<1> DEFINE n == NodeOf[t]
           request == inBuf[Server(m)]
<1> USE DEF serverVars, threadVars, historyVars, transportVars
<1>1. /\ n \in Nodes
      /\ Server(m) \in EP /\ Client(n) # Server(m) /\ Server(n) # Server(m)
  BY RpcAssumption, EndpointFacts
<1>2. CASE Poll(m)
  BY <1>1, <1>2 DEF IInv, TypeOK, Untouched, Poll, PollCompletion
<1>3. ASSUME NEW r, Respond(m, r) PROVE Untouched(t)
  <2>1. request.by # t
    BY RpcAssumption DEF IInv, Provenance, FromNode
  <2>2. effect'[t] = effect[t] /\ served'[t] = served[t]
    BY <1>3, <2>1 DEF IInv, TypeOK, Respond
  <2> QED
    BY <1>1, <1>3, <2>2 DEF IInv, TypeOK, Untouched, Respond
<1>4. CASE ServeCreate(m) \/ ServeDelete(m) \/ ServeFind(m)
  BY <1>3, <1>4 DEF ServeCreate, ServeDelete, ServeFind
<1>5. CASE ServeOther(m)
  BY <1>1, <1>5 DEF IInv, TypeOK, Untouched, ServeOther
<1>6. CASE Reply(m)
  BY <1>1, <1>6 DEF IInv, TypeOK, Untouched, Reply, RdmaSend
<1>7. CASE AwaitSent(m)
  BY <1>1, <1>7 DEF IInv, TypeOK, Untouched, AwaitSent, PollCompletion
<1> QED
  BY <1>2, <1>4, <1>5, <1>6, <1>7 DEF PollThreadStep

LEMMA OtherConnection ==
    ASSUME IInv, NEW t \in Threads, NEW m \in Nodes, m # NodeOf[t],
           NEW e \in {Client(m), Server(m)},
           Deliver(e) \/ Ack(e) \/ RetryExceeded(e),
           UNCHANGED <<serverVars, threadVars, historyVars>>
    PROVE  Untouched(t)
<1> DEFINE n == NodeOf[t]
           p == Peer(e)
<1> USE DEF serverVars, threadVars, historyVars
<1>1. /\ n \in Nodes
      /\ e \in EP /\ Client(n) # e /\ Server(n) # e
      /\ p \in EP /\ Client(n) # p /\ Server(n) # p
  BY RpcAssumption, EndpointFacts
<1>2. CASE Deliver(e)
  BY <1>1, <1>2 DEF IInv, TypeOK, Untouched, Deliver
<1>3. CASE Ack(e)
  BY <1>1, <1>3 DEF IInv, TypeOK, Untouched, Ack
<1>4. CASE RetryExceeded(e)
  BY <1>1, <1>4 DEF IInv, TypeOK, Untouched, RetryExceeded
<1> QED
  BY <1>2, <1>3, <1>4

\* Connecting does not touch an exchange: a polling thread starts where none ran.
LEMMA LinkConnect ==
    ASSUME IInv, NEW t \in Threads, LinkInv(t), NEW m \in Nodes,
           ConnectServer(m) \/ Accept(m)
    PROVE  LinkInv(t)'
<1> DEFINE n == NodeOf[t]
           c == Client(n)
           s == Server(n)
<1> USE DEF serverVars, threadVars, historyVars, transportVars
<1>1. n \in Nodes /\ c \in EP /\ Server(m) \in EP /\ c # Server(m)
  BY RpcAssumption, EndpointFacts
<1>2. CASE ConnectServer(m)
  <2>1. Untouched(t)
    BY <1>2 DEF Untouched, ConnectServer
  <2> QED
    BY <2>1, LinkFrame
<1>3. CASE Accept(m)
  <2>1. CASE m # n
    <3>1. Untouched(t)
      BY <1>1, <1>3, <2>1 DEF IInv, TypeOK, Untouched, Accept
    <3> QED
      BY <3>1, LinkFrame
  <2>2. CASE m = n
    <3> USE DEF Requested, Arrived, Serving, Replying, Replied, Underway, Answered
    <3>1. spc[n] = "off" /\ spc'[n] = "poll" /\ rq'[c] = rq[c]
      BY <1>1, <1>3, <2>2 DEF IInv, TypeOK, Provenance, Accept
    <3>2. UNCHANGED <<qp, sq, acks, cq, outBuf, inBuf, resp, pc, call, calls, effect, served,
                      swallowed>>
      BY <1>3 DEF Accept
    <3>3. OnePlace(n)'
      BY <3>1, <3>2 DEF LinkInv, OnePlace
    <3>4. ClientEnd(t)'
      BY <3>1, <3>2 DEF LinkInv, ClientEnd
    <3>5. CallCopies(t)'
      BY <3>1, <3>2 DEF LinkInv, CallCopies
    <3>6. Exchange(t)'
      BY <3>1, <3>2 DEF LinkInv, Exchange
    <3>7. ServerWait(n)'
      BY <3>1, <3>2 DEF LinkInv, ServerWait
    <3> QED
      BY <3>3, <3>4, <3>5, <3>6, <3>7 DEF LinkInv
  <2> QED
    BY <2>1, <2>2
<1> QED
  BY <1>2, <1>3

LEMMA LinkNext ==
    ASSUME IInv, Next, NEW t \in Threads, Orderly(t)
    PROVE  LinkInv(t)'
<1> DEFINE n == NodeOf[t]
<1>1. LinkInv(t) /\ n \in Nodes
  BY RpcAssumption DEF IInv
<1>2. ASSUME NEW m \in Nodes, ConnectServer(m) \/ Accept(m) PROVE LinkInv(t)'
  BY <1>1, <1>2, LinkConnect
<1>3. ASSUME NEW m \in Nodes, PollThreadStep(m) PROVE LinkInv(t)'
  <2>1. CASE m = n
    BY <1>3, <2>1, LinkPoll, LinkServe, NoServeOther, LinkReply, LinkAwaitSent
    DEF PollThreadStep
  <2>2. CASE m # n
    BY <1>1, <1>3, <2>2, OtherPollThread, LinkFrame
  <2> QED
    BY <2>1, <2>2
<1>4. ASSUME NEW u \in Threads, Call(u) \/ ThreadStep(u) PROVE LinkInv(t)'
  <2>1. CASE u = t
    BY <1>4, <2>1, LinkCall, LinkPollSend, LinkPollRecv, LinkReturn, NoGreeting
    DEF ThreadStep
  <2>2. CASE u # t
    BY <1>1, <1>4, <2>2, OtherThread, LinkFrame DEF Orderly
  <2> QED
    BY <2>1, <2>2
<1>5. ASSUME Transport PROVE LinkInv(t)'
  <2>1. UNCHANGED <<serverVars, threadVars, historyVars>>
    BY <1>5 DEF Transport
  <2>2. ASSUME NEW e \in EP, Deliver(e) \/ Ack(e) \/ RetryExceeded(e) PROVE LinkInv(t)'
    <3>1. PICK m \in Nodes : e = Client(m) \/ e = Server(m)
      BY EndpointCases
    <3>2. CASE m = n
      BY <2>1, <2>2, <3>1, <3>2, LinkDeliverRequest, LinkDeliverResponse, LinkAckRequest,
         LinkAckResponse, LinkClientGivesUp, LinkServerGivesUp
    <3>3. CASE m # n
      BY <1>1, <2>1, <2>2, <3>1, <3>3, OtherConnection, LinkFrame
    <3> QED
      BY <3>2, <3>3
  <2>3. ASSUME NEW m \in Nodes, LinkDown(m) PROVE LinkInv(t)'
    <3>1. Untouched(t)
      BY <2>1, <2>3 DEF Untouched, LinkDown, serverVars, threadVars, historyVars
    <3> QED
      BY <1>1, <3>1, LinkFrame
  <2> QED
    BY <1>5, <2>2, <2>3 DEF Transport
<1> QED
  BY <1>2, <1>3, <1>4, <1>5 DEF Next

\* Requests stay on the connection of the node that makes them.
LEMMA ProvenanceNext ==
    ASSUME TypeOK, Provenance, Next
    PROVE  Provenance'
<1> USE DEF serverVars, threadVars, historyVars, transportVars
<1>1. ASSUME NEW n \in Nodes, ConnectServer(n) \/ Accept(n) PROVE Provenance'
  BY <1>1 DEF TypeOK, Provenance, ConnectServer, Accept
<1>2. ASSUME NEW n \in Nodes, PollThreadStep(n) PROVE Provenance'
  <2>1. CASE Poll(n)
    BY <2>1 DEF TypeOK, Provenance, Poll
  <2>2. CASE ServeCreate(n) \/ ServeDelete(n) \/ ServeFind(n) \/ ServeOther(n)
    BY <2>2 DEF TypeOK, Provenance, ServeCreate, ServeDelete, ServeFind, ServeOther, Respond
  <2>3. CASE Reply(n)
    <3>1. \A m \in Nodes : outBuf'[Client(m)] = outBuf[Client(m)]
      BY <2>3, EndpointFacts DEF TypeOK, Reply, RdmaSend
    <3> QED
      BY <2>3, <3>1 DEF TypeOK, Provenance, Reply
  <2>4. CASE AwaitSent(n)
    BY <2>4 DEF TypeOK, Provenance, AwaitSent
  <2> QED
    BY <1>2, <2>1, <2>2, <2>3, <2>4 DEF PollThreadStep
<1>3. ASSUME NEW t \in Threads, Call(t) PROVE Provenance'
  <2> DEFINE n == NodeOf[t]
  <2>1. PICK request \in RequestsOf(t) : RdmaSend(Client(n), request)
    BY <1>3 DEF Call
  <2>2. request.by = t /\ (request.info # Null => request.info.node = n)
    BY <2>1, RpcAssumption DEF RequestsOf, CreateRequest, DeleteRequest, FindRequest, Greeting
  <2>3. n \in Nodes
    BY RpcAssumption
  <2>4. \A m \in Nodes : FromNode(outBuf'[Client(m)], m)
    BY <2>1, <2>2, <2>3, EndpointFacts DEF TypeOK, Provenance, RdmaSend, FromNode
  <2> QED
    BY <1>3, <2>4 DEF Provenance, Call
<1>4. ASSUME NEW t \in Threads, ThreadStep(t) PROVE Provenance'
  BY <1>4 DEF Provenance, ThreadStep, PollSend, PollGreeting, PollRecv, Return
<1>5. ASSUME Transport PROVE Provenance'
  <2>1. UNCHANGED <<serverVars, outBuf>>
    BY <1>5 DEF Transport, Deliver, Ack, RetryExceeded, LinkDown
  <2>2. \A m \in Nodes : FromNode(inBuf'[Server(m)], m)
    <3>1. ASSUME NEW e \in EP, Deliver(e) PROVE \A m \in Nodes : FromNode(inBuf'[Server(m)], m)
      <4>1. PICK n \in Nodes : e = Client(n) \/ e = Server(n)
        BY EndpointCases
      <4>2. CASE e = Client(n)
        <5>1. \A m \in Nodes : inBuf'[Server(m)] = IF m = n THEN outBuf[e] ELSE inBuf[Server(m)]
          <6>1. inBuf \in [EP -> Requests \union Responses]
            BY DEF TypeOK
          <6>2. inBuf' = [inBuf EXCEPT ![Server(n)] = outBuf[e]]
            BY <3>1, <4>2, EndpointFacts DEF Deliver
          <6>3. \A m \in Nodes : Server(m) \in EP /\ (Server(m) = Server(n) <=> m = n)
            BY EndpointFacts
          <6> QED
            BY <6>1, <6>2, <6>3
        <5>2. FromNode(outBuf[e], n) /\ \A m \in Nodes : FromNode(inBuf[Server(m)], m)
          BY <4>2 DEF Provenance
        <5> QED
          BY <5>1, <5>2
      <4>3. CASE e = Server(n)
        BY <3>1, <4>3, EndpointFacts DEF TypeOK, Provenance, Deliver
      <4> QED
        BY <4>1, <4>2, <4>3
    <3>2. (~\E e \in EP : Deliver(e)) => UNCHANGED inBuf
      BY <1>5 DEF Transport, Ack, RetryExceeded, LinkDown
    <3>3. UNCHANGED inBuf => \A m \in Nodes : FromNode(inBuf'[Server(m)], m)
      BY DEF Provenance
    <3> QED
      BY <3>1, <3>2, <3>3
  <2> QED
    BY <2>1, <2>2 DEF Provenance
<1> QED
  BY <1>1, <1>2, <1>3, <1>4, <1>5 DEF Next

\* A pool is registered over the connection of its owner, which is therefore accepted.
LEMMA OwnersNext ==
    ASSUME TypeOK, Provenance, OwnersConnected, Next
    PROVE  OwnersConnected'
<1> USE DEF serverVars, threadVars, historyVars, transportVars
<1>1. ASSUME NEW n \in Nodes, ServeCreate(n) PROVE OwnersConnected'
  <2> DEFINE request == inBuf[Server(n)]
  <2>1. n \in peers
    BY <1>1 DEF Provenance, ServeCreate
  <2>2. request.info # Null => request.info.node = n
    BY DEF Provenance, FromNode
  <2>3. request.pool \in Pools
    BY <1>1 DEF TypeOK, ServeCreate, Requests, PoolRequests, OtherRequests
  <2>4. peers' = peers
    BY <1>1 DEF ServeCreate, Respond
  <2>5. \A p \in Pools : pool_info'[p] = pool_info[p] \/ pool_info'[p] = request.info
    BY <1>1, <2>3 DEF TypeOK, ServeCreate
  <2> QED
    BY <2>1, <2>2, <2>4, <2>5 DEF OwnersConnected
<1>2. ASSUME NEW n \in Nodes, ServeDelete(n) PROVE OwnersConnected'
  BY <1>2 DEF TypeOK, OwnersConnected, ServeDelete, Respond
<1>3. ASSUME UNCHANGED pool_info, peers \subseteq peers' PROVE OwnersConnected'
  BY <1>3 DEF OwnersConnected
<1>4. ASSUME NEW n \in Nodes,
             \/ ConnectServer(n) \/ Accept(n) \/ Poll(n) \/ ServeFind(n) \/ ServeOther(n)
             \/ Reply(n) \/ AwaitSent(n)
      PROVE  OwnersConnected'
  <2>1. UNCHANGED pool_info /\ peers \subseteq peers'
    BY <1>4 DEF ConnectServer, Accept, Poll, ServeFind, ServeOther, Respond, Reply, AwaitSent
  <2> QED
    BY <1>3, <2>1
<1>5. ASSUME NEW t \in Threads, Call(t) \/ ThreadStep(t) PROVE OwnersConnected'
  <2>1. UNCHANGED pool_info /\ peers \subseteq peers'
    BY <1>5 DEF Call, ThreadStep, PollSend, PollGreeting, PollRecv, Return
  <2> QED
    BY <1>3, <2>1
<1>6. ASSUME Transport PROVE OwnersConnected'
  BY <1>3, <1>6 DEF Transport
<1> QED
  BY <1>1, <1>2, <1>4, <1>5, <1>6 DEF Next, PollThreadStep

LEMMA IInvInit == Init => IInv
<1> SUFFICES ASSUME Init PROVE IInv
  OBVIOUS
<1>1. Provenance
  BY EndpointFacts DEF Init, Provenance, FromNode, BlankRequest, Client, Server, EP, Sides
<1>2. OwnersConnected
  BY DEF Init, OwnersConnected
<1>3. ASSUME NEW t \in Threads PROVE LinkInv(t)
  <2> DEFINE n == NodeOf[t]
             c == Client(n)
             s == Server(n)
  <2> USE DEF Requested, Arrived, Serving, Replying, Replied, Underway, Answered
  <2>1. n \in Nodes /\ c \in EP /\ s \in EP
    BY RpcAssumption, EndpointFacts
  <2>2. /\ qp[c] = "RTS" /\ sq[c] = 0 /\ acks[c] = 0 /\ rq[c] = 0 /\ cq[c] = <<>>
        /\ sq[s] = 0 /\ cq[s] = <<>>
        /\ spc[n] = "off" /\ pc[t] = "idle" /\ call[t] = Null /\ effect[t] = Null
        /\ served[t] = 0 /\ calls[t] = 0 /\ swallowed = {}
    BY <2>1 DEF Init
  <2>3. ~HasRecv(cq[s]) /\ OneRecv(cq[s])
    BY <2>2 DEF HasRecv, OneRecv
  <2>4. ~Underway(n) /\ ~Answered(n)
    BY <2>2, <2>3
  <2>5. OnePlace(n)
    BY <2>3, <2>4 DEF OnePlace
  <2>6. ClientEnd(t)
    BY <2>2 DEF ClientEnd
  <2>7. CallCopies(t)
    BY <2>2, <2>4 DEF CallCopies
  <2>8. Exchange(t)
    BY <2>2, <2>4, ShortQueues DEF Exchange
  <2>9. ServerWait(n)
    BY <2>2 DEF ServerWait
  <2> QED
    BY <2>5, <2>6, <2>7, <2>8, <2>9 DEF LinkInv
<1> QED
  BY <1>1, <1>2, <1>3, TypeInit DEF IInv

LEMMA IInvNext == IInv /\ [Next]_vars => IInv'
<1> SUFFICES ASSUME IInv, [Next]_vars PROVE IInv'
  OBVIOUS
<1>1. CASE Next
  <2>1. TypeOK' /\ Provenance' /\ OwnersConnected'
    BY <1>1, TypeNext, ProvenanceNext, OwnersNext DEF IInv
  <2>2. ASSUME NEW t \in Threads, Orderly(t)' PROVE LinkInv(t)'
    BY <1>1, <2>2, LinkNext DEF Orderly
  <2> QED
    BY <2>1, <2>2 DEF IInv
<1>2. CASE UNCHANGED vars
  <2>1. TypeOK'
    BY TypeNext DEF IInv
  <2>2. Provenance' /\ OwnersConnected'
    BY <1>2 DEF IInv, Provenance, OwnersConnected, vars, transportVars, serverVars
  <2>3. ASSUME NEW t \in Threads, Orderly(t)' PROVE LinkInv(t)'
    <3>1. LinkInv(t) /\ Untouched(t)
      BY <1>2, <2>3 DEF IInv, Untouched, Orderly, vars, transportVars, serverVars,
         threadVars, historyVars
    <3> QED
      BY <3>1, LinkFrame
  <2> QED
    BY <2>1, <2>2, <2>3 DEF IInv
<1> QED
  BY <1>1, <1>2

\* The inductive invariant holds in every behaviour, links failing or not.
THEOREM Invariant == Spec => []IInv
BY IInvInit, IInvNext, PTL DEF Spec

-----------------------------------------------------------------------------
(* What follows from it. *)

\* ProcessRecv's dereference of peers[ret->node_id_] for a FINDPOOL is safe, for any
\* number of clients creating and deleting pools of each other.
THEOREM OwnersAlwaysConnected == Spec => []OwnersConnected
<1>1. IInv => OwnersConnected
  BY DEF IInv
<1> QED
  BY <1>1, Invariant, PTL

\* A caller that has its connection to itself is told what the server did for this
\* very call as long as its queue pair works, with failing links all around it.
THEOREM AnswersAreEffects == Spec => []AnswerIsEffect
<1>1. IInv => AnswerIsEffect
  BY DEF IInv, AnswerIsEffect, LinkInv, Exchange
<1> QED
  BY <1>1, Invariant, PTL

\* No call of such a caller is served twice or before it was made, even after its
\* queue pair or the server's failed.
THEOREM NeverServedTwice == Spec => []ServedAtMostOnce
<1>1. IInv => ServedAtMostOnce
  BY DEF IInv, ServedAtMostOnce, LinkInv, CallCopies
<1> QED
  BY <1>1, Invariant, PTL

\* The server's wait for its own send does not eat a request of such a caller, if its
\* requests do not overtake acknowledgements.
THEOREM PromptNotSwallowed == Spec => []NothingSwallowed
<1>1. IInv => NothingSwallowed
  BY DEF IInv, NothingSwallowed, LinkInv, ServerWait
<1> QED
  BY <1>1, Invariant, PTL

-----------------------------------------------------------------------------
(* No call waits for nothing *)

\* A second invariant on top of IInv, about connections whose link works.  A polling
\* thread runs for every registered peer, and no queue pair has failed.
Alive ==
    \A n \in Nodes :
        /\ spc[n] = "off" => n \notin peers
        /\ up[n] => qp[Client(n)] = "RTS" /\ qp[Server(n)] = "RTS"

\* Every request that was made and is not still posted has used one of the Depth
\* receives.
ReceivesOK(t) ==
    LET n == NodeOf[t]
        c == Client(n)
        s == Server(n) IN
    up[n] => IF n \in peers THEN rq[s] + calls[t] = Depth + sq[c]
                            ELSE rq[s] = 0 /\ sq[c] = calls[t]

\* What a caller waits for is somewhere between the two send buffers.
NotLost(t) ==
    LET n == NodeOf[t]
        c == Client(n) IN
    (up[n] /\ n \notin swallowed /\ pc[t] \in {"sending", "receiving"} /\ cq[c] # <<"RECV">>)
        => Underway(n) \/ Answered(n)

FlowInv == Alive /\ \A t \in Threads : Orderly(t) => ReceivesOK(t) /\ NotLost(t)

LEMMA FlowInit == Init => FlowInv
<1> SUFFICES ASSUME Init PROVE FlowInv
  OBVIOUS
<1>1. Alive
  BY EndpointFacts DEF Init, Alive
<1>2. ASSUME NEW t \in Threads PROVE ReceivesOK(t) /\ NotLost(t)
  BY RpcAssumption, EndpointFacts DEF Init, ReceivesOK, NotLost
<1> QED
  BY <1>1, <1>2 DEF FlowInv

\* No step but Accept and the polling thread's own changes whether it runs; links do
\* not come back, and only a link that is down makes a queue pair fail.
LEMMA AliveNext ==
    ASSUME IInv, Alive, Next
    PROVE  Alive' /\ \A n \in Nodes : up'[n] => up[n]
<1> USE DEF serverVars, threadVars, historyVars, transportVars
<1>1. ASSUME NEW m \in Nodes, ConnectServer(m) PROVE UNCHANGED <<spc, peers, up, qp>>
  BY <1>1 DEF ConnectServer
<1>2. ASSUME NEW m \in Nodes, Accept(m)
      PROVE  UNCHANGED <<up, qp>> /\ spc'[m] = "poll" /\ peers' = peers \union {m}
             /\ \A n \in Nodes \ {m} : spc'[n] = spc[n]
  BY <1>2 DEF Accept, IInv, TypeOK
<1>3. ASSUME NEW m \in Nodes, PollThreadStep(m)
      PROVE  UNCHANGED <<up, qp, peers>> /\ spc'[m] # "off"
             /\ \A n \in Nodes \ {m} : spc'[n] = spc[n]
  BY <1>3 DEF IInv, TypeOK, PollThreadStep, Poll, ServeCreate, ServeDelete, ServeFind, Respond,
     ServeOther, Reply, AwaitSent
<1>4. ASSUME NEW u \in Threads, Call(u) \/ ThreadStep(u) PROVE UNCHANGED <<spc, peers, up, qp>>
  BY <1>4 DEF Call, ThreadStep, PollSend, PollGreeting, PollRecv, Return
<1>5. ASSUME Transport
      PROVE  /\ UNCHANGED <<spc, peers>>
             /\ \A n \in Nodes : up'[n] =>
                  up[n] /\ qp'[Client(n)] = qp[Client(n)] /\ qp'[Server(n)] = qp[Server(n)]
  <2>1. UNCHANGED <<spc, peers>>
    BY <1>5 DEF Transport
  <2>2. ASSUME NEW e \in EP, Deliver(e) \/ Ack(e) PROVE UNCHANGED <<up, qp>>
    BY <2>2 DEF Deliver, Ack
  <2>3. ASSUME NEW e \in EP, RetryExceeded(e), NEW n \in Nodes, up'[n]
        PROVE  up[n] /\ qp'[Client(n)] = qp[Client(n)] /\ qp'[Server(n)] = qp[Server(n)]
    <3>1. PICK m \in Nodes : e = Client(m) \/ e = Server(m)
      BY EndpointCases
    <3>2. ~up[m] /\ up' = up /\ qp' = [qp EXCEPT ![e] = "ERR"]
      BY <2>3, <3>1, EndpointFacts DEF RetryExceeded
    <3>3. n # m
      BY <2>3, <3>2
    <3>4. Client(n) # e /\ Server(n) # e /\ Client(n) \in EP /\ Server(n) \in EP
      BY <3>1, <3>3, EndpointFacts
    <3> QED
      BY <2>3, <3>2, <3>4 DEF IInv, TypeOK
  <2>4. ASSUME NEW m \in Nodes, LinkDown(m), NEW n \in Nodes, up'[n]
        PROVE  up[n] /\ UNCHANGED qp
    BY <2>4 DEF IInv, TypeOK, LinkDown
  <2> QED
    BY <1>5, <2>1, <2>2, <2>3, <2>4 DEF Transport
<1> QED
  BY <1>1, <1>2, <1>3, <1>4, <1>5 DEF Next, Alive

\* A step that leaves the exchange of t and the receives for it alone.
Still(t) ==
    LET n == NodeOf[t] IN
    /\ rq'[Server(n)] = rq[Server(n)]
    /\ up'[n] => up[n]
    /\ n \in peers' <=> n \in peers

LEMMA FlowFrame ==
    ASSUME NEW t \in Threads, ReceivesOK(t), NotLost(t), Untouched(t), Still(t)
    PROVE  ReceivesOK(t)' /\ NotLost(t)'
<1>1. ReceivesOK(t)'
  BY DEF ReceivesOK, Untouched, Still
<1>2. NotLost(t)'
  BY DEF NotLost, Untouched, Still, Underway, Answered, Requested, Arrived, Serving, Replying,
     Replied
<1> QED
  BY <1>1, <1>2

\* What other threads, other polling threads and other connections do uses no receive
\* of this one.
LEMMA OtherThreadStill ==
    ASSUME IInv, NEW t \in Threads, NEW u \in Threads, NodeOf[u] # NodeOf[t],
           Call(u) \/ ThreadStep(u)
    PROVE  Still(t)
<1> USE DEF serverVars, threadVars, historyVars, transportVars
<1>1. /\ NodeOf[u] \in Nodes /\ NodeOf[t] \in Nodes
      /\ Client(NodeOf[u]) # Server(NodeOf[t])
  BY RpcAssumption, EndpointFacts
<1>2. CASE PollSend(u)
  BY <1>1, <1>2 DEF IInv, TypeOK, Still, PollSend, PollThenRecv
<1>3. CASE Call(u) \/ PollGreeting(u) \/ PollRecv(u) \/ Return(u)
  BY <1>3 DEF Still, Call, PollGreeting, PollRecv, Return
<1> QED
  BY <1>2, <1>3 DEF ThreadStep

LEMMA PollThreadStill ==
    ASSUME NEW t \in Threads, NEW m \in Nodes, PollThreadStep(m)
    PROVE  Still(t)
BY DEF Still, PollThreadStep, Poll, ServeCreate, ServeDelete, ServeFind, ServeOther, Respond,
   Reply, AwaitSent, transportVars, serverVars

LEMMA OtherConnectionStill ==
    ASSUME IInv, NEW t \in Threads, NEW m \in Nodes, m # NodeOf[t],
           NEW e \in {Client(m), Server(m)},
           Deliver(e) \/ Ack(e) \/ RetryExceeded(e),
           UNCHANGED serverVars
    PROVE  Still(t)
<1> DEFINE s == Server(NodeOf[t])
<1> USE DEF serverVars
<1>1. e # s /\ Peer(e) # s
  BY RpcAssumption, EndpointFacts
<1>2. CASE Deliver(e)
  BY <1>1, <1>2 DEF IInv, TypeOK, Still, Deliver
<1>3. CASE Ack(e)
  BY <1>3 DEF Still, Ack
<1>4. CASE RetryExceeded(e)
  BY <1>1, <1>4 DEF IInv, TypeOK, Still, RetryExceeded
<1> QED
  BY <1>2, <1>3, <1>4

\* The caller's own steps.  A call that is made has its request posted, and nothing is
\* taken from under way until its send completed.
LEMMA FlowThread ==
    ASSUME IInv, Alive, NEW t \in Threads, Orderly(t), ReceivesOK(t), NotLost(t),
           Call(t) \/ ThreadStep(t)
    PROVE  ReceivesOK(t)' /\ NotLost(t)'
<1> DEFINE n == NodeOf[t]
           c == Client(n)
           s == Server(n)
<1> USE DEF serverVars, historyVars, transportVars, Requested, Arrived, Serving, Replying,
        Replied, Underway, Answered
<1>1. /\ n \in Nodes /\ c \in EP /\ s \in EP /\ c # s
      /\ sq[c] \in Nat /\ calls[t] \in Nat /\ rq[s] \in Nat
      /\ up[n] => qp[c] = "RTS"
  BY OwnEnds DEF Alive
<1>2. LinkInv(t)
  BY DEF IInv
<1>3. CASE Call(t)
  <2>1. /\ qp[c] = "RTS" => sq'[c] = sq[c] + 1
        /\ calls'[t] = calls[t] + 1
        /\ UNCHANGED <<up, rq, peers>>
    BY <1>1, <1>3 DEF IInv, TypeOK, Call, RdmaSend
  <2>2. ReceivesOK(t)'
    BY <1>1, <2>1, RpcAssumption DEF ReceivesOK
  <2>3. up[n] => Requested(n)'
    BY <1>1, <2>1
  <2> QED
    BY <2>1, <2>2, <2>3 DEF NotLost
<1>4. CASE PollSend(t)
  <2>1. /\ cq[c] # <<>> /\ pc[t] = "sending"
        /\ cq'[s] = cq[s] /\ rq'[s] = rq[s]
        /\ UNCHANGED <<up, sq, calls, peers, swallowed, spc>>
    BY <1>1, <1>4 DEF IInv, TypeOK, PollSend, PollThenRecv
  <2>2. ReceivesOK(t)'
    BY <2>1 DEF ReceivesOK
  <2>3. up[n] => cq[c] = <<"SEND">>
    BY <1>1, <1>2, <2>1 DEF LinkInv, ClientEnd
  <2>4. NotLost(t)'
    BY <2>1, <2>3, ShortQueues DEF NotLost
  <2> QED
    BY <2>2, <2>4
<1>5. CASE PollRecv(t)
  <2>1. pc'[t] = "answer" /\ UNCHANGED <<up, sq, rq, calls, peers>>
    BY <1>5 DEF IInv, TypeOK, PollRecv
  <2> QED
    BY <2>1 DEF ReceivesOK, NotLost
<1>6. CASE Return(t)
  <2>1. pc'[t] = "idle" /\ UNCHANGED <<up, sq, rq, calls, peers>>
    BY <1>6 DEF IInv, TypeOK, Return
  <2> QED
    BY <2>1 DEF ReceivesOK, NotLost
<1> QED
  BY <1>3, <1>4, <1>5, <1>6, NoGreeting DEF ThreadStep

\* The polling thread's own steps: a request is served, a response is sent, or the
\* request is swallowed.
LEMMA FlowPollThread ==
    ASSUME IInv, Alive, NEW t \in Threads, Orderly(t), ReceivesOK(t), NotLost(t),
           PollThreadStep(NodeOf[t])
    PROVE  ReceivesOK(t)' /\ NotLost(t)'
<1> DEFINE n == NodeOf[t]
           c == Client(n)
           s == Server(n)
<1> USE DEF threadVars, Requested, Arrived, Serving, Replying, Replied, Underway, Answered
<1>1. /\ n \in Nodes /\ c \in EP /\ s \in EP /\ c # s
      /\ sq[s] \in Nat /\ cq[s] \in Seq(Completions)
      /\ up[n] => qp[s] = "RTS"
  BY OwnEnds DEF Alive
<1>2. LinkInv(t) /\ OneRecv(cq[s])
  BY DEF IInv, LinkInv, OnePlace
<1>3. ASSUME UNCHANGED <<pc, calls>>, sq'[c] = sq[c], cq'[c] = cq[c],
             n \in swallowed => n \in swallowed',
             (up[n] /\ n \notin swallowed' /\ (Underway(n) \/ Answered(n))) =>
                Underway(n)' \/ Answered(n)'
      PROVE  ReceivesOK(t)' /\ NotLost(t)'
  <2>1. rq'[s] = rq[s] /\ (up'[n] => up[n]) /\ (n \in peers' <=> n \in peers)
    <3>1. Still(t)
      BY <1>1, PollThreadStill
    <3> QED
      BY <3>1 DEF Still
  <2>2. ReceivesOK(t)'
    BY <1>3, <2>1 DEF ReceivesOK
  <2>3. NotLost(t)'
    BY <1>3, <2>1 DEF NotLost
  <2> QED
    BY <2>2, <2>3
<1>4. CASE Poll(n)
  <2>1. /\ cq[s] # <<>> /\ cq'[s] = Tail(cq[s]) /\ cq'[c] = cq[c]
        /\ spc[n] = "poll"
        /\ spc'[n] = IF Head(cq[s]) = "RECV" THEN "recv" ELSE "poll"
        /\ UNCHANGED <<pc, calls, sq, swallowed>>
    BY <1>1, <1>4 DEF IInv, TypeOK, Poll, PollCompletion, historyVars
  <2>2. Head(cq[s]) # "RECV" => (Arrived(n)' <=> Arrived(n))
    BY <1>1, <1>2, <2>1, RecvTail
  <2> QED
    BY <1>3, <2>1, <2>2
<1>5. CASE ServeCreate(n) \/ ServeDelete(n) \/ ServeFind(n)
  <2>1. /\ spc'[n] = "reply"
        /\ UNCHANGED <<pc, calls, sq, cq, swallowed>>
    BY <1>1, <1>5 DEF IInv, TypeOK, ServeCreate, ServeDelete, ServeFind, Respond, transportVars
  <2> QED
    BY <1>3, <2>1
<1>6. CASE Reply(n)
  <2>1. /\ qp[s] = "RTS" => sq'[s] = sq[s] + 1
        /\ sq'[c] = sq[c] /\ cq'[c] = cq[c]
        /\ UNCHANGED <<pc, calls, swallowed>>
    BY <1>1, <1>6 DEF IInv, TypeOK, Reply, RdmaSend, historyVars
  <2>2. up[n] => Replied(n)'
    BY <1>1, <2>1
  <2> QED
    BY <1>3, <2>1, <2>2
<1>7. CASE AwaitSent(n)
  <2>1. /\ cq[s] # <<>> /\ cq'[s] = Tail(cq[s]) /\ cq'[c] = cq[c]
        /\ spc[n] = "sent"
        /\ swallowed' = IF Head(cq[s]) = "RECV" THEN swallowed \union {n} ELSE swallowed
        /\ UNCHANGED <<pc, calls, sq>>
    BY <1>1, <1>7 DEF IInv, TypeOK, AwaitSent, PollCompletion
  <2>2. Head(cq[s]) # "RECV" => (Arrived(n)' <=> Arrived(n))
    BY <1>1, <1>2, <2>1, RecvTail
  <2> QED
    BY <1>3, <2>1, <2>2
<1> QED
  BY <1>4, <1>5, <1>6, <1>7, NoServeOther DEF PollThreadStep

\* The adapters of the connection: a request that arrives uses one of the server's
\* receives, and what leaves one place is in the next.
LEMMA FlowTransport ==
    ASSUME IInv, Alive, NEW t \in Threads, Orderly(t), ReceivesOK(t), NotLost(t),
           NEW e \in {Client(NodeOf[t]), Server(NodeOf[t])},
           Deliver(e) \/ Ack(e) \/ RetryExceeded(e),
           UNCHANGED <<serverVars, threadVars, historyVars>>
    PROVE  ReceivesOK(t)' /\ NotLost(t)'
<1> DEFINE n == NodeOf[t]
           c == Client(n)
           s == Server(n)
<1> USE DEF serverVars, threadVars, historyVars,
        Requested, Arrived, Serving, Replying, Replied, Underway, Answered
<1>1. /\ n \in Nodes /\ c \in EP /\ s \in EP /\ c # s
      /\ c[1] = n /\ s[1] = n /\ Peer(c) = s /\ Peer(s) = c
      /\ sq[c] \in Nat /\ sq[s] \in Nat /\ rq[s] \in Nat /\ calls[t] \in Nat
      /\ acks[c] \in Nat /\ rq[c] \in Nat
      /\ cq[s] \in Seq(Completions) /\ "RECV" \in Completions /\ "SEND" \in Completions
  BY OwnEnds, EndpointFacts DEF Completions
<1>2. LinkInv(t)
  BY DEF IInv
<1>3. CASE e = c /\ Deliver(e)
  <2>1. /\ up[n] /\ sq[c] > 0 /\ rq[s] > 0
        /\ sq'[c] = sq[c] - 1 /\ rq'[s] = rq[s] - 1
        /\ cq'[s] = Append(cq[s], "RECV")
        /\ UNCHANGED <<up, calls, peers>>
    BY <1>1, <1>3 DEF IInv, TypeOK, Deliver
  <2>2. ReceivesOK(t)'
    <3>1. n \in peers /\ rq[s] + calls[t] = Depth + sq[c]
      BY <1>1, <2>1 DEF ReceivesOK
    <3>2. (rq[s] - 1) + calls[t] = Depth + (sq[c] - 1)
      <4>1. Depth \in Nat
        BY RpcAssumption
      <4>2. rq[s] \in Nat /\ sq[c] \in Nat /\ calls[t] \in Nat
        BY <1>1
      <4> HIDE DEF c, s
      <4> QED
        BY <3>1, <4>1, <4>2
    <3>3. rq'[s] + calls'[t] = Depth + sq'[c]
      BY <2>1, <3>2
    <3> QED
      BY <2>1, <3>1, <3>3 DEF ReceivesOK
  <2>3. Arrived(n)'
    BY <1>1, <2>1, RecvAppend
  <2> QED
    BY <2>2, <2>3 DEF NotLost
<1>4. CASE e = s /\ Deliver(e)
  <2>1. /\ up[n] /\ qp[c] = "RTS" /\ rq[c] > 0
        /\ sq'[c] = sq[c] /\ rq'[s] = rq[s]
        /\ cq'[c] = Append(cq[c], "RECV")
        /\ UNCHANGED <<up, calls, peers>>
    BY <1>1, <1>4 DEF IInv, TypeOK, Deliver
  <2>2. ReceivesOK(t)'
    BY <2>1 DEF ReceivesOK
  <2>3. cq[c] = <<>>
    BY <1>1, <1>2, <2>1 DEF IInv, TypeOK, LinkInv, ClientEnd
  <2>4. NotLost(t)'
    BY <2>1, <2>3, ShortQueues DEF NotLost
  <2> QED
    BY <2>2, <2>4
<1>5. CASE e = c /\ Ack(e)
  <2>1. /\ up[n] /\ qp[c] = "RTS" /\ acks[c] > 0
        /\ cq'[c] = Append(cq[c], "SEND") /\ cq'[s] = cq[s]
        /\ UNCHANGED <<up, sq, rq, calls, peers, pc, spc, swallowed>>
    BY <1>1, <1>5 DEF IInv, TypeOK, Ack
  <2>2. ReceivesOK(t)'
    BY <2>1 DEF ReceivesOK
  <2>3. cq[c] = <<>>
    BY <1>1, <1>2, <2>1 DEF IInv, TypeOK, LinkInv, ClientEnd
  <2>4. NotLost(t)'
    BY <2>1, <2>3, ShortQueues DEF NotLost
  <2> QED
    BY <2>2, <2>4
<1>6. CASE e = s /\ Ack(e)
  <2>1. /\ cq'[s] = Append(cq[s], "SEND") /\ cq'[c] = cq[c]
        /\ UNCHANGED <<up, sq, rq, calls, peers, pc, spc, swallowed>>
    BY <1>1, <1>6 DEF IInv, TypeOK, Ack
  <2>2. ReceivesOK(t)'
    BY <2>1 DEF ReceivesOK
  <2>3. Arrived(n)' <=> Arrived(n)
    BY <1>1, <2>1, RecvAppend
  <2>4. NotLost(t)'
    BY <2>1, <2>3 DEF NotLost
  <2> QED
    BY <2>2, <2>4
<1>7. CASE RetryExceeded(e)
  <2>1. ~up'[n]
    BY <1>1, <1>7 DEF RetryExceeded
  <2> QED
    BY <2>1 DEF ReceivesOK, NotLost
<1> QED
  BY <1>3, <1>4, <1>5, <1>6, <1>7

\* The listener posts the receives of a connection when no request has used one.
LEMMA FlowConnect ==
    ASSUME IInv, Alive, NEW t \in Threads, Orderly(t), ReceivesOK(t), NotLost(t),
           NEW m \in Nodes, ConnectServer(m) \/ Accept(m)
    PROVE  ReceivesOK(t)' /\ NotLost(t)'
<1> DEFINE n == NodeOf[t]
           c == Client(n)
           s == Server(n)
<1> USE DEF serverVars, threadVars, historyVars, transportVars
<1>1. /\ n \in Nodes /\ s \in EP /\ Server(m) \in EP
      /\ m # n => Server(m) # s
      /\ sq[c] \in Nat /\ calls[t] \in Nat
  BY OwnEnds, EndpointFacts
<1>2. CASE ConnectServer(m)
  <2>1. Untouched(t) /\ Still(t)
    BY <1>2 DEF Untouched, Still, ConnectServer
  <2> QED
    BY <2>1, FlowFrame
<1>3. CASE Accept(m)
  <2>1. UNCHANGED <<up, sq, cq, pc, calls, swallowed>>
    BY <1>3 DEF Accept
  <2>2. CASE m = n
    <3>1. n \notin peers /\ n \in peers' /\ rq'[s] = Depth /\ spc[n] = "off" /\ spc'[n] = "poll"
      BY <1>1, <1>3, <2>2 DEF IInv, TypeOK, Provenance, Accept
    <3>2. ReceivesOK(t)'
      BY <1>1, <2>1, <3>1, RpcAssumption DEF ReceivesOK
    <3>3. NotLost(t)'
      BY <2>1, <3>1 DEF NotLost, Requested, Arrived, Serving, Replying, Replied, Underway,
         Answered
    <3> QED
      BY <3>2, <3>3
  <2>3. CASE m # n
    <3>1. rq'[s] = rq[s] /\ spc'[n] = spc[n] /\ (n \in peers' <=> n \in peers)
      BY <1>1, <1>3, <2>3 DEF IInv, TypeOK, Accept
    <3>2. ReceivesOK(t)'
      BY <2>1, <3>1 DEF ReceivesOK
    <3>3. NotLost(t)'
      BY <2>1, <3>1 DEF NotLost, Requested, Arrived, Serving, Replying, Replied, Underway,
         Answered
    <3> QED
      BY <3>2, <3>3
  <2> QED
    BY <2>2, <2>3
<1> QED
  BY <1>2, <1>3

LEMMA FlowNext ==
    ASSUME IInv, FlowInv, [Next]_vars
    PROVE  FlowInv'
<1>1. Alive
  BY DEF FlowInv
<1>2. CASE Next
  <2>1. Alive'
    BY <1>1, <1>2, AliveNext
  <2>2. ASSUME NEW t \in Threads, Orderly(t) PROVE ReceivesOK(t)' /\ NotLost(t)'
    <3> DEFINE n == NodeOf[t]
    <3>1. n \in Nodes /\ ReceivesOK(t) /\ NotLost(t)
      BY <2>2, RpcAssumption DEF FlowInv
    <3> DEFINE Goal == ReceivesOK(t)' /\ NotLost(t)'
    <3> HIDE DEF Goal
    <3>2. ASSUME NEW m \in Nodes, ConnectServer(m) \/ Accept(m) PROVE Goal
      BY <1>1, <2>2, <3>1, <3>2, FlowConnect DEF Goal
    <3>3. ASSUME NEW m \in Nodes, PollThreadStep(m) PROVE Goal
      <4>1. CASE m = n
        BY <1>1, <2>2, <3>1, <3>3, <4>1, FlowPollThread DEF Goal
      <4>2. CASE m # n
        BY <3>1, <3>3, <4>2, OtherPollThread, PollThreadStill, FlowFrame DEF Goal
      <4> QED
        BY <4>1, <4>2
    <3>4. ASSUME NEW u \in Threads, Call(u) \/ ThreadStep(u) PROVE Goal
      <4>1. CASE u = t
        BY <1>1, <2>2, <3>1, <3>4, <4>1, FlowThread DEF Goal
      <4>2. CASE u # t
        BY <2>2, <3>1, <3>4, <4>2, OtherThread, OtherThreadStill, FlowFrame DEF Goal, Orderly
      <4> QED
        BY <4>1, <4>2
    <3>5. ASSUME Transport PROVE Goal
      <4>1. UNCHANGED <<serverVars, threadVars, historyVars>> /\ UNCHANGED serverVars
        BY <3>5 DEF Transport
      <4>2. ASSUME NEW e \in EP, Deliver(e) \/ Ack(e) \/ RetryExceeded(e) PROVE Goal
        <5>1. PICK m \in Nodes : e = Client(m) \/ e = Server(m)
          BY EndpointCases
        <5>2. CASE m = n
          BY <1>1, <2>2, <3>1, <4>1, <4>2, <5>1, <5>2, FlowTransport DEF Goal
        <5>3. CASE m # n
          BY <3>1, <4>1, <4>2, <5>1, <5>3, OtherConnection, OtherConnectionStill, FlowFrame
          DEF Goal
        <5> QED
          BY <5>2, <5>3
      <4>3. ASSUME NEW m \in Nodes, LinkDown(m) PROVE Goal
        <5>1. Untouched(t)
          BY <4>1, <4>3 DEF Untouched, LinkDown, serverVars, threadVars, historyVars
        <5>2. Still(t)
          BY <3>1, <4>1, <4>3 DEF IInv, TypeOK, Still, LinkDown, serverVars
        <5> QED
          BY <3>1, <5>1, <5>2, FlowFrame DEF Goal
      <4> QED
        BY <3>5, <4>2, <4>3 DEF Transport
    <3> QED
      BY <1>2, <3>2, <3>3, <3>4, <3>5 DEF Next, Goal
  <2> QED
    BY <2>1, <2>2 DEF FlowInv
<1>3. CASE UNCHANGED vars
  BY <1>3 DEF FlowInv, Alive, ReceivesOK, NotLost, Underway, Answered, Requested, Arrived,
     Serving, Replying, Replied, vars, transportVars, serverVars, threadVars, historyVars
<1> QED
  BY <1>2, <1>3

\* While a connection's link works, the receives of the server and the requests of an
\* orderly caller add up to Depth, and what the caller waits for is on its way.
THEOREM FlowInvariant == Spec => []FlowInv
BY Invariant, FlowInit, FlowNext, PTL DEF Spec

LEMMA FlowSuffices ==
    ASSUME IInv, FlowInv
    PROVE  NoCallStuck
<1> SUFFICES ASSUME NEW t \in Threads, Orderly(t), up[NodeOf[t]], NodeOf[t] \notin swallowed,
                    pc[t] \in {"sending", "receiving"}, calls[t] <= Depth,
                    NodeOf[t] \in peers
             PROVE  ConnectionMoves(NodeOf[t])
  BY DEF NoCallStuck, ConnectionMoves
<1> DEFINE n == NodeOf[t]
           c == Client(n)
           s == Server(n)
<1>1. /\ n \in Nodes /\ Peer(c) = s /\ Peer(s) = c
      /\ sq[c] \in Nat /\ acks[c] \in Nat /\ rq[c] \in Nat
      /\ sq[s] \in Nat /\ acks[s] \in Nat /\ rq[s] \in Nat /\ calls[t] \in Nat
  BY OwnEnds, EndpointFacts
<1>2. /\ LinkInv(t) /\ ReceivesOK(t) /\ NotLost(t)
      /\ qp[c] = "RTS" /\ spc[n] # "off"
  BY <1>1 DEF IInv, FlowInv, Alive
<1>3. ClientEnd(t)
  BY <1>2 DEF LinkInv
<1>4. CASE cq[c] # <<>> \/ acks[c] > 0 \/ acks[s] > 0
  BY <1>4 DEF ConnectionMoves
<1>5. CASE cq[c] = <<>> /\ acks[c] = 0 /\ acks[s] = 0
  <2>1. CASE pc[t] = "sending"
    <3>1. sq[c] = 1
      BY <1>1, <1>2, <1>3, <1>5, <2>1, ShortQueues DEF ClientEnd
    <3>2. rq[s] > 0
      BY <1>1, <1>2, <3>1, RpcAssumption DEF ReceivesOK
    <3> QED
      BY <1>1, <1>5, <3>1, <3>2 DEF ConnectionMoves
  <2>2. CASE pc[t] = "receiving"
    <3>1. sq[c] = 0 /\ rq[c] = 1
      BY <1>2, <1>3, <1>5, <2>2, ShortQueues DEF ClientEnd
    <3>2. Underway(n) \/ Answered(n)
      BY <1>2, <1>5, <2>2, ShortQueues DEF NotLost
    <3>3. CASE Arrived(n)
      <4>1. cq[s] # <<>>
        BY <3>3 DEF Arrived, HasRecv
      <4>2. spc[n] \in {"poll", "recv", "reply", "sent"}
        BY <1>1, <1>2 DEF IInv, TypeOK
      <4> QED
        BY <4>1, <4>2 DEF ConnectionMoves
    <3>4. CASE Serving(n) \/ Replying(n)
      BY <3>4 DEF ConnectionMoves, Serving, Replying
    <3>5. CASE Replied(n)
      BY <1>1, <1>5, <3>1, <3>5 DEF ConnectionMoves, Replied
    <3> QED
      BY <1>1, <3>1, <3>2, <3>3, <3>4, <3>5 DEF Underway, Answered, Requested
  <2> QED
    BY <2>1, <2>2
<1> QED
  BY <1>1, <1>4, <1>5

\* Deadlock-freedom of the exchange, for every interleaving and every number of nodes:
\* an orderly caller whose link works and whose request was not swallowed never waits
\* while nobody can move, as long as it made no more calls than the server posted
\* receives (the loop over QPS_MAX_DEPTH in Server::Accecpt).
THEOREM CallsNeverStuck == Spec => []NoCallStuck
BY Invariant, FlowInvariant, FlowSuffices, PTL

====
