---- MODULE DirectoryRpc ----
(***************************************************************************)
(* The pool directory of the server and the remote calls by which clients  *)
(* reach it: Client::SendCreatePool, SendDeletePool, SendFindPool and      *)
(* SendMessageToServer on one side; Server::Accecpt, ProcessRequest,       *)
(* ProcessRecv and the directory operations under the mutex m on the other.*)
(*                                                                         *)
(* A client node has one connection to the server, one send buffer and one *)
(* receive buffer in it, used by every thread of the node.  The server has *)
(* one polling thread per connection.  Requests and responses carry no     *)
(* identifier: a caller pairs its request with whatever completion comes   *)
(* next and with whatever the receive buffer holds then.                   *)
(***************************************************************************)
EXTENDS RcTransport, FiniteSets

CONSTANTS
    Threads,    \* the threads of the client nodes that call the server
    NodeOf,     \* NodeOf[t]: the node thread t runs on
    Greeters,   \* threads that also call SendMessageToServer
    Pools,      \* pool ids
    Vas,        \* virtual addresses of pools in their owners
    Depth,      \* receives the server posts per connection (QPS_MAX_DEPTH)
    MaxCalls,   \* bound: calls per thread
    Null

Infos == [node : Nodes, va : Vas]       \* PoolInfo
PoolTypes == {"CREATEPOOL", "DELETEPOOL", "FINDPOOL"}
\* A request of type OTHER is of no type ProcessRecv knows.  "by" is history: the
\* program's requests do not name the calling thread.
PoolRequests == [type : PoolTypes, pool : Pools, info : Infos \union {Null}, by : Threads]
OtherRequests == [type : {"OTHER"}, pool : {Null}, info : {Null}, by : Threads \union {Null}]
Requests == PoolRequests \union OtherRequests
\* What a request asks of the directory, whoever makes it.
Asked(r) == [type |-> r.type, pool |-> r.pool, info |-> r.info]
Responses == [st : {"SUCCESS", "FAIL", "INFO"}, info : Infos \union {Null}]
Outcomes == [ok : BOOLEAN, info : Infos \union {Null}]

ASSUME RpcAssumption ==
    /\ NodeOf \in [Threads -> Nodes]
    /\ Greeters \subseteq Threads
    /\ Depth \in Nat
    /\ MaxCalls \in Nat
    /\ Null \notin Threads \union Pools \union Infos \union Requests \union Outcomes
    /\ Null \notin {Asked(r) : r \in PoolRequests}

VARIABLES
    paired,     \* nodes whose ConnectServer has returned
    peers,      \* Server::peers: nodes whose connection the server has accepted
    pool_info,  \* Server::pool_info_
    spc,        \* spc[n]: where the polling thread of connection n is
    resp,       \* resp[n]: the response that thread is about to send
    pc,         \* pc[t]: where client thread t is
    call,       \* call[t]: the request t is waiting on, or Null
    calls,      \* calls[t]: how many calls t has made
    answer,     \* answer[t]: what the last call of t returned, or Null
    \* history, read by no action
    effect,     \* effect[t]: what the server did for the call of t, or Null
    served,     \* served[t]: how many requests of t the server has served
    swallowed   \* connections that lost the completion of a request

serverVars == <<peers, pool_info, spc, resp>>
threadVars == <<pc, call, calls, answer>>
historyVars == <<effect, served, swallowed>>
vars == <<transportVars, paired, serverVars, threadVars, historyVars>>

CreateRequest(t, p, va) ==
    [type |-> "CREATEPOOL", pool |-> p, info |-> [node |-> NodeOf[t], va |-> va], by |-> t]
DeleteRequest(t, p) == [type |-> "DELETEPOOL", pool |-> p, info |-> Null, by |-> t]
FindRequest(t, p) == [type |-> "FINDPOOL", pool |-> p, info |-> Null, by |-> t]
Greeting(t) == [type |-> "OTHER", pool |-> Null, info |-> Null, by |-> t]

RequestsOf(t) ==
    {CreateRequest(t, p, va) : p \in Pools, va \in Vas}
    \union {DeleteRequest(t, p) : p \in Pools}
    \union {FindRequest(t, p) : p \in Pools}
    \union (IF t \in Greeters THEN {Greeting(t)} ELSE {})

\* What the caller of a Send operation makes of the response it reads.
Outcome(request, response) ==
    IF request.type = "FINDPOOL"
    THEN IF response.st = "INFO" THEN [ok |-> TRUE, info |-> response.info]
                                 ELSE [ok |-> FALSE, info |-> Null]
    ELSE [ok |-> response.st = "SUCCESS", info |-> Null]

\* The server's receive buffer is not initialised: it holds no known request.
BlankRequest == [type |-> "OTHER", pool |-> Null, info |-> Null, by |-> Null]
\* The client's buffers are zeroed, and SUCCESS is 0.
BlankResponse == [st |-> "SUCCESS", info |-> Null]

Init ==
    /\ up = [n \in Nodes |-> TRUE]
    /\ qp = [e \in EP |-> "RTS"]
    /\ sq = [e \in EP |-> 0]
    /\ acks = [e \in EP |-> 0]
    /\ rq = [e \in EP |-> 0]
    /\ cq = [e \in EP |-> <<>>]
    /\ outBuf = [e \in EP |-> IF e[2] = "client" THEN BlankRequest ELSE BlankResponse]
    /\ inBuf = [e \in EP |-> IF e[2] = "client" THEN BlankResponse ELSE BlankRequest]
    /\ paired = {}
    /\ peers = {}
    /\ pool_info = [p \in Pools |-> Null]
    /\ spc = [n \in Nodes |-> "off"]
    /\ resp = [n \in Nodes |-> BlankResponse]
    /\ pc = [t \in Threads |-> "idle"]
    /\ call = [t \in Threads |-> Null]
    /\ calls = [t \in Threads |-> 0]
    /\ answer = [t \in Threads |-> Null]
    /\ effect = [t \in Threads |-> Null]
    /\ served = [t \in Threads |-> 0]
    /\ swallowed = {}

-----------------------------------------------------------------------------
(* The client *)

\* The handshake of ConnectQueuePair is over at the client, which may call the
\* server from now on; the server may still be on its way.
ConnectServer(n) ==
    /\ n \notin paired
    /\ paired' = paired \union {n}
    /\ UNCHANGED <<transportVars, serverVars, threadVars, historyVars>>

\* The first half of a Send operation: fill the send buffer, RdmaSend.
Call(t) ==
    /\ pc[t] = "idle"
    /\ NodeOf[t] \in paired
    /\ calls[t] < MaxCalls
    /\ \E request \in RequestsOf(t) :
         /\ call' = [call EXCEPT ![t] = request]
         /\ RdmaSend(Client(NodeOf[t]), request)
    /\ pc' = [pc EXCEPT ![t] = "sending"]
    /\ calls' = [calls EXCEPT ![t] = @ + 1]
    /\ UNCHANGED <<up, qp, acks, rq, inBuf, paired, serverVars, answer, historyVars>>

\* Mutant of PollSend: SendDeletePool does not wait for the response.
PollSendNoWait(t) ==
    /\ pc[t] = "sending"
    /\ call[t].type \in PoolTypes
    /\ PollThenRecv(Client(NodeOf[t]))
    /\ pc' = [pc EXCEPT ![t] = IF call[t].type = "DELETEPOOL" THEN "answer" ELSE "receiving"]
    /\ UNCHANGED <<up, qp, sq, acks, outBuf, inBuf, paired, serverVars,
                   call, calls, answer, historyVars>>

\* A completion was polled for the send; errors are not told from successes
\* (PollCompletion's -1 is true).  Only now is a receive posted for the response.
PollSend(t) ==
    /\ pc[t] = "sending"
    /\ call[t].type \in PoolTypes
    /\ PollThenRecv(Client(NodeOf[t]))
    /\ pc' = [pc EXCEPT ![t] = "receiving"]
    /\ UNCHANGED <<up, qp, sq, acks, outBuf, inBuf, paired, serverVars,
                   call, calls, answer, historyVars>>

\* SendMessageToServer returns without waiting for a response.
PollGreeting(t) ==
    /\ pc[t] = "sending"
    /\ call[t].type = "OTHER"
    /\ PollCompletion(Client(NodeOf[t]))
    /\ pc' = [pc EXCEPT ![t] = "idle"]
    /\ call' = [call EXCEPT ![t] = Null]
    /\ UNCHANGED <<up, qp, sq, acks, rq, outBuf, inBuf, paired, serverVars,
                   calls, answer, historyVars>>

PollRecv(t) ==
    /\ pc[t] = "receiving"
    /\ PollCompletion(Client(NodeOf[t]))
    /\ pc' = [pc EXCEPT ![t] = "answer"]
    /\ UNCHANGED <<up, qp, sq, acks, rq, outBuf, inBuf, paired, serverVars,
                   call, calls, answer, historyVars>>

\* The caller reads the receive buffer and returns.
Return(t) ==
    /\ pc[t] = "answer"
    /\ answer' = [answer EXCEPT ![t] = Outcome(call[t], inBuf[Client(NodeOf[t])])]
    /\ pc' = [pc EXCEPT ![t] = "idle"]
    /\ call' = [call EXCEPT ![t] = Null]
    /\ effect' = [effect EXCEPT ![t] = Null]
    /\ UNCHANGED <<transportVars, paired, serverVars, calls, served, swallowed>>

-----------------------------------------------------------------------------
(* The server *)

\* Mutant of Accept: the polling thread starts before the peer is registered.
AcceptUnregistered(n) ==
    /\ n \in paired \ peers
    /\ spc[n] = "off"
    /\ rq' = [rq EXCEPT ![Server(n)] = Depth]
    /\ spc' = [spc EXCEPT ![n] = "poll"]
    /\ UNCHANGED <<up, qp, sq, acks, cq, outBuf, inBuf, paired, peers, pool_info, resp,
                   threadVars, historyVars>>

\* Mutant of Accept: one receive too few is posted.
AcceptOneShort(n) ==
    /\ n \in paired \ peers
    /\ peers' = peers \union {n}
    /\ rq' = [rq EXCEPT ![Server(n)] = Depth - 1]
    /\ spc' = [spc EXCEPT ![n] = "poll"]
    /\ UNCHANGED <<up, qp, sq, acks, cq, outBuf, inBuf, paired, pool_info, resp,
                   threadVars, historyVars>>

\* One round of Accecpt's loop: register the peer, post the receives, start the
\* polling thread.  The receives are posted this once and never again.
Accept(n) ==
    /\ n \in paired \ peers
    /\ peers' = peers \union {n}
    /\ rq' = [rq EXCEPT ![Server(n)] = Depth]
    /\ spc' = [spc EXCEPT ![n] = "poll"]
    /\ UNCHANGED <<up, qp, sq, acks, cq, outBuf, inBuf, paired, pool_info, resp,
                   threadVars, historyVars>>

\* Mutant of Poll: every completion is taken for a request.
PollUnchecked(n) ==
    /\ spc[n] = "poll"
    /\ PollCompletion(Server(n))
    /\ spc' = [spc EXCEPT ![n] = "recv"]
    /\ UNCHANGED <<up, qp, sq, acks, rq, outBuf, inBuf, paired, peers, pool_info,
                   resp, threadVars, historyVars>>

\* ProcessRequest: a receive completion leads to ProcessRecv, any other is dropped.
Poll(n) ==
    /\ spc[n] = "poll"
    /\ PollCompletion(Server(n))
    /\ spc' = [spc EXCEPT ![n] = IF Head(cq[Server(n)]) = "RECV" THEN "recv" ELSE "poll"]
    /\ UNCHANGED <<up, qp, sq, acks, rq, outBuf, inBuf, paired, peers, pool_info,
                   resp, threadVars, historyVars>>

\* ProcessRecv decided on response r for the request in the receive buffer.
Respond(n, r) ==
    LET request == inBuf[Server(n)] IN
    /\ resp' = [resp EXCEPT ![n] = r]
    /\ spc' = [spc EXCEPT ![n] = "reply"]
    /\ effect' = [effect EXCEPT ![request.by] = Outcome(request, r)]
    /\ served' = [served EXCEPT ![request.by] = @ + 1]
    /\ UNCHANGED <<transportVars, paired, peers, threadVars, swallowed>>

\* Mutant of ServeCreate: AddPool does not look for an existing registration.
ServeCreateUnchecked(n) ==
    LET request == inBuf[Server(n)] IN
    /\ spc[n] = "recv"
    /\ request.type = "CREATEPOOL"
    /\ pool_info' = [pool_info EXCEPT ![request.pool] = request.info]
    /\ Respond(n, [st |-> "SUCCESS", info |-> Null])

\* Mutant of ServeCreate: AddPool stores the request where the PoolInfo belongs.
ServeCreateMistyped(n) ==
    LET request == inBuf[Server(n)] IN
    /\ spc[n] = "recv"
    /\ request.type = "CREATEPOOL"
    /\ pool_info' = [pool_info EXCEPT ![request.pool] = request]
    /\ Respond(n, [st |-> "SUCCESS", info |-> Null])

\* ProcessRecv with AddPool under the mutex.
ServeCreate(n) ==
    LET request == inBuf[Server(n)]
        new == pool_info[request.pool] = Null IN
    /\ spc[n] = "recv"
    /\ request.type = "CREATEPOOL"
    /\ pool_info' = [pool_info EXCEPT ![request.pool] = IF new THEN request.info ELSE @]
    /\ Respond(n, [st |-> IF new THEN "SUCCESS" ELSE "FAIL", info |-> Null])

\* ProcessRecv with DeletePool under the mutex: any client may delete any pool.
ServeDelete(n) ==
    LET request == inBuf[Server(n)]
        found == pool_info[request.pool] # Null IN
    /\ spc[n] = "recv"
    /\ request.type = "DELETEPOOL"
    /\ pool_info' = [pool_info EXCEPT ![request.pool] = Null]
    /\ Respond(n, [st |-> IF found THEN "SUCCESS" ELSE "FAIL", info |-> Null])

\* Mutant of ServeFind: a pool that is not found gets no response.
ServeFindSilent(n) ==
    LET request == inBuf[Server(n)]
        info == pool_info[request.pool] IN
    /\ spc[n] = "recv"
    /\ request.type = "FINDPOOL"
    /\ IF info = Null
       THEN /\ spc' = [spc EXCEPT ![n] = "poll"]
            /\ UNCHANGED <<transportVars, paired, peers, resp, threadVars, historyVars>>
       ELSE Respond(n, [st |-> "INFO", info |-> info])
    /\ UNCHANGED pool_info

\* ProcessRecv with GetPool under the mutex.  The PoolInfo it points to is never
\* changed nor freed, so what is read from it after the unlock is what was found.
ServeFind(n) ==
    LET request == inBuf[Server(n)]
        info == pool_info[request.pool] IN
    /\ spc[n] = "recv"
    /\ request.type = "FINDPOOL"
    /\ Respond(n, [st |-> IF info # Null THEN "INFO" ELSE "FAIL", info |-> info])
    /\ UNCHANGED pool_info

\* A request of no known type gets no response.
ServeOther(n) ==
    /\ spc[n] = "recv"
    /\ inBuf[Server(n)].type = "OTHER"
    /\ spc' = [spc EXCEPT ![n] = "poll"]
    /\ UNCHANGED <<transportVars, paired, peers, pool_info, resp, threadVars, historyVars>>

\* Mutant of Reply: the send is posted before the response is copied.
ReplyBeforeCopy(n) ==
    /\ spc[n] = "reply"
    /\ RdmaSend(Server(n), outBuf[Server(n)])
    /\ spc' = [spc EXCEPT ![n] = "sent"]
    /\ UNCHANGED <<up, qp, acks, rq, inBuf, paired, peers, pool_info, resp,
                   threadVars, historyVars>>

\* The response is copied to the send buffer and posted.
Reply(n) ==
    /\ spc[n] = "reply"
    /\ RdmaSend(Server(n), resp[n])
    /\ spc' = [spc EXCEPT ![n] = "sent"]
    /\ UNCHANGED <<up, qp, acks, rq, inBuf, paired, peers, pool_info, resp,
                   threadVars, historyVars>>

\* ProcessRecv waits for its send, but PollCompletion takes any completion: when
\* it takes the receive completion of the next request, nobody serves that one.
AwaitSent(n) ==
    /\ spc[n] = "sent"
    /\ PollCompletion(Server(n))
    /\ spc' = [spc EXCEPT ![n] = "poll"]
    /\ swallowed' = IF Head(cq[Server(n)]) = "RECV" THEN swallowed \union {n} ELSE swallowed
    /\ UNCHANGED <<up, qp, sq, acks, rq, outBuf, inBuf, paired, peers, pool_info,
                   resp, threadVars, effect, served>>

-----------------------------------------------------------------------------

Transport ==
    /\ \/ \E e \in EP : Deliver(e) \/ Ack(e) \/ RetryExceeded(e)
       \/ \E n \in Nodes : LinkDown(n)
    /\ UNCHANGED <<paired, serverVars, threadVars, historyVars>>

\* One step of the waiting part of a call.
ThreadStep(t) == PollSend(t) \/ PollGreeting(t) \/ PollRecv(t) \/ Return(t)

\* One step of the polling thread of connection n.
PollThreadStep(n) ==
    \/ Poll(n)
    \/ ServeCreate(n) \/ ServeDelete(n) \/ ServeFind(n) \/ ServeOther(n)
    \/ Reply(n)
    \/ AwaitSent(n)

Next ==
    \/ \E n \in Nodes : ConnectServer(n) \/ Accept(n) \/ PollThreadStep(n)
    \/ \E t \in Threads : Call(t) \/ ThreadStep(t)
    \/ Transport

\* The threads spin, so each runs again and again; the listener accepts; the
\* adapters deliver, acknowledge and give up.  Nobody has to make a call.
Fairness ==
    /\ \A t \in Threads : WF_vars(ThreadStep(t))
    /\ \A n \in Nodes : WF_vars(Accept(n)) /\ WF_vars(PollThreadStep(n))
    /\ \A e \in EP :
         /\ WF_vars(Deliver(e) /\ UNCHANGED <<paired, serverVars, threadVars, historyVars>>)
         /\ WF_vars(Ack(e) /\ UNCHANGED <<paired, serverVars, threadVars, historyVars>>)
         /\ WF_vars(RetryExceeded(e) /\ UNCHANGED <<paired, serverVars, threadVars, historyVars>>)

Spec == Init /\ [][Next]_vars
FairSpec == Spec /\ Fairness

-----------------------------------------------------------------------------
(* Properties *)

\* The shape of the state: work requests posted by RdmaSocket, the buffers of
\* Client and Server, and Server::pool_info_ over its pool ids.
TypeOK ==
    /\ up \in [Nodes -> BOOLEAN]
    /\ qp \in [EP -> {"RTS", "ERR"}]
    /\ sq \in [EP -> Nat] /\ acks \in [EP -> Nat] /\ rq \in [EP -> Nat]
    /\ cq \in [EP -> Seq(Completions)]
    /\ outBuf \in [EP -> Requests \union Responses]
    /\ inBuf \in [EP -> Requests \union Responses]
    /\ \A n \in Nodes :
         /\ outBuf[Client(n)] \in Requests /\ inBuf[Client(n)] \in Responses
         /\ outBuf[Server(n)] \in Responses /\ inBuf[Server(n)] \in Requests
    /\ paired \subseteq Nodes /\ peers \subseteq Nodes
    /\ pool_info \in [Pools -> Infos \union {Null}]
    /\ spc \in [Nodes -> {"off", "poll", "recv", "reply", "sent"}]
    /\ resp \in [Nodes -> Responses]
    /\ pc \in [Threads -> {"idle", "sending", "receiving", "answer"}]
    /\ call \in [Threads -> Requests \union {Null}]
    /\ calls \in [Threads -> Nat]
    /\ answer \in [Threads -> Outcomes \union {Null}]
    /\ effect \in [Threads -> Outcomes \union {Null}]
    /\ served \in [Threads -> Nat]
    /\ swallowed \subseteq Nodes

\* A thread that has its node's connection to itself and always waits for answers.
Orderly(t) ==
    /\ \A u \in Threads : NodeOf[u] = NodeOf[t] => u = t
    /\ t \notin Greeters

\* The owner of every registered pool is in Server::peers: ProcessRecv reads
\* peers[ret->node_id_]->peer_ip for a FINDPOOL without a check.
OwnersConnected ==
    \A p \in Pools : pool_info[p] # Null => pool_info[p].node \in peers

\* While the queue pair of its node works, what an orderly caller is about to make
\* of its receive buffer is what the server did for this very call, although
\* neither buffers nor completions say which call they belong to.
AnswerIsEffect ==
    \A t \in Threads :
        (Orderly(t) /\ pc[t] = "answer" /\ qp[Client(NodeOf[t])] = "RTS") =>
            effect[t] = Outcome(call[t], inBuf[Client(NodeOf[t])])

\* Whatever the link does, the server serves no call of an orderly thread twice:
\* it never served more requests than were made, and none in advance.
ServedAtMostOnce ==
    \A t \in Threads : Orderly(t) => served[t] <= calls[t]

\* ProcessRecv's wait for its own send never eats the next request of an orderly
\* thread whose requests do not overtake acknowledgements.
NothingSwallowed ==
    \A t \in Threads :
        (Orderly(t) /\ NodeOf[t] \notin LateAcks) => NodeOf[t] \notin swallowed

\* Some step of the connection of n can be taken: the listener's, an adapter's, the
\* polling thread's, or the caller's.
ConnectionMoves(n) ==
    LET c == Client(n)
        s == Server(n)
        Delivers(e) == sq[e] > 0 /\ rq[Peer(e)] > 0 /\ (n \in LateAcks \/ acks[Peer(e)] = 0) IN
    \/ n \notin peers
    \/ Delivers(c) \/ Delivers(s)
    \/ acks[c] > 0 \/ acks[s] > 0
    \/ spc[n] \in {"recv", "reply"}
    \/ spc[n] \in {"poll", "sent"} /\ cq[s] # <<>>
    \/ cq[c] # <<>>

\* The first Depth calls of an orderly thread never wait for nothing: while the link
\* works and no request was swallowed, caller and server are not both waiting, and a
\* posted message has a receive to go to, although the server posts its receives
\* once, all of a connection's wait on one queue and each side drops completions.
NoCallStuck ==
    \A t \in Threads :
        LET n == NodeOf[t] IN
        (/\ Orderly(t) /\ up[n] /\ n \notin swallowed
         /\ pc[t] \in {"sending", "receiving"} /\ calls[t] <= Depth) => ConnectionMoves(n)

\* The first Depth calls of an orderly thread return, unless a request was swallowed or
\* the link went down.  The server posts its receives once (Accecpt), so a call after
\* these waits at the sender for ever.
CallsReturn ==
    \A t \in Threads : Orderly(t) =>
        ((pc[t] # "idle" /\ calls[t] <= Depth) ~>
            (pc[t] = "idle" \/ NodeOf[t] \in swallowed \/ ~up[NodeOf[t]]))

\* Seen from orderly callers with working links, the calls are atomic operations on
\* one directory: the detailed model implements PoolDirectory.
Directory == INSTANCE PoolDirectory WITH
    directory <- pool_info,
    pending <- [t \in Threads |-> IF call[t] = Null THEN Null ELSE Asked(call[t])],
    outcome <- effect

ImplementsDirectory == Directory!Spec

\* What the code's own error branches say ("Client send the request failed", "Not
\* recv the server's response", both return false): a call the server did not serve
\* does not return success.
SuccessMeansServed ==
    \A t \in Threads :
        (pc[t] = "answer" /\ Outcome(call[t], inBuf[Client(NodeOf[t])]).ok) => effect[t] # Null

\* What the messages "Server response: CreatePool Success!" and the like say: what a
\* caller reads is the server's response to its call, whatever was sent before it.
ResponseIsForThisCall ==
    \A t \in Threads :
        pc[t] = "answer" => effect[t] = Outcome(call[t], inBuf[Client(NodeOf[t])])

\* What Server.hpp says of the polling threads, "poll the CQ of each connection and
\* process accordingly": a request that arrived is processed and its caller returns.
RequestsProcessed ==
    \A t \in Threads : pc[t] = "receiving" ~> pc[t] # "receiving"

====
