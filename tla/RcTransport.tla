---- MODULE RcTransport ----
(***************************************************************************)
(* The reliable-connected (RC) queue pairs that RdmaSocket creates, one    *)
(* per connected node, seen from the verbs RdmaSocket uses: RdmaSend and   *)
(* RdmaRecv post work requests, PollCompletion takes completions.  Each    *)
(* side of a connection has ONE completion queue for its sends and its     *)
(* receives (CreateQueuePair: send_cq = recv_cq = peer->cq).               *)
(*                                                                         *)
(* A send reads its buffer when the adapter transmits it, not when it is   *)
(* posted; it needs a posted receive at the other side and waits for one   *)
(* without limit (rnr_retry = 7 in ModifyQPtoRTS).  A link may go down for *)
(* good; an endpoint with unacknowledged sends then gives up               *)
(* (retry_cnt), its queue pair enters the error state and everything       *)
(* posted to it completes with an error status.                            *)
(***************************************************************************)
EXTENDS Integers, Sequences

CONSTANTS
    Nodes,      \* the client nodes; each has one connection to the server
    LateAcks,   \* nodes whose requests may overtake the acknowledgement of the
                \* response before them
    Flaky       \* nodes whose link may go down

ASSUME TransportAssumption == LateAcks \subseteq Nodes /\ Flaky \subseteq Nodes

Sides == {"client", "server"}
EP == Nodes \X Sides            \* the endpoints of the connections
Client(n) == <<n, "client">>
Server(n) == <<n, "server">>
Peer(e) == IF e[2] = "client" THEN Server(e[1]) ELSE Client(e[1])

VARIABLES
    up,      \* up[n]: the link of node n works
    qp,      \* qp[e]: state of the queue pair, "RTS" or "ERR"
    sq,      \* sq[e]: sends posted by e and not yet received by its peer
    acks,    \* acks[e]: sends of e received by its peer, completion still to come
    rq,      \* rq[e]: receives posted by e and not yet used
    cq,      \* cq[e]: completions of e not yet polled, oldest first
    outBuf,  \* outBuf[e]: content of e's send buffer   (my_buf_addr_)
    inBuf    \* inBuf[e]: content of e's receive buffer (my_buf_addr_ + FOURMB)

transportVars == <<up, qp, sq, acks, rq, cq, outBuf, inBuf>>

Completions == {"SEND", "RECV", "ERR"}

\* What posting a work request adds to the completion queue: nothing, or the
\* immediate flush error of a queue pair in the error state.
Flush(e) == IF qp[e] = "ERR" THEN <<"ERR">> ELSE <<>>

\* RdmaSocket::RdmaSend after the caller filled the send buffer with m.
RdmaSend(e, m) ==
    /\ outBuf' = [outBuf EXCEPT ![e] = m]
    /\ sq' = [sq EXCEPT ![e] = IF qp[e] = "RTS" THEN @ + 1 ELSE @]
    /\ cq' = [cq EXCEPT ![e] = @ \o Flush(e)]

\* PollCompletion returned the oldest completion, whatever it is.
PollCompletion(e) ==
    /\ cq[e] # <<>>
    /\ cq' = [cq EXCEPT ![e] = Tail(@)]

\* PollCompletion and then RdmaRecv, which posts one receive.
PollThenRecv(e) ==
    /\ cq[e] # <<>>
    /\ cq' = [cq EXCEPT ![e] = Tail(@) \o Flush(e)]
    /\ rq' = [rq EXCEPT ![e] = IF qp[e] = "RTS" THEN @ + 1 ELSE @]

\* The oldest send of e reaches its peer.  Outside LateAcks the adapter of the
\* peer has seen the acknowledgements e owes before it sees e's next message.
Deliver(e) ==
    LET p == Peer(e) IN
    /\ up[e[1]]
    /\ qp[e] = "RTS" /\ qp[p] = "RTS"
    /\ sq[e] > 0 /\ rq[p] > 0
    /\ e[1] \in LateAcks \/ acks[p] = 0
    /\ sq' = [sq EXCEPT ![e] = @ - 1]
    /\ acks' = [acks EXCEPT ![e] = @ + 1]
    /\ rq' = [rq EXCEPT ![p] = @ - 1]
    /\ inBuf' = [inBuf EXCEPT ![p] = outBuf[e]]
    /\ cq' = [cq EXCEPT ![p] = Append(@, "RECV")]
    /\ UNCHANGED <<up, qp, outBuf>>

\* The acknowledgement of a received send comes back to e.
Ack(e) ==
    /\ up[e[1]]
    /\ qp[e] = "RTS"
    /\ acks[e] > 0
    /\ acks' = [acks EXCEPT ![e] = @ - 1]
    /\ cq' = [cq EXCEPT ![e] = Append(@, "SEND")]
    /\ UNCHANGED <<up, qp, sq, rq, outBuf, inBuf>>

LinkDown(n) ==
    /\ n \in Flaky
    /\ up[n]
    /\ up' = [up EXCEPT ![n] = FALSE]
    /\ UNCHANGED <<qp, sq, acks, rq, cq, outBuf, inBuf>>

\* The retries of an unacknowledged send are exhausted: every posted work request
\* of e completes with an error, also sends the peer did receive.
RetryExceeded(e) ==
    /\ ~up[e[1]]
    /\ qp[e] = "RTS"
    /\ sq[e] + acks[e] > 0
    /\ qp' = [qp EXCEPT ![e] = "ERR"]
    /\ cq' = [cq EXCEPT ![e] = @ \o [i \in 1..(sq[e] + acks[e] + rq[e]) |-> "ERR"]]
    /\ sq' = [sq EXCEPT ![e] = 0]
    /\ acks' = [acks EXCEPT ![e] = 0]
    /\ rq' = [rq EXCEPT ![e] = 0]
    /\ UNCHANGED <<up, outBuf, inBuf>>

====
