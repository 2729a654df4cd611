---- MODULE DirectoryRpcRefinement ----
(***************************************************************************)
(* Proof that the remote calls implement the atomic directory of           *)
(* PoolDirectory, for any number of nodes, pools, receives and calls, when *)
(* links do not fail and every thread has its node's connection to itself. *)
(* Neither late acknowledgements nor swallowed requests harm that: a call  *)
(* that is never answered has not returned.                                *)
(***************************************************************************)
EXTENDS DirectoryRpcProofs

\* The conditions under which the refinement is run and proved.
Quiet == Flaky = {} /\ \A t \in Threads : Orderly(t)

Working == \A n \in Nodes : up[n] /\ qp[Client(n)] = "RTS"

RInv == IInv /\ Working

\* Without flaky links no queue pair enters the error state.
LEMMA WorkingInit == Init => Working
<1> SUFFICES ASSUME Init, NEW n \in Nodes PROVE up[n] /\ qp[Client(n)] = "RTS"
  BY DEF Working
<1>1. Client(n) \in EP
  BY EndpointFacts
<1> QED
  BY <1>1 DEF Init

LEMMA WorkingNext ==
    ASSUME Quiet, TypeOK, Working, [Next]_vars
    PROVE  Working'
<1> USE DEF serverVars, threadVars, historyVars, transportVars
<1>1. ASSUME UNCHANGED <<up, qp>> PROVE Working'
  BY <1>1 DEF Working
<1>2. CASE UNCHANGED vars
  BY <1>1, <1>2 DEF vars
<1>3. ASSUME NEW n \in Nodes, ConnectServer(n) \/ Accept(n) \/ PollThreadStep(n)
      PROVE  UNCHANGED <<up, qp>>
  BY <1>3 DEF ConnectServer, Accept, PollThreadStep, Poll, ServeCreate, ServeDelete,
     ServeFind, ServeOther, Respond, Reply, AwaitSent
<1>4. ASSUME NEW t \in Threads, Call(t) \/ ThreadStep(t) PROVE UNCHANGED <<up, qp>>
  BY <1>4 DEF Call, ThreadStep, PollSend, PollGreeting, PollRecv, Return
<1>5. ASSUME Transport PROVE UNCHANGED <<up, qp>>
  <2>1. \A n \in Nodes : ~LinkDown(n)
    BY DEF Quiet, LinkDown
  <2>2. \A e \in EP : ~RetryExceeded(e)
    BY EndpointCases, EndpointFacts DEF Working, RetryExceeded
  <2> QED
    BY <1>5, <2>1, <2>2 DEF Transport, Deliver, Ack
<1> QED
  BY <1>1, <1>2, <1>3, <1>4, <1>5 DEF Next

\* The refinement mapping of pending.
Pending == [t \in Threads |-> IF call[t] = Null THEN Null ELSE Asked(call[t])]

\* A request on its way is a call of the directory.
LEMMA AskedFacts ==
    ASSUME NEW r \in PoolRequests
    PROVE  r # Null /\ Asked(r) # Null /\ Asked(r) \in Directory!Calls
<1>1. r # Null /\ Asked(r) # Null
  BY RpcAssumption DEF Requests
<1>2. Asked(r) \in Directory!Calls
  BY DEF Asked, PoolRequests, PoolTypes, Directory!Calls, Directory!Kinds
<1> QED
  BY <1>1, <1>2

\* A call begins.
LEMMA CallBegins ==
    ASSUME Quiet, IInv, NEW t \in Threads, Call(t)
    PROVE  Directory!Begin(t)
<1>1. PICK request \in RequestsOf(t) : call' = [call EXCEPT ![t] = request]
  BY DEF Call
<1>2. request \in PoolRequests
  BY <1>1, RpcAssumption DEF Quiet, Orderly, RequestsOf, PoolRequests, PoolTypes, Infos,
     CreateRequest, DeleteRequest, FindRequest
<1>3. call[t] = Null
  BY DEF Quiet, IInv, LinkInv, CallCopies, Call
<1>4. Pending[t] = Null /\ Pending' = [Pending EXCEPT ![t] = Asked(request)]
  BY <1>1, <1>2, <1>3, AskedFacts DEF IInv, TypeOK, Pending
<1>5. UNCHANGED <<pool_info, effect, answer>>
  BY DEF Call, serverVars, historyVars
<1> QED
  BY <1>2, <1>4, <1>5, AskedFacts DEF Directory!Begin, Pending

\* What the server serves is the pending call of a thread that has had no effect.
LEMMA ServedIsPending ==
    ASSUME Quiet, RInv, NEW n \in Nodes, spc[n] = "recv", NEW t, t = inBuf[Server(n)].by,
           inBuf[Server(n)].type \in PoolTypes
    PROVE  /\ t \in Threads /\ effect[t] = Null
           /\ inBuf[Server(n)] \in PoolRequests
           /\ Pending[t] = Asked(inBuf[Server(n)])
<1> DEFINE request == inBuf[Server(n)]
<1>1. request \in PoolRequests
  BY DEF RInv, IInv, TypeOK, Requests, OtherRequests, PoolTypes
<1>2. t \in Threads /\ t # Null
  BY <1>1, RpcAssumption DEF PoolRequests
<1>3. NodeOf[t] = n
  BY <1>2 DEF RInv, IInv, Provenance, FromNode
<1>4. LinkInv(t) /\ qp[Client(n)] = "RTS"
  BY <1>2 DEF Quiet, RInv, IInv, Working
<1>5. call[t] = request /\ effect[t] = Null
  BY <1>3, <1>4 DEF LinkInv, Exchange, Serving, Underway
<1> QED
  BY <1>1, <1>2, <1>5, AskedFacts DEF Pending

\* Serving is the moment a call takes effect.
LEMMA ServeTakesEffect ==
    ASSUME Quiet, RInv, NEW n \in Nodes, ServeCreate(n) \/ ServeDelete(n) \/ ServeFind(n)
    PROVE  \E t \in Threads : Directory!TakeEffect(t)
<1> DEFINE request == inBuf[Server(n)]
           t == request.by
<1> USE DEF threadVars
<1>1. spc[n] = "recv" /\ request.type \in PoolTypes
  BY DEF ServeCreate, ServeDelete, ServeFind, PoolTypes
<1>2. /\ t \in Threads /\ effect[t] = Null /\ request \in PoolRequests
      /\ Pending[t] = Asked(request)
  BY <1>1, ServedIsPending
<1>3. /\ Pending[t].type = request.type /\ Pending[t].pool = request.pool
      /\ Pending[t].info = request.info /\ Pending[t] # Null
  BY <1>2, AskedFacts DEF Asked
<1>4. /\ request.pool \in Pools
      /\ pool_info \in [Pools -> Infos \union {Null}]
  BY <1>2 DEF PoolRequests, RInv, IInv, TypeOK
<1>5. UNCHANGED <<call, answer>> /\ Pending' = Pending
  BY DEF ServeCreate, ServeDelete, ServeFind, Respond, Pending
<1>6. ASSUME NEW r, Respond(n, r)
      PROVE  effect' = [effect EXCEPT ![t] = Outcome(request, r)]
  BY <1>6 DEF Respond
<1>7. CASE ServeCreate(n)
  <2>1. effect' = [effect EXCEPT ![t] = [ok |-> pool_info[request.pool] = Null, info |-> Null]]
    BY <1>6, <1>7 DEF ServeCreate, Outcome
  <2>2. Directory!Create(t)
    BY <1>3, <1>4, <1>7, <2>1 DEF ServeCreate, Directory!Create, Pending
  <2> QED
    BY <1>2, <1>3, <1>5, <2>2 DEF Directory!TakeEffect, Pending
<1>8. CASE ServeDelete(n)
  <2>1. effect' = [effect EXCEPT ![t] = [ok |-> pool_info[request.pool] # Null, info |-> Null]]
    BY <1>6, <1>8 DEF ServeDelete, Outcome
  <2>2. Directory!Delete(t)
    BY <1>3, <1>4, <1>8, <2>1 DEF ServeDelete, Directory!Delete, Pending
  <2> QED
    BY <1>2, <1>3, <1>5, <2>2 DEF Directory!TakeEffect, Pending
<1>9. CASE ServeFind(n)
  <2>1. effect' = [effect EXCEPT ![t] =
                     [ok |-> pool_info[request.pool] # Null, info |-> pool_info[request.pool]]]
    <3> DEFINE info == pool_info[request.pool]
               r == [st |-> IF info # Null THEN "INFO" ELSE "FAIL", info |-> info]
    <3>1. request.type = "FINDPOOL" /\ Respond(n, r)
      BY <1>9 DEF ServeFind
    <3>2. Outcome(request, r) = [ok |-> info # Null, info |-> info]
      <4>1. CASE info = Null
        BY <3>1, <4>1 DEF Outcome
      <4>2. CASE info # Null
        BY <3>1, <4>2 DEF Outcome
      <4> QED
        BY <4>1, <4>2
    <3> QED
      BY <1>6, <3>1, <3>2
  <2>2. Directory!Find(t)
    BY <1>3, <1>4, <1>9, <2>1 DEF ServeFind, Directory!Find, Pending
  <2> QED
    BY <1>2, <1>3, <1>5, <2>2 DEF Directory!TakeEffect, Pending
<1> QED
  BY <1>7, <1>8, <1>9

\* A call returns what took effect.
LEMMA ReturnReturns ==
    ASSUME Quiet, RInv, NEW t \in Threads, Return(t)
    PROVE  Directory!Return(t)
<1> DEFINE c == Client(NodeOf[t])
<1>1. NodeOf[t] \in Nodes /\ qp[c] = "RTS" /\ LinkInv(t)
  BY RpcAssumption DEF Quiet, RInv, IInv, Working
<1>2. effect[t] = Outcome(call[t], inBuf[c])
  BY <1>1 DEF LinkInv, Exchange, Return
<1>3. call[t] \in Requests /\ inBuf[c] \in Responses
  BY <1>1 DEF RInv, IInv, TypeOK, LinkInv, CallCopies, Return, Requests
<1>4. effect[t] # Null
  BY <1>2, <1>3, OutcomeType, RpcAssumption
<1>5. /\ answer' = [answer EXCEPT ![t] = effect[t]]
      /\ effect' = [effect EXCEPT ![t] = Null]
      /\ call' = [call EXCEPT ![t] = Null]
      /\ UNCHANGED pool_info
  BY <1>2 DEF Return, serverVars
<1>6. Pending' = [Pending EXCEPT ![t] = Null]
  BY <1>5 DEF RInv, IInv, TypeOK, Pending
<1> QED
  BY <1>4, <1>5, <1>6 DEF Directory!Return, Pending

\* Every step is a step of the directory or none it can see.
LEMMA StepSimulation ==
    ASSUME Quiet, RInv, [Next]_vars
    PROVE  [Directory!Next]_Directory!vars
<1> USE DEF serverVars, threadVars, historyVars
<1>1. ASSUME UNCHANGED <<pool_info, call, effect, answer>>
      PROVE  UNCHANGED Directory!vars
  BY <1>1 DEF Directory!vars
<1>2. CASE UNCHANGED vars
  BY <1>1, <1>2 DEF vars
<1>3. ASSUME NEW n \in Nodes, ServeCreate(n) \/ ServeDelete(n) \/ ServeFind(n)
      PROVE  Directory!Next
  BY <1>3, ServeTakesEffect DEF Directory!Next
<1>4. ASSUME NEW n \in Nodes,
             \/ ConnectServer(n) \/ Accept(n) \/ Poll(n) \/ ServeOther(n) \/ Reply(n) \/ AwaitSent(n)
      PROVE  UNCHANGED Directory!vars
  BY <1>1, <1>4 DEF ConnectServer, Accept, Poll, ServeOther, Reply, AwaitSent
<1>5. ASSUME NEW t \in Threads, Call(t) PROVE Directory!Next
  BY <1>5, CallBegins DEF RInv, Directory!Next
<1>6. ASSUME NEW t \in Threads, PollSend(t) \/ PollRecv(t) PROVE UNCHANGED Directory!vars
  BY <1>1, <1>6 DEF PollSend, PollRecv
<1>7. ASSUME NEW t \in Threads PROVE ~PollGreeting(t)
  BY NoGreeting DEF Quiet, RInv
<1>8. ASSUME NEW t \in Threads, Return(t) PROVE Directory!Next
  BY <1>8, ReturnReturns DEF Directory!Next
<1>9. CASE Transport
  BY <1>1, <1>9 DEF Transport
<1> QED
  BY <1>2, <1>3, <1>4, <1>5, <1>6, <1>7, <1>8, <1>9 DEF Next, PollThreadStep, ThreadStep

\* The calls of SendCreatePool, SendDeletePool and SendFindPool, their messages and
\* buffers, AddPool, DeletePool and GetPool included, amount to atomic operations on
\* one directory that return what they did, however many callers there are.
THEOREM Refinement ==
    ASSUME Quiet
    PROVE  Spec => ImplementsDirectory
<1>1. Init => RInv
  BY IInvInit, WorkingInit DEF RInv
<1>2. RInv /\ [Next]_vars => RInv'
  BY IInvNext, WorkingNext DEF RInv, IInv
<1>3. Init => Directory!Init
  BY DEF Init, Directory!Init
<1>4. RInv /\ [Next]_vars => [Directory!Next]_Directory!vars
  BY StepSimulation
<1> QED
  BY <1>1, <1>2, <1>3, <1>4, PTL DEF Spec, ImplementsDirectory, Directory!Spec

====
