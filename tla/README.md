# A TLA+ verification project for DPMO

DPMO is a distributed persistent-memory object store over RDMA. One **server**
keeps a directory of pools (pool id -> owner node and virtual address); **client**
nodes own pools, register them with the server, and read and write the pools of
other clients directly over RDMA. This directory holds TLA+ models of its
protocols, TLC configurations that check them on small instances, and TLAPS
proofs for every size.

## 1. Inventory of the system

| part | source | state | operations |
|---|---|---|---|
| Server | `src/src/Server.cpp` | `peers`, `poll_request`, `pool_info_` (under mutex `m`), `is_running_` | `AddPool`, `GetPool`, `DeletePool`; `Accecpt` (listener thread); `ProcessRequest`/`ProcessRecv` (one polling thread per connection) |
| Client, calls to the server | `src/src/Client.cpp` | `peers[0]` with one send buffer, one receive buffer, one completion queue | `ConnectServer`, `SendCreatePool`, `SendDeletePool`, `SendFindPool`, `SendMessageToServer` |
| Client, remote data | `src/src/Client.cpp` | `peers[n]`, the same pair of buffers per peer | `GetRemotePoolData`/`SendGetPoolData`, `WriteRemotePoolData`/`SendWritePoolData`, and the handlers of GETPOOLDATA and WRITEPOOLDATA in `ProcessRecv` |
| Client, remote pools | `src/src/Client.cpp` | libpmemobj pools | `CreateRemotePool`, `OpenRemotePool`, `CloseRemotePool`, `RemotePoolRoot`, and their handlers |
| Peers, accept, reconnect | `Client::Accept`, `Client::ConnectClient`, `Server::Accecpt` | `peers`, `poll_request_thread_` | accept, connect, replace a peer, kill its polling thread |
| RC send and receive | `src/src/RdmaSocket.cpp` | queue pairs and completion queue per peer | `RdmaSend`, `RdmaRecv`, `PollCompletion` |
| Parallel transfer | `src/src/RdmaSocket.cpp` | `queue_[]`, `transfer_count`, staging areas | `RemoteWrite`, `RemoteRead`, `OutboundHamal`, `InboundHamal`, `DataTransferWorker` |
| Handshake, ids, slots | `src/src/RdmaSocket.cpp`, `RdmaSocket.hpp` | `my_node_id_`, `sock_port_`; `max_node_id_` and `is_new_client_`, which are never used | `SocketConnect`, `RdmaListen`, `ConnectQueuePair`, `SockSyncData`, `GetPeerAddr` |
| Configuration | `src/src/Configuration.cpp` | two maps id <-> ip, constant once read | `getIDbyIP`, `getIPbyID`; `addClient` and `deleteClient` are never run |
| Queue | `src/include/Global.hpp` | vector and an 8-bit counter | `push`/`pop`, `PushPolling`/`PopPolling` |
| C interface, logging, mains, tests | `src/lib`, `src/src/Debug.cpp`, `src/Run*.cpp`, `src/test` | one static `Client` | thin wrappers and drivers |

**Interactions.** A client thread and the server's polling thread talk by RDMA
send/receive over one reliable-connected queue pair; requests and responses lie
in one fixed buffer per direction and carry no identifier. All polling threads of
the server share the directory and `peers`. On a client, the main thread, the
polling threads of accepted peers (whose handlers call the server themselves) and
two transfer workers share `peers`, buffers, completion queues and
`transfer_count`. Data between clients goes by RDMA write into the peer's receive
buffer, unseen by its CPU, which spins on a begin and an end marker.

**What is hard.** Completions of sends and receives are mixed in one queue and
taken by whoever polls; error completions count as success; nothing bounds a
wait; buffers are reused without handshake; the server's receives are posted
once; several threads share a connection without a lock; counters and queues are
shared between workers. `PROJECT.json` lists every such hazard with its line and
the properties that cover it.

**What makes each part correct.**

* Directory and calls: each call takes effect atomically at most once and returns
  what it did; the owner of a registered pool is connected; every call that has a
  receive returns.
* Remote data: every word a read returns was in the pool during the read; a write
  that returned arrives, once, whole and at no other address.
* Parallel transfer: when `RemoteWrite` returns, all bytes are at the peer and are
  the caller's; the staging areas and the counter are free for the next transfer.
* Ids and slots: two listed nodes never have the same id, two peers never the same
  slot, every slot lies in the registered region.
* Connections: an entry of `peers` is a live connection with the node of that id;
  who dialed can rely on the other end and gets it polled; a polling thread uses no
  deleted connection; handshakes and destructors end and leave no listener and no
  polling thread (the transfer workers are detached).
* Remote pools: the directory tells the truth; a pool reported as created can be found
  until its holder closes it; a pool is closed once; none stays open with nobody to close it.

## 2. Modules

| module | models | proofs |
|---|---|---|
| `PoolDirectory` | abstract: what the directory promises its callers | |
| `RcTransport` | queue pairs, completion queues and buffers as RdmaSocket uses them | |
| `DirectoryRpc` | the server and the clients' calls over `RcTransport` | `DirectoryRpcProofs`, `DirectoryRpcRefinement` |
| `PoolData` | abstract: what the remote data calls promise | |
| `RemoteData` | reading and writing another client's pool: requests, RDMA writes and markers | `RemoteDataProofs`, `RemoteDataRefinement` |
| `OneWrite` | abstract: what `RemoteWrite` promises below 1 MB | |
| `ParallelTransfer` | `RemoteWrite`, the transfer workers and their polling queues | `ParallelTransferProofs`, `ParallelTransferRefinement` |
| `PoolLifecycle` | creating, opening, closing and using pools of other nodes | `PoolLifecycleProofs` |
| `Configuration` | the table of nodes and its lookups | `ConnectionsProofs` |
| `BufferSlots` | `GetPeerAddr`: which buffers a node uses for which peer | `ConnectionsProofs` |
| `Connections` | dialing, accepting, reconnecting, and the end of a node | `ConnectionsProofs` |
| `MCDirectoryRpc`, `MCRemoteData`, `MCConnections` | instances for TLC | |

`DirectoryRpc` is built on `RcTransport` and implements `PoolDirectory`.
`PoolLifecycle` uses that a call of the server takes effect at most once: it is one step
there, with its effect or, if the connection fails or the call is lost on a connection
that several threads share, without. That such a caller may also read the answer to
another call is left to `shared_connection` and `stale_answer`.
`RemoteData` implements `PoolData`. It starts where `PoolLifecycle` says "data", and
takes transfers below 1 MB as one RDMA write: `ParallelTransfer` implements `OneWrite`
until a larger one begins.
`Connections` extends `Configuration` and `BufferSlots`; it ends where a connection
has a polling thread, and there the other modules begin.

### PoolDirectory

One map and, per thread, the pending call, its outcome and the last answer. A call
begins, takes effect (`Create`, `Delete`, `Find` are `AddPool`, `DeletePool` and
`GetPool` under the mutex) and returns what that effect gave. A response may be
late, and calls of different threads overlap; this is linearizability of the
directory.

### PoolData

The pool and, per requester, its last call. A get reads each word of its object once,
at moments of its own, and returns them (`ReadWord`, `ReturnGet`); the copies in the
code are not under any lock, so no more is promised, and a get may see half of a
write. A write stores each word of its image exactly once (`StoreWord`) and may return
before that (`ReturnWrite`). Whoever has written makes no further call.

### OneWrite

A call of `RemoteWrite` with fewer cells than a megabyte: the cells arrive one by one in
the order of their addresses, each as it was at the call, and the call returns when the
last is there (`Begin`, `Arrive`, `Return`). No copy, no post and no completion shows.

### RcTransport

Per endpoint (a node's client side or server side): the queue pair's state `qp`,
posted sends `sq`, sends received but not yet acknowledged `acks`, posted receives
`rq`, the completion queue `cq`, and the content of the two buffers `outBuf`
(`my_buf_addr_`) and `inBuf` (`my_buf_addr_ + FOURMB`). `RdmaSend`,
`PollCompletion` and `PollThenRecv` are the operations of `RdmaSocket`. The rest is
the adapters, modelled from the verbs' contract:

* a send reads its buffer when it is transmitted, so `Deliver` copies `outBuf` at
  that moment; it takes a posted receive of the peer and waits for one without
  limit (`rnr_retry = 7` in `ModifyQPtoRTS`);
* the sender's completion needs the acknowledgement (`Ack`), which is a step of its
  own. An acknowledgement normally comes back before the receiver's next message,
  but nothing guarantees it once acknowledgements are coalesced or lost and
  repeated; nodes in `LateAcks` may see them in the other order;
* the link of a node in `Flaky` may fail for good (`LinkDown`); an endpoint with
  unacknowledged sends then gives up (`RetryExceeded`), all its posted work
  completes with an error, and so does what is posted later (`Flush`).

Not modelled here: a completion queue that overflows (128 entries; with one call
at a time per connection at most two are used by a client and the server has at
most one receive and two send completions waiting), messages longer than the
buffers, and the state changes of queue pairs during the handshake.

### DirectoryRpc

Each action is what a thread does between two points where others can interfere:
posting to the adapter and polling. `Call` fills the send buffer and posts;
`PollSend` takes a completion, *any* completion, and only then posts the receive;
`PollRecv` takes the next one; `Return` reads the receive buffer. The four Send
operations differ in the request and in `Outcome`; `SendMessageToServer` stops
after the first completion (`PollGreeting`). On the server `Accept` is one round
of `Accecpt` for a node's first connection; `Poll` is the loop of
`ProcessRequest`; `ServeCreate`, `ServeDelete`, `ServeFind` and `ServeOther` are
the branches of `ProcessRecv` up to the response, with the directory operation
inside, since that is one critical section of `m`; `Reply` copies the response
and posts it; `AwaitSent` is the wait for the send, which again takes any
completion. Error completions are not told from successes, because every caller
tests `PollCompletion`'s -1 as a truth value; only `Poll`, which tests `<= 0`,
drops them.

`effect`, `served` and `swallowed` are history variables: no action reads them.
`by` in a request names the calling thread, for these variables only; the program
has no such field.

Abstracted: pool contents, ip addresses and node ids inside responses beyond the
owner (`PoolInfo`), the wording of messages. Left out: `node_id` of requests is
the true one (`send.node_id = my_node_id_`, set by `ConnectServer`), a node
connects once, nobody stops.

### RemoteData

One owner and some requesters, each one thread with a connection of its own. A
requester posts its request, polls for the send and then either spins on the two
markers in its receive buffer (`SeeBegin`, `SeeEnd`, `TakeResult`) or writes its
frame into the owner's buffer and returns (`PollWritten`). The owner's polling
thread copies the request from the buffer, then gathers the object word by word
into its send buffer and posts an RDMA write (`ServeGet`, `Gather`, `Post`,
`AwaitPosted`), or waits for the markers in its receive buffer and copies the words
to the pool (`ServeWrite`, `AwaitBegin`, `AwaitEnd`, `Scatter`, `Persist`). The
owner's own threads write the pool at any moment (`LocalWrite`).

A buffer is a frame: begin marker, `Size` words, end marker; the marker is the
object's address, as `sprintf("%p")` makes it. `PlaceAtOwner` and
`PlaceAtRequester` bring one cell of a frame at a time into the other side's
memory, in the order of the addresses; the verbs do not promise that order, the
adapters keep it, and the program rests on it. `LateAcks` is as in `RcTransport`:
the wait after an RDMA write may then take the next request's completion.

Requests and the frame do not overlap: `GetPoolData` and `WritePoolData` have the
same size, and the frame of a write begins behind it. Two objects of one transfer
size; the requester's completion of a send needs delivery only, its late
acknowledgement delays nobody else.

`Calm` requesters issue no request after a write. Nothing tells a writer when the
owner has read its request or its frame; the next request overwrites the one and
the next frame the other. The properties speak of calm requesters, and `lost_write`
shows that the others get no guarantee.

`ImplementsPoolData` maps the words gathered so far by the handler of a get to what the
get has read (`ReadSoFar`: they are in the owner's send buffer until the get returns),
and the words its handler has not copied yet to what a write has still to store
(`LeftToStore`).

### ParallelTransfer

Thread 0 is the caller of `RemoteWrite`, the others the workers. Memory is counted
in cells, `Mb` to a megabyte; a cell of the source carries its transfer and its
offset. The source is the send buffer itself, as in both callers of `RemoteWrite`,
and so are the staging areas of `OutboundHamal`. `Stage` copies one cell, `PostWrite`
posts the chunk to the thread's own queue pair, `PollWrite` takes any completion of
the shared queue, `Finish` adds to `transfer_count`. `Place` is the adapter: it reads
a cell of the buffer when it sends it. `transfer_count` is not bounded to 16 bits:
the runs make two transfers.

The queue of a worker is a vector without a lock, `queue`, and an 8-bit counter,
`offset`. `PushPolling` is `PushBack` and `CountPushed`; `PopPolling` is `SeeTask`,
`Take` and `CountTaken`. A push and a pop that change the vector at the same moment,
or a pop from an empty one, have no defined result: the thread gets to
`"undefined"`, and there the model says nothing more about it. The history variable
`early` tells that a call has returned while a worker was not done.

`SmallIsOneWrite` maps a call to `OneWrite` by how many of its cells have arrived
(`Arrived`): none before the post, `placed` while the write is out, all after it. It
claims every step up to the first transfer of 1 MB or more, and none from there on:
that one's workers may still be at work when later small calls run.

### PoolLifecycle

Each node has one calling thread. A call goes through the steps of the code at the
pool's node: `Map` (`pmemobj_create`, `pmemobj_open`) and `Register` (`SendCreatePool`);
`Find`, `Delete` and `Close` (`SendFindPool`, `SendDeletePool`, `pmemobj_close`); `Find`
and `Use`. Whether the calling thread takes them or, for a pool of another node, the
polling thread of its connection while the caller waits, makes no difference to the
state. `mapped` is libpmemobj's: two open pools of a node have different addresses,
and an open file cannot be opened again.

*Connections.* `Connect` enters the connection under the id of the node that answered.
Before its own listener has taken its port (`Listen`) a node dials the server's: if the
server runs on that machine, `ConnectClient` enters 0 and returns true all the same.
`UsePeer` then finds no connection to the pool's node, and the program ends (pc
`"crashed"`), its pools with it. `Connections` has the handshake itself.

*Failures.* A call ends early where the code says so: `Refused`, `MapFails`, `NotFound`,
`FindFails`, `OwnerRefuses`. And it may come to nothing unnoticed: the results of
`SendCreatePool` and `SendDeletePool` are ignored, so `Register` reports a pool that the
server does not know and `Close` closes one it still knows; the reply of `Register` may be
lost, so that a pool is open and registered and its opener does not know. `failed` and
`misdialed` are history variables: only `Cut` reads one, for a caller that goes on
without a connection that failed. `Sound(n)` says that node n runs and lost no
`SendDeletePool`: after that one an entry of the directory has the address of a closed
pool, and who closes by it closes what the node has there now. The properties name
which failure excuses what; all others do not matter to them.

`held` are the pools whose creation or opening was reported to a node and which it
has not begun to close. Closing and asking for the root is done for held pools, as in
`testRead.cpp` and `testWrite.cpp`; data is read and written in any pool, as in
`testGetPoolObj.cpp`.

Not modelled here: wrong answers (see above), calls over a connection that has failed,
the restart of a node whose program ended, accepted connections, several calling
threads per node.

### Connections

Per client a main thread (`main`: constructor, then dials, then destructor), per node
a listener thread (`listener`). A connection is a pair of a client and a number; its
two *ends* are the `PeerConnection` objects, with the state `obj` and the messages of
`ConnectQueuePair` each has written (`wrote`). A message is the id or the queue pair
data; what a node sends it with is fixed when it begins, so `Dial` and `Accept`
contain the first write and `SwapIds` the second. `Enter` is the replacement of an
entry of `peers`, `Spawn` the posting of receives and the start of the polling
thread, `KillOld` the end of the one before; between them the old thread works on
the deleted object. `Stop`, `ListenerEnds`, `DeletePeers`, `KillPollers` are the
destructors in their order.

`Reaches` is where a dial arrives. `sock_port_` is one field for dialing and
listening, and `RdmaListen` adds one to it: before its listener thread has run, a
client dials the server's port. If that machine runs the server, as with `conf.xml`
for client 1, it gets the server's connection, and enters it under id 0.

Reads may time out after 3 s (`Failed`), accepted sockets inherit the timeout from
the listening one; `faults` counts timeouts although the other side lives, and
processes that die (`Restart`). A read at the end of file returns 0, which ends
neither loop: `WaitsForDead`. Sockets are never closed by a node that gave up.

Assumed: one client per machine; a client calls `ConnectClient` with the ids of
other listed clients (`Targets`). The program would also call it with 65535, the id
of an owner that is not listed, when such a pool is found; `getIPbyID` then returns
"Not Found", which `inet_aton` refuses, and the node dials itself.

Abstracted: which threads of a node dial (one at a time here), the two accesses to
the unordered map of another thread at the same moment, libibverbs calls that fail,
an `accept` that fails otherwise than with EWOULDBLOCK and ends the accept loop,
the exit of a polling thread that sees `is_running_` false before it is killed.

## 3. Runs

| run | what it shows |
|---|---|
| `rpc` (`DirectoryRpc.cfg`) | two nodes, one thread each, one call more than there are receives, links work, n2 acknowledges late: the calls implement `PoolDirectory` (`ImplementsDirectory`), a prompt node loses no request (`NothingSwallowed`), caller and server never both wait for nothing (`NoCallStuck`), and every call that has a receive returns unless its request was swallowed (`CallsReturn`, with fairness) |
| `rpc_faults` (`DirectoryRpcFaults.cfg`) | n1's link may fail, t2 also greets: `TypeOK`, `OwnersConnected`, `AnswerIsEffect`, `ServedAtMostOnce` |
| `lost_request` (violation) | with late acknowledgements a request is swallowed and its caller spins for ever (`RequestsProcessed`) |
| `stale_answer` (violation) | after a link failure a call returns success that nobody served (`SuccessMeansServed`) |
| `shared_connection` (violation) | two threads of a node get each other's answers (`ResponseIsForThisCall`) |
| `remote_data` (`RemoteData.cfg`) | two requesters and the owner on one object: writes under way reach the pool (`WriteLands`) and reads that have a receive return, whatever earlier calls left (`ReadsReturn`), with fairness; the calls implement `PoolData` (`ImplementsPoolData`) |
| `remote_objects` (`RemoteObjects.cfg`) | two objects, late acknowledgements: `TypeOK`, `ReadFresh`, `CompleteOnCopy`, and the calls implement `PoolData` (`ImplementsPoolData`) |
| `lost_write` (violation) | two writes of one object: the second never reaches the pool (`WritesReachPool`) |
| `transfer` (`ParallelTransfer.cfg`) | small and large transfers in a row: `TypeOK`, `SmallExact`, no cell is lost, sent twice or sent out of order while no worker is behind (`NoGap`), no two threads in a queue's vector unless a call returned too early before (`QueueSafe`), as many completions as threads that wait (`CompletionsSuffice`), small calls implement `OneWrite` (`SmallIsOneWrite`), and with fairness `TasksFinish` |
| `tail_marker` (violation) | above 1 MB head and tail are there before the rest (`TailMeansAll`) |
| `connections` (`Connections.cfg`) | the server and both clients of `conf.xml` dial each other in every order; one client may stop, the other die and come back: `TypeOK`, `PeersGood`, `PollersUseLive`, `OnePoller`, `NothingRunsOn`, `BothEndsLive`, and with fairness `HandshakesEnd`, `DialedGetsServed`, `StopReturns` |
| `lifecycle` (`PoolLifecycle.cfg`) | two nodes work on each other's pools, any call of the server may fail, one may misdial and end: `TypeOK`, `RegisteredIsOpen`, `HeldCanBeFound`, `UsesOpenPool`, `PeerKnown`, `NoOrphans`, and with fairness `ClosedInTheEnd` |

**Bounds of the calls (`rpc`, `rpc_faults`).** Two connections with one thread each, one
pool, one address per node: the calls of two connections race for the same pool in
every order (create/create, create/delete, find/delete), and the second call of a
connection meets everything the first may leave behind (an unpolled completion, an
old response, a late acknowledgement). `rpc` has three calls per thread and `Depth` = 2,
`rpc_faults` two of each. The program posts 128 receives once, and its call 129 waits at
the sender for ever; so does the third call of `rpc`. `CallsReturn` and `NoCallStuck`
therefore speak of the first `Depth` calls of a connection. Nothing else in the
model depends on the number, and the proofs leave all of these open. The runs stop
when all calls are made, hence no deadlock check.

**Bounds of the data.** `remote_data` has two requesters on one object of two words, with
prompt acknowledgements, so that reads, writes and the owner's own write overlap word by
word. One reads three times with `Depth` = 2, so its second read meets what the first
left, and its third waits for a receive for ever; the other reads and then writes.
`remote_objects` has one requester with late acknowledgements whose second read and whose
write meet whatever the first read left, of the same object or of another. Requesters
share nothing but the pool, so a third adds no new kind of step. Two words tell a part
of a frame from the whole.

**Bounds of the transfer.** Two workers, as in the program. `Mb` = 3, `Align` = 1: sizes 2
(below a megabyte, two cells, so that a part of it may have arrived), 3 (exactly a
megabyte: a part of one cell per worker and a rest for the caller) and 8 (two chunks
per worker, no rest), two transfers in a row in any order, so a second one meets
the worker, the completions and the staged cells the first left behind.

**Bounds of the lifecycle.** Two nodes with two files each and one address per node,
so a node's pools follow each other at the same address; two calls per node, so one opens
and closes what the other opens, looks for or reads. Any of their calls of the server and
any reply may fail. One node is on the server's machine, as with `conf.xml`, so the
other may misdial and end, in the middle of calls to its pools. The proofs need no bounds.

**Bounds of the connections.** Two dials per client: one to the server and one to the
other client, or to the server again after a restart. One fault: a timeout at any
read or the death of b at any point, so that a dead end meets every state of the
other side. Both clients have each other as target, so their dials cross. A third
client would only repeat one of the two.

**Fairness.** The threads spin without blocking, so each gets to run
(`ThreadStep`, `PollThreadStep`); the listener accepts; the adapters deliver,
acknowledge and give up. No fairness on `Call`, `ConnectServer` and `LinkDown`:
nobody has to call, nothing has to fail. `RemoteData` and `ParallelTransfer` assume the
same of their threads and of the adapters; `TasksFinish` holds although the threads
take each other's completions, because there are as many to come as threads that
wait (`CompletionsSuffice`). In `PoolLifecycle` whoever works on a call goes on with it: a
call of the server returns, with or without effect (`CallsReturn` of `DirectoryRpc`; the code
has no timeout, and after a call that never returns nothing more happens to that pool). No
fairness on `Listen`. In `Connections` the main thread and
the listener of each node go on when they can; a read that waits for a living node
ends after 3 s, one that waits for a dead process need not. Nobody has to dial
another client, to stop or to die.

**What the code does not promise of connections.** `PollersUseLive` and
`BothEndsLive` except two nodes that dialed each other: each side may enter the
connection it accepted and then the one it dialed, which deletes the other, in
opposite orders. Each then holds an end whose other end is deleted, and a polling
thread is left on freed memory. `HandshakesEnd` and `StopReturns` except a listener
that waits for a dead process in `SockSyncData`: it never returns, and neither does
the destructor that joins it.

**Orderly threads.** `AnswerIsEffect`, `ServedAtMostOnce`, `NothingSwallowed`,
`NoCallStuck` and `CallsReturn` speak of threads that have their node's connection to themselves and
do not greet. The code gives no other thread any guarantee, as
`shared_connection` shows.

### Findings

1. `ProcessRecv` polls for its own send completion and drops what it gets. With a
   late acknowledgement this is the next request (`lost_request`).
2. `PollCompletion`'s -1 is true: all "failed" branches of the callers are dead,
   and the stale buffer, whose zeros mean SUCCESS, is taken for the response
   (`stale_answer`).
3. Handlers in polling threads share `peers[0]` with the main thread without a
   lock (`shared_connection`).
4. The owner takes the markers of an earlier write for those of the current one,
   because the request comes before the data and the buffer is never cleared; the
   second write of an object is lost although it returned (`lost_write`).
5. From 1 MB on, the end marker says nothing about the bytes before it, and the
   staging areas overwrite bytes that are still to be sent (`tail_marker`).

## 4. Proofs

`DirectoryRpcProofs` and `DirectoryRpcRefinement` hold for any finite or infinite
sets of nodes, threads, pools and addresses, any `Depth` and `MaxCalls`, any
`LateAcks` and `Flaky`. Assumptions: `TransportAssumption` and `RpcAssumption`,
which only give the constants their types.

* `TypeCorrect`: `Spec => []TypeOK`, inductive as it stands.
* `Invariant`: `Spec => []IInv`. None of the properties below is inductive: that
  the answer is the effect depends on where the request and its response can be.
  `IInv` adds
  * `Provenance`: a request on a connection comes from a thread of that node, and
    names that node as owner; a polling thread runs only for a registered peer;
  * per orderly thread `LinkInv`: `OnePlace` (a request is posted, arrived or being
    served, or its response is being prepared or posted, never two of these),
    `ClientEnd` (what is posted and completed at each point of a call),
    `CallCopies` (all copies of the call agree; a request under way is not yet
    counted as served), `Exchange` (while the client's queue pair works: the
    request under way is the current call, the response on its way carries its
    effect), `ServerWait` (the server's wait has a completion to expect, and
    without late acknowledgements no request in front of it).

  The proof takes each action of the thread's own connection in a lemma of its own
  (`LinkCall` ... `LinkServerGivesUp`); every other action leaves the exchange
  alone (`Untouched`, `LinkFrame`), which is where `Orderly` and `Provenance` are
  needed.
* `OwnersAlwaysConnected`, `AnswersAreEffects`, `NeverServedTwice`,
  `PromptNotSwallowed`: what the runs check, from `IInv`.
* `FlowInvariant`: `Spec => []FlowInv`, a second invariant on top of `IInv`, and from it
  `CallsNeverStuck`. `IInv` says that a request is in at most one place; that it is in
  some place is `NotLost`, and holds only while the link works and nothing was swallowed
  (`Alive`). `ReceivesOK` is the account of the server's receives: each request that was
  made and is not posted any more has used one of the `Depth`.
* `Refinement`: if no link is flaky and every thread is orderly,
  `Spec => ImplementsDirectory`. A call begins at `Call`, takes effect at
  `ServeCreate`, `ServeDelete` or `ServeFind` and returns at `Return`; all other
  steps stutter.

`PoolLifecycleProofs` holds for any nodes, files and addresses and any `MaxCalls`, from
`LifecycleAssumption` (types, and that `Null` is no address, entry or call).

* `LifecycleInvariant`: `Spec => []IInv`. None of the properties is inductive: that
  `pmemobj_close` gets the address of its own pool depends on nobody else closing or
  opening it between `Find` and `Close`. `IInv` makes this explicit. A caller is
  *responsible* for a pool while it holds it, between mapping and registering it,
  and from the begin of a close to its end. At a `Sound` node, `OneResponsible`: never two
  at a time; `ResponsibleIsOpen`: what somebody is responsible for is open, and
  `OpenIsResponsible`: what is open without is left from a failed call; `Progress`: what
  the directory and the addresses are at each step of the responsible caller;
  `OwnAddress`: open pools of a node have different addresses; `StepsFit`, `HeldAlone` and
  `Connected` (a step that uses a connection has it) complete it. All of it is
  conditional on soundness, so each action needs that soundness after the step means
  soundness before it (`SoundBefore`), and the end of a process is a case of its own (`Crash`).
* `DirectoryTellsTruth`, `HandlesStayGood`, `ClosesItsOwnPool`, `ConnectionIsThere`,
  `EveryOpenPoolHasACloser`, `LifecycleTypes`: the safety properties of the run, with
  failing calls and misdials. The exceptions are part of each: a pool is not found if
  its own registration failed, a connection is missing only after a misdial.

`ConnectionsProofs` holds for any clients, addresses, table, `MAX_CLIENT_NUM`,
targets and number of dials and faults, from `ConnectionsAssumption`,
`ConfigurationAssumption` (what the constructor accepts) and `SlotsAssumption`.

* `LookupsInverse`, `SlotsDisjoint`: facts about the table and about `GetPeerAddr`.
* `ConnectionsInd`: `Spec => []IndInv`. That a polling thread's object is live is not
  inductive: whether `Enter` deletes the object another thread polls depends on what
  the maps hold. `IndInv` says where a connection can be (`ConnsOK`, `BacklogOK`),
  what each thread holds at each point (`MainOK`, `ListenerOK`), what the entries of
  `peers` and of the thread table are (`EntriesOK`, `ThreadsOK`, `PollingOK`), and that
  they agree except where a dial crossed an accept (`SameOK`, `NextOK`).
* `AcceptsInOrder`: `Spec => []OrderInv`, a second invariant on top of `IndInv`. That the
  accepting end of a client's latest connection is not deleted rests on the order in
  which a node accepts: `QueueInOrder` and `WaitingIsLater` say that what waits in a
  backlog was dialed after what was accepted, `InHandIsLatest` that what the listener is
  about to enter is the latest, so that what it replaces has been dialed again
  (`DeletedExcused`).
* `ConnectionsTypeOK`, `EntriesGood`, `PollersLive`, `PollersMatch`,
  `AllThreadsJoined`, `DialedEndsLive`: the safety properties of the run.

`ParallelTransferProofs` holds for any sizes up to 4 MB, any megabyte, alignment and
number of transfers and one to three workers (as many as have a staging area), from
`TransferAssumption`.

* `TransferInvariant`: `Spec => []IInv`. `PartsOK` and `WritesOK` keep every part, staged
  chunk and posted write inside its buffer, whichever completion a thread took.
  `QueueOK` says how a vector and its counter can differ while a push or a pop is
  under way (`CounterFits`), as long as no worker is behind (`InStep`). `SmallOK`: before
  the first large transfer the caller is alone, and its one write is where its step
  says.
* `InStepInvariant`: a second invariant on top of `IInv`. While no worker is behind
  (`InStepOK`), a thread's posted writes are one chain that ends where it has handed on
  (`Chained`), and the cells of this transfer at the peer are those before the chain
  (`ArrivedInOrder`); `AgeOK` says that buffer and peer hold cells of no later transfer, so
  that the cells of the current one are told from what was there. `CountOK` gives what a
  transfer begins with: where nobody waits for a completion, no write is left posted.
* `TransferTypes`, `SmallTransfersExact`, `QueueSafeTheorem` from the first, `NoGapTheorem`
  from the second: the safety properties of the run.
* `CompletionsCounted`: `Spec => []CompletionsSuffice`. The set of threads that wait and
  the set of writes posted change by one element in a step; inductive as it stands,
  given the types. It holds in every transfer, not in the first one only.
* `SmallRefinement` (in `ParallelTransferRefinement`): `Spec => SmallIsOneWrite`. In each
  of the four situations `SmallOK` leaves the caller, `Arrived` has one value; `BeginSmall`
  is `Begin`, `Place` is `Arrive`, `Finish` is `Return`, and the other steps stutter.

`RemoteDataProofs` holds for any requesters and scripts, objects, words and sizes, any
`Depth`, number of local writes and `LateAcks`, from `DataAssumption`.

* `DataInvariant`: `Spec => []IInv`. Whether a word is fresh depends on how far the call
  that asked for it has got, in four places at once: the requester, the wire, the
  owner's completion queue and its polling thread. `CalmOK` gives for a read the only
  combinations there are (`Asking`, `Asked`, `Received`, `Gathering`, `Answering`,
  `Answered`), with what the two buffers hold in each; for the last write of a
  requester `WriteData` and `WriteServed`. `Sane` holds for all requesters, calm or not:
  nothing is used before it is there.
* `DataTypes`, `ReadsFresh`, `CopiesComplete`: the safety properties of the runs.
* `PoolRefinement` (in `RemoteDataRefinement`): if every requester is calm,
  `Spec => ImplementsPoolData`. A call begins at `Get` or `Write`, reads at `Gather`, stores
  at `Scatter` and returns at `TakeResult` or `PollWritten`; all other steps stutter. `IInv`
  does not tell enough: that an answer is fresh does not say that it is what was
  gathered for this call, and a request whose completion is still queued after its
  write was stored would be served twice. `AnswerOK` says both (`RInv`).

**Only model-checked.** Liveness is out of the prover's reach: `CallsReturn` and `ReadsReturn` (of the
first `Depth` calls), `WriteLands`, `TasksFinish`, `ClosedInTheEnd`, `HandshakesEnd`, `DialedGetsServed` and
`StopReturns` hold on the instances above; `NoCallStuck` and `CompletionsSuffice` are
proved parts of what they rest on. All safety properties and the three refinements of the
passing runs are proved.

## 5. Not modelled

* `RemoteRead`, `InboundHamal` and `RdmaRead`: nothing calls `RemoteRead`. (`RdmaRead`
  passes `des_offset` where the length belongs.)
* `addClient`, `deleteClientByID`, `deleteClientByIP`, `is_new_client_`, `max_node_id_`,
  `push`, `pop` and `size` of `Queue`: never run. (`addClient` takes only an
  id that is already there, and the deletes look up what they have just erased.)
* Set-up of the device and what libibverbs may refuse in the middle of a handshake:
  straight-line calls, whose failure the callers answer like a failed read.
* Parsing of `conf.xml`, logging, `RunServer`, `RunClient`, `RunClient2`, the tests: I/O and
  drivers. The tests and drivers show which calls are made, and in which order.
* Two threads inside the unordered map `peers`, or two callers of `RemoteWrite` at once:
  the code has nothing that keeps them apart, so there is no property to state.
* The wrap of the queue's 8-bit counter: it is in the model, but takes 256 transfers
  that each leave a task behind.
* The detached workers after `~RdmaSocket`, which go on reading its freed queues until
  the process ends.
* Transfers of 1 MB and more as part of a call of `RemoteData`: after `tail_marker` nothing
  can be said of what the reader gets.

