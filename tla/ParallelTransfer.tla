---- MODULE ParallelTransfer ----
(***************************************************************************)
(* RdmaSocket::RemoteWrite and the transfer workers.  Below 1 MB the       *)
(* caller sends the bytes itself (OutboundHamal with worker id 0).  From   *)
(* 1 MB on it cuts them into a part per worker and a rest, queues the      *)
(* parts, sends the rest and waits on transfer_count.                      *)
(*                                                                         *)
(* Every thread stages its bytes, 1 MB at a time, in an area of the send   *)
(* buffer, the buffer that also holds the bytes to send: both handlers     *)
(* pass it as the source.  All queue pairs of a peer report to one         *)
(* completion queue, and a completion does not name its queue pair.        *)
(*                                                                         *)
(* The tasks go through the polling queue of Global.hpp, a vector that both *)
(* threads change without a lock and a counter of eight bits.              *)
(*                                                                         *)
(* Memory is counted in cells; Mb cells are 1 MB.  A cell of the source    *)
(* carries the transfer it belongs to and its own offset.                  *)
(***************************************************************************)
EXTENDS Integers, Sequences, FiniteSets

CONSTANTS
    WORKER_NUMBER,  \* the transfer workers are 1..WORKER_NUMBER
    Mb,             \* cells in ONEMB
    Align,          \* parts are multiples of this many cells (4 KB)
    Sizes,          \* sizes callers ask for
    MaxTransfers,   \* bound: calls of RemoteWrite
    Blank, Null

Workers == 1..WORKER_NUMBER
Caller == 0
Threads == {Caller} \union Workers
Offsets == 0..(4 * Mb - 1)      \* a send or receive buffer of FOURMB

Least(a, b) == IF a < b THEN a ELSE b

\* ship_size, and the parts: worker w's (queue_[w - 1]) and the caller's rest.
ShipSize(size) == ((size \div WORKER_NUMBER) \div Align) * Align
Part(size, t) ==
    IF t = Caller
    THEN [off |-> WORKER_NUMBER * ShipSize(size), len |-> size - WORKER_NUMBER * ShipSize(size)]
    ELSE [off |-> (t - 1) * ShipSize(size), len |-> ShipSize(size)]
Whole(size) == [off |-> 0, len |-> size]
Tasks == [off : Offsets \union {4 * Mb}, len : 0..(4 * Mb)]

\* The staging area of OutboundHamal: my_buf_addr_ + worker_id * ONEMB.
Staging(t) == t * Mb

\* What a cell can hold: which transfer it belongs to, and where.
Bytes == (1..MaxTransfers) \X Offsets

\* Transfers and workers fit into a buffer.
ASSUME TransferAssumption ==
    /\ WORKER_NUMBER \in 1..3
    /\ Mb \in Nat \ {0}
    /\ Align \in Nat \ {0}
    /\ Sizes \subseteq 1..(4 * Mb)
    /\ MaxTransfers \in Nat
    /\ Blank \notin Bytes
    /\ Null \notin Tasks

VARIABLES
    buf,        \* the send buffer
    target,     \* the peer's receive buffer
    size,       \* size of the current transfer
    transfers,  \* calls of RemoteWrite so far
    pushed,     \* how many tasks of the current transfer are queued
    queue,      \* queue[w]: the vector of queue_[w - 1]
    offset,     \* offset[w]: its counter
    transfer_count,
    pc,         \* pc[t]: where thread t is
    task,       \* task[t]: the part it sends, or Null
    total,      \* total[t]: total_size, what it has sent of it
    staged,     \* staged[t]: cells of the current chunk it has copied
    posts,      \* posts[t]: writes posted to queue pair t and not complete
    placed,     \* placed[t]: cells of the first of them that arrived
    cq,         \* completions not yet polled
    large,      \* history: a transfer of 1 MB or more was begun
    early       \* history: RemoteWrite returned while a worker was not done

callerVars == <<size, transfers, pushed, large, early>>
queueVars == <<queue, offset>>
threadVars == <<pc, task, total, staged>>
wireVars == <<posts, placed, cq>>
vars == <<buf, target, callerVars, queueVars, transfer_count, threadVars, wireVars>>

Init ==
    /\ buf = [o \in Offsets |-> Blank]
    /\ target = [o \in Offsets |-> Blank]
    /\ size = 0
    /\ transfers = 0
    /\ pushed = 0
    /\ queue = [w \in Workers |-> <<>>]
    /\ offset = [w \in Workers |-> 0]
    /\ transfer_count = 0
    /\ pc = [t \in Threads |-> IF t = Caller THEN "idle" ELSE "pop"]
    /\ task = [t \in Threads |-> Null]
    /\ total = [t \in Threads |-> 0]
    /\ staged = [t \in Threads |-> 0]
    /\ posts = [t \in Threads |-> <<>>]
    /\ placed = [t \in Threads |-> 0]
    /\ cq = 0
    /\ large = FALSE
    /\ early = FALSE

-----------------------------------------------------------------------------
(* RemoteWrite *)

Goto(t, l) == pc' = [pc EXCEPT ![t] = l]

\* Two threads were in a vector at once, or one took from an empty one: nothing is
\* known of the program any more.
Undefined == pc' = [t \in Threads |-> "undefined"]

\* Thread t enters OutboundHamal with the part p.
EnterHamal(t, p) ==
    /\ task' = [task EXCEPT ![t] = p]
    /\ total' = [total EXCEPT ![t] = 0]
    /\ staged' = [staged EXCEPT ![t] = 0]
    /\ Goto(t, "stage")

\* A handler has built n cells in the send buffer (the rest of it is cleared) and
\* calls RemoteWrite.
BeginTransfer(n) ==
    /\ pc[Caller] = "idle"
    /\ transfers < MaxTransfers
    /\ transfers' = transfers + 1
    /\ size' = n
    /\ buf' = [o \in Offsets |-> IF o < n THEN <<transfers + 1, o>> ELSE Blank]
    /\ UNCHANGED <<target, early, queueVars, wireVars>>

BeginSmall ==
    /\ \E n \in Sizes : n < Mb /\ BeginTransfer(n) /\ EnterHamal(Caller, Whole(n))
    /\ UNCHANGED <<pushed, transfer_count, large>>

BeginLarge ==
    /\ \E n \in Sizes : n >= Mb /\ BeginTransfer(n)
    /\ transfer_count' = 0
    /\ pushed' = 0
    /\ large' = TRUE
    /\ Goto(Caller, "push")
    /\ UNCHANGED <<task, total, staged>>

\* PushPolling: push_back.  When the worker is about to take a task, both change the
\* vector at the same time.
PushBack ==
    LET w == pushed + 1 IN
    /\ pc[Caller] = "push"
    /\ pushed < WORKER_NUMBER
    /\ pushed' = w
    /\ queue' = [queue EXCEPT ![w] = Append(@, Part(size, w))]
    /\ IF pc[w] = "take" THEN Undefined ELSE Goto(Caller, "count")
    /\ UNCHANGED <<buf, target, size, transfers, large, early, offset, transfer_count,
                   task, total, staged, wireVars>>

\* PushPolling: the counter.
CountPushed ==
    /\ pc[Caller] = "count"
    /\ offset' = [offset EXCEPT ![pushed] = (@ + 1) % 256]
    /\ Goto(Caller, "push")
    /\ UNCHANGED <<buf, target, callerVars, queue, transfer_count, task, total, staged, wireVars>>

SendRest ==
    /\ pc[Caller] = "push"
    /\ pushed = WORKER_NUMBER
    /\ EnterHamal(Caller, Part(size, Caller))
    /\ UNCHANGED <<buf, target, callerVars, queueVars, transfer_count, wireVars>>

\* A worker with nothing to do.
Done(w) == pc[w] = "pop" /\ queue[w] = <<>>

\* while (transfer_count != WORKER_NUMBER) ended.
Return ==
    /\ pc[Caller] = "wait"
    /\ transfer_count = WORKER_NUMBER
    /\ Goto(Caller, "idle")
    /\ early' = (early \/ \E w \in Workers : ~Done(w))
    /\ UNCHANGED <<buf, target, size, transfers, pushed, large, queueVars, transfer_count,
                   task, total, staged, wireVars>>

\* Mutant of SeeTask: the vector is looked at without the counter.
SeeTaskUncounted(w) ==
    /\ pc[w] = "pop"
    /\ Goto(w, "take")
    /\ UNCHANGED <<buf, target, callerVars, queueVars, transfer_count, task, total, staged, wireVars>>

\* PopPolling: while (offset == 0) ended.
SeeTask(w) ==
    /\ pc[w] = "pop"
    /\ offset[w] # 0
    /\ Goto(w, "take")
    /\ UNCHANGED <<buf, target, callerVars, queueVars, transfer_count, task, total, staged, wireVars>>

\* PopPolling: front and erase.
Take(w) ==
    /\ pc[w] = "take"
    /\ IF queue[w] = <<>>
       THEN Undefined /\ UNCHANGED <<queue, task>>
       ELSE /\ task' = [task EXCEPT ![w] = Head(queue[w])]
            /\ queue' = [queue EXCEPT ![w] = Tail(@)]
            /\ Goto(w, "uncount")
    /\ UNCHANGED <<buf, target, callerVars, offset, transfer_count, total, staged, wireVars>>

\* PopPolling: the counter; the worker goes on to OutboundHamal.
CountTaken(w) ==
    /\ pc[w] = "uncount"
    /\ offset' = [offset EXCEPT ![w] = (@ - 1) % 256]
    /\ EnterHamal(w, task[w])
    /\ UNCHANGED <<buf, target, callerVars, queue, transfer_count, wireVars>>

-----------------------------------------------------------------------------
(* OutboundHamal *)

ChunkLength(t) == Least(task[t].len - total[t], Mb)

\* The next of n cells is copied into the staging area.
StageOf(t, n) ==
    /\ pc[t] = "stage"
    /\ staged[t] < n
    /\ buf' = [buf EXCEPT ![Staging(t) + staged[t]] = buf[task[t].off + total[t] + staged[t]]]
    /\ staged' = [staged EXCEPT ![t] = @ + 1]
    /\ UNCHANGED <<target, callerVars, queueVars, transfer_count, pc, task, total, wireVars>>

\* Mutant of Stage: the copy runs one cell too far.
StageTooFar(t) == StageOf(t, ChunkLength(t) + 1)

\* The memcpy.
Stage(t) == StageOf(t, ChunkLength(t))

\* RdmaWrite of the staged chunk to dst.
PostChunk(t, dst) ==
    /\ pc[t] = "stage"
    /\ total[t] < task[t].len
    /\ staged[t] = ChunkLength(t)
    /\ posts' = [posts EXCEPT ![t] =
                   Append(@, [src |-> Staging(t), dst |-> dst, len |-> ChunkLength(t)])]
    /\ UNCHANGED <<buf, target, callerVars, queueVars, transfer_count, task, placed, cq>>

NextChunk(t) ==
    /\ total' = [total EXCEPT ![t] = @ + ChunkLength(t)]
    /\ staged' = [staged EXCEPT ![t] = 0]

\* Mutant of PostWrite: no completion is awaited.
PostWriteNoPoll(t) == PostChunk(t, task[t].off + total[t]) /\ NextChunk(t) /\ UNCHANGED pc

\* Mutant of PostWrite: every chunk goes to the begin of the part.
PostWriteSamePlace(t) ==
    PostChunk(t, task[t].off) /\ Goto(t, "poll") /\ UNCHANGED <<total, staged>>

PostWrite(t) ==
    PostChunk(t, task[t].off + total[t]) /\ Goto(t, "poll") /\ UNCHANGED <<total, staged>>

PollSome(t, n) ==
    /\ pc[t] = "poll"
    /\ cq > 0
    /\ cq' = cq - n
    /\ NextChunk(t)
    /\ Goto(t, "stage")
    /\ UNCHANGED <<buf, target, callerVars, queueVars, transfer_count, task, posts, placed>>

\* Mutant of PollWrite: PollCompletion takes all completions there are.
PollWriteAll(t) == PollSome(t, cq)

\* PollCompletion: whichever write completed.
PollWrite(t) == PollSome(t, 1)

\* The loop is over; __sync_fetch_and_add(&transfer_count, 1).  A small transfer
\* returns now, a large one goes on to wait.
Finish(t) ==
    /\ pc[t] = "stage"
    /\ total[t] = task[t].len
    /\ transfer_count' = transfer_count + 1
    /\ Goto(t, IF t \in Workers THEN "pop" ELSE IF size < Mb THEN "idle" ELSE "wait")
    /\ UNCHANGED <<buf, target, callerVars, queueVars, task, total, staged, wireVars>>

-----------------------------------------------------------------------------
(* The adapter *)

\* The next cell of queue pair t's oldest write arrives, read from the buffer as
\* it is now; with the last one the write completes.
Place(t) ==
    LET write == Head(posts[t])
        last == placed[t] + 1 = write.len
    IN
    /\ posts[t] # <<>>
    /\ target' = [target EXCEPT ![write.dst + placed[t]] = buf[write.src + placed[t]]]
    /\ placed' = [placed EXCEPT ![t] = IF last THEN 0 ELSE @ + 1]
    /\ posts' = [posts EXCEPT ![t] = IF last THEN Tail(@) ELSE @]
    /\ cq' = IF last THEN cq + 1 ELSE cq
    /\ UNCHANGED <<buf, callerVars, queueVars, transfer_count, threadVars>>

-----------------------------------------------------------------------------
HamalStep(t) == Stage(t) \/ PostWrite(t) \/ PollWrite(t) \/ Finish(t)
CallerStep == PushBack \/ CountPushed \/ SendRest \/ Return \/ HamalStep(Caller)
WorkerStep(w) == SeeTask(w) \/ Take(w) \/ CountTaken(w) \/ HamalStep(w)

Next ==
    \/ BeginSmall \/ BeginLarge \/ PushBack \/ CountPushed \/ SendRest \/ Return
    \/ \E w \in Workers : SeeTask(w) \/ Take(w) \/ CountTaken(w)
    \/ \E t \in Threads : Stage(t) \/ PostWrite(t) \/ PollWrite(t) \/ Finish(t) \/ Place(t)

Spec == Init /\ [][Next]_vars

\* The threads spin without blocking, the adapter works off its queue pairs.
\* Weak fairness of the threads is enough although they take each other's
\* completions: there are always as many to come as threads that wait.
Fairness ==
    /\ WF_vars(CallerStep)
    /\ \A w \in Workers : WF_vars(WorkerStep(w))
    /\ \A t \in Threads : WF_vars(Place(t))

FairSpec == Spec /\ Fairness

-----------------------------------------------------------------------------
TypeOK ==
    /\ buf \in [Offsets -> Bytes \union {Blank}]
    /\ target \in [Offsets -> Bytes \union {Blank}]
    /\ size \in 0..(4 * Mb)
    /\ transfers \in 0..MaxTransfers
    /\ pushed \in 0..WORKER_NUMBER
    /\ queue \in [Workers -> Seq(Tasks)]
    /\ offset \in [Workers -> 0..255]
    /\ transfer_count \in Nat
    /\ pc \in [Threads -> {"idle", "push", "count", "wait", "pop", "take", "uncount", "stage",
                           "poll", "undefined"}]
    /\ task \in [Threads -> Tasks \union {Null}]
    /\ total \in [Threads -> 0..(4 * Mb)]
    /\ staged \in [Threads -> 0..Mb]
    /\ posts \in [Threads -> Seq([src : Offsets, dst : Offsets, len : 1..Mb])]
    /\ placed \in [Threads -> 0..(Mb - 1)]
    /\ cq \in Nat
    /\ large \in BOOLEAN /\ early \in BOOLEAN

\* A transfer below 1 MB is complete and right when RemoteWrite returns, as long as
\* no large one came before: one of its workers may still take completions.
SmallExact ==
    (~large /\ pc[Caller] = "idle") =>
        \A o \in 0..(size - 1) : target[o] = <<transfers, o>>

\* How much of a small transfer is at the peer.
Arrived ==
    IF posts[Caller] # <<>> THEN placed[Caller]
    ELSE IF pc[Caller] = "stage" /\ total[Caller] = 0 THEN 0 ELSE size

Write == INSTANCE OneWrite WITH busy <- pc[Caller] # "idle", arrived <- Arrived

\* Until a transfer of 1 MB or more begins, RemoteWrite with its staging, its posts and its
\* polls is one RDMA write, which the protocol of RemoteData takes it for.
SmallIsOneWrite == Write!Init /\ [][large' \/ Write!Next]_(Write!vars)

\* No worker is behind: RemoteWrite has always waited for all of them so far, or this is
\* the first transfer.
InStep == ~early \/ transfers = 1

\* Who sends what of the current transfer, and how much of it has gone to the queue pair.
Senders == IF size < Mb THEN {Caller} ELSE Threads
Share(t) == IF size < Mb THEN Whole(size) ELSE Part(size, t)
HasBegun(t) ==
    IF t = Caller THEN pc[t] \notin {"push", "count"}
    ELSE t <= pushed /\ queue[t] = <<>> /\ pc[t] # "uncount"
Handed(t) ==
    IF HasBegun(t) THEN total[t] + (IF pc[t] = "poll" THEN ChunkLength(t) ELSE 0) ELSE 0

\* How much of it is at the peer, if its writes follow each other.
AtPeer(t) ==
    IF posts[t] = <<>> THEN Handed(t) ELSE posts[t][1].dst + placed[t] - Share(t).off

\* Although a thread may go on with another one's completion, no cell of its part is lost,
\* sent twice or sent out of order: the writes it has posted follow each other up to what
\* it has handed on, and the cells of this transfer at the peer are exactly those before
\* them.  (They may hold what another thread staged over them in the send buffer.)
NoGap ==
    (InStep /\ transfers > 0) =>
      \A t \in Senders :
        /\ \A i \in 1..Len(posts[t]) :
             posts[t][i].dst + posts[t][i].len =
               IF i < Len(posts[t]) THEN posts[t][i + 1].dst ELSE Share(t).off + Handed(t)
        /\ \A i \in 0..(Share(t).len - 1) :
             (target[Share(t).off + i] \in {transfers} \X Offsets) <=> i < AtPeer(t)

\* A completion does not say whose it is, and any thread takes it; but there are exactly
\* as many, queued or still to come, as threads that wait for one in PollCompletion, so
\* none of them waits for ever and none is left for the next transfer to find.
Waiting == {t \in Threads : pc[t] = "poll"}
Outstanding == UNION {{t} \X (1..Len(posts[t])) : t \in Threads}
CompletionsSuffice ==
    pc[Caller] # "undefined" => Cardinality(Waiting) = cq + Cardinality(Outstanding)

\* Every queued part is sent and its worker is ready for the next, and the caller
\* gets through its own part, however the completions are mixed up.
TasksFinish ==
    /\ \A w \in Workers : (queue[w] # <<>>) ~> (Done(w) \/ pc[w] = "undefined")
    /\ (pc[Caller] = "stage") ~> (pc[Caller] \in {"wait", "idle", "undefined"})

\* The counter keeps the two threads of a queue apart (Global.hpp says the queue is
\* safe): they meet in the vector only if RemoteWrite returned before a worker was
\* done, which it may, since transfer_count counts the caller too.
QueueSafe == pc[Caller] = "undefined" => early

\* The readers of Client.cpp take the end marker for the end of the transfer: once
\* first and last cell are there, all cells in between are.
TailMeansAll ==
    (size > 0 /\ target[0] = <<transfers, 0>> /\ target[size - 1] = <<transfers, size - 1>>) =>
        \A o \in 0..(size - 1) : target[o] = <<transfers, o>>
====
