---- MODULE ParallelTransferProofs ----
(***************************************************************************)
(* Safety of ParallelTransfer for any sizes, alignment and number of       *)
(* transfers, and for one to three workers, as many as have a staging area *)
(* in the buffer.                                                          *)
(***************************************************************************)
EXTENDS ParallelTransfer, FiniteSetTheorems, TLAPS

\* Parts lie in the buffer, and a thread at work has not gone past the end of its own.
PartOK(t) ==
    /\ task[t] # Null => task[t].off + task[t].len <= 4 * Mb
    /\ pc[t] \in {"stage", "poll"} =>
         /\ task[t] # Null
         /\ total[t] <= task[t].len
         /\ staged[t] <= ChunkLength(t)
    /\ pc[t] = "poll" => total[t] < task[t].len
    /\ pc[t] = "uncount" => task[t] # Null
QueueFits(w) ==
    \A i \in 1..Len(queue[w]) : queue[w][i].off + queue[w][i].len <= 4 * Mb
PartsOK ==
    /\ \A t \in Threads : PartOK(t)
    /\ \A w \in Workers : QueueFits(w)

\* Writes read a staging area and stay in the target.
WriteOK(t) ==
    /\ \A i \in 1..Len(posts[t]) :
         /\ posts[t][i].src = Staging(t)
         /\ posts[t][i].dst + posts[t][i].len <= 4 * Mb
    /\ IF posts[t] = <<>> THEN placed[t] = 0 ELSE placed[t] < posts[t][1].len
WritesOK == \A t \in Threads : WriteOK(t)

\* The counter is the length of the vector, but for a task just added or taken.
Pushing(w) == pc[Caller] = "count" /\ pushed = w
CounterFits(w) ==
    \/ queue[w] = <<>> /\ offset[w] = 0 /\ pc[w] \in {"pop", "stage", "poll"} /\ ~Pushing(w)
    \/ Len(queue[w]) = 1 /\ offset[w] = 1 /\ pc[w] \in {"pop", "take"} /\ ~Pushing(w)
    \/ Len(queue[w]) = 1 /\ offset[w] = 0 /\ pc[w] = "pop" /\ Pushing(w)
    \/ queue[w] = <<>> /\ offset[w] = 1 /\ pc[w] = "uncount" /\ ~Pushing(w)

CallerAtWork == pc[Caller] \in {"push", "count", "stage", "poll", "wait"}

QueueOK ==
    /\ transfers = 0 => ~early /\ pushed = 0 /\ pc[Caller] = "idle"
    /\ pc[Caller] \in {"push", "count"} => size >= Mb
    /\ (transfers = 1 /\ early) => pc[Caller] = "idle"
    /\ pc[Caller] \in {"idle", "push", "count", "stage", "poll", "wait", "undefined"}
    /\ InStep =>
         /\ \A w \in Workers : CounterFits(w)
         /\ pc[Caller] # "undefined"
         /\ pc[Caller] \in {"push", "count"} => \A w \in Workers : w > pushed => Done(w)
         /\ (~early /\ pc[Caller] = "idle") => \A w \in Workers : Done(w)
         /\ (pc[Caller] \in {"stage", "poll"} /\ size < Mb) => \A w \in Workers : Done(w)

\* Before the first large transfer the caller is alone.
HasArrived(n) == \A o \in 0..(n - 1) : target[o] = <<transfers, o>>
SmallOK ==
    ~large =>
      /\ \A w \in Workers : Done(w) /\ offset[w] = 0 /\ posts[w] = <<>>
      /\ \/ pc[Caller] = "idle" /\ posts[Caller] = <<>> /\ cq = 0 /\ HasArrived(size)
         \/ /\ pc[Caller] \in {"stage", "poll"}
            /\ size \in 1..(Mb - 1)
            /\ task[Caller] = Whole(size)
            /\ \A o \in 0..(size - 1) : buf[o] = <<transfers, o>>
            /\ \/ /\ pc[Caller] = "stage" /\ posts[Caller] = <<>> /\ cq = 0
                  /\ total[Caller] = 0 \/ (total[Caller] = size /\ HasArrived(size))
               \/ /\ pc[Caller] = "poll" /\ posts[Caller] = <<>> /\ cq = 1
                  /\ total[Caller] = 0 /\ HasArrived(size)
               \/ /\ pc[Caller] = "poll" /\ cq = 0
                  /\ posts[Caller] = <<[src |-> 0, dst |-> 0, len |-> size]>>
                  /\ total[Caller] = 0 /\ HasArrived(placed[Caller])

IInv == TypeOK /\ PartsOK /\ WritesOK /\ QueueOK /\ SmallOK

\* A second invariant, on top of IInv and of the account of the completions.  No cell is
\* of a transfer to come.
Old(x) == \A k \in 1..MaxTransfers : k > transfers => x \notin {k} \X Offsets
AgeOK == \A o \in Offsets : Old(buf[o]) /\ Old(target[o])

\* What is staged and posted is of the current transfer; the writes of a thread that has
\* begun its share follow each other in it, and what is at the peer ends where they begin.
Current(x) == x \in {transfers} \X Offsets
StagedCurrent(t) ==
    pc[t] \in {"stage", "poll"} => \A i \in 0..(staged[t] - 1) : Current(buf[Staging(t) + i])
PostedCurrent(t) ==
    \A i \in 1..Len(posts[t]) : \A j \in 0..(posts[t][i].len - 1) : Current(buf[Staging(t) + j])
InShare(t) ==
    \A i \in 1..Len(posts[t]) :
      /\ posts[t][i].dst >= Share(t).off
      /\ posts[t][i].dst + posts[t][i].len <= Share(t).off + Handed(t)
Chained(t) ==
    \A i \in 1..Len(posts[t]) :
      posts[t][i].dst + posts[t][i].len =
        IF i < Len(posts[t]) THEN posts[t][i + 1].dst ELSE Share(t).off + Handed(t)
ArrivedInOrder(t) ==
    \A i \in 0..(Share(t).len - 1) : Current(target[Share(t).off + i]) <=> i < AtPeer(t)
SenderOK(t) ==
    /\ IF HasBegun(t) THEN task[t] = Share(t) ELSE posts[t] = <<>>
    /\ Handed(t) <= Share(t).len
    /\ StagedCurrent(t) /\ PostedCurrent(t)
    /\ InShare(t) /\ Chained(t) /\ ArrivedInOrder(t)

\* A worker has at most its share to do, and nothing before it is pushed.
ShareQueued(w) ==
    /\ \A i \in 1..Len(queue[w]) : queue[w][i] = Share(w)
    /\ (w <= pushed /\ queue[w] = <<>>) => task[w] = Share(w)
    /\ w > pushed => Done(w)
InStepOK ==
    (InStep /\ transfers > 0) =>
      /\ \A o \in 0..(size - 1) : Current(buf[o])
      /\ size < Mb => \A w \in Workers : Done(w) /\ posts[w] = <<>>
      /\ size >= Mb => \A w \in Workers : ShareQueued(w)
      /\ \A t \in Senders : SenderOK(t)

-----------------------------------------------------------------------------
(* Arithmetic *)

LEMMA Threads3 == Threads = 0..WORKER_NUMBER /\ Threads \subseteq 0..3 /\ Caller \notin Workers
BY TransferAssumption DEF Threads, Workers, Caller

LEMMA DivTimes ==
    ASSUME NEW q \in Nat, NEW a \in Nat \ {0}
    PROVE  (q \div a) * a \in Nat /\ (q \div a) * a <= q
BY SMT

LEMMA ShipFits ==
    ASSUME NEW n \in 0..(4 * Mb)
    PROVE  ShipSize(n) \in Nat /\ WORKER_NUMBER * ShipSize(n) \in Nat
           /\ WORKER_NUMBER * ShipSize(n) <= n
<1> DEFINE q == n \div WORKER_NUMBER
<1>1. q \in Nat /\ WORKER_NUMBER * q <= n
  <2>1. WORKER_NUMBER \in {1, 2, 3} /\ n \in Nat
    BY TransferAssumption
  <2>2. CASE WORKER_NUMBER = 1
    BY <2>1, <2>2
  <2>3. CASE WORKER_NUMBER = 2
    BY <2>1, <2>3
  <2>4. CASE WORKER_NUMBER = 3
    BY <2>1, <2>4
  <2> QED
    BY <2>1, <2>2, <2>3, <2>4
<1>2. ShipSize(n) \in Nat /\ ShipSize(n) <= q
  <2> HIDE DEF q
  <2>1. ShipSize(n) = (q \div Align) * Align
    BY DEF ShipSize, q
  <2> QED
    BY <2>1, <1>1, DivTimes, TransferAssumption
<1> HIDE DEF q
<1>3. WORKER_NUMBER \in {1, 2, 3}
  BY TransferAssumption
<1> QED
  BY <1>1, <1>2, <1>3

\* A part lies in the transfer it is a part of.
LEMMA PartFits ==
    ASSUME NEW n \in 0..(4 * Mb), NEW t \in Threads
    PROVE  Part(n, t) \in Tasks /\ Part(n, t).off + Part(n, t).len <= n
<1> DEFINE s == ShipSize(n)
<1>1. s \in Nat /\ WORKER_NUMBER * s \in Nat /\ WORKER_NUMBER * s <= n /\ n \in Nat /\ Mb \in Nat /\ n <= 4 * Mb
  BY ShipFits, TransferAssumption
<1>2. Tasks = [off : 0..(4 * Mb), len : 0..(4 * Mb)]
  <2>1. Offsets \union {4 * Mb} = 0..(4 * Mb)
    BY <1>1 DEF Offsets
  <2> QED
    BY <2>1 DEF Tasks
<1> HIDE DEF s
<1>3. CASE t = Caller
  <2>1. Part(n, t) = [off |-> WORKER_NUMBER * s, len |-> n - WORKER_NUMBER * s]
    BY <1>3 DEF Part, s
  <2> DEFINE x == WORKER_NUMBER * s
  <2> HIDE DEF x
  <2> QED
    BY <2>1, <1>1, <1>2 DEF x
<1>4. CASE t # Caller
  <2>1. Part(n, t) = [off |-> (t - 1) * s, len |-> s] /\ t \in 1..WORKER_NUMBER
    BY <1>4, Threads3 DEF Part, s, Caller
  <2>2. (t - 1) * s \in Nat /\ (t - 1) * s + s <= WORKER_NUMBER * s
    <3>1. WORKER_NUMBER \in {1, 2, 3} /\ t \in {1, 2, 3} /\ t <= WORKER_NUMBER
      BY <2>1, TransferAssumption
    <3> QED
      BY <3>1, <1>1
  <2> DEFINE x == (t - 1) * s
             y == WORKER_NUMBER * s
  <2>3. x \in Nat /\ x + s <= y /\ y <= n /\ y \in Nat
    BY <2>2, <1>1
  <2>4. Part(n, t) = [off |-> x, len |-> s]
    BY <2>1
  <2> HIDE DEF x, y
  <2> QED
    BY <2>3, <2>4, <1>1, <1>2
<1> QED
  BY <1>3, <1>4

LEMMA WholeFits ==
    ASSUME NEW n \in 0..(4 * Mb)
    PROVE  Whole(n) \in Tasks /\ Whole(n).off + Whole(n).len = n /\ Whole(n).off = 0
BY TransferAssumption DEF Whole, Tasks, Offsets

\* A staging area lies in the buffer.
LEMMA StagingFits ==
    ASSUME NEW t \in Threads
    PROVE  Staging(t) \in Nat /\ Staging(t) + Mb <= 4 * Mb
<1>1. t \in {0, 1, 2, 3} /\ Mb \in Nat
  BY Threads3, TransferAssumption
<1> QED
  BY <1>1 DEF Staging

LEMMA ChunkFits ==
    ASSUME NEW t \in Threads, task[t].len \in Nat, total[t] \in Nat, total[t] <= task[t].len
    PROVE  /\ ChunkLength(t) \in 0..Mb
           /\ total[t] + ChunkLength(t) <= task[t].len
           /\ total[t] < task[t].len => ChunkLength(t) > 0
           /\ total[t] = task[t].len => ChunkLength(t) = 0
BY TransferAssumption DEF ChunkLength, Least

-----------------------------------------------------------------------------
(* Types *)

LEMMA HeadTail ==
    ASSUME NEW S, NEW q \in Seq(S), q # <<>>
    PROVE  /\ Head(q) \in S /\ Head(q) = q[1] /\ Tail(q) \in Seq(S)
           /\ Len(q) \in Nat \ {0} /\ Len(Tail(q)) = Len(q) - 1
           /\ \A i \in 1..Len(Tail(q)) : Tail(q)[i] = q[i + 1]
OBVIOUS

LEMMA Appended ==
    ASSUME NEW S, NEW q \in Seq(S), NEW p \in S
    PROVE  /\ Len(Append(q, p)) = Len(q) + 1 /\ Len(q) \in Nat /\ Append(q, p) # <<>>
           /\ Append(q, p) \in Seq(S)
           /\ Append(q, p)[Len(q) + 1] = p
           /\ \A i \in 1..Len(q) : Append(q, p)[i] = q[i]
OBVIOUS

LEMMA InitInv == Init => IInv
<1> SUFFICES ASSUME Init PROVE IInv
  OBVIOUS
<1> USE TransferAssumption
<1>1. Offsets = 0..(4 * Mb - 1) /\ Mb \in Nat /\ Mb > 0
  BY DEF Offsets
<1>2. TypeOK
  <2>1. buf \in [Offsets -> Bytes \union {Blank}] /\ target \in [Offsets -> Bytes \union {Blank}]
    BY DEF Init
  <2>2. /\ size \in 0..(4 * Mb) /\ transfers \in 0..MaxTransfers /\ pushed \in 0..WORKER_NUMBER
        /\ transfer_count \in Nat /\ cq \in Nat
    <3>1. WORKER_NUMBER \in Nat /\ MaxTransfers \in Nat
      OBVIOUS
    <3> QED
      BY <1>1, <3>1 DEF Init
  <2>7. large \in BOOLEAN /\ early \in BOOLEAN
    BY DEF Init
  <2>3. queue \in [Workers -> Seq(Tasks)] /\ offset \in [Workers -> 0..255]
    BY DEF Init
  <2>4. task \in [Threads -> Tasks \union {Null}] /\ total \in [Threads -> 0..(4 * Mb)]
        /\ staged \in [Threads -> 0..Mb] /\ placed \in [Threads -> 0..(Mb - 1)]
    BY <1>1 DEF Init
  <2>5. posts \in [Threads -> Seq([src : Offsets, dst : Offsets, len : 1..Mb])]
    BY DEF Init
  <2>6. pc \in [Threads -> {"idle", "pop"}]
    BY DEF Init
  <2> QED
    BY <2>1, <2>2, <2>3, <2>4, <2>5, <2>6, <2>7 DEF TypeOK
<1>3. PartsOK /\ WritesOK
  BY Threads3 DEF Init, PartsOK, PartOK, QueueFits, WritesOK, WriteOK, Threads
<1>4. QueueOK
  BY Threads3 DEF Init, QueueOK, CounterFits, Pushing, Done, Workers, Threads
<1>5. SmallOK
  BY Threads3 DEF Init, SmallOK, HasArrived, Done, Threads
<1> QED
  BY <1>2, <1>3, <1>4, <1>5 DEF IInv

\* What an action does to the threads keeps the types.
LEMMA EnterTypes ==
    ASSUME TypeOK, NEW t \in Threads, NEW p \in Tasks, EnterHamal(t, p)
    PROVE  /\ pc' \in [Threads -> {"idle", "push", "count", "wait", "pop", "take", "uncount", "stage",
                                   "poll", "undefined"}]
           /\ task' \in [Threads -> Tasks \union {Null}]
           /\ total' \in [Threads -> 0..(4 * Mb)]
           /\ staged' \in [Threads -> 0..Mb]
BY TransferAssumption DEF TypeOK, EnterHamal, Goto

LEMMA TypeStep == IInv /\ [Next]_vars => TypeOK'
<1> SUFFICES ASSUME IInv, [Next]_vars PROVE TypeOK'
  OBVIOUS
<1>0. TypeOK /\ PartsOK /\ WritesOK /\ QueueOK /\ Mb \in Nat /\ Mb > 0 /\ MaxTransfers \in Nat
  BY TransferAssumption DEF IInv
<1>s. Sizes \subseteq 0..(4 * Mb) /\ Offsets = 0..(4 * Mb - 1)
  BY TransferAssumption DEF Offsets
<1>c. Caller \in Threads /\ Workers \subseteq Threads
  BY DEF Threads
<1>b. ASSUME NEW n \in Sizes, BeginTransfer(n)
      PROVE  /\ buf' \in [Offsets -> Bytes \union {Blank}]
             /\ size' \in 0..(4 * Mb) /\ transfers' \in 0..MaxTransfers
  <2>1. transfers' \in 1..MaxTransfers /\ transfers' = transfers + 1
    BY <1>0, <1>b DEF BeginTransfer, TypeOK
  <2>2. \A o \in Offsets : <<transfers + 1, o>> \in Bytes
    BY <2>1 DEF Bytes
  <2> QED
    BY <1>0, <1>s, <1>b, <2>1, <2>2 DEF BeginTransfer
<1>1. CASE BeginSmall
  <2>1. PICK n \in Sizes : n < Mb /\ BeginTransfer(n) /\ EnterHamal(Caller, Whole(n))
    BY <1>1 DEF BeginSmall
  <2>2. Whole(n) \in Tasks
    BY <1>s, WholeFits
  <2> QED
    BY <1>1, <2>1, <2>2, <1>0, <1>b, <1>c, EnterTypes DEF BeginSmall, BeginTransfer, TypeOK, queueVars, wireVars
<1>2. CASE BeginLarge
  <2>1. PICK n \in Sizes : n >= Mb /\ BeginTransfer(n)
    BY <1>2 DEF BeginLarge
  <2>2. /\ buf' \in [Offsets -> Bytes \union {Blank}]
        /\ size' \in 0..(4 * Mb) /\ transfers' \in 0..MaxTransfers
    BY <2>1, <1>b
  <2>3. 0 \in Nat /\ 0 \in 0..WORKER_NUMBER
    BY TransferAssumption
  <2> QED
    BY <1>2, <2>1, <2>2, <2>3, <1>0, <1>c DEF BeginLarge, BeginTransfer, TypeOK, queueVars, wireVars, Goto
<1>3. CASE PushBack
  <2>1. pushed + 1 \in Workers
    BY <1>0, <1>3, TransferAssumption DEF PushBack, Workers, TypeOK
  <2>2. Part(size, pushed + 1) \in Tasks
    BY <2>1, <1>0, <1>c, PartFits DEF TypeOK
  <2>3. queue' \in [Workers -> Seq(Tasks)]
    BY <2>1, <2>2, <1>0, <1>3 DEF PushBack, TypeOK
  <2>4. pushed' \in 0..WORKER_NUMBER
    BY <2>1, <1>3 DEF PushBack, Workers
  <2> QED
    BY <2>3, <2>4, <1>0, <1>3, <1>c DEF PushBack, TypeOK, wireVars, Goto, Undefined
<1>4. CASE CountPushed
  <2>1. offset \in [Workers -> 0..255] /\ offset' = [offset EXCEPT ![pushed] = (@ + 1) % 256]
    BY <1>0, <1>4 DEF CountPushed, TypeOK
  <2>3. ASSUME NEW w \in Workers PROVE offset'[w] \in 0..255
    <3>1. offset[w] \in 0..255 /\ (offset[w] + 1) % 256 \in 0..255
      BY <2>1
    <3> QED
      BY <2>1, <3>1
  <2>2. offset' \in [Workers -> 0..255]
    BY <2>1, <2>3
  <2> QED
    BY <2>2, <1>0, <1>4, <1>c DEF CountPushed, TypeOK, wireVars, callerVars, Goto
<1>5. CASE SendRest
  <2>1. Part(size, Caller) \in Tasks
    BY <1>0, <1>c, PartFits DEF TypeOK
  <2> QED
    BY <1>5, <2>1, <1>0, <1>c, EnterTypes DEF SendRest, TypeOK, callerVars, queueVars, wireVars
<1>6. CASE Return
  BY <1>6, <1>0, <1>c DEF Return, TypeOK, queueVars, wireVars, Goto
<1>7. ASSUME NEW w \in Workers, SeeTask(w) PROVE TypeOK'
  BY <1>7, <1>0, <1>c DEF SeeTask, TypeOK, callerVars, queueVars, wireVars, Goto
<1>8. ASSUME NEW w \in Workers, Take(w) PROVE TypeOK'
  <2>1. CASE queue[w] = <<>>
    BY <2>1, <1>8, <1>0 DEF Take, TypeOK, callerVars, wireVars, Undefined
  <2>2. CASE queue[w] # <<>>
    <3>1. queue[w] \in Seq(Tasks)
      BY <1>0 DEF TypeOK
    <3>2. Head(queue[w]) \in Tasks /\ Tail(queue[w]) \in Seq(Tasks)
      BY <3>1, <2>2
    <3> QED
      BY <2>2, <3>2, <1>8, <1>0, <1>c, ZenonT(60) DEF Take, TypeOK, callerVars, wireVars, Goto
  <2> QED
    BY <2>1, <2>2
<1>9. ASSUME NEW w \in Workers, CountTaken(w) PROVE TypeOK'
  <2>1. offset \in [Workers -> 0..255] /\ offset' = [offset EXCEPT ![w] = (@ - 1) % 256]
    BY <1>0, <1>9 DEF CountTaken, TypeOK
  <2>2. offset' \in [Workers -> 0..255]
    BY <2>1
  <2>3. task[w] \in Tasks
    BY <1>0, <1>9, <1>c DEF CountTaken, PartsOK, PartOK, TypeOK
  <2> QED
    BY <2>2, <2>3, <1>0, <1>9, <1>c, EnterTypes DEF CountTaken, TypeOK, callerVars, wireVars
<1>a. ASSUME NEW t \in Threads, task[t] # Null, total[t] <= task[t].len
      PROVE  /\ task[t] \in Tasks /\ task[t].off \in Nat /\ task[t].len \in Nat
             /\ total[t] \in 0..(4 * Mb) /\ staged[t] \in 0..Mb
             /\ ChunkLength(t) \in 0..Mb /\ total[t] + ChunkLength(t) \in 0..(4 * Mb)
             /\ total[t] + ChunkLength(t) <= task[t].len
             /\ task[t].off + task[t].len <= 4 * Mb
             /\ total[t] < task[t].len => ChunkLength(t) > 0
             /\ total[t] = task[t].len => ChunkLength(t) = 0
  <2>1. task[t] \in Tasks /\ total[t] \in 0..(4 * Mb) /\ staged[t] \in 0..Mb
    BY <1>0, <1>a DEF TypeOK
  <2>2. task[t].off \in Nat /\ task[t].len \in 0..(4 * Mb)
    BY <2>1, <1>0, <1>s DEF Tasks
  <2>3. task[t].off + task[t].len <= 4 * Mb
    BY <1>0, <1>a DEF PartsOK, PartOK
  <2>4. ChunkLength(t) \in 0..Mb /\ total[t] + ChunkLength(t) <= task[t].len
        /\ (total[t] < task[t].len => ChunkLength(t) > 0)
        /\ (total[t] = task[t].len => ChunkLength(t) = 0)
    BY <2>1, <2>2, <1>a, ChunkFits
  <2> QED
    BY <2>1, <2>2, <2>3, <2>4, <1>0
<1>10. ASSUME NEW t \in Threads, Stage(t) PROVE TypeOK'
  <2>1. task[t] # Null /\ total[t] <= task[t].len /\ staged[t] < ChunkLength(t)
    BY <1>0, <1>10 DEF Stage, StageOf, PartsOK, PartOK
  <2> DEFINE c == ChunkLength(t)
  <2>6. /\ task[t].off \in Nat /\ task[t].len \in Nat /\ total[t] \in Nat /\ staged[t] \in Nat
        /\ c \in Nat /\ staged[t] < c /\ total[t] + c <= task[t].len
        /\ task[t].off + task[t].len <= 4 * Mb
    BY <2>1, <1>a
  <2> HIDE DEF c
  <2>2. task[t].off + total[t] + staged[t] \in Offsets
    <3>1. ASSUME NEW a \in Nat, NEW b \in Nat, NEW i \in Nat, NEW d \in Nat, NEW l \in Nat,
                 i < d, b + d <= l, a + l <= 4 * Mb
          PROVE  a + b + i \in 0..(4 * Mb - 1)
      BY <3>1, <1>0
    <3> QED
      BY <2>6, <3>1, <1>s
  <2>3. buf' \in [Offsets -> Bytes \union {Blank}]
    BY <2>2, <1>0, <1>10 DEF Stage, StageOf, TypeOK
  <2>4. staged[t] + 1 \in 0..Mb
    BY <2>1, <1>a, <1>0
  <2>5. staged' \in [Threads -> 0..Mb]
    BY <2>4, <1>0, <1>10 DEF Stage, StageOf, TypeOK
  <2> QED
    BY <2>3, <2>5, <1>0, <1>10 DEF Stage, StageOf, TypeOK, callerVars, queueVars, wireVars
<1>11. ASSUME NEW t \in Threads, PostWrite(t) PROVE TypeOK'
  <2>1. task[t] # Null /\ total[t] < task[t].len /\ total[t] <= task[t].len
    BY <1>0, <1>11 DEF PostWrite, PostChunk, PartsOK, PartOK
  <2> DEFINE p == [src |-> Staging(t), dst |-> task[t].off + total[t], len |-> ChunkLength(t)]
  <2>2. Staging(t) \in Offsets
    BY StagingFits, <1>0, <1>s
  <2>3. task[t].off + total[t] \in Offsets /\ ChunkLength(t) \in 1..Mb
    BY <2>1, <1>a, <1>0, <1>s, SMTT(30)
  <2>4. p \in [src : Offsets, dst : Offsets, len : 1..Mb]
    BY <2>2, <2>3
  <2>5. posts' = [posts EXCEPT ![t] = Append(@, p)]
    BY <1>11 DEF PostWrite, PostChunk
  <2> HIDE DEF p
  <2> DEFINE Writes == [src : Offsets, dst : Offsets, len : 1..Mb]
  <2>7. p \in Writes /\ posts \in [Threads -> Seq(Writes)]
    BY <2>4, <1>0 DEF TypeOK
  <2> HIDE DEF Writes
  <2>8. Append(posts[t], p) \in Seq(Writes)
    BY <2>7
  <2>6. posts' \in [Threads -> Seq(Writes)]
    BY <2>7, <2>8, <2>5
  <2> USE DEF Writes
  <2> QED
    BY <2>6, <1>0, <1>11 DEF PostWrite, PostChunk, Goto, TypeOK, callerVars, queueVars
<1>12. ASSUME NEW t \in Threads, PollWrite(t) PROVE TypeOK'
  <2>1. task[t] # Null /\ total[t] <= task[t].len
    BY <1>0, <1>12 DEF PollWrite, PollSome, PartsOK, PartOK
  <2>2. total[t] + ChunkLength(t) \in 0..(4 * Mb)
    BY <2>1, <1>a
  <2>3. total' \in [Threads -> 0..(4 * Mb)] /\ staged' \in [Threads -> 0..Mb]
    BY <2>2, <1>0, <1>12 DEF PollWrite, PollSome, NextChunk, TypeOK
  <2>4. cq' \in Nat
    BY <1>0, <1>12 DEF PollWrite, PollSome, TypeOK
  <2> QED
    BY <2>3, <2>4, <1>0, <1>12 DEF PollWrite, PollSome, Goto, TypeOK, callerVars, queueVars
<1>13. ASSUME NEW t \in Threads, Finish(t) PROVE TypeOK'
  <2>1. PICK l \in {"pop", "idle", "wait"} : pc' = [pc EXCEPT ![t] = l]
    BY <1>13 DEF Finish, Goto
  <2>2. pc' \in [Threads -> {"idle", "push", "count", "wait", "pop", "take", "uncount", "stage",
                             "poll", "undefined"}]
    BY <2>1, <1>0 DEF TypeOK
  <2>3. transfer_count' \in Nat
    BY <1>13, <1>0 DEF Finish, TypeOK
  <2> QED
    BY <2>2, <2>3, <1>13, <1>0 DEF Finish, TypeOK, callerVars, queueVars, wireVars
<1>14. ASSUME NEW t \in Threads, Place(t) PROVE TypeOK'
  <2> DEFINE write == Head(posts[t])
  <2>1. posts[t] \in Seq([src : Offsets, dst : Offsets, len : 1..Mb]) /\ posts[t] # <<>>
    BY <1>0, <1>14 DEF Place, TypeOK
  <2>2. write \in [src : Offsets, dst : Offsets, len : 1..Mb] /\ write = posts[t][1]
    BY <2>1, HeadTail
  <2>3. Tail(posts[t]) \in Seq([src : Offsets, dst : Offsets, len : 1..Mb])
    BY <2>1, HeadTail
  <2>4. write.src = Staging(t) /\ placed[t] < write.len /\ placed[t] \in Nat
    BY <2>1, <2>2, <1>0 DEF WritesOK, WriteOK, TypeOK
  <2>5. write.len \in 1..Mb
    BY <2>2
  <2>6. write.src + placed[t] \in Offsets
    BY <2>4, <2>5, StagingFits, <1>0, <1>s
  <2>7. target' \in [Offsets -> Bytes \union {Blank}]
    BY <2>6, <1>0, <1>14 DEF Place, TypeOK
  <2>8. placed[t] + 1 # write.len => placed[t] + 1 \in 0..(Mb - 1)
    BY <2>4, <2>5, <1>0
  <2>9. placed' \in [Threads -> 0..(Mb - 1)]
    BY <2>8, <1>0, <1>14 DEF Place, TypeOK
  <2>10. posts' \in [Threads -> Seq([src : Offsets, dst : Offsets, len : 1..Mb])]
    BY <2>3, <1>0, <1>14 DEF Place, TypeOK
  <2>11. cq' \in Nat
    BY <1>0, <1>14 DEF Place, TypeOK
  <2> QED
    BY <2>7, <2>9, <2>10, <2>11, <1>0, <1>14 DEF Place, TypeOK, callerVars, queueVars, threadVars
<1>15. CASE UNCHANGED vars
  BY <1>15, <1>0 DEF vars, TypeOK, callerVars, queueVars, threadVars, wireVars
<1> QED
  BY <1>1, <1>2, <1>3, <1>4, <1>5, <1>6, <1>7, <1>8, <1>9, <1>10, <1>11, <1>12, <1>13, <1>14, <1>15
  DEF Next

-----------------------------------------------------------------------------
(* Parts *)

LEMMA PartFrame ==
    ASSUME NEW u \in Threads, PartOK(u), task'[u] = task[u],
           \/ pc'[u] \notin {"stage", "poll", "uncount"}
           \/ pc'[u] = pc[u] /\ total'[u] = total[u] /\ staged'[u] = staged[u]
    PROVE  PartOK(u)'
BY DEF PartOK, ChunkLength

LEMMA PartEntered ==
    ASSUME TypeOK, NEW t \in Threads, NEW p \in Tasks, p.off + p.len <= 4 * Mb, EnterHamal(t, p),
           \A u \in Threads : PartOK(u)
    PROVE  \A u \in Threads : PartOK(u)'
<1> SUFFICES ASSUME NEW u \in Threads PROVE PartOK(u)'
  OBVIOUS
<1>1. CASE u # t
  BY <1>1, PartFrame DEF TypeOK, EnterHamal, Goto
<1>2. CASE u = t
  <2>1. task'[t] = p /\ total'[t] = 0 /\ staged'[t] = 0 /\ pc'[t] = "stage" /\ p # Null
    BY TransferAssumption DEF TypeOK, EnterHamal, Goto
  <2>2. p.len \in Nat
    BY TransferAssumption DEF Tasks
  <2>3. 0 <= Least(p.len - 0, Mb)
    BY <2>2, TransferAssumption DEF Least
  <2> QED
    BY <1>2, <2>1, <2>2, <2>3 DEF PartOK, ChunkLength
<1> QED
  BY <1>1, <1>2

LEMMA PartsStep == IInv /\ [Next]_vars => PartsOK'
<1> SUFFICES ASSUME IInv, [Next]_vars PROVE PartsOK'
  OBVIOUS
<1>0. TypeOK /\ (\A t \in Threads : PartOK(t)) /\ (\A w \in Workers : QueueFits(w))
      /\ Mb \in Nat /\ Mb > 0
  BY TransferAssumption DEF IInv, PartsOK
<1>c. Caller \in Threads /\ Workers \subseteq Threads /\ Caller \notin Workers
  BY Threads3 DEF Threads
<1>s. Sizes \subseteq 0..(4 * Mb)
  BY TransferAssumption
<1>q. ASSUME UNCHANGED queue PROVE \A w \in Workers : QueueFits(w)'
  BY <1>q, <1>0 DEF QueueFits
<1>u. ASSUME Undefined, UNCHANGED task PROVE \A t \in Threads : PartOK(t)'
  BY <1>u, <1>0, PartFrame DEF Undefined
\* One thread goes to a place outside of OutboundHamal, and keeps its task.
<1>g. ASSUME NEW t \in Threads, NEW l \in {"idle", "push", "count", "wait", "pop", "take"}, Goto(t, l),
             UNCHANGED <<task, total, staged>>
      PROVE  \A u \in Threads : PartOK(u)'
  <2> SUFFICES ASSUME NEW u \in Threads PROVE PartOK(u)'
    OBVIOUS
  <2>1. pc'[u] \notin {"stage", "poll", "uncount"} \/ pc'[u] = pc[u]
    BY <1>g, <1>0 DEF Goto, TypeOK
  <2> QED
    BY <2>1, <1>g, <1>0, PartFrame
<1>1. CASE BeginSmall
  <2>1. PICK n \in Sizes : EnterHamal(Caller, Whole(n)) /\ UNCHANGED queue
    BY <1>1 DEF BeginSmall, BeginTransfer, queueVars
  <2>2. Whole(n) \in Tasks /\ Whole(n).off + Whole(n).len = n /\ n <= 4 * Mb
    BY <1>s, <1>0, WholeFits
  <2>3. Whole(n).off + Whole(n).len <= 4 * Mb
    BY <2>2
  <2> QED
    BY <2>1, <2>2, <2>3, <1>0, <1>c, <1>q, PartEntered DEF PartsOK
<1>2. CASE BeginLarge
  BY <1>2, <1>c, <1>g, <1>q DEF BeginLarge, BeginTransfer, queueVars, PartsOK
<1>3. CASE PushBack
  <2> DEFINE w == pushed + 1
             p == Part(size, w)
  <2>1. w \in Workers /\ w \in Threads
    BY <1>0, <1>3, <1>c, TransferAssumption DEF PushBack, Workers, TypeOK
  <2>2. p \in Tasks /\ p.off + p.len <= size /\ size \in Nat /\ size <= 4 * Mb
    BY <2>1, <1>0, PartFits DEF TypeOK
  <2>3. queue' = [queue EXCEPT ![w] = Append(@, p)] /\ UNCHANGED <<task, total, staged>>
    BY <1>3 DEF PushBack
  <2>4. p.off + p.len <= 4 * Mb
    <3>1. p.off \in Nat /\ p.len \in Nat
      BY <2>2, <1>0 DEF Tasks, Offsets
    <3> QED
      BY <2>2, <3>1, <1>0
  <2>5. Undefined \/ Goto(Caller, "count")
    BY <1>3 DEF PushBack
  <2> HIDE DEF w, p
  <2>6. ASSUME NEW v \in Workers PROVE QueueFits(v)'
    <3>1. CASE v # w
      BY <3>1, <2>1, <2>3, <1>0 DEF QueueFits, TypeOK
    <3>2. CASE v = w
      <4>1. queue[v] \in Seq(Tasks) /\ queue'[v] = Append(queue[v], p)
        BY <3>2, <2>1, <2>3, <1>0 DEF TypeOK
      <4>2. \A i \in 1..Len(queue'[v]) :
              queue'[v][i] = p \/ (i \in 1..Len(queue[v]) /\ queue'[v][i] = queue[v][i])
        BY <4>1, <2>2
      <4> QED
        BY <4>2, <2>4, <1>0 DEF QueueFits
    <3> QED
      BY <3>1, <3>2
  <2> QED
    BY <2>3, <2>5, <2>6, <1>c, <1>g, <1>u DEF PartsOK
<1>4. CASE CountPushed
  BY <1>4, <1>c, <1>g, <1>q DEF CountPushed, PartsOK
<1>5. CASE SendRest
  <2>1. Part(size, Caller) \in Tasks /\ Part(size, Caller).off + Part(size, Caller).len <= size
        /\ size \in Nat /\ size <= 4 * Mb
    BY <1>0, <1>c, PartFits DEF TypeOK
  <2>2. Part(size, Caller).off \in Nat /\ Part(size, Caller).len \in Nat
    BY <2>1, <1>0 DEF Tasks, Offsets
  <2>3. Part(size, Caller).off + Part(size, Caller).len <= 4 * Mb
    BY <2>1, <2>2, <1>0
  <2> QED
    BY <1>5, <2>1, <2>3, <1>0, <1>c, <1>q, PartEntered DEF SendRest, PartsOK, queueVars
<1>6. CASE Return
  BY <1>6, <1>c, <1>g, <1>q DEF Return, PartsOK, queueVars
<1>7. ASSUME NEW w \in Workers, SeeTask(w) PROVE PartsOK'
  BY <1>7, <1>c, <1>g, <1>q DEF SeeTask, PartsOK, queueVars
<1>8. ASSUME NEW w \in Workers, Take(w) PROVE PartsOK'
  <2>1. CASE queue[w] = <<>>
    BY <2>1, <1>8, <1>u, <1>q DEF Take, PartsOK
  <2>2. CASE queue[w] # <<>>
    <3>1. queue[w] \in Seq(Tasks)
      BY <1>0 DEF TypeOK
    <3>2. /\ Head(queue[w]) \in Tasks /\ Head(queue[w]) = queue[w][1] /\ 1 \in 1..Len(queue[w])
          /\ Len(Tail(queue[w])) = Len(queue[w]) - 1 /\ Len(queue[w]) \in Nat
          /\ \A i \in 1..Len(Tail(queue[w])) : Tail(queue[w])[i] = queue[w][i + 1]
      BY <3>1, <2>2, HeadTail
    <3>3. queue' = [queue EXCEPT ![w] = Tail(@)] /\ task' = [task EXCEPT ![w] = Head(queue[w])]
          /\ Goto(w, "uncount") /\ UNCHANGED <<total, staged>>
      BY <2>2, <1>8 DEF Take
    <3>4. Head(queue[w]).off + Head(queue[w]).len <= 4 * Mb
      BY <3>2, <1>0 DEF QueueFits
    <3>5. ASSUME NEW v \in Workers PROVE QueueFits(v)'
      <4>1. CASE v # w
        BY <4>1, <3>3, <1>0 DEF QueueFits, TypeOK
      <4>2. CASE v = w
        <5>1. queue'[v] = Tail(queue[w])
          BY <4>2, <3>3, <1>0 DEF TypeOK
        <5>2. \A i \in 1..Len(queue'[v]) : i + 1 \in 1..Len(queue[w]) /\ queue'[v][i] = queue[w][i + 1]
          BY <5>1, <3>2
        <5> QED
          BY <5>2, <1>0 DEF QueueFits
      <4> QED
        BY <4>1, <4>2
    <3>6. ASSUME NEW u \in Threads PROVE PartOK(u)'
      <4>1. CASE u # w
        BY <4>1, <3>3, <1>0, <1>c, PartFrame DEF Goto, TypeOK
      <4>2. CASE u = w
        <5>1. task'[u] = Head(queue[w]) /\ pc'[u] = "uncount"
          BY <4>2, <3>3, <1>0, <1>c DEF Goto, TypeOK
        <5>2. Head(queue[w]) # Null
          BY <3>2, TransferAssumption
        <5> QED
          BY <5>1, <5>2, <3>4 DEF PartOK
      <4> QED
        BY <4>1, <4>2
    <3> QED
      BY <3>5, <3>6 DEF PartsOK
  <2> QED
    BY <2>1, <2>2
<1>9. ASSUME NEW w \in Workers, CountTaken(w) PROVE PartsOK'
  <2>1. task[w] \in Tasks /\ task[w].off + task[w].len <= 4 * Mb
    BY <1>0, <1>9, <1>c DEF CountTaken, PartOK, TypeOK
  <2> QED
    BY <2>1, <1>9, <1>0, <1>c, <1>q, PartEntered DEF CountTaken, PartsOK
\* OutboundHamal: the others do nothing.
<1>a. ASSUME NEW t \in Threads, PartOK(t)', UNCHANGED <<queue, task>>,
             \A u \in Threads \ {t} :
               pc'[u] = pc[u] /\ total'[u] = total[u] /\ staged'[u] = staged[u]
      PROVE  PartsOK'
  <2>1. ASSUME NEW u \in Threads PROVE PartOK(u)'
    BY <1>a, <1>0, PartFrame
  <2> QED
    BY <2>1, <1>a, <1>q DEF PartsOK
<1>10. ASSUME NEW t \in Threads, Stage(t) PROVE PartsOK'
  <2>1. staged[t] < ChunkLength(t) /\ pc[t] = "stage" /\ staged' = [staged EXCEPT ![t] = @ + 1]
        /\ UNCHANGED <<pc, queue, task, total>>
    BY <1>10 DEF Stage, StageOf, callerVars, queueVars
  <2>2. PartOK(t) /\ task[t].len \in Nat /\ total[t] \in Nat /\ staged[t] \in Nat
    BY <2>1, <1>0 DEF PartOK, TypeOK, Tasks
  <2>3. ChunkLength(t) \in Nat
    BY <2>1, <2>2, <1>0, ChunkFits DEF PartOK
  <2>4. staged'[t] = staged[t] + 1 /\ staged'[t] <= ChunkLength(t)
    BY <2>1, <2>2, <2>3, <1>0 DEF TypeOK
  <2>5. PartOK(t)'
    BY <2>1, <2>2, <2>4 DEF PartOK, ChunkLength
  <2>6. \A u \in Threads \ {t} : staged'[u] = staged[u]
    BY <2>1, <1>0 DEF TypeOK
  <2> QED
    BY <2>1, <2>5, <2>6, <1>a
<1>11. ASSUME NEW t \in Threads, PostWrite(t) PROVE PartsOK'
  <2>1. total[t] < task[t].len /\ pc[t] = "stage" /\ pc' = [pc EXCEPT ![t] = "poll"]
        /\ UNCHANGED <<queue, task, total, staged>>
    BY <1>11 DEF PostWrite, PostChunk, Goto, queueVars
  <2>2. pc'[t] = "poll" /\ PartOK(t)
    BY <2>1, <1>0 DEF TypeOK
  <2>3. PartOK(t)'
    BY <2>1, <2>2 DEF PartOK, ChunkLength
  <2>4. \A u \in Threads \ {t} : pc'[u] = pc[u]
    BY <2>1, <1>0 DEF TypeOK
  <2> QED
    BY <2>1, <2>3, <2>4, <1>a
<1>12. ASSUME NEW t \in Threads, PollWrite(t) PROVE PartsOK'
  <2>1. /\ pc[t] = "poll" /\ pc' = [pc EXCEPT ![t] = "stage"] /\ UNCHANGED <<queue, task>>
        /\ total' = [total EXCEPT ![t] = @ + ChunkLength(t)] /\ staged' = [staged EXCEPT ![t] = 0]
    BY <1>12 DEF PollWrite, PollSome, NextChunk, Goto, queueVars
  <2>2. PartOK(t) /\ task[t] # Null /\ task[t].len \in Nat /\ total[t] \in Nat
    BY <2>1, <1>0 DEF PartOK, TypeOK, Tasks
  <2>3. total[t] + ChunkLength(t) <= task[t].len /\ ChunkLength(t) \in Nat
    BY <2>1, <2>2, <1>0, ChunkFits DEF PartOK
  <2>4. pc'[t] = "stage" /\ total'[t] = total[t] + ChunkLength(t) /\ staged'[t] = 0 /\ task'[t] = task[t]
    BY <2>1, <1>0 DEF TypeOK
  <2>5. 0 <= ChunkLength(t)'
    BY <2>2, <2>3, <2>4, <1>0 DEF ChunkLength, Least
  <2>6. PartOK(t)'
    BY <2>2, <2>3, <2>4, <2>5 DEF PartOK
  <2>7. \A u \in Threads \ {t} : pc'[u] = pc[u] /\ total'[u] = total[u] /\ staged'[u] = staged[u]
    BY <2>1, <1>0 DEF TypeOK
  <2> QED
    BY <2>1, <2>6, <2>7, <1>a
<1>13. ASSUME NEW t \in Threads, Finish(t) PROVE PartsOK'
  <2>1. PICK l \in {"pop", "idle", "wait"} : Goto(t, l)
    BY <1>13 DEF Finish
  <2> QED
    BY <2>1, <1>13, <1>g, <1>q DEF Finish, PartsOK, queueVars
<1>14. ASSUME NEW t \in Threads, Place(t) PROVE PartsOK'
  BY <1>14, <1>a, <1>0, PartFrame DEF Place, threadVars, queueVars
<1>15. CASE UNCHANGED vars
  BY <1>15, <1>0, <1>q, PartFrame DEF vars, queueVars, threadVars, PartsOK
<1> QED
  BY <1>1, <1>2, <1>3, <1>4, <1>5, <1>6, <1>7, <1>8, <1>9, <1>10, <1>11, <1>12, <1>13, <1>14, <1>15
  DEF Next

-----------------------------------------------------------------------------
(* Writes *)

Writes == [src : Offsets, dst : Offsets, len : 1..Mb]

LEMMA WritesStep == IInv /\ [Next]_vars => WritesOK'
<1> SUFFICES ASSUME IInv, [Next]_vars PROVE WritesOK'
  OBVIOUS
<1>0. (\A t \in Threads : WriteOK(t)) /\ Mb \in Nat /\ Mb > 0
      /\ posts \in [Threads -> Seq(Writes)] /\ placed \in [Threads -> 0..(Mb - 1)]
  <2>1. TypeOK /\ WritesOK
    BY DEF IInv
  <2>2. posts \in [Threads -> Seq(Writes)]
    BY <2>1 DEF TypeOK, Writes
  <2>3. placed \in [Threads -> 0..(Mb - 1)]
    BY <2>1 DEF TypeOK
  <2> QED
    BY <2>1, <2>2, <2>3, TransferAssumption DEF WritesOK
<1>f. ASSUME NEW u \in Threads, posts'[u] = posts[u], placed'[u] = placed[u] PROVE WriteOK(u)'
  BY <1>f, <1>0 DEF WriteOK
<1>u. ASSUME UNCHANGED <<posts, placed>> PROVE WritesOK'
  BY <1>u, <1>f DEF WritesOK
<1>1. CASE BeginSmall \/ BeginLarge
  BY <1>1, <1>u DEF BeginSmall, BeginLarge, BeginTransfer, wireVars
<1>3. CASE PushBack \/ CountPushed \/ SendRest \/ Return
  BY <1>3, <1>u DEF PushBack, CountPushed, SendRest, Return, wireVars
<1>7. ASSUME NEW w \in Workers, SeeTask(w) \/ Take(w) \/ CountTaken(w) PROVE WritesOK'
  BY <1>7, <1>u DEF SeeTask, Take, CountTaken, wireVars
<1>10. ASSUME NEW t \in Threads, Stage(t) \/ PollWrite(t) \/ Finish(t) PROVE WritesOK'
  BY <1>10, <1>u DEF Stage, StageOf, PollWrite, PollSome, Finish, wireVars
<1>11. ASSUME NEW t \in Threads, PostWrite(t) PROVE WritesOK'
  <2> DEFINE p == [src |-> Staging(t), dst |-> task[t].off + total[t], len |-> ChunkLength(t)]
  <2>1. total[t] < task[t].len /\ PartOK(t) /\ pc[t] = "stage"
    BY <1>11 DEF IInv, PartsOK, PostWrite, PostChunk
  <2>2. posts' = [posts EXCEPT ![t] = Append(@, p)] /\ UNCHANGED placed
    BY <1>11 DEF PostWrite, PostChunk
  <2>3. task[t].off \in Nat /\ task[t].len \in Nat /\ total[t] \in Nat
    BY <2>1, <1>0 DEF IInv, TypeOK, PartOK, Tasks, Offsets
  <2>4. ChunkLength(t) \in Nat /\ ChunkLength(t) > 0 /\ total[t] + ChunkLength(t) <= task[t].len
    BY <2>1, <2>3, ChunkFits DEF PartOK
  <2>5. task[t].off + task[t].len <= 4 * Mb
    BY <2>1 DEF PartOK
  <2>6. p.src = Staging(t) /\ p.len \in Nat /\ p.len > 0 /\ p.dst + p.len <= 4 * Mb
    <3> DEFINE c == ChunkLength(t)
    <3> HIDE DEF c
    <3>1. c \in Nat /\ c > 0 /\ total[t] + c <= task[t].len
      BY <2>4 DEF c
    <3>2. (task[t].off + total[t]) + c <= 4 * Mb
      BY <3>1, <2>3, <2>5, <1>0, SMTT(30)
    <3> QED
      BY <3>1, <3>2 DEF c
  <2> HIDE DEF p
  <2>7. posts[t] \in Seq(Writes) /\ posts'[t] = Append(posts[t], p) /\ placed'[t] = placed[t]
    BY <2>2, <1>0
  <2>w. p \in Writes
    <3>1. Staging(t) \in Offsets
      BY StagingFits, <1>0 DEF Offsets
    <3>2. ChunkLength(t) \in 1..Mb
      BY <2>1, <2>3, <2>4, ChunkFits DEF PartOK
    <3>3. task[t].off + total[t] \in Nat
      BY <2>3
    <3>4. task[t].off + total[t] \in Offsets
      BY <3>2, <3>3, <2>6, <1>0 DEF p, Offsets
    <3> QED
      BY <3>1, <3>2, <3>4 DEF p, Writes
  <2>8. /\ Len(posts'[t]) = Len(posts[t]) + 1 /\ posts'[t] # <<>>
        /\ \A i \in 1..Len(posts'[t]) :
             posts'[t][i] = p \/ (i \in 1..Len(posts[t]) /\ posts'[t][i] = posts[t][i])
        /\ posts'[t][1] = IF posts[t] = <<>> THEN p ELSE posts[t][1]
    <3>1. /\ Len(posts'[t]) = Len(posts[t]) + 1 /\ Len(posts[t]) \in Nat /\ posts'[t] # <<>>
          /\ posts'[t][Len(posts[t]) + 1] = p
          /\ \A i \in 1..Len(posts[t]) : posts'[t][i] = posts[t][i]
      BY <2>7, <2>w, Appended
    <3>2. posts[t] = <<>> <=> Len(posts[t]) = 0
      BY <2>7
    <3> QED
      BY <3>1, <3>2
  <2>9. WriteOK(t)'
    <3>1. \A i \in 1..Len(posts'[t]) :
            posts'[t][i].src = Staging(t) /\ posts'[t][i].dst + posts'[t][i].len <= 4 * Mb
      BY <2>6, <2>8, <1>0 DEF WriteOK
    <3>2. placed'[t] < posts'[t][1].len
      BY <2>6, <2>7, <2>8, <1>0 DEF WriteOK
    <3> QED
      BY <3>1, <3>2, <2>8 DEF WriteOK
  <2>10. \A u \in Threads \ {t} : WriteOK(u)'
    BY <2>2, <1>0, <1>f
  <2> QED
    BY <2>9, <2>10 DEF WritesOK
<1>14. ASSUME NEW t \in Threads, Place(t) PROVE WritesOK'
  <2> DEFINE q == posts[t]
  <2>1. q \in Seq(Writes) /\ q # <<>>
    BY <1>14, <1>0 DEF Place
  <2>2. /\ Head(q) \in Writes /\ Head(q) = q[1] /\ Tail(q) \in Seq(Writes)
        /\ Len(q) \in Nat \ {0} /\ Len(Tail(q)) = Len(q) - 1
        /\ \A i \in 1..Len(Tail(q)) : Tail(q)[i] = q[i + 1]
    BY <2>1, HeadTail
  <2>3. \A u \in Threads \ {t} : posts'[u] = posts[u] /\ placed'[u] = placed[u]
    BY <1>14, <1>0 DEF Place
  <2>4. CASE placed[t] + 1 = Head(q).len
    <3>1. posts'[t] = Tail(q) /\ placed'[t] = 0
      BY <2>4, <1>14, <1>0 DEF Place
    <3>2. \A i \in 1..Len(posts'[t]) : i + 1 \in 1..Len(q) /\ posts'[t][i] = q[i + 1]
      BY <3>1, <2>2
    <3>3. posts'[t] # <<>> => posts'[t][1].len > 0
      <4> SUFFICES ASSUME Tail(q) # <<>> PROVE Tail(q)[1].len > 0
        BY <3>1
      <4>1. Head(Tail(q)) \in Writes /\ Head(Tail(q)) = Tail(q)[1]
        BY <2>2, HeadTail
      <4> QED
        BY <4>1 DEF Writes
    <3>4. \A i \in 1..Len(posts'[t]) :
            posts'[t][i].src = Staging(t) /\ posts'[t][i].dst + posts'[t][i].len <= 4 * Mb
      BY <3>2, <1>0 DEF WriteOK
    <3>5. WriteOK(t)'
      BY <3>1, <3>3, <3>4 DEF WriteOK
    <3> QED
      BY <3>5, <2>3, <1>f DEF WritesOK
  <2>5. CASE placed[t] + 1 # Head(q).len
    <3>1. posts'[t] = q /\ placed'[t] = placed[t] + 1
      BY <2>5, <1>14, <1>0 DEF Place
    <3>2. q[1].len \in Nat /\ placed[t] \in Nat /\ placed[t] < q[1].len
      BY <2>1, <2>2, <1>0 DEF WriteOK, Writes
    <3>3. placed'[t] < q[1].len
      BY <3>1, <3>2, <2>2, <2>5
    <3>4. WriteOK(t)
      BY <1>0
    <3>5. WriteOK(t)'
      BY <3>1, <3>3, <3>4, <2>1 DEF WriteOK
    <3> QED
      BY <3>5, <2>3, <1>f DEF WritesOK
  <2> QED
    BY <2>4, <2>5
<1>15. CASE UNCHANGED vars
  BY <1>15, <1>u DEF vars, wireVars
<1> QED
  BY <1>1, <1>3, <1>7, <1>10, <1>11, <1>14, <1>15 DEF Next

-----------------------------------------------------------------------------
(* The queues *)

LEMMA LenZero ==
    ASSUME NEW S, NEW q \in Seq(S), Len(q) = 0
    PROVE  q = <<>>
OBVIOUS

LEMMA LenOne ==
    ASSUME NEW S, NEW q \in Seq(S), Len(q) = 1
    PROVE  q # <<>> /\ Tail(q) = <<>>
<1>1. q # <<>>
  OBVIOUS
<1>2. Tail(q) \in Seq(S) /\ Len(Tail(q)) = 0
  BY <1>1, HeadTail
<1>3. Tail(q) = <<>>
  BY <1>2, LenZero
<1> QED
  BY <1>1, <1>3

LEMMA PushOne ==
    ASSUME NEW S, NEW q \in Seq(S), NEW p \in S, q = <<>>
    PROVE  Len(Append(q, p)) = 1 /\ Append(q, p) # <<>> /\ Append(q, p)[1] = p
OBVIOUS

\* A step of the worker w, or of none.
LEMMA WorkerFrame ==
    ASSUME QueueOK, UNCHANGED <<transfers, early, pushed, size>>, pc'[Caller] = pc[Caller],
           NEW w \in Workers,
           \A u \in Workers \ {w} : pc'[u] = pc[u] /\ queue'[u] = queue[u] /\ offset'[u] = offset[u],
           InStep => CounterFits(w)' /\ (Done(w) => Done(w)')
    PROVE  QueueOK'
<1>1. ASSUME NEW u \in Workers, InStep PROVE CounterFits(u)' /\ (Done(u) => Done(u)')
  <2>1. CASE u = w
    BY <2>1, <1>1
  <2>2. CASE u # w
    BY <2>2, <1>1 DEF QueueOK, CounterFits, Pushing, Done
  <2> QED
    BY <2>1, <2>2
<1>2. InStep' <=> InStep
  BY DEF InStep
<1>3. InStep' =>
         /\ \A u \in Workers : CounterFits(u)'
         /\ pc'[Caller] # "undefined"
         /\ pc'[Caller] \in {"push", "count"} => \A u \in Workers : u > pushed' => Done(u)'
         /\ (~early' /\ pc'[Caller] = "idle") => \A u \in Workers : Done(u)'
         /\ (pc'[Caller] \in {"stage", "poll"} /\ size' < Mb) => \A u \in Workers : Done(u)'
  BY <1>1, <1>2 DEF QueueOK
<1> QED
  BY <1>3 DEF QueueOK

Labels == {"idle", "push", "count", "wait", "pop", "take", "uncount", "stage", "poll", "undefined"}

\* A step of the caller that touches no worker.
LEMMA CallerFrame ==
    ASSUME QueueOK, NEW l, Goto(Caller, l), pc \in [Threads -> Labels], UNCHANGED <<queue, offset>>,
           NEW w0 \in Nat, pushed = w0, pushed' = w0, pc[Caller] # "count", l # "count"
    PROVE  /\ pc'[Caller] = l
           /\ \A w \in Workers : Done(w)' <=> Done(w)
           /\ InStep => \A w \in Workers : CounterFits(w)'
<1>1. Caller \in Threads /\ \A w \in Workers : w \in Threads /\ w # Caller
  BY Threads3 DEF Threads
<1>2. pc'[Caller] = l /\ \A w \in Workers : pc'[w] = pc[w]
  BY <1>1 DEF Goto
<1> QED
  BY <1>2 DEF QueueOK, Done, CounterFits, Pushing

LEMMA QueueStep == IInv /\ [Next]_vars => QueueOK'
<1> SUFFICES ASSUME IInv, [Next]_vars PROVE QueueOK'
  OBVIOUS
<1>0. QueueOK /\ Mb \in Nat /\ Mb > 0 /\ transfers \in Nat /\ size \in Nat /\ pushed \in 0..WORKER_NUMBER
      /\ WORKER_NUMBER \in Nat /\ WORKER_NUMBER > 0
  BY TransferAssumption DEF IInv, TypeOK
<1>t. queue \in [Workers -> Seq(Tasks)] /\ offset \in [Workers -> 0..255] /\ pc \in [Threads -> Labels]
  <2>1. queue \in [Workers -> Seq(Tasks)]
    BY DEF IInv, TypeOK
  <2>2. offset \in [Workers -> 0..255]
    BY DEF IInv, TypeOK
  <2>3. pc \in [Threads -> Labels]
    BY DEF IInv, TypeOK, Labels
  <2> QED
    BY <2>1, <2>2, <2>3
<1>c. Caller \in Threads /\ \A w \in Workers : w \in Threads /\ w # Caller
  BY Threads3 DEF Threads
<1>k. InStep => \A w \in Workers : CounterFits(w)
  BY <1>0 DEF QueueOK
<1>p. pushed \in Nat
  BY <1>0
\* A step of no thread, or one inside a thread.
<1>f. ASSUME UNCHANGED <<transfers, early, pushed, size, pc, queue, offset>> PROVE QueueOK'
  <2>1. 1 \in Workers
    BY <1>0 DEF Workers
  <2>2. InStep => CounterFits(1)' /\ (Done(1) => Done(1)')
    BY <1>f, <1>k, <2>1 DEF CounterFits, Done, Pushing
  <2> QED
    BY <1>f, <1>0, <2>1, <2>2, WorkerFrame
\* A step of a worker that leaves the queues alone.
<1>w. ASSUME NEW w \in Workers, NEW l, Goto(w, l),
             UNCHANGED <<transfers, early, pushed, size, queue, offset>>,
             InStep => CounterFits(w)' /\ (Done(w) => Done(w)')
      PROVE  QueueOK'
  <2>1. pc'[Caller] = pc[Caller] /\ \A u \in Workers \ {w} : pc'[u] = pc[u]
    BY <1>w, <1>t, <1>c DEF Goto
  <2> QED
    BY <2>1, <1>w, <1>0, WorkerFrame
<1>1. CASE BeginSmall
  <2>1. /\ pc[Caller] = "idle" /\ Goto(Caller, "stage") /\ transfers' = transfers + 1
        /\ UNCHANGED <<early, pushed, queue, offset>>
    BY <1>1 DEF BeginSmall, BeginTransfer, EnterHamal, queueVars
  <2>2. /\ pc'[Caller] = "stage"
        /\ \A w \in Workers : Done(w)' <=> Done(w)
        /\ InStep => \A w \in Workers : CounterFits(w)'
    BY <2>1, <1>0, <1>t, <1>p, CallerFrame
  <2>3. InStep' => ~early /\ InStep
    BY <2>1, <1>0 DEF InStep, QueueOK
  <2>4. transfers' # 0 /\ (transfers' = 1 => ~early')
    BY <2>1, <1>0 DEF QueueOK
  <2> QED
    BY <2>1, <2>2, <2>3, <2>4, <1>0 DEF QueueOK
<1>2. CASE BeginLarge
  <2>1. /\ pc[Caller] = "idle" /\ Goto(Caller, "push") /\ transfers' = transfers + 1
        /\ UNCHANGED <<early, queue, offset>> /\ pushed' = 0
    BY <1>2 DEF BeginLarge, BeginTransfer, queueVars
  <2>2. pc'[Caller] = "push" /\ \A w \in Workers : pc'[w] = pc[w]
    BY <2>1, <1>t, <1>c DEF Goto
  <2>3. InStep' => ~early /\ InStep
    BY <2>1, <1>0 DEF InStep, QueueOK
  <2>4. \A w \in Workers : ~Pushing(w) /\ ~Pushing(w)'
    BY <2>1, <2>2 DEF Pushing
  <2>5. InStep' => \A w \in Workers : CounterFits(w)' /\ Done(w)'
    BY <2>1, <2>2, <2>3, <2>4, <1>0 DEF CounterFits, Done, QueueOK
  <2>6. transfers' # 0 /\ (transfers' = 1 => ~early')
    BY <2>1, <1>0 DEF QueueOK
  <2>7. size' >= Mb
    BY <1>2 DEF BeginLarge, BeginTransfer
  <2> QED
    BY <2>1, <2>2, <2>5, <2>6, <2>7 DEF QueueOK
<1>3. CASE PushBack
  <2>w. PICK w \in Workers : w = pushed + 1
    BY <1>3, <1>0 DEF PushBack, Workers
  <2> DEFINE p == Part(size, w)
  <2>1. /\ pc[Caller] = "push" /\ pushed' = w /\ w \in Workers
        /\ UNCHANGED <<transfers, early, size, offset>>
    BY <1>3, <2>w DEF PushBack
  <2>2. queue' = [queue EXCEPT ![w] = Append(@, p)]
        /\ IF pc[w] = "take" THEN Undefined ELSE Goto(Caller, "count")
    BY <1>3, <2>w DEF PushBack
  <2>3. p \in Tasks
    BY <2>1, <1>c, PartFits DEF IInv, TypeOK
  <2>4. w > pushed /\ \A u \in Workers : u > w => u > pushed
    BY <2>w, <1>0 DEF Workers
  <2> HIDE DEF p
  <2>5. transfers # 0 /\ (transfers = 1 => ~early)
    BY <2>1, <1>0 DEF QueueOK
  <2>6. pc'[Caller] \in {"count", "undefined"} /\ size' >= Mb
    BY <2>1, <2>2, <1>0, <1>t, <1>c DEF Undefined, Goto, QueueOK
  <2>7. ASSUME InStep
        PROVE  /\ pc'[Caller] = "count"
               /\ \A u \in Workers : CounterFits(u)' /\ (u > w => Done(u)')
    <3>1. Done(w) /\ \A u \in Workers : u > w => Done(u)
      BY <2>1, <2>4, <2>7, <1>0 DEF QueueOK
    <3>2. Goto(Caller, "count")
      BY <3>1, <2>2 DEF Done
    <3>3. pc'[Caller] = "count" /\ \A u \in Workers : pc'[u] = pc[u]
      BY <3>2, <1>t, <1>c DEF Goto
    <3>4. queue'[w] = Append(queue[w], p) /\ queue[w] = <<>> /\ queue[w] \in Seq(Tasks)
      BY <2>1, <2>2, <3>1, <1>t DEF Done
    <3>5. Len(queue'[w]) = 1
      BY <3>4, <2>3, PushOne
    <3>6. CounterFits(w)'
      <4>1. CounterFits(w) /\ Len(queue[w]) = 0
        BY <2>1, <2>7, <1>k, <3>4
      <4>2. offset[w] = 0
        BY <4>1, <3>1 DEF CounterFits, Done
      <4> QED
        BY <4>2, <2>1, <3>1, <3>3, <3>5 DEF CounterFits, Pushing, Done
    <3>7. ASSUME NEW u \in Workers, u # w PROVE CounterFits(u)' /\ (u > w => Done(u)')
      <4>1. queue'[u] = queue[u] /\ offset'[u] = offset[u] /\ pc'[u] = pc[u]
        BY <3>7, <2>1, <2>2, <3>3, <1>t
      <4>2. ~Pushing(u) /\ ~Pushing(u)'
        BY <3>7, <2>1 DEF Pushing
      <4>3. CounterFits(u)'
        BY <4>1, <4>2, <2>7, <1>k DEF CounterFits
      <4>4. u > w => Done(u)'
        BY <4>1, <3>1 DEF Done
      <4> QED
        BY <4>3, <4>4
    <3>8. ~(w > w)
      BY DEF Workers
    <3> QED
      BY <3>3, <3>6, <3>7, <3>8
  <2>8. InStep' => InStep
    BY <2>1 DEF InStep
  <2> QED
    BY <2>1, <2>5, <2>6, <2>7, <2>8 DEF QueueOK
<1>4. CASE CountPushed
  <2>1. /\ pc[Caller] = "count" /\ Goto(Caller, "push")
        /\ offset' = [offset EXCEPT ![pushed] = (@ + 1) % 256]
        /\ UNCHANGED <<transfers, early, pushed, size, queue>>
    BY <1>4 DEF CountPushed, callerVars
  <2>2. pc'[Caller] = "push" /\ \A u \in Workers : pc'[u] = pc[u]
    BY <2>1, <1>t, <1>c DEF Goto
  <2>3. ASSUME NEW u \in Workers, InStep PROVE CounterFits(u)'
    <3>1. ~Pushing(u)'
      BY <2>2 DEF Pushing
    <3>2. CASE u = pushed
      <4>1. offset[u] = 0 /\ Len(queue[u]) = 1 /\ pc[u] = "pop"
        BY <3>2, <2>1, <2>3, <1>k DEF CounterFits, Pushing
      <4>2. offset'[u] = (0 + 1) % 256
        BY <4>1, <3>2, <2>1, <1>t
      <4>3. offset'[u] = 1
        BY <4>2
      <4> QED
        BY <4>1, <4>3, <3>1, <2>1, <2>2 DEF CounterFits
    <3>3. CASE u # pushed
      <4>1. offset'[u] = offset[u] /\ ~Pushing(u)
        BY <3>3, <2>1, <1>t DEF Pushing
      <4> QED
        BY <4>1, <3>1, <2>1, <2>2, <2>3, <1>k DEF CounterFits
    <3> QED
      BY <3>2, <3>3
  <2>4. \A u \in Workers : Done(u) => Done(u)'
    BY <2>1, <2>2 DEF Done
  <2>5. InStep' => InStep
    BY <2>1 DEF InStep
  <2> QED
    BY <2>1, <2>2, <2>3, <2>4, <2>5, <1>0 DEF QueueOK
<1>5. CASE SendRest
  <2>1. /\ pc[Caller] = "push" /\ Goto(Caller, "stage")
        /\ UNCHANGED <<transfers, early, pushed, size, queue, offset>>
    BY <1>5 DEF SendRest, EnterHamal, callerVars, queueVars
  <2>2. /\ pc'[Caller] = "stage"
        /\ \A w \in Workers : Done(w)' <=> Done(w)
        /\ InStep => \A w \in Workers : CounterFits(w)'
    BY <2>1, <1>0, <1>t, <1>p, CallerFrame
  <2>3. ~(size < Mb) /\ transfers # 0 /\ (transfers = 1 => ~early)
    BY <2>1, <1>0 DEF QueueOK
  <2>4. InStep' => InStep
    BY <2>1 DEF InStep
  <2> QED
    BY <2>1, <2>2, <2>3, <2>4 DEF QueueOK
<1>6. CASE Return
  <2>1. /\ pc[Caller] = "wait" /\ Goto(Caller, "idle")
        /\ UNCHANGED <<transfers, pushed, size, queue, offset>>
        /\ early' = (early \/ \E w \in Workers : ~Done(w))
    BY <1>6 DEF Return, queueVars
  <2>2. /\ pc'[Caller] = "idle"
        /\ \A w \in Workers : Done(w)' <=> Done(w)
        /\ InStep => \A w \in Workers : CounterFits(w)'
    BY <2>1, <1>0, <1>t, <1>p, CallerFrame
  <2>3. transfers # 0
    BY <2>1, <1>0 DEF QueueOK
  <2>4. InStep' => InStep
    BY <2>1 DEF InStep
  <2>5. ~early' => \A w \in Workers : Done(w)'
    BY <2>1, <2>2
  <2> QED
    BY <2>1, <2>2, <2>3, <2>4, <2>5 DEF QueueOK
<1>7. ASSUME NEW w \in Workers, SeeTask(w) PROVE QueueOK'
  <2>1. /\ pc[w] = "pop" /\ offset[w] # 0 /\ Goto(w, "take")
        /\ UNCHANGED <<transfers, early, pushed, size, queue, offset>>
    BY <1>7 DEF SeeTask, callerVars, queueVars
  <2>2. pc'[w] = "take" /\ pc'[Caller] = pc[Caller]
    BY <2>1, <1>t, <1>c DEF Goto
  <2>3. ASSUME InStep PROVE CounterFits(w)' /\ ~Done(w)
    <3>1. Len(queue[w]) = 1 /\ offset[w] = 1 /\ ~Pushing(w)
      BY <2>1, <2>3, <1>k DEF CounterFits
    <3>2. ~Done(w)
      BY <3>1, <1>t, LenOne DEF Done
    <3> QED
      BY <3>1, <3>2, <2>1, <2>2 DEF CounterFits, Pushing
  <2> QED
    BY <2>1, <2>3, <1>w
<1>8. ASSUME NEW w \in Workers, Take(w) PROVE QueueOK'
  <2>1. pc[w] = "take" /\ UNCHANGED <<transfers, early, pushed, size, offset>>
    BY <1>8 DEF Take, callerVars
  <2>2. ASSUME InStep PROVE Len(queue[w]) = 1 /\ offset[w] = 1 /\ ~Pushing(w) /\ queue[w] # <<>>
    <3>1. Len(queue[w]) = 1 /\ offset[w] = 1 /\ ~Pushing(w)
      BY <2>1, <2>2, <1>k DEF CounterFits
    <3> QED
      BY <3>1, <1>t, LenOne
  <2>3. CASE queue[w] = <<>>
    <3>1. ~InStep /\ ~InStep'
      BY <2>1, <2>2, <2>3 DEF InStep
    <3>2. pc'[Caller] = "undefined"
      BY <1>8, <2>3, <1>c DEF Take, Undefined
    <3>3. transfers' # 0 /\ transfers' # 1
      BY <3>1, <2>1, <1>0 DEF InStep, QueueOK
    <3> QED
      BY <3>1, <3>2, <3>3, <1>0 DEF QueueOK
  <2>4. CASE queue[w] # <<>>
    <3>1. queue' = [queue EXCEPT ![w] = Tail(@)] /\ Goto(w, "uncount")
      BY <1>8, <2>4 DEF Take
    <3>2. pc'[w] = "uncount" /\ pc'[Caller] = pc[Caller] /\ \A u \in Workers \ {w} : pc'[u] = pc[u]
      BY <3>1, <1>t, <1>c DEF Goto
    <3>3. queue'[w] = Tail(queue[w]) /\ \A u \in Workers \ {w} : queue'[u] = queue[u]
      BY <3>1, <1>t
    <3>4. ASSUME InStep PROVE CounterFits(w)' /\ ~Done(w)
      <4>1. queue'[w] = <<>>
        BY <3>3, <3>4, <2>2, <1>t, LenOne
      <4>2. ~Done(w)
        BY <2>1 DEF Done
      <4> QED
        BY <4>1, <4>2, <3>2, <3>4, <2>1, <2>2 DEF CounterFits, Pushing
    <3> QED
      BY <3>2, <3>3, <3>4, <2>1, <1>0, WorkerFrame
  <2> QED
    BY <2>3, <2>4
<1>9. ASSUME NEW w \in Workers, CountTaken(w) PROVE QueueOK'
  <2>1. /\ pc[w] = "uncount" /\ offset' = [offset EXCEPT ![w] = (@ - 1) % 256] /\ Goto(w, "stage")
        /\ UNCHANGED <<transfers, early, pushed, size, queue>>
    BY <1>9 DEF CountTaken, EnterHamal, callerVars
  <2>2. pc'[w] = "stage" /\ pc'[Caller] = pc[Caller] /\ \A u \in Workers \ {w} : pc'[u] = pc[u]
    BY <2>1, <1>t, <1>c DEF Goto
  <2>3. ASSUME InStep PROVE CounterFits(w)' /\ ~Done(w)
    <3>1. queue[w] = <<>> /\ offset[w] = 1 /\ ~Pushing(w)
      BY <2>1, <2>3, <1>k DEF CounterFits
    <3>2. offset'[w] = (1 - 1) % 256
      BY <3>1, <2>1, <1>t
    <3>3. offset'[w] = 0
      BY <3>2
    <3>4. ~Done(w)
      BY <2>1 DEF Done
    <3> QED
      BY <3>1, <3>3, <3>4, <2>1, <2>2 DEF CounterFits, Pushing
  <2>4. \A u \in Workers \ {w} : offset'[u] = offset[u] /\ queue'[u] = queue[u]
    BY <2>1, <1>t
  <2> QED
    BY <2>1, <2>2, <2>3, <2>4, <1>0, WorkerFrame
<1>10. ASSUME NEW t \in Threads, Stage(t) \/ Place(t) PROVE QueueOK'
  BY <1>10, <1>f DEF Stage, StageOf, Place, callerVars, queueVars, threadVars
\* OutboundHamal: between stage and poll, and out of it.
<1>11. ASSUME NEW t \in Threads, PostWrite(t) \/ PollWrite(t) \/ Finish(t) PROVE QueueOK'
  <2>1. PICK l \in {"stage", "poll", "pop", "idle", "wait"} :
          /\ Goto(t, l) /\ pc[t] \in {"stage", "poll"}
          /\ t \in Workers => l \in {"stage", "poll", "pop"}
          /\ t = Caller => (l \in {"stage", "poll", "wait"} \/ (l = "idle" /\ size < Mb))
          /\ UNCHANGED <<transfers, early, pushed, size, queue, offset>>
    <3>1. CASE PostWrite(t)
      BY <3>1 DEF PostWrite, PostChunk, callerVars, queueVars
    <3>2. CASE PollWrite(t)
      BY <3>2 DEF PollWrite, PollSome, callerVars, queueVars
    <3>3. CASE Finish(t)
      BY <3>3, <1>c DEF Finish, callerVars, queueVars
    <3> QED
      BY <3>1, <3>2, <3>3, <1>11
  <2>2. CASE t \in Workers
    <3>1. pc'[t] = l /\ pc'[Caller] = pc[Caller]
      BY <2>1, <2>2, <1>t, <1>c DEF Goto
    <3>2. InStep => CounterFits(t)' /\ ~Done(t)
      BY <2>1, <2>2, <3>1, <1>k DEF CounterFits, Pushing, Done
    <3> QED
      BY <2>1, <2>2, <3>2, <1>w
  <2>3. CASE t = Caller
    <3>1. /\ pc'[Caller] = l
          /\ \A w \in Workers : Done(w)' <=> Done(w)
          /\ InStep => \A w \in Workers : CounterFits(w)'
      BY <2>1, <2>3, <1>0, <1>t, <1>p, CallerFrame
    <3>2. transfers # 0 /\ (transfers = 1 => ~early)
      BY <2>1, <2>3, <1>0 DEF QueueOK
    <3>3. InStep' => InStep
      BY <2>1 DEF InStep
    <3>4. (l = "idle" \/ size < Mb) /\ InStep => \A w \in Workers : Done(w)
      BY <2>1, <2>3, <1>0 DEF QueueOK
    <3> QED
      BY <2>1, <2>3, <3>1, <3>2, <3>3, <3>4 DEF QueueOK
  <2> QED
    BY <2>2, <2>3 DEF Threads
<1>15. CASE UNCHANGED vars
  BY <1>15, <1>f DEF vars, callerVars, queueVars, threadVars
<1> QED
  BY <1>1, <1>2, <1>3, <1>4, <1>5, <1>6, <1>7, <1>8, <1>9, <1>10, <1>11, <1>15 DEF Next

-----------------------------------------------------------------------------
(* Transfers below 1 MB, before the first large one *)

\* The caller's part of SmallOK, state by state.
WorkersIdle == \A w \in Workers : Done(w) /\ offset[w] = 0 /\ posts[w] = <<>>
SmallIdle == pc[Caller] = "idle" /\ posts[Caller] = <<>> /\ cq = 0 /\ HasArrived(size)
SmallBusy ==
    /\ size \in 1..(Mb - 1)
    /\ task[Caller] = Whole(size)
    /\ \A o \in 0..(size - 1) : buf[o] = <<transfers, o>>
SmallStage ==
    /\ pc[Caller] = "stage" /\ posts[Caller] = <<>> /\ cq = 0
    /\ total[Caller] = 0 \/ (total[Caller] = size /\ HasArrived(size))
SmallCompleted ==
    pc[Caller] = "poll" /\ posts[Caller] = <<>> /\ cq = 1 /\ total[Caller] = 0 /\ HasArrived(size)
SmallOut ==
    /\ pc[Caller] = "poll" /\ cq = 0
    /\ posts[Caller] = <<[src |-> 0, dst |-> 0, len |-> size]>>
    /\ total[Caller] = 0 /\ HasArrived(placed[Caller])

LEMMA SmallCases ==
    SmallOK <=> (~large => /\ WorkersIdle
                           /\ SmallIdle \/ (SmallBusy /\ (SmallStage \/ SmallCompleted \/ SmallOut)))
BY DEF SmallOK, WorkersIdle, SmallIdle, SmallBusy, SmallStage, SmallCompleted, SmallOut

\* Small transfers fit into one chunk, staged in place.
LEMMA SmallChunk ==
    ASSUME SmallBusy, TypeOK
    PROVE  /\ task[Caller].off = 0 /\ task[Caller].len = size /\ Staging(Caller) = 0
           /\ total[Caller] = 0 => ChunkLength(Caller) = size
           /\ total[Caller] = size => ChunkLength(Caller) = 0
           /\ size \in Nat /\ size > 0 /\ size < Mb /\ Mb \in Nat
<1>1. size \in Nat /\ size > 0 /\ size < Mb /\ Mb \in Nat
  BY TransferAssumption DEF SmallBusy
<1>2. task[Caller].off = 0 /\ task[Caller].len = size
  BY DEF SmallBusy, Whole
<1>3. Staging(Caller) = 0
  BY <1>1 DEF Staging, Caller
<1>4. total[Caller] = 0 => ChunkLength(Caller) = size
  BY <1>1, <1>2 DEF ChunkLength, Least
<1>5. total[Caller] = size => ChunkLength(Caller) = 0
  BY <1>1, <1>2 DEF ChunkLength, Least
<1> QED
  BY <1>1, <1>2, <1>3, <1>4, <1>5

LEMMA SmallStep == IInv /\ [Next]_vars => SmallOK'
<1> SUFFICES ASSUME IInv, [Next]_vars, ~large'
             PROVE  /\ WorkersIdle'
                    /\ SmallIdle' \/ (SmallBusy' /\ (SmallStage' \/ SmallCompleted' \/ SmallOut'))
  BY DEF SmallOK, WorkersIdle, SmallIdle, SmallBusy, SmallStage, SmallCompleted, SmallOut
<1> DEFINE Goal == /\ WorkersIdle'
                   /\ SmallIdle' \/ (SmallBusy' /\ (SmallStage' \/ SmallCompleted' \/ SmallOut'))
<1>0. TypeOK /\ Mb \in Nat /\ Mb > 0
  BY TransferAssumption DEF IInv
<1>t. /\ buf \in [Offsets -> Bytes \union {Blank}] /\ target \in [Offsets -> Bytes \union {Blank}]
      /\ pc \in [Threads -> Labels] /\ size \in Nat /\ transfers \in Nat
      /\ staged \in [Threads -> Nat] /\ placed \in [Threads -> Nat] /\ cq \in Nat
  <2>1. buf \in [Offsets -> Bytes \union {Blank}]
    BY <1>0 DEF TypeOK
  <2>2. target \in [Offsets -> Bytes \union {Blank}]
    BY <1>0 DEF TypeOK
  <2>3. pc \in [Threads -> Labels]
    BY <1>0 DEF TypeOK, Labels
  <2>4. size \in Nat /\ transfers \in Nat /\ cq \in Nat
    BY <1>0, TransferAssumption DEF TypeOK
  <2>5. staged \in [Threads -> Nat]
    BY <1>0 DEF TypeOK
  <2>6. placed \in [Threads -> Nat]
    BY <1>0 DEF TypeOK
  <2> QED
    BY <2>1, <2>2, <2>3, <2>4, <2>5, <2>6
<1>f. /\ posts \in [Threads -> Seq(Writes)] /\ total \in [Threads -> 0..(4 * Mb)]
      /\ task \in [Threads -> Tasks \union {Null}]
  <2>1. posts \in [Threads -> Seq(Writes)]
    BY <1>0 DEF TypeOK, Writes
  <2>2. total \in [Threads -> 0..(4 * Mb)]
    BY <1>0 DEF TypeOK
  <2>3. task \in [Threads -> Tasks \union {Null}]
    BY <1>0 DEF TypeOK
  <2> QED
    BY <2>1, <2>2, <2>3
<1>c. Caller \in Threads /\ \A w \in Workers : w \in Threads /\ w # Caller
  BY Threads3 DEF Threads
<1>s. ~large
  <2>1. ASSUME large PROVE large'
    BY <2>1 DEF Next, vars, callerVars, BeginSmall, BeginLarge, BeginTransfer, PushBack, CountPushed,
       SendRest, Return, SeeTask, Take, CountTaken, Stage, StageOf, PostWrite, PostChunk, PollWrite,
       PollSome, Finish, Place
  <2> QED
    BY <2>1
<1>i. WorkersIdle /\ (SmallIdle \/ (SmallBusy /\ (SmallStage \/ SmallCompleted \/ SmallOut)))
  BY <1>s, SmallCases DEF IInv
<1>p. pc[Caller] \in {"idle", "stage", "poll"} /\ \A w \in Workers : pc[w] = "pop"
  BY <1>i DEF SmallIdle, SmallStage, SmallCompleted, SmallOut, WorkersIdle, Done
\* A step of the caller or the adapter leaves the workers idle.
<1>w. ASSUME UNCHANGED <<queue, offset>>, \A w \in Workers : pc'[w] = pc[w] /\ posts'[w] = posts[w]
      PROVE  WorkersIdle'
  BY <1>w, <1>i DEF WorkersIdle, Done
<1>1. CASE BeginSmall
  <2>1. PICK n \in Sizes : n < Mb /\ BeginTransfer(n) /\ EnterHamal(Caller, Whole(n))
    BY <1>1 DEF BeginSmall
  <2>2. n \in 1..(Mb - 1)
    BY <2>1, <1>0, TransferAssumption
  <2>3. /\ size' = n /\ transfers' = transfers + 1 /\ UNCHANGED <<posts, cq, queue, offset>>
        /\ pc[Caller] = "idle" /\ buf' = [o \in Offsets |-> IF o < n THEN <<transfers + 1, o>> ELSE Blank]
    BY <2>1 DEF BeginTransfer, queueVars, wireVars
  <2>4. pc'[Caller] = "stage" /\ (\A w \in Workers : pc'[w] = pc[w]) /\ total'[Caller] = 0
        /\ task'[Caller] = Whole(n)
    BY <2>1, <1>t, <1>f, <1>c DEF EnterHamal, Goto
  <2>5. \A o \in 0..(n - 1) : buf'[o] = <<transfers', o>>
    <3>1. \A o \in 0..(n - 1) : o \in Offsets /\ o < n
      BY <2>2, <1>0 DEF Offsets
    <3> QED
      BY <3>1, <2>3
  <2>6. SmallBusy'
    BY <2>2, <2>3, <2>4, <2>5 DEF SmallBusy
  <2>7. SmallStage'
    BY <1>i, <2>3, <2>4 DEF SmallIdle, SmallStage, SmallCompleted, SmallOut
  <2> QED
    BY <2>3, <2>4, <2>6, <2>7, <1>w
<1>2. CASE BeginLarge
  BY <1>2 DEF BeginLarge
<1>3. CASE PushBack \/ CountPushed \/ SendRest \/ Return
  BY <1>3, <1>p DEF PushBack, CountPushed, SendRest, Return
<1>7. ASSUME NEW w \in Workers, SeeTask(w) \/ Take(w) \/ CountTaken(w) PROVE Goal
  BY <1>7, <1>p, <1>i DEF SeeTask, Take, CountTaken, WorkersIdle
<1>10. ASSUME NEW t \in Threads, Stage(t) PROVE Goal
  <2>1. /\ pc[t] = "stage" /\ staged[t] < ChunkLength(t)
        /\ buf' = [buf EXCEPT ![Staging(t) + staged[t]] = buf[task[t].off + total[t] + staged[t]]]
        /\ UNCHANGED <<target, size, transfers, queue, offset, pc, task, total, posts, cq>>
    BY <1>10 DEF Stage, StageOf, callerVars, queueVars, wireVars
  <2>2. t = Caller
    BY <2>1, <1>p DEF Threads
  <2>3. SmallBusy /\ SmallStage
    BY <2>1, <2>2, <1>i DEF SmallIdle, SmallCompleted, SmallOut
  <2>4. task[t].off = 0 /\ Staging(t) = 0 /\ ~(staged[t] < 0)
    BY <2>2, <2>3, <1>0, <1>t, <1>c, SmallChunk
  <2>5. total[t] = 0
    BY <2>1, <2>2, <2>3, <2>4, <1>0, SmallChunk DEF SmallStage
  <2>6. Staging(t) + staged[t] = staged[t] /\ task[t].off + total[t] + staged[t] = staged[t]
    BY <2>4, <2>5, <1>t
  <2>7. buf' = buf
    BY <2>1, <2>6, <1>t
  <2>8. SmallBusy'
    BY <2>1, <2>3, <2>7 DEF SmallBusy
  <2>9. SmallStage'
    BY <2>1, <2>3 DEF SmallStage, HasArrived
  <2> QED
    BY <2>1, <2>8, <2>9, <1>w
<1>11. ASSUME NEW t \in Threads, PostWrite(t) PROVE Goal
  <2> DEFINE p == [src |-> Staging(t), dst |-> task[t].off + total[t], len |-> ChunkLength(t)]
  <2>1. /\ pc[t] = "stage" /\ total[t] < task[t].len /\ posts' = [posts EXCEPT ![t] = Append(@, p)]
        /\ Goto(t, "poll")
        /\ UNCHANGED <<buf, target, size, transfers, queue, offset, task, total, placed, cq>>
    BY <1>11 DEF PostWrite, PostChunk, callerVars, queueVars
  <2>2. t = Caller
    BY <2>1, <1>p DEF Threads
  <2>3. SmallBusy /\ SmallStage
    BY <2>1, <2>2, <1>i DEF SmallIdle, SmallCompleted, SmallOut
  <2>4. total[t] = 0
    BY <2>1, <2>2, <2>3, <1>0, SmallChunk DEF SmallStage
  <2>5. p = [src |-> 0, dst |-> 0, len |-> size]
    BY <2>2, <2>3, <2>4, <1>0, SmallChunk
  <2> HIDE DEF p
  <2>6. posts'[Caller] = <<[src |-> 0, dst |-> 0, len |-> size]>> /\ \A w \in Workers : posts'[w] = posts[w]
    BY <2>1, <2>2, <2>3, <2>5, <1>f, <1>c DEF SmallStage
  <2>7. pc'[Caller] = "poll" /\ \A w \in Workers : pc'[w] = pc[w]
    BY <2>1, <2>2, <1>t, <1>c DEF Goto
  <2>8. placed'[Caller] = 0
    BY <2>1, <2>3, <1>c DEF SmallStage, IInv, WritesOK, WriteOK
  <2>9. HasArrived(placed[Caller])'
    BY <2>8 DEF HasArrived
  <2>10. SmallOut'
    BY <2>1, <2>2, <2>3, <2>4, <2>6, <2>7, <2>9 DEF SmallOut, SmallStage
  <2>11. SmallBusy'
    BY <2>1, <2>3 DEF SmallBusy
  <2> QED
    BY <2>1, <2>6, <2>7, <2>10, <2>11, <1>w
<1>12. ASSUME NEW t \in Threads, PollWrite(t) PROVE Goal
  <2>1. /\ pc[t] = "poll" /\ cq > 0 /\ cq' = cq - 1 /\ Goto(t, "stage")
        /\ total' = [total EXCEPT ![t] = @ + ChunkLength(t)]
        /\ UNCHANGED <<buf, target, size, transfers, queue, offset, task, posts>>
    BY <1>12 DEF PollWrite, PollSome, NextChunk, callerVars, queueVars
  <2>2. t = Caller
    BY <2>1, <1>p DEF Threads
  <2>3. SmallBusy /\ SmallCompleted
    BY <2>1, <2>2, <1>i DEF SmallIdle, SmallStage, SmallOut
  <2>4. total'[Caller] = 0 + size
    BY <2>1, <2>2, <2>3, <1>0, <1>f, <1>c, SmallChunk DEF SmallCompleted
  <2>5. total'[Caller] = size' /\ cq' = 0
    BY <2>1, <2>3, <2>4, <1>t DEF SmallCompleted
  <2>6. pc'[Caller] = "stage" /\ \A w \in Workers : pc'[w] = pc[w]
    BY <2>1, <2>2, <1>t, <1>c DEF Goto
  <2>7. SmallStage'
    BY <2>1, <2>3, <2>5, <2>6 DEF SmallStage, SmallCompleted, HasArrived
  <2>8. SmallBusy'
    BY <2>1, <2>3 DEF SmallBusy
  <2> QED
    BY <2>1, <2>6, <2>7, <2>8, <1>w
<1>13. ASSUME NEW t \in Threads, Finish(t) PROVE Goal
  <2>1. /\ pc[t] = "stage" /\ total[t] = task[t].len
        /\ Goto(t, IF t \in Workers THEN "pop" ELSE IF size < Mb THEN "idle" ELSE "wait")
        /\ UNCHANGED <<buf, target, size, transfers, queue, offset, posts, cq>>
    BY <1>13 DEF Finish, callerVars, queueVars, wireVars
  <2>2. t = Caller
    BY <2>1, <1>p DEF Threads
  <2>3. SmallBusy /\ SmallStage
    BY <2>1, <2>2, <1>i DEF SmallIdle, SmallCompleted, SmallOut
  <2>4. size < Mb /\ total[Caller] # 0
    BY <2>1, <2>2, <2>3, <1>0, SmallChunk
  <2>5. pc'[Caller] = "idle" /\ \A w \in Workers : pc'[w] = pc[w]
    BY <2>1, <2>2, <2>4, <1>t, <1>c DEF Goto
  <2>6. SmallIdle'
    BY <2>1, <2>3, <2>4, <2>5 DEF SmallStage, SmallIdle, HasArrived
  <2> QED
    BY <2>1, <2>5, <2>6, <1>w
<1>14. ASSUME NEW t \in Threads, Place(t) PROVE Goal
  <2> DEFINE n == placed[Caller]
  <2>1. posts[t] # <<>> /\ UNCHANGED <<buf, size, transfers, queue, offset, pc, task, total>>
    BY <1>14 DEF Place, callerVars, queueVars, threadVars
  <2>2. t = Caller
    BY <2>1, <1>i DEF WorkersIdle, Threads
  <2>3. SmallBusy /\ SmallOut
    BY <2>1, <2>2, <1>i DEF SmallIdle, SmallStage, SmallCompleted
  <2>4. Head(posts[t]).src = 0 /\ Head(posts[t]).dst = 0 /\ Head(posts[t]).len = size
        /\ Tail(posts[t]) = <<>> /\ posts[t][1].len = size
    BY <2>2, <2>3 DEF SmallOut
  <2>5. n \in Nat /\ n < size /\ size \in Nat /\ size < Mb
    BY <2>2, <2>4, <2>1, <2>3, <1>0, <1>t, <1>c, SmallChunk DEF IInv, WritesOK, WriteOK
  <2>6. target' = [target EXCEPT ![n] = buf[n]] /\ n \in Offsets
    <3>1. target' = [target EXCEPT ![0 + n] = buf[0 + n]]
      BY <1>14, <2>2, <2>4 DEF Place
    <3>2. n \in Offsets
      BY <2>5, <1>0 DEF Offsets
    <3>3. 0 + n = n
      BY <2>5
    <3> QED
      BY <3>1, <3>2, <3>3, Zenon
  <2>7. \A o \in 0..n : target'[o] = <<transfers', o>>
    <3>1. target'[n] = <<transfers, n>>
      BY <2>3, <2>5, <2>6, <1>t DEF SmallBusy
    <3>2. ASSUME NEW o \in 0..(n - 1) PROVE target'[o] = <<transfers, o>>
      <4>1. target[o] = <<transfers, o>>
        BY <2>3 DEF SmallOut, HasArrived
      <4>2. o # n /\ o \in Offsets
        BY <2>5, <1>0 DEF Offsets
      <4> QED
        BY <4>1, <4>2, <2>6, <1>t
    <3>3. \A o \in 0..n : o = n \/ o \in 0..(n - 1)
      BY <2>5
    <3> QED
      BY <3>1, <3>2, <3>3, <2>1
  <2>8. \A w \in Workers : posts'[w] = posts[w] /\ pc'[w] = pc[w]
    BY <1>14, <2>1, <2>2, <1>f, <1>c DEF Place
  <2>9. SmallBusy'
    BY <2>1, <2>3 DEF SmallBusy
  <2>10. CASE n + 1 = size
    <3>1. posts'[Caller] = <<>> /\ cq' = 1
      BY <1>14, <2>2, <2>3, <2>4, <2>10, <1>f, <1>c DEF Place, SmallOut
    <3>2. \A o \in 0..(size' - 1) : target'[o] = <<transfers', o>>
      BY <2>7, <2>10, <2>1, <2>5
    <3>3. SmallCompleted'
      BY <3>1, <3>2, <2>1, <2>3 DEF SmallCompleted, SmallOut, HasArrived
    <3> QED
      BY <3>3, <2>1, <2>8, <2>9, <1>w
  <2>11. CASE n + 1 # size
    <3>1. posts'[Caller] = posts[Caller] /\ placed'[Caller] = n + 1 /\ cq' = cq
      BY <1>14, <2>2, <2>4, <2>11, <1>t, <1>f, <1>c DEF Place
    <3>2. \A o \in 0..(placed'[Caller] - 1) : target'[o] = <<transfers', o>>
      BY <2>7, <2>5, <3>1
    <3>3. SmallOut'
      BY <3>1, <3>2, <2>1, <2>3 DEF SmallOut, HasArrived
    <3> QED
      BY <3>3, <2>1, <2>8, <2>9, <1>w
  <2> QED
    BY <2>10, <2>11
<1>15. CASE UNCHANGED vars
  BY <1>15, <1>i DEF vars, callerVars, queueVars, threadVars, wireVars, WorkersIdle, Done, SmallIdle,
     SmallBusy, SmallStage, SmallCompleted, SmallOut, HasArrived
<1> QED
  BY <1>1, <1>2, <1>3, <1>7, <1>10, <1>11, <1>12, <1>13, <1>14, <1>15 DEF Next

-----------------------------------------------------------------------------
(* The account of the completions *)

LEMMA WaitingFinite == IsFiniteSet(Waiting) /\ Cardinality(Waiting) \in Nat
<1>1. IsFiniteSet(Threads)
  BY Threads3, FS_Interval, TransferAssumption
<1>2. Waiting \in SUBSET Threads
  BY DEF Waiting
<1> QED
  BY <1>1, <1>2, FS_Subset, FS_CardinalityType

\* A thread begins to wait, or stops.
LEMMA WaitingMoves ==
    ASSUME TypeOK, NEW t \in Threads, NEW l, Goto(t, l)
    PROVE  /\ (pc[t] # "poll" /\ l # "poll") => Waiting' = Waiting
           /\ (pc[t] # "poll" /\ l = "poll") => Cardinality(Waiting') = Cardinality(Waiting) + 1
           /\ (pc[t] = "poll" /\ l # "poll") => Cardinality(Waiting') = Cardinality(Waiting) - 1
<1>1. \A u \in Threads : pc'[u] = IF u = t THEN l ELSE pc[u]
  BY DEF TypeOK, Goto
<1>2. (pc[t] # "poll" /\ l # "poll") => Waiting' = Waiting
  BY <1>1 DEF Waiting
<1>3. ASSUME pc[t] # "poll", l = "poll" PROVE Cardinality(Waiting') = Cardinality(Waiting) + 1
  <2>1. Waiting' = Waiting \union {t} /\ t \notin Waiting
    BY <1>1, <1>3 DEF Waiting
  <2> QED
    BY <2>1, WaitingFinite, FS_AddElement
<1>4. ASSUME pc[t] = "poll", l # "poll" PROVE Cardinality(Waiting') = Cardinality(Waiting) - 1
  <2>1. Waiting' = Waiting \ {t} /\ t \in Waiting
    BY <1>1, <1>4 DEF Waiting
  <2> QED
    BY <2>1, WaitingFinite, FS_RemoveElement
<1> QED
  BY <1>2, <1>3, <1>4

\* The outstanding writes, as a set of numbers.
Pending(f) == UNION {{t} \X (1..f[t]) : t \in Threads}

LEMMA PendingGrows ==
    ASSUME NEW f \in [Threads -> Nat], NEW g \in [Threads -> Nat], NEW t \in Threads,
           g[t] = f[t] + 1, \A u \in Threads : u # t => g[u] = f[u]
    PROVE  Pending(g) = Pending(f) \union {<<t, f[t] + 1>>} /\ <<t, f[t] + 1>> \notin Pending(f)
<1>1. ASSUME NEW x PROVE x \in Pending(g) <=> x \in Pending(f) \union {<<t, f[t] + 1>>}
  <2>1. x \in Pending(g) <=> \E u \in Threads : \E i \in 1..g[u] : x = <<u, i>>
    BY DEF Pending
  <2>2. x \in Pending(f) <=> \E u \in Threads : \E i \in 1..f[u] : x = <<u, i>>
    BY DEF Pending
  <2>3. 1..g[t] = (1..f[t]) \union {f[t] + 1}
    OBVIOUS
  <2> QED
    BY <2>1, <2>2, <2>3
<1>2. <<t, f[t] + 1>> \notin Pending(f)
  BY DEF Pending
<1> QED
  BY <1>1, <1>2

Lengths == [t \in Threads |-> Len(posts[t])]

LEMMA PendingLengths ==
    /\ Outstanding = Pending(Lengths)
    /\ Outstanding' = Pending(Lengths')
BY DEF Outstanding, Pending, Lengths

\* Finiteness is carried along: it follows from the posts being sequences, too.
CountOK == IsFiniteSet(Outstanding) /\ CompletionsSuffice

\* A step of a thread that posts nothing and takes nothing.
LEMMA CountKept ==
    ASSUME CountOK, UNCHANGED <<posts, cq>>,
           (pc[Caller] # "undefined")' => pc[Caller] # "undefined" /\ Waiting' = Waiting
    PROVE  CountOK'
<1>1. Outstanding' = Outstanding
  BY DEF Outstanding
<1> QED
  BY <1>1 DEF CountOK, CompletionsSuffice

LEMMA CountPost ==
    ASSUME TypeOK, TypeOK', CountOK, NEW t \in Threads, PostWrite(t)
    PROVE  CountOK'
<1>1. pc[t] = "stage" /\ Goto(t, "poll") /\ cq' = cq
  BY DEF PostWrite, PostChunk
<1>2. PICK p : posts' = [posts EXCEPT ![t] = Append(@, p)]
  BY DEF PostWrite, PostChunk
<1>3. posts \in [Threads -> Seq([src : Offsets, dst : Offsets, len : 1..Mb])]
  BY DEF TypeOK
<1>3p. posts' \in [Threads -> Seq([src : Offsets, dst : Offsets, len : 1..Mb])]
  BY DEF TypeOK
<1>4. Lengths \in [Threads -> Nat] /\ Lengths' \in [Threads -> Nat]
  BY <1>3, <1>3p DEF Lengths
<1>5. Lengths'[t] = Lengths[t] + 1 /\ \A u \in Threads : u # t => Lengths'[u] = Lengths[u]
  <2>1. posts'[t] = Append(posts[t], p) /\ \A u \in Threads : u # t => posts'[u] = posts[u]
    BY <1>2, <1>3
  <2>2. Len(posts'[t]) = Len(posts[t]) + 1
    <3>1. posts[t] \in Seq([src : Offsets, dst : Offsets, len : 1..Mb])
      BY <1>3
    <3> HIDE DEF Offsets
    <3> QED
      BY <2>1, <3>1
  <2> QED
    BY <2>1, <2>2 DEF Lengths
<1>6. PICK x : Outstanding' = Outstanding \union {x} /\ x \notin Outstanding
  <2>1. Pending(Lengths') = Pending(Lengths) \union {<<t, Lengths[t] + 1>>}
        /\ <<t, Lengths[t] + 1>> \notin Pending(Lengths)
    BY <1>4, <1>5, PendingGrows
  <2> QED
    BY <2>1, PendingLengths
<1>7. IsFiniteSet(Outstanding') /\ Cardinality(Outstanding') = Cardinality(Outstanding) + 1
  BY <1>6, FS_AddElement DEF CountOK
<1>8. Cardinality(Waiting') = Cardinality(Waiting) + 1
  BY <1>1, WaitingMoves
<1>9. (pc[Caller] # "undefined")' => pc[Caller] # "undefined"
  <2>1. pc' = [pc EXCEPT ![t] = "poll"] /\ pc[t] = "stage"
    BY <1>1 DEF Goto
  <2>2. Caller \in Threads /\ DOMAIN pc = Threads
    BY DEF TypeOK, Threads
  <2>3. Caller = t \/ pc'[Caller] = pc[Caller]
    BY <2>1, <2>2
  <2> QED
    BY <2>1, <2>3
<1>10. /\ Cardinality(Waiting) \in Nat /\ Cardinality(Outstanding) \in Nat /\ cq \in Nat
  BY WaitingFinite, FS_CardinalityType DEF CountOK, TypeOK
<1> QED
  BY <1>1, <1>7, <1>8, <1>9, <1>10 DEF CountOK, CompletionsSuffice

LEMMA CountPoll ==
    ASSUME TypeOK, CountOK, NEW t \in Threads, PollWrite(t)
    PROVE  CountOK'
<1>1. pc[t] = "poll" /\ Goto(t, "stage") /\ cq > 0 /\ cq' = cq - 1 /\ posts' = posts
  BY DEF PollWrite, PollSome
<1>2. Outstanding' = Outstanding
  BY <1>1 DEF Outstanding
<1>3. Cardinality(Waiting') = Cardinality(Waiting) - 1
  BY <1>1, WaitingMoves
<1>4. (pc[Caller] # "undefined")' => pc[Caller] # "undefined"
  BY <1>1 DEF Goto, TypeOK
<1>5. /\ Cardinality(Waiting) \in Nat /\ Cardinality(Outstanding) \in Nat /\ cq \in Nat
  BY WaitingFinite, FS_CardinalityType DEF CountOK, TypeOK
<1> QED
  BY <1>1, <1>2, <1>3, <1>4, <1>5 DEF CountOK, CompletionsSuffice

LEMMA CountPlace ==
    ASSUME TypeOK, TypeOK', CountOK, NEW t \in Threads, Place(t)
    PROVE  CountOK'
<1> DEFINE last == placed[t] + 1 = Head(posts[t]).len
<1>1. /\ posts[t] # <<>> /\ UNCHANGED pc
      /\ posts' = [posts EXCEPT ![t] = IF last THEN Tail(@) ELSE @]
      /\ cq' = IF last THEN cq + 1 ELSE cq
  BY DEF Place, threadVars
<1> HIDE DEF last
<1>2. Waiting' = Waiting
  BY <1>1 DEF Waiting
<1>3. posts \in [Threads -> Seq([src : Offsets, dst : Offsets, len : 1..Mb])]
  BY DEF TypeOK
<1>3p. posts' \in [Threads -> Seq([src : Offsets, dst : Offsets, len : 1..Mb])]
  BY DEF TypeOK
<1>4. CASE last
  <2>1. Lengths \in [Threads -> Nat] /\ Lengths' \in [Threads -> Nat]
    BY <1>3, <1>3p DEF Lengths
  <2>2. posts'[t] = Tail(posts[t]) /\ \A u \in Threads : u # t => posts'[u] = posts[u]
    BY <1>1, <1>3, <1>4
  <2>3. Len(posts[t]) = Len(posts'[t]) + 1
    <3>1. posts[t] \in Seq([src : Offsets, dst : Offsets, len : 1..Mb])
      BY <1>3
    <3>2. posts[t] # <<>>
      BY <1>1
    <3>3. Len(posts[t]) \in Nat /\ Len(Tail(posts[t])) = Len(posts[t]) - 1
      BY <3>1, <3>2, HeadTail
    <3> QED
      BY <2>2, <3>3
  <2>4. Lengths[t] = Lengths'[t] + 1 /\ \A u \in Threads : u # t => Lengths[u] = Lengths'[u]
    BY <2>2, <2>3 DEF Lengths
  <2>5. PICK x : Outstanding = Outstanding' \union {x} /\ x \notin Outstanding'
    <3>1. Pending(Lengths) = Pending(Lengths') \union {<<t, Lengths'[t] + 1>>}
          /\ <<t, Lengths'[t] + 1>> \notin Pending(Lengths')
      BY <2>1, <2>4, PendingGrows
    <3> QED
      BY <3>1, PendingLengths
  <2>6. Outstanding' = Outstanding \ {x} /\ x \in Outstanding
    BY <2>5
  <2>7. IsFiniteSet(Outstanding') /\ Cardinality(Outstanding') = Cardinality(Outstanding) - 1
    BY <2>6, FS_RemoveElement DEF CountOK
  <2>8. /\ Cardinality(Waiting) \in Nat /\ Cardinality(Outstanding) \in Nat /\ cq \in Nat
    BY WaitingFinite, FS_CardinalityType DEF CountOK, TypeOK
  <2> QED
    BY <1>1, <1>2, <1>4, <2>7, <2>8 DEF CountOK, CompletionsSuffice
<1>5. CASE ~last
  <2>1. posts' = posts
    BY <1>1, <1>3, <1>5
  <2> QED
    BY <1>1, <1>2, <1>5, <2>1, CountKept
<1> QED
  BY <1>4, <1>5

LEMMA CountStep == TypeOK /\ TypeOK' /\ CountOK /\ [Next]_vars => CountOK'
<1> SUFFICES ASSUME TypeOK, TypeOK', CountOK, [Next]_vars PROVE CountOK'
  OBVIOUS
<1> USE DEF callerVars, queueVars, threadVars, wireVars
<1>0. Caller \in Threads /\ \A w \in Workers : w \in Threads
  BY DEF Threads
<1>1. ASSUME NEW t \in Threads, NEW l, Goto(t, l), pc[t] \notin {"poll", "undefined"}, l # "poll",
             UNCHANGED <<posts, cq>>
      PROVE  CountOK'
  <2>1. Waiting' = Waiting
    BY <1>1, WaitingMoves
  <2>2. (pc[Caller] # "undefined")' => pc[Caller] # "undefined"
    BY <1>1 DEF Goto, TypeOK
  <2> QED
    BY <1>1, <2>1, <2>2, CountKept
<1>2. ASSUME UNCHANGED <<posts, cq, pc>> PROVE CountOK'
  BY <1>2, CountKept DEF Waiting
<1>3. ASSUME Undefined, UNCHANGED <<posts, cq>> PROVE CountOK'
  BY <1>0, <1>3, CountKept DEF Undefined
<1>4. CASE BeginSmall
  BY <1>0, <1>1, <1>4 DEF BeginSmall, BeginTransfer, EnterHamal
<1>5. CASE BeginLarge
  BY <1>0, <1>1, <1>5 DEF BeginLarge, BeginTransfer
<1>6. CASE PushBack
  BY <1>0, <1>1, <1>3, <1>6 DEF PushBack
<1>7. CASE CountPushed \/ Return \/ SendRest
  BY <1>0, <1>1, <1>7 DEF CountPushed, Return, SendRest, EnterHamal
<1>8. ASSUME NEW w \in Workers, SeeTask(w) \/ CountTaken(w) PROVE CountOK'
  BY <1>0, <1>1, <1>8 DEF SeeTask, CountTaken, EnterHamal
<1>9. ASSUME NEW w \in Workers, Take(w) PROVE CountOK'
  BY <1>0, <1>1, <1>3, <1>9 DEF Take
<1>10. ASSUME NEW t \in Threads, Stage(t) PROVE CountOK'
  BY <1>2, <1>10 DEF Stage, StageOf
<1>11. ASSUME NEW t \in Threads, Finish(t) PROVE CountOK'
  BY <1>1, <1>11 DEF Finish
<1>12. CASE UNCHANGED vars
  BY <1>2, <1>12 DEF vars
<1> QED
  BY <1>4, <1>5, <1>6, <1>7, <1>8, <1>9, <1>10, <1>11, <1>12, CountPost, CountPoll, CountPlace DEF Next

LEMMA CountInit == Init => CountOK
<1> SUFFICES ASSUME Init PROVE CountOK
  OBVIOUS
<1>1. Waiting = {} /\ Outstanding = {} /\ cq = 0
  BY DEF Init, Waiting, Outstanding
<1> QED
  BY <1>1, FS_EmptySet DEF CountOK, CompletionsSuffice

-----------------------------------------------------------------------------
(* Transfers in step *)

\* The share of a sender lies in the transfer.
LEMMA ShareFits ==
    ASSUME size \in 0..(4 * Mb), NEW t \in Senders
    PROVE  /\ t \in Threads /\ Share(t) \in Tasks
           /\ Share(t).off \in Nat /\ Share(t).len \in Nat /\ Share(t).off + Share(t).len <= size
<1>1. t \in Threads
  BY DEF Senders, Threads
<1>2. Share(t) \in Tasks /\ Share(t).off + Share(t).len <= size
  <2>1. CASE size < Mb
    BY <2>1, WholeFits, TransferAssumption DEF Share
  <2>2. CASE ~(size < Mb)
    BY <2>2, <1>1, PartFits DEF Share
  <2> QED
    BY <2>1, <2>2
<1>3. \A p \in Tasks : p.off \in Nat /\ p.len \in Nat
  BY TransferAssumption DEF Tasks, Offsets
<1> QED
  BY <1>1, <1>2, <1>3

\* No cell is in two shares.
LEMMA SharesApart ==
    ASSUME size \in 0..(4 * Mb), NEW t \in Senders, NEW u \in Senders, t # u,
           NEW i \in 0..(Share(t).len - 1), NEW j \in 0..(Share(u).len - 1)
    PROVE  Share(t).off + i # Share(u).off + j
<1> DEFINE s == ShipSize(size)
<1>1. size >= Mb /\ Senders = Threads
  BY TransferAssumption DEF Senders
<1>2. s \in Nat /\ WORKER_NUMBER * s <= size /\ WORKER_NUMBER \in {1, 2, 3} /\ size \in Nat
      /\ WORKER_NUMBER * s \in Nat
  BY ShipFits, TransferAssumption
<1>3. \A v \in Threads : Share(v) = Part(size, v) /\ v \in 0..WORKER_NUMBER /\ (v \in Workers <=> v # 0)
  BY <1>1, <1>2, Threads3, TransferAssumption DEF Share, Threads, Workers, Caller
<1>4. \A v \in Workers : Share(v).off = (v - 1) * s /\ Share(v).len = s
  BY <1>3, Threads3 DEF Part, s, Threads
<1>5. Share(Caller).off = WORKER_NUMBER * s /\ Share(Caller).len = size - WORKER_NUMBER * s
  BY <1>3, Threads3 DEF Part, s, Threads
<1> HIDE DEF s
<1>6. ASSUME NEW v \in Workers, NEW w \in Workers, v < w PROVE (v - 1) * s + s <= (w - 1) * s
  <2>1. v \in {1, 2, 3} /\ w \in {1, 2, 3}
    BY <1>2 DEF Workers
  <2> QED
    BY <2>1, <1>2, <1>6
<1>7. ASSUME NEW v \in Workers PROVE (v - 1) * s \in Nat /\ (v - 1) * s + s <= WORKER_NUMBER * s
  <2>1. v \in {1, 2, 3} /\ v <= WORKER_NUMBER
    BY <1>2 DEF Workers
  <2> QED
    BY <2>1, <1>2
<1>8. CASE t \in Workers /\ u \in Workers
  <2>1. t < u \/ u < t
    BY <1>8 DEF Workers
  <2> DEFINE a == (t - 1) * s
             b == (u - 1) * s
  <2>2. a \in Nat /\ b \in Nat /\ (a + s <= b \/ b + s <= a)
    BY <2>1, <1>6, <1>7, <1>8
  <2>3. Share(t).off = a /\ Share(u).off = b /\ i \in 0..(s - 1) /\ j \in 0..(s - 1)
    BY <1>4, <1>8
  <2> HIDE DEF a, b
  <2> QED
    BY <2>2, <2>3, <1>2
<1> DEFINE x == WORKER_NUMBER * s
<1>9. ASSUME NEW v \in Workers, NEW k \in 0..(Share(v).len - 1), NEW l \in 0..(Share(Caller).len - 1)
      PROVE  Share(v).off + k # Share(Caller).off + l
  <2> DEFINE a == (v - 1) * s
  <2>1. a \in Nat /\ a + s <= x /\ x \in Nat
    BY <1>2, <1>7
  <2>2. Share(v).off = a /\ k \in 0..(s - 1) /\ Share(Caller).off = x /\ l \in Nat
    BY <1>2, <1>4, <1>5, <1>9
  <2> HIDE DEF a, x
  <2> QED
    BY <2>1, <2>2, <1>2
<1>10. (t = Caller \/ t \in Workers) /\ (u = Caller \/ u \in Workers)
  BY <1>1 DEF Threads
<1> QED
  BY <1>8, <1>9, <1>10

LEMMA HandedNat ==
    ASSUME TypeOK, PartsOK, NEW t \in Threads
    PROVE  Handed(t) \in Nat
<1>1. total[t] \in Nat
  BY DEF TypeOK
<1>2. pc[t] = "poll" => ChunkLength(t) \in Nat
  <2>1. pc[t] = "poll" => task[t] \in Tasks /\ total[t] <= task[t].len
    BY DEF TypeOK, PartsOK, PartOK
  <2>2. \A p \in Tasks : p.len \in Nat
    BY TransferAssumption DEF Tasks, Offsets
  <2> QED
    BY <2>1, <2>2, <1>1, ChunkFits, TransferAssumption
<1> QED
  BY <1>1, <1>2 DEF Handed

\* The writes of a thread read its staging area and go to the target.
LEMMA PostCells ==
    ASSUME TypeOK, WritesOK, NEW t \in Threads
    PROVE  /\ posts[t] \in Seq(Writes) /\ Len(posts[t]) \in Nat /\ placed[t] \in Nat
           /\ \A i \in 1..Len(posts[t]) :
                /\ posts[t][i].src = Staging(t) /\ posts[t][i].dst \in Nat
                /\ posts[t][i].len \in Nat /\ posts[t][i].len > 0
                /\ \A j \in 0..(posts[t][i].len - 1) : Staging(t) + j \in Offsets
           /\ posts[t] = <<>> => placed[t] = 0
           /\ posts[t] # <<>> => 1 \in 1..Len(posts[t]) /\ placed[t] < posts[t][1].len
<1>1. posts[t] \in Seq(Writes) /\ placed[t] \in Nat /\ WriteOK(t)
  <2>1. posts[t] \in Seq(Writes) /\ WriteOK(t)
    BY DEF TypeOK, Writes, WritesOK
  <2>2. placed[t] \in 0..(Mb - 1)
    BY DEF TypeOK
  <2> QED
    BY <2>1, <2>2, TransferAssumption
<1>2. \A p \in Writes : p.dst \in Nat /\ p.len \in 1..Mb
  BY TransferAssumption DEF Writes, Offsets
<1>3. ASSUME NEW i \in 1..Len(posts[t])
      PROVE  /\ posts[t][i].src = Staging(t) /\ posts[t][i].dst \in Nat
             /\ posts[t][i].len \in Nat /\ posts[t][i].len > 0
             /\ \A j \in 0..(posts[t][i].len - 1) : Staging(t) + j \in Offsets
  <2>1. posts[t][i] \in Writes
    BY <1>1
  <2>2. posts[t][i].len \in 1..Mb
    BY <2>1, <1>2
  <2>3. \A j \in 0..(posts[t][i].len - 1) : Staging(t) + j \in Offsets
    <3> DEFINE n == posts[t][i].len
               a == Staging(t)
    <3>1. n \in 1..Mb /\ a \in Nat /\ a + Mb <= 4 * Mb
      BY <2>2, StagingFits
    <3> HIDE DEF n, a
    <3>2. \A j \in 0..(n - 1) : a + j \in Offsets
      BY <3>1, TransferAssumption DEF Offsets
    <3> QED
      BY <3>2 DEF n, a
  <2> QED
    BY <2>1, <2>2, <2>3, <1>1, <1>2 DEF WriteOK
<1>4. posts[t] # <<>> => 1 \in 1..Len(posts[t])
  BY <1>1, HeadTail
<1> QED
  BY <1>1, <1>3, <1>4 DEF WriteOK

\* What a step never does to a cell during a transfer: bring another one's bytes there.
BufKept == \A o \in Offsets : Current(buf[o]) => Current(buf[o])'

\* A sender that goes on elsewhere, or not at all.
LEMMA SenderFrame ==
    ASSUME TypeOK, WritesOK, BufKept, NEW t \in Senders, SenderOK(t), UNCHANGED <<size, transfers>>,
           \A i \in 0..(Share(t).len - 1) : target'[Share(t).off + i] = target[Share(t).off + i],
           posts'[t] = posts[t], placed'[t] = placed[t], HasBegun(t)' = HasBegun(t),
           HasBegun(t) => task'[t] = task[t] /\ total'[t] = total[t],
           pc'[t] = "poll" <=> pc[t] = "poll",
           pc'[t] \in {"stage", "poll"} => pc[t] \in {"stage", "poll"} /\ staged'[t] = staged[t]
    PROVE  SenderOK(t)'
<1>1. t \in Threads
  BY DEF Senders, Threads
<1>2. Share(t)' = Share(t)
  BY DEF Share
<1>3. Handed(t)' = Handed(t)
  BY DEF Handed, ChunkLength
<1>4. AtPeer(t)' = AtPeer(t)
  BY <1>2, <1>3 DEF AtPeer
<1>5. StagedCurrent(t)'
  <2>1. \A i \in 0..(staged[t] - 1) : Staging(t) + i \in Offsets
    <3> DEFINE n == staged[t]
               a == Staging(t)
    <3>1. n \in 0..Mb /\ a \in Nat /\ a + Mb <= 4 * Mb
      BY <1>1, StagingFits DEF TypeOK
    <3> HIDE DEF n, a
    <3>2. \A i \in 0..(n - 1) : a + i \in Offsets
      BY <3>1, TransferAssumption DEF Offsets
    <3> QED
      BY <3>2 DEF n, a
  <2> QED
    BY <2>1 DEF SenderOK, StagedCurrent, BufKept
<1>6. PostedCurrent(t)'
  BY <1>1, PostCells DEF SenderOK, PostedCurrent, BufKept
<1>7. InShare(t)' /\ Chained(t)'
  BY <1>2, <1>3 DEF SenderOK, InShare, Chained
<1>8. ArrivedInOrder(t)'
  BY <1>2, <1>4 DEF SenderOK, ArrivedInOrder, Current
<1> QED
  BY <1>2, <1>3, <1>5, <1>6, <1>7, <1>8 DEF SenderOK

\* A sender that enters OutboundHamal with its share.
LEMMA SenderEnters ==
    ASSUME TypeOK, WritesOK, NEW t \in Senders, SenderOK(t), ~HasBegun(t), HasBegun(t)',
           EnterHamal(t, Share(t)), UNCHANGED <<size, transfers, target, posts, placed>>,
           size \in 0..(4 * Mb)
    PROVE  SenderOK(t)'
<1>1. t \in Threads /\ Share(t).len \in Nat
  BY ShareFits
<1>2. task'[t] = Share(t) /\ total'[t] = 0 /\ staged'[t] = 0 /\ pc'[t] = "stage"
  BY <1>1 DEF TypeOK, EnterHamal, Goto
<1>3. Share(t)' = Share(t)
  BY DEF Share
<1>4. Handed(t)' = 0 /\ Handed(t) = 0
  BY <1>2 DEF Handed
<1>5. posts[t] = <<>> /\ posts'[t] = <<>> /\ Len(posts'[t]) = 0
  BY DEF SenderOK
<1>6. AtPeer(t)' = AtPeer(t)
  BY <1>4, <1>5 DEF AtPeer
<1>7. ArrivedInOrder(t)'
  BY <1>3, <1>6 DEF SenderOK, ArrivedInOrder, Current
<1>8. StagedCurrent(t)' /\ PostedCurrent(t)' /\ InShare(t)' /\ Chained(t)'
  BY <1>2, <1>5 DEF StagedCurrent, PostedCurrent, InShare, Chained
<1> QED
  BY <1>1, <1>2, <1>3, <1>4, <1>5, <1>7, <1>8 DEF SenderOK

\* The cells a copy and an arrival read and write.
LEMMA StageCells ==
    ASSUME TypeOK, PartsOK, NEW t \in Threads, Stage(t)
    PROVE  /\ pc[t] = "stage" /\ task[t] # Null /\ staged[t] \in Nat /\ total[t] \in Nat
           /\ task[t].off \in Nat /\ task[t].len \in Nat
           /\ total[t] + staged[t] < task[t].len /\ task[t].off + task[t].len <= 4 * Mb
           /\ task[t].off + total[t] + staged[t] \in Offsets
           /\ Staging(t) + staged[t] \in Offsets
<1>1. pc[t] = "stage" /\ staged[t] < ChunkLength(t) /\ staged[t] \in Nat /\ total[t] \in Nat
  <2>1. staged[t] \in 0..Mb /\ total[t] \in 0..(4 * Mb)
    BY DEF TypeOK
  <2> QED
    BY <2>1, TransferAssumption DEF Stage, StageOf
<1>2. task[t] # Null /\ task[t] \in Tasks /\ total[t] <= task[t].len /\ task[t].off + task[t].len <= 4 * Mb
  BY <1>1 DEF TypeOK, PartsOK, PartOK
<1>3. task[t].off \in Nat /\ task[t].len \in Nat
  BY <1>2, TransferAssumption DEF Tasks, Offsets
<1>4. ChunkLength(t) \in 0..Mb /\ total[t] + ChunkLength(t) <= task[t].len
  BY <1>1, <1>2, <1>3, ChunkFits
<1> DEFINE c == ChunkLength(t)
           k == staged[t]
           n == total[t]
           a == task[t].off
           l == task[t].len
           s == Staging(t)
<1>5. /\ Mb \in Nat /\ c \in 0..Mb /\ k \in Nat /\ n \in Nat /\ a \in Nat /\ l \in Nat /\ s \in Nat
      /\ k < c /\ n + c <= l /\ a + l <= 4 * Mb /\ s + Mb <= 4 * Mb
  BY <1>1, <1>2, <1>3, <1>4, StagingFits, TransferAssumption
<1> HIDE DEF c, k, n, a, l, s
<1>6. n + k < l /\ a + n + k \in Offsets /\ s + k \in Offsets
  BY <1>5 DEF Offsets
<1> QED
  BY <1>1, <1>2, <1>3, <1>6 DEF k, n, a, l, s

LEMMA PlaceCells ==
    ASSUME TypeOK, WritesOK, NEW t \in Threads, Place(t)
    PROVE  /\ 1 \in 1..Len(posts[t]) /\ Head(posts[t]) = posts[t][1]
           /\ posts[t][1].dst \in Nat /\ posts[t][1].len \in Nat /\ posts[t][1].src = Staging(t)
           /\ placed[t] \in 0..(posts[t][1].len - 1)
           /\ posts[t][1].src + placed[t] \in Offsets
           /\ posts[t][1].dst + placed[t] \in Offsets
<1>1. posts[t] # <<>> /\ posts[t] \in Seq(Writes) /\ Head(posts[t]) = posts[t][1]
  BY HeadTail DEF Place, TypeOK, Writes
<1>2. /\ 1 \in 1..Len(posts[t]) /\ posts[t][1].src = Staging(t) /\ placed[t] \in Nat
      /\ posts[t][1].dst \in Nat /\ posts[t][1].len \in Nat /\ placed[t] < posts[t][1].len
  BY <1>1, PostCells
<1>3. placed[t] \in 0..(posts[t][1].len - 1)
  <2> DEFINE n == placed[t]
             l == posts[t][1].len
  <2>1. n \in Nat /\ l \in Nat /\ n < l
    BY <1>2
  <2> HIDE DEF n, l
  <2>2. n \in 0..(l - 1)
    BY <2>1
  <2> QED
    BY <2>2 DEF n, l
<1>4. Staging(t) + placed[t] \in Offsets
  BY <1>2, <1>3, PostCells
<1>5. posts[t][1].dst + placed[t] \in Offsets
  <2> DEFINE n == placed[t]
             l == posts[t][1].len
             d == posts[t][1].dst
  <2>1. n \in Nat /\ l \in Nat /\ n < l /\ d \in Nat
    BY <1>2
  <2>2. d + l <= 4 * Mb
    BY <1>2 DEF WritesOK, WriteOK
  <2> HIDE DEF n, l, d
  <2>3. d + n \in Offsets
    BY <2>1, <2>2, TransferAssumption DEF Offsets
  <2> QED
    BY <2>3 DEF n, d
<1> QED
  BY <1>1, <1>2, <1>3, <1>4, <1>5

LEMMA AgeStep == IInv /\ AgeOK /\ [Next]_vars => AgeOK'
<1> SUFFICES ASSUME IInv, AgeOK, [Next]_vars PROVE AgeOK'
  OBVIOUS
<1>0. TypeOK /\ PartsOK /\ WritesOK /\ transfers \in Nat /\ MaxTransfers \in Nat
  <2>1. TypeOK /\ PartsOK /\ WritesOK
    BY DEF IInv
  <2>2. transfers \in 0..MaxTransfers
    BY <2>1 DEF TypeOK
  <2> QED
    BY <2>1, <2>2, TransferAssumption
<1>y. buf \in [Offsets -> Bytes \union {Blank}] /\ target \in [Offsets -> Bytes \union {Blank}]
  BY <1>0 DEF TypeOK
<1>1. ASSUME NEW n \in Sizes, BeginTransfer(n) PROVE AgeOK'
  <2>1. transfers' = transfers + 1 /\ UNCHANGED target
        /\ buf' = [o \in Offsets |-> IF o < n THEN <<transfers + 1, o>> ELSE Blank]
    BY <1>1 DEF BeginTransfer
  <2>2. \A x : Old(x) => Old(x)'
    BY <2>1, <1>0 DEF Old
  <2>3. ASSUME NEW o, NEW k \in 1..MaxTransfers, k > transfers'
        PROVE  <<transfers + 1, o>> \notin {k} \X Offsets /\ Blank \notin {k} \X Offsets
    <3>1. k # transfers + 1
      BY <2>1, <2>3, <1>0
    <3>2. Blank \notin {k} \X Offsets
      BY TransferAssumption DEF Bytes
    <3> QED
      BY <3>1, <3>2
  <2>4. ASSUME NEW o \in Offsets PROVE Old(buf[o])' /\ Old(target[o])'
    <3>1. buf'[o] = <<transfers + 1, o>> \/ buf'[o] = Blank
      BY <2>1
    <3>2. Old(buf[o])'
      BY <2>3, <3>1 DEF Old
    <3>3. target'[o] = target[o] /\ Old(target[o])
      BY <2>1 DEF AgeOK
    <3> QED
      BY <2>2, <3>2, <3>3 DEF Old
  <2> QED
    BY <2>4 DEF AgeOK
<1>2. ASSUME UNCHANGED <<buf, target, transfers>> PROVE AgeOK'
  BY <1>2 DEF AgeOK, Old
<1>3. ASSUME NEW t \in Threads, Stage(t) PROVE AgeOK'
  <2>1. \A o \in Offsets : \E u \in Offsets : buf'[o] = buf[u]
    BY <1>0, <1>3, <1>y, StageCells DEF Stage, StageOf
  <2>2. UNCHANGED <<target, transfers>>
    BY <1>3 DEF Stage, StageOf, callerVars
  <2> QED
    BY <2>1, <2>2 DEF AgeOK, Old
<1>4. ASSUME NEW t \in Threads, Place(t) PROVE AgeOK'
  <2>1. UNCHANGED <<buf, transfers>>
    BY <1>4 DEF Place, callerVars
  <2>2. \A o \in Offsets : target'[o] = target[o] \/ \E u \in Offsets : target'[o] = buf[u]
    BY <1>0, <1>4, <1>y, PlaceCells DEF Place
  <2> QED
    BY <2>1, <2>2 DEF AgeOK, Old
<1>5. CASE BeginSmall
  BY <1>1, <1>5 DEF BeginSmall
<1>6. CASE BeginLarge
  BY <1>1, <1>6 DEF BeginLarge
<1>7. CASE PushBack \/ CountPushed \/ SendRest \/ Return
  BY <1>2, <1>7 DEF PushBack, CountPushed, SendRest, Return, callerVars
<1>8. ASSUME NEW w \in Workers, SeeTask(w) \/ Take(w) \/ CountTaken(w) PROVE AgeOK'
  BY <1>2, <1>8 DEF SeeTask, Take, CountTaken, callerVars
<1>9. ASSUME NEW t \in Threads, PostWrite(t) \/ PollWrite(t) \/ Finish(t) PROVE AgeOK'
  BY <1>2, <1>9 DEF PostWrite, PostChunk, PollWrite, PollSome, Finish, callerVars
<1>10. CASE UNCHANGED vars
  BY <1>2, <1>10 DEF vars, callerVars
<1> QED
  BY <1>3, <1>4, <1>5, <1>6, <1>7, <1>8, <1>9, <1>10 DEF Next

\* Workers that are done leave no write behind them.
LEMMA NothingLeft ==
    ASSUME IInv, CountOK, ~early, pc[Caller] = "idle"
    PROVE  \A t \in Threads : posts[t] = <<>>
<1>1. \A w \in Workers : pc[w] = "pop"
  BY DEF IInv, QueueOK, InStep, Done
<1>2. Waiting = {}
  BY <1>1 DEF Waiting, Threads
<1>3. Cardinality(Outstanding) \in Nat /\ cq \in Nat /\ 0 = cq + Cardinality(Outstanding)
  BY <1>2, FS_EmptySet, FS_CardinalityType DEF CountOK, CompletionsSuffice, IInv, TypeOK
<1>4. Outstanding = {}
  <2>1. Cardinality(Outstanding) = 0
    BY <1>3
  <2> QED
    BY <2>1, FS_EmptySet DEF CountOK
<1> SUFFICES ASSUME NEW t \in Threads, posts[t] # <<>> PROVE FALSE
  OBVIOUS
<1>5. 1 \in 1..Len(posts[t])
  BY PostCells DEF IInv
<1>6. <<t, 1>> \in {t} \X (1..Len(posts[t]))
  BY <1>5
<1>7. <<t, 1>> \in Outstanding
  BY <1>6 DEF Outstanding
<1> QED
  BY <1>4, <1>7

LEMMA GapBegin ==
    ASSUME IInv, IInv', AgeOK, CountOK, InStep', NEW n \in Sizes, BeginTransfer(n),
           \/ n < Mb /\ EnterHamal(Caller, Whole(n)) /\ UNCHANGED pushed
           \/ n >= Mb /\ Goto(Caller, "push") /\ pushed' = 0
    PROVE  InStepOK'
<1>1. /\ pc[Caller] = "idle" /\ transfers' = transfers + 1 /\ size' = n
      /\ buf' = [o \in Offsets |-> IF o < n THEN <<transfers + 1, o>> ELSE Blank]
      /\ UNCHANGED <<target, early, queue, posts, placed>>
  BY DEF BeginTransfer, queueVars, wireVars
<1>2. transfers \in Nat /\ transfers' \in 1..MaxTransfers /\ n \in 1..(4 * Mb) /\ Mb \in Nat /\ Mb > 0
  <2>1. transfers \in Nat /\ transfers' \in Nat /\ transfers' <= MaxTransfers /\ MaxTransfers \in Nat
    BY TransferAssumption DEF IInv, TypeOK
  <2> QED
    BY <2>1, <1>1, TransferAssumption
<1>3. ~early
  BY <1>1, <1>2 DEF InStep, IInv, QueueOK
<1>4. \A w \in Workers : Done(w)
  BY <1>1, <1>3 DEF IInv, QueueOK, InStep
<1>5. \A t \in Threads : posts'[t] = <<>> /\ Len(posts'[t]) = 0
  BY <1>1, <1>3, NothingLeft
<1>c. Caller \in Threads /\ \A w \in Workers : w \in Threads /\ w # Caller
  BY Threads3 DEF Threads
<1>6. \A w \in Workers : Done(w)'
  <2>1. \A w \in Workers : pc'[w] = pc[w]
    BY <1>c DEF IInv, TypeOK, EnterHamal, Goto
  <2> QED
    BY <2>1, <1>1, <1>4 DEF Done
<1>7. \A o \in Offsets : ~Current(target[o])'
  BY <1>1, <1>2 DEF AgeOK, Old, Current
<1>8. ASSUME NEW o \in 0..(n - 1) PROVE Current(buf[o])'
  <2>1. o \in Offsets /\ o < n
    BY <1>2 DEF Offsets
  <2>2. buf'[o] = <<transfers', o>>
    BY <2>1, <1>1
  <2> QED
    BY <2>1, <2>2 DEF Current
<1>9. /\ n < Mb => task'[Caller] = Whole(n) /\ total'[Caller] = 0 /\ staged'[Caller] = 0 /\ pc'[Caller] = "stage"
      /\ n >= Mb => pc'[Caller] = "push" /\ pushed' = 0
  <2>1. n < Mb => EnterHamal(Caller, Whole(n))
    BY <1>2
  <2>2. n >= Mb => Goto(Caller, "push") /\ pushed' = 0
    BY <1>2
  <2> QED
    BY SMTT(30), <2>1, <2>2, <1>c DEF IInv, TypeOK, EnterHamal, Goto
<1>10. n >= Mb => \A w \in Workers : ShareQueued(w)'
  <2> SUFFICES ASSUME n >= Mb, NEW w \in Workers PROVE ShareQueued(w)'
    OBVIOUS
  <2>1. queue'[w] = <<>> /\ Len(queue'[w]) = 0 /\ Done(w)' /\ ~(w <= pushed')
    BY <1>6, <1>9, Threads3 DEF Done, Workers, Caller
  <2> QED
    BY <2>1 DEF ShareQueued
<1>11. ASSUME NEW t \in Senders' PROVE SenderOK(t)'
  <2>1. t \in Threads /\ (n < Mb => t = Caller)
    BY <1>1, <1>c DEF Senders
  <2>2. /\ Share(t)'.off \in Nat /\ Share(t)'.len \in Nat /\ Share(t)'.off + Share(t)'.len <= n
    <3>1. Share(t)' = IF n < Mb THEN Whole(n) ELSE Part(n, t)
      BY <1>1 DEF Share
    <3>2. Share(t)' \in Tasks /\ Share(t)'.off + Share(t)'.len <= n
      BY <1>2, <2>1, <3>1, WholeFits, PartFits
    <3> QED
      BY <3>2, TransferAssumption DEF Tasks, Offsets
  <2>3. (HasBegun(t)' => n < Mb) /\ (n < Mb => HasBegun(t)')
    BY <2>1, <1>2, <1>9, Threads3 DEF HasBegun, Threads, Workers, Caller
  <2>4. Handed(t)' = 0
    BY <2>1, <2>3, <1>9 DEF Handed
  <2>5. HasBegun(t)' => task'[t] = Share(t)'
    BY <2>1, <2>3, <1>1, <1>9 DEF Share
  <2>6. StagedCurrent(t)'
    <3>1. CASE n < Mb
      BY <3>1, <2>1, <1>9 DEF StagedCurrent
    <3>2. CASE n >= Mb
      BY <3>2, <2>1, <1>6, <1>9 DEF StagedCurrent, Done, Threads
    <3> QED
      BY <3>1, <3>2, <1>2
  <2>7. PostedCurrent(t)' /\ InShare(t)' /\ Chained(t)'
    BY <1>5, <2>1 DEF PostedCurrent, InShare, Chained
  <2>8. ArrivedInOrder(t)'
    <3>1. AtPeer(t)' = 0
      BY <1>5, <2>1, <2>4 DEF AtPeer
    <3>2. ASSUME NEW i \in 0..(Share(t)'.len - 1) PROVE Share(t)'.off + i \in Offsets
      <4> DEFINE a == Share(t)'.off
                 l == Share(t)'.len
      <4>1. a \in Nat /\ l \in Nat /\ a + l <= n /\ i \in 0..(l - 1)
        BY <2>2, <3>2
      <4> HIDE DEF a, l
      <4>2. a + i \in Offsets
        BY <4>1, <1>2 DEF Offsets
      <4> QED
        BY <4>2 DEF a
    <3> QED
      BY <3>1, <3>2, <1>7 DEF ArrivedInOrder
  <2> QED
    BY <1>5, <2>1, <2>2, <2>4, <2>5, <2>6, <2>7, <2>8 DEF SenderOK
<1>12. size' < Mb => \A w \in Workers : Done(w)' /\ posts'[w] = <<>>
  BY <1>5, <1>6, <1>c
<1> QED
  BY <1>1, <1>8, <1>10, <1>11, <1>12 DEF InStepOK

\* The state of a transfer in step.
InTransfer == IInv /\ InStepOK /\ InStep /\ transfers > 0

\* A thread at work is a sender that has begun.
LEMMA AtWork ==
    ASSUME InTransfer, NEW t \in Threads, pc[t] \in {"stage", "poll"} \/ posts[t] # <<>>
    PROVE  t \in Senders /\ HasBegun(t) /\ SenderOK(t) /\ task[t] = Share(t)
           /\ size \in 0..(4 * Mb)
<1>0. size \in 0..(4 * Mb) /\ Mb \in Nat
  BY TransferAssumption DEF InTransfer, IInv, TypeOK
<1>1. t \in Senders
  <2>1. ASSUME t \in Workers, size < Mb PROVE FALSE
    BY <2>1 DEF InTransfer, InStepOK, Done
  <2> QED
    BY <2>1, <1>0 DEF Senders, Threads
<1>2. SenderOK(t)
  BY <1>1 DEF InTransfer, InStepOK
<1>3. HasBegun(t)
  <2>1. CASE posts[t] # <<>>
    BY <2>1, <1>2 DEF SenderOK
  <2>2. CASE pc[t] \in {"stage", "poll"} /\ t = Caller
    BY <2>2 DEF HasBegun
  <2>3. CASE pc[t] \in {"stage", "poll"} /\ t # Caller
    <3>1. t \in Workers /\ size >= Mb
      BY <1>0, <1>1, <2>3 DEF Senders, Threads
    <3>2. CounterFits(t) /\ ShareQueued(t)
      BY <3>1, <1>0 DEF InTransfer, IInv, QueueOK, InStepOK
    <3>3. queue[t] = <<>>
      BY <3>2, <2>3 DEF CounterFits
    <3>4. ~(t > pushed)
      BY <3>2, <2>3 DEF ShareQueued, Done
    <3>5. t <= pushed
      <4>1. t \in Nat /\ pushed \in Nat
        BY <3>1, TransferAssumption DEF Workers, InTransfer, IInv, TypeOK
      <4> QED
        BY <3>4, <4>1
    <3> QED
      BY <3>3, <3>5, <2>3 DEF HasBegun
  <2> QED
    BY <2>1, <2>2, <2>3
<1> QED
  BY <1>0, <1>1, <1>2, <1>3 DEF SenderOK

\* A step of a sender t that has begun, seen from all others.
LEMMA SenderSteps ==
    ASSUME InTransfer, NEW t \in Senders, HasBegun(t), HasBegun(t)', SenderOK(t)', BufKept,
           UNCHANGED <<queue, pushed, size, transfers, task>>,
           \A u \in Threads \ {t} : pc'[u] = pc[u] /\ total'[u] = total[u] /\ staged'[u] = staged[u]
                                    /\ posts'[u] = posts[u] /\ placed'[u] = placed[u],
           pc'[t] # pc[t] => pc[t] # "pop",
           \A u \in Senders \ {t} : \A i \in 0..(Share(u).len - 1) :
             target'[Share(u).off + i] = target[Share(u).off + i]
    PROVE  InStepOK'
<1>0. TypeOK /\ WritesOK /\ size \in 0..(4 * Mb) /\ Mb \in Nat
  BY TransferAssumption DEF InTransfer, IInv, TypeOK
<1>1. \A o \in 0..(size' - 1) : Current(buf[o])'
  <2>1. \A o \in 0..(size - 1) : o \in Offsets
    BY <1>0 DEF Offsets
  <2> QED
    BY <2>1 DEF InTransfer, InStepOK, BufKept
<1>2. ASSUME NEW w \in Workers, Done(w) PROVE Done(w)'
  <2>1. w \in Threads
    BY DEF Threads
  <2> QED
    BY <1>2, <2>1 DEF Done
<1>3. size' < Mb => \A w \in Workers : Done(w)' /\ posts'[w] = <<>>
  <2> SUFFICES ASSUME size < Mb, NEW w \in Workers PROVE Done(w)' /\ posts'[w] = <<>>
    OBVIOUS
  <2>1. w \in Threads /\ w # t
    BY Threads3 DEF Senders, Threads
  <2> QED
    BY <2>1, <1>2 DEF InTransfer, InStepOK
<1>4. size' >= Mb => \A w \in Workers : ShareQueued(w)'
  BY <1>2 DEF InTransfer, InStepOK, ShareQueued, Share
<1>5. ASSUME NEW u \in Senders, u # t PROVE SenderOK(u)'
  <2>1. u \in Threads
    BY DEF Senders, Threads
  <2>2. SenderOK(u)
    BY DEF InTransfer, InStepOK
  <2>3. HasBegun(u)' = HasBegun(u)
    BY <2>1, <1>5 DEF HasBegun
  <2> QED
    BY <2>1, <2>2, <2>3, <1>0, <1>5, SenderFrame
<1>6. Senders' = Senders
  BY DEF Senders
<1> QED
  BY <1>1, <1>3, <1>4, <1>5, <1>6 DEF InStepOK

LEMMA GapStage ==
    ASSUME InTransfer, NEW t \in Threads, Stage(t)
    PROVE  InStepOK'
<1>0. TypeOK /\ PartsOK /\ WritesOK
  BY DEF InTransfer, IInv
<1>1. /\ pc[t] = "stage"
      /\ buf' = [buf EXCEPT ![Staging(t) + staged[t]] = buf[task[t].off + total[t] + staged[t]]]
      /\ staged' = [staged EXCEPT ![t] = @ + 1]
      /\ UNCHANGED <<target, size, transfers, pushed, queue, pc, task, total, posts, placed>>
  BY DEF Stage, StageOf, callerVars, queueVars, wireVars
<1>2. t \in Senders /\ HasBegun(t) /\ SenderOK(t) /\ task[t] = Share(t) /\ size \in 0..(4 * Mb)
  BY <1>1, AtWork
<1>3. Share(t).off + Share(t).len <= size
  BY <1>2, ShareFits
<1>4. Current(buf[task[t].off + total[t] + staged[t]])
  <2> DEFINE a == task[t].off
             l == task[t].len
             n == total[t]
             k == staged[t]
  <2>1. a \in Nat /\ l \in Nat /\ n \in Nat /\ k \in Nat /\ n + k < l /\ a + l <= size /\ size \in Nat
    BY <1>0, <1>2, <1>3, StageCells
  <2> HIDE DEF a, l, n, k
  <2>2. a + n + k \in 0..(size - 1)
    BY <2>1
  <2>3. Current(buf[a + n + k])
    BY <2>2 DEF InTransfer, InStepOK
  <2> QED
    BY <2>3 DEF a, n, k
<1>5. buf'[Staging(t) + staged[t]] = buf[task[t].off + total[t] + staged[t]]
      /\ \A o \in Offsets : o # Staging(t) + staged[t] => buf'[o] = buf[o]
  BY <1>0, <1>1, StageCells DEF TypeOK
<1>6. BufKept /\ buf'[Staging(t) + staged[t]] \in {transfers'} \X Offsets
  <2>1. buf'[Staging(t) + staged[t]] \in {transfers'} \X Offsets
    BY <1>1, <1>4, <1>5 DEF Current
  <2> DEFINE x == Staging(t) + staged[t]
  <2>2. \A o \in Offsets : o # x => buf'[o] = buf[o]
    BY <1>5
  <2>3. buf'[x] \in {transfers'} \X Offsets /\ transfers' = transfers
    BY <2>1, <1>1
  <2> HIDE DEF x
  <2>4. BufKept
    BY <2>2, <2>3 DEF BufKept, Current
  <2> QED
    BY <2>1, <2>4
<1>7. staged'[t] = staged[t] + 1 /\ staged[t] \in Nat /\ \A u \in Threads \ {t} : staged'[u] = staged[u]
  BY <1>0, <1>1, StageCells DEF TypeOK
<1>8. HasBegun(t)' /\ Handed(t)' = Handed(t) /\ Share(t)' = Share(t)
  BY <1>1, <1>2 DEF HasBegun, Handed, ChunkLength, Share
<1>9. StagedCurrent(t)'
  <2> SUFFICES ASSUME NEW i \in 0..(staged'[t] - 1)
               PROVE  buf'[Staging(t) + i] \in {transfers'} \X Offsets
    BY <1>1 DEF StagedCurrent, Current
  <2>1. i \in 0..(staged[t] - 1) \/ i = staged[t]
    BY <1>7
  <2>2. ASSUME i \in 0..(staged[t] - 1) PROVE Current(buf[Staging(t) + i]) /\ Staging(t) + i \in Offsets
    <3>1. Current(buf[Staging(t) + i])
      BY <2>2, <1>1, <1>2 DEF SenderOK, StagedCurrent
    <3>2. i \in Nat /\ i < staged[t] /\ staged[t] \in 0..Mb
      BY <2>2, <1>0, <1>7 DEF TypeOK
    <3>3. Staging(t) + i \in Offsets
      <4> DEFINE a == Staging(t)
      <4>1. a \in Nat /\ a + Mb <= 4 * Mb
        BY StagingFits
      <4> HIDE DEF a
      <4>2. a + i \in Offsets
        BY <4>1, <3>2, TransferAssumption DEF Offsets
      <4> QED
        BY <4>2 DEF a
    <3> QED
      BY <3>1, <3>3
  <2> QED
    BY <2>1, <2>2, <1>6 DEF BufKept, Current
<1>10. PostedCurrent(t)'
  BY <1>0, <1>1, <1>2, <1>6, PostCells DEF SenderOK, PostedCurrent, BufKept
<1>11. InShare(t)' /\ Chained(t)' /\ ArrivedInOrder(t)'
  BY <1>1, <1>2, <1>8 DEF SenderOK, InShare, Chained, ArrivedInOrder, AtPeer, Current
<1>12. SenderOK(t)'
  BY <1>1, <1>2, <1>8, <1>9, <1>10, <1>11 DEF SenderOK
<1> QED
  BY <1>1, <1>2, <1>6, <1>7, <1>8, <1>12, SenderSteps

LEMMA GapPost ==
    ASSUME InTransfer, NEW t \in Threads, PostWrite(t)
    PROVE  InStepOK'
<1> DEFINE c == ChunkLength(t)
           p == [src |-> Staging(t), dst |-> task[t].off + total[t], len |-> c]
<1>0. TypeOK /\ PartsOK /\ WritesOK /\ Mb \in Nat
  BY TransferAssumption DEF InTransfer, IInv
<1>1. /\ pc[t] = "stage" /\ total[t] < task[t].len /\ staged[t] = c
      /\ posts' = [posts EXCEPT ![t] = Append(@, p)] /\ Goto(t, "poll")
      /\ UNCHANGED <<buf, target, size, transfers, pushed, queue, task, total, staged, placed>>
  BY DEF PostWrite, PostChunk, callerVars, queueVars
<1>2. t \in Senders /\ HasBegun(t) /\ SenderOK(t) /\ task[t] = Share(t) /\ size \in 0..(4 * Mb)
  BY <1>1, AtWork
<1>3. /\ Share(t).off \in Nat /\ Share(t).len \in Nat /\ Share(t).off + Share(t).len <= size
      /\ size \in Nat /\ total[t] \in Nat
  <2>1. total[t] \in Nat
    BY <1>0 DEF TypeOK
  <2> QED
    BY <2>1, <1>0, <1>2, ShareFits
<1>4. c \in 0..Mb /\ c > 0 /\ total[t] + c <= Share(t).len
  BY <1>1, <1>2, <1>3, ChunkFits
<1> DEFINE a == Share(t).off
           l == Share(t).len
           n == total[t]
           d == a + n
<1>5. /\ a \in Nat /\ l \in Nat /\ n \in Nat /\ c \in 1..Mb /\ n + c <= l /\ a + l <= 4 * Mb
      /\ p = [src |-> Staging(t), dst |-> d, len |-> c]
  BY <1>0, <1>2, <1>3, <1>4
<1>6. Staging(t) \in Offsets
  <2> DEFINE s == Staging(t)
  <2>1. s \in Nat /\ s + Mb <= 4 * Mb
    BY StagingFits
  <2> HIDE DEF s
  <2>2. s \in Offsets
    BY <2>1, <1>5, <1>0 DEF Offsets
  <2> QED
    BY <2>2 DEF s
<1> HIDE DEF c, a, l, n, p
<1>7. d \in Offsets
  BY <1>0, <1>5 DEF Offsets
<1>8. p \in Writes /\ p.dst = d /\ p.len = c
  BY <1>5, <1>6, <1>7 DEF Writes
<1>9. posts[t] \in Seq(Writes) /\ posts'[t] = Append(posts[t], p)
      /\ pc'[t] = "poll" /\ \A u \in Threads \ {t} : posts'[u] = posts[u] /\ pc'[u] = pc[u]
  BY <1>0, <1>1 DEF TypeOK, Writes, Goto
<1>10. /\ Len(posts'[t]) = Len(posts[t]) + 1 /\ Len(posts[t]) \in Nat /\ posts'[t] # <<>>
       /\ posts'[t][Len(posts[t]) + 1] = p
       /\ \A i \in 1..Len(posts[t]) : posts'[t][i] = posts[t][i]
  BY <1>8, <1>9, Appended
<1>11. \A i \in 1..Len(posts'[t]) : i \in 1..Len(posts[t]) \/ i = Len(posts[t]) + 1
  BY <1>10
<1>12. Handed(t) = n /\ Handed(t)' = n + c /\ Share(t)' = Share(t) /\ HasBegun(t)'
  <2>1. Share(t)' = Share(t)
    BY <1>1 DEF Share
  <2>2. HasBegun(t)'
    BY <1>1, <1>2, <1>9 DEF HasBegun
  <2>3. Handed(t) = n + 0
    BY <1>1, <1>2 DEF Handed, n
  <2>4. Handed(t)' = n + c
    BY <2>2, <1>1, <1>9 DEF Handed, n, c, ChunkLength
  <2> QED
    BY <2>1, <2>2, <2>3, <2>4, <1>5
<1>13. StagedCurrent(t)'
  BY <1>1, <1>2 DEF SenderOK, StagedCurrent, Current
<1>14. PostedCurrent(t)'
  <2> SUFFICES ASSUME NEW i \in 1..Len(posts'[t]), NEW j \in 0..(posts'[t][i].len - 1)
               PROVE  Current(buf[Staging(t) + j])
    BY <1>1 DEF PostedCurrent, Current
  <2>1. CASE i \in 1..Len(posts[t])
    BY <2>1, <1>2, <1>10 DEF SenderOK, PostedCurrent
  <2>2. CASE i = Len(posts[t]) + 1
    <3>1. j \in 0..(staged[t] - 1)
      BY <2>2, <1>1, <1>8, <1>10
    <3> QED
      BY <3>1, <1>1, <1>2 DEF SenderOK, StagedCurrent
  <2> QED
    BY <2>1, <2>2, <1>11
<1>15. InShare(t)'
  <2> SUFFICES ASSUME NEW i \in 1..Len(posts'[t])
               PROVE  posts'[t][i].dst >= a /\ posts'[t][i].dst + posts'[t][i].len <= a + (n + c)
    BY <1>12 DEF InShare, a
  <2>1. CASE i \in 1..Len(posts[t])
    <3> DEFINE x == posts[t][i].dst
               y == posts[t][i].len
    <3>1. x \in Nat /\ y \in Nat /\ x >= a /\ x + y <= a + n
      BY <2>1, <1>0, <1>2, <1>12, PostCells DEF SenderOK, InShare, a
    <3> HIDE DEF x, y
    <3>2. x >= a /\ x + y <= a + (n + c)
      BY <3>1, <1>5
    <3> QED
      BY <3>2, <2>1, <1>10 DEF x, y
  <2>2. CASE i = Len(posts[t]) + 1
    BY <2>2, <1>5, <1>8, <1>10
  <2> QED
    BY <2>1, <2>2, <1>11
<1>16. Chained(t)'
  <2> SUFFICES ASSUME NEW i \in 1..Len(posts'[t])
               PROVE  posts'[t][i].dst + posts'[t][i].len =
                        IF i < Len(posts'[t]) THEN posts'[t][i + 1].dst ELSE a + (n + c)
    BY <1>12 DEF Chained, a
  <2>1. CASE i \in 1..(Len(posts[t]) - 1)
    <3>1. i \in 1..Len(posts[t]) /\ i + 1 \in 1..Len(posts[t]) /\ i < Len(posts[t]) /\ i < Len(posts'[t])
      BY <2>1, <1>10
    <3>2. posts[t][i].dst + posts[t][i].len = posts[t][i + 1].dst
      BY <3>1, <1>2 DEF SenderOK, Chained
    <3> QED
      BY <3>1, <3>2, <1>10
  <2>2. CASE i = Len(posts[t]) /\ i # 0
    <3>1. i \in 1..Len(posts[t]) /\ ~(i < Len(posts[t])) /\ i < Len(posts'[t])
      BY <2>2, <1>10
    <3>2. posts[t][i].dst + posts[t][i].len = a + n
      BY <3>1, <1>2, <1>12 DEF SenderOK, Chained, a
    <3> QED
      BY <3>1, <3>2, <2>2, <1>8, <1>10
  <2>3. CASE i = Len(posts[t]) + 1
    <3>1. ~(i < Len(posts'[t])) /\ posts'[t][i] = p
      BY <2>3, <1>10
    <3>2. d + c = a + (n + c)
      BY <1>5
    <3> QED
      BY <3>1, <3>2, <1>8
  <2> QED
    BY <2>1, <2>2, <2>3, <1>10
<1>17. AtPeer(t)' = AtPeer(t)
  <2>1. CASE posts[t] = <<>>
    <3>1. placed'[t] = 0 /\ Len(posts[t]) = 0 /\ AtPeer(t) = n
      BY <2>1, <1>0, <1>1, <1>12, PostCells DEF AtPeer
    <3>2. posts'[t][1] = p
      BY <3>1, <1>10
    <3>3. AtPeer(t)' = d + 0 - a
      BY <3>1, <3>2, <1>8, <1>10, <1>12 DEF AtPeer, a
    <3> QED
      BY <3>1, <3>3, <1>5
  <2>2. CASE posts[t] # <<>>
    <3>1. posts'[t][1] = posts[t][1]
      BY <2>2, <1>0, <1>10, PostCells
    <3> QED
      BY <3>1, <2>2, <1>1, <1>10, <1>12 DEF AtPeer
  <2> QED
    BY <2>1, <2>2
<1>18. ArrivedInOrder(t)'
  BY <1>1, <1>2, <1>12, <1>17 DEF SenderOK, ArrivedInOrder, Current
<1>19. SenderOK(t)'
  BY <1>1, <1>2, <1>5, <1>12, <1>13, <1>14, <1>15, <1>16, <1>18 DEF SenderOK, l
<1>20. BufKept
  BY <1>1 DEF BufKept, Current
<1> QED
  BY <1>1, <1>2, <1>9, <1>12, <1>19, <1>20, SenderSteps

LEMMA GapPoll ==
    ASSUME InTransfer, NEW t \in Threads, PollWrite(t)
    PROVE  InStepOK'
<1>0. TypeOK /\ PartsOK /\ WritesOK
  BY DEF InTransfer, IInv
<1>1. /\ pc[t] = "poll" /\ total' = [total EXCEPT ![t] = @ + ChunkLength(t)]
      /\ staged' = [staged EXCEPT ![t] = 0] /\ Goto(t, "stage")
      /\ UNCHANGED <<buf, target, transfers, size, pushed, queue, task, posts, placed>>
  BY DEF PollWrite, PollSome, NextChunk, callerVars, queueVars
<1>2. t \in Senders /\ HasBegun(t) /\ SenderOK(t) /\ task[t] = Share(t)
  BY <1>1, AtWork
<1>3. /\ pc'[t] = "stage" /\ staged'[t] = 0 /\ total'[t] = total[t] + ChunkLength(t)
      /\ \A u \in Threads \ {t} : pc'[u] = pc[u] /\ total'[u] = total[u] /\ staged'[u] = staged[u]
  BY <1>0, <1>1 DEF TypeOK, Goto
<1>4. HasBegun(t)' /\ Share(t)' = Share(t)
  BY <1>1, <1>2, <1>3 DEF HasBegun, Share
<1>5. Handed(t)' = Handed(t)
  <2>1. Handed(t) = total[t] + ChunkLength(t) /\ Handed(t) \in Nat
    BY <1>0, <1>1, <1>2, HandedNat DEF Handed
  <2>2. Handed(t)' = total'[t] + 0
    BY <1>3, <1>4 DEF Handed
  <2> QED
    BY <2>1, <2>2, <1>3
<1>6. StagedCurrent(t)'
  BY <1>3 DEF StagedCurrent
<1>7. PostedCurrent(t)' /\ InShare(t)' /\ Chained(t)' /\ ArrivedInOrder(t)'
  BY <1>1, <1>2, <1>4, <1>5 DEF SenderOK, PostedCurrent, InShare, Chained, ArrivedInOrder, AtPeer, Current
<1>8. SenderOK(t)'
  BY <1>1, <1>2, <1>4, <1>5, <1>6, <1>7 DEF SenderOK
<1>9. BufKept
  BY <1>1 DEF BufKept, Current
<1> QED
  BY <1>1, <1>2, <1>3, <1>4, <1>8, <1>9, SenderSteps

LEMMA GapFinish ==
    ASSUME InTransfer, NEW t \in Threads, Finish(t)
    PROVE  InStepOK'
<1>0. TypeOK /\ PartsOK /\ WritesOK
  BY DEF InTransfer, IInv
<1>1. /\ pc[t] = "stage"
      /\ UNCHANGED <<buf, target, transfers, size, pushed, queue, task, total, staged, posts, placed>>
  BY DEF Finish, callerVars, queueVars, wireVars
<1>2. t \in Senders /\ HasBegun(t) /\ SenderOK(t)
  BY <1>1, AtWork
<1>3. /\ pc'[t] \in {"pop", "idle", "wait"}
      /\ \A u \in Threads \ {t} : pc'[u] = pc[u]
  BY <1>0 DEF Finish, TypeOK, Goto
<1>4. HasBegun(t)'
  BY <1>1, <1>2, <1>3 DEF HasBegun
<1>5. BufKept
  BY <1>1 DEF BufKept, Current
<1>6. SenderOK(t)'
  BY <1>0, <1>1, <1>2, <1>3, <1>4, <1>5, SenderFrame
<1> QED
  BY <1>1, <1>2, <1>3, <1>4, <1>5, <1>6, SenderSteps

LEMMA GapPlace ==
    ASSUME InTransfer, NEW t \in Threads, Place(t)
    PROVE  InStepOK'
<1> DEFINE q == posts[t]
           n == placed[t]
           d == posts[t][1].dst
           s == posts[t][1].len
           a == Share(t).off
           l == Share(t).len
           h == Handed(t)
           k == d + n - a
           last == n + 1 = s
<1>0. TypeOK /\ PartsOK /\ WritesOK
  BY DEF InTransfer, IInv
<1>1. /\ q # <<>> /\ target' = [target EXCEPT ![Head(q).dst + n] = buf[Head(q).src + n]]
      /\ placed' = [placed EXCEPT ![t] = IF n + 1 = Head(q).len THEN 0 ELSE @ + 1]
      /\ posts' = [posts EXCEPT ![t] = IF n + 1 = Head(q).len THEN Tail(@) ELSE @]
      /\ UNCHANGED <<buf, size, transfers, pushed, queue, pc, task, total, staged>>
  BY DEF Place, callerVars, queueVars, threadVars
<1>2. /\ 1 \in 1..Len(q) /\ Head(q) = q[1] /\ q[1].src = Staging(t)
      /\ n \in 0..(s - 1) /\ Staging(t) + n \in Offsets /\ d + n \in Offsets
  BY <1>0, PlaceCells
<1>3. t \in Senders /\ HasBegun(t) /\ SenderOK(t) /\ task[t] = Share(t) /\ size \in 0..(4 * Mb)
  BY <1>1, AtWork
<1>4. a \in Nat /\ l \in Nat
  BY <1>3, ShareFits
<1>5. h \in Nat /\ h <= l /\ d \in Nat /\ s \in Nat /\ n \in Nat
  BY <1>0, <1>2, <1>3, HandedNat, PostCells DEF SenderOK
<1>6. d >= a /\ d + s <= a + h
  BY <1>2, <1>3 DEF SenderOK, InShare
<1>7. q \in Seq(Writes) /\ Len(q) \in Nat
  BY <1>0, PostCells
<1>7t. Tail(q) \in Seq(Writes) /\ Len(Tail(q)) = Len(q) - 1 /\ \A i \in 1..Len(Tail(q)) : Tail(q)[i] = q[i + 1]
  BY <1>1, <1>7, HeadTail
<1>8. /\ target' = [target EXCEPT ![d + n] = buf[Staging(t) + n]]
      /\ \A u \in Threads \ {t} : posts'[u] = posts[u] /\ placed'[u] = placed[u]
      /\ last => posts'[t] = Tail(q) /\ placed'[t] = 0
      /\ ~last => posts'[t] = q /\ placed'[t] = n + 1
  BY <1>0, <1>1, <1>2 DEF TypeOK
<1>9. Current(buf[Staging(t) + n])
  BY <1>2, <1>3 DEF SenderOK, PostedCurrent
<1>10. /\ target'[d + n] = buf[Staging(t) + n]
       /\ \A o \in Offsets : o # d + n => target'[o] = target[o]
  BY <1>0, <1>2, <1>8 DEF TypeOK
<1> HIDE DEF n, d, s, a, l, h
<1>11. k \in 0..(l - 1) /\ a + k = d + n
  BY <1>2, <1>4, <1>5, <1>6
<1>12. AtPeer(t) = k
  BY <1>1 DEF AtPeer, a, d, n
<1>13. Share(t)' = Share(t) /\ HasBegun(t)' /\ Handed(t)' = h
  BY <1>1, <1>3 DEF Share, HasBegun, Handed, ChunkLength, h
<1>14. \A i \in 1..Len(posts'[t]) :
         \E j \in 1..Len(q) : /\ posts'[t][i] = q[j] /\ (i < Len(posts'[t]) <=> j < Len(q))
                              /\ i < Len(posts'[t]) => posts'[t][i + 1] = q[j + 1]
  <2>1. CASE last
    <3> SUFFICES ASSUME NEW i \in 1..Len(Tail(q))
                 PROVE  /\ i + 1 \in 1..Len(q) /\ Tail(q)[i] = q[i + 1]
                        /\ (i < Len(Tail(q)) <=> i + 1 < Len(q))
                        /\ i < Len(Tail(q)) => Tail(q)[i + 1] = q[(i + 1) + 1]
      BY <2>1, <1>8
    <3>1. i < Len(Tail(q)) => i + 1 \in 1..Len(Tail(q))
      BY <1>7, <1>7t
    <3> QED
      BY <3>1, <1>7, <1>7t
  <2>2. CASE ~last
    BY <2>2, <1>8
  <2> QED
    BY <2>1, <2>2
<1>15. AtPeer(t)' = k + 1
  <2>1. CASE ~last
    <3>1. AtPeer(t)' = d + (n + 1) - a
      BY <2>1, <1>1, <1>8, <1>13 DEF AtPeer, a, d
    <3> QED
      BY <3>1, <1>4, <1>5
  <2>2. CASE last /\ Len(q) = 1
    <3>0. Len(Tail(q)) = 0
      BY <2>2, <1>7t
    <3>1. posts'[t] = <<>>
      BY <3>0, <2>2, <1>7t, <1>8, LenZero
    <3>2. AtPeer(t)' = h
      BY <3>1, <1>13 DEF AtPeer
    <3>3. d + s = a + h
      BY <2>2, <1>2, <1>3 DEF SenderOK, Chained, d, s, a, h
    <3> QED
      BY <3>2, <3>3, <2>2, <1>4, <1>5
  <2>3. CASE last /\ Len(q) # 1
    <3>1. 1 \in 1..Len(Tail(q)) /\ 1 < Len(q)
      <4> DEFINE x == Len(q)
                 y == Len(Tail(q))
      <4>1. x \in Nat /\ 1 \in 1..x /\ x # 1 /\ y = x - 1
        BY <2>3, <1>2, <1>7, <1>7t
      <4> HIDE DEF x, y
      <4>2. 1 \in 1..y /\ 1 < x
        BY <4>1
      <4> QED
        BY <4>2 DEF x, y
    <3>2. posts'[t] # <<>> /\ posts'[t][1] = q[2] /\ placed'[t] = 0
      <4>1. posts'[t] = Tail(q) /\ placed'[t] = 0
        BY <2>3, <1>8
      <4>2. Tail(q)[1] = q[1 + 1]
        BY <3>1, <1>7t
      <4>3. Tail(q) # <<>>
        <5>1. \A z \in Seq(Writes) : 1 \in 1..Len(z) => z # <<>>
          OBVIOUS
        <5> QED
          BY <5>1, <3>1, <1>7t
      <4> QED
        BY <4>1, <4>2, <4>3
    <3>3. AtPeer(t)' = q[2].dst + 0 - a
      BY <3>2, <1>13 DEF AtPeer, a
    <3>4. d + s = q[2].dst
      <4>1. q[1].dst + q[1].len = q[1 + 1].dst
        BY <3>1, <1>2, <1>3 DEF SenderOK, Chained
      <4> QED
        BY <4>1 DEF d, s
    <3> QED
      BY <3>3, <3>4, <2>3, <1>4, <1>5
  <2> QED
    BY <2>1, <2>2, <2>3
<1>16. InShare(t)' /\ Chained(t)'
  BY <1>3, <1>13, <1>14 DEF SenderOK, InShare, Chained, h
<1>17. PostedCurrent(t)' /\ StagedCurrent(t)'
  BY <1>1, <1>3, <1>14 DEF SenderOK, PostedCurrent, StagedCurrent, Current
<1>18. ASSUME NEW u \in Senders, NEW i \in 0..(Share(u).len - 1) PROVE Share(u).off + i \in Offsets
  <2> DEFINE b == Share(u).off
             m == Share(u).len
  <2>1. b \in Nat /\ m \in Nat /\ b + m <= size /\ i \in 0..(m - 1)
    BY <1>3, <1>18, ShareFits
  <2> HIDE DEF b, m
  <2>2. b + i \in Offsets
    BY <2>1, <1>3, TransferAssumption DEF Offsets
  <2> QED
    BY <2>2 DEF b
<1>19. ArrivedInOrder(t)'
  <2> SUFFICES ASSUME NEW i \in 0..(l - 1)
               PROVE  target'[a + i] \in {transfers'} \X Offsets <=> i < k + 1
    BY <1>13, <1>15 DEF ArrivedInOrder, Current, a, l
  <2>1. CASE i = k
    BY <2>1, <1>1, <1>9, <1>10, <1>11 DEF Current
  <2>2. CASE i # k
    <3>1. a + i # d + n /\ (i < k <=> i < k + 1)
      BY <2>2, <1>4, <1>11
    <3>2. a + i \in Offsets
      BY <1>3, <1>18 DEF a, l
    <3>3. Current(target[a + i]) <=> i < k
      BY <1>3, <1>12 DEF SenderOK, ArrivedInOrder, a, l
    <3> QED
      BY <3>1, <3>2, <3>3, <1>1, <1>10 DEF Current
  <2> QED
    BY <2>1, <2>2
<1>20. SenderOK(t)'
  BY <1>1, <1>3, <1>5, <1>13, <1>16, <1>17, <1>19 DEF SenderOK, l
<1>21. ASSUME NEW u \in Senders, u # t, NEW i \in 0..(Share(u).len - 1)
       PROVE  target'[Share(u).off + i] = target[Share(u).off + i]
  <2>1. Share(u).off + i # a + k
    <3>1. k \in 0..(Share(t).len - 1)
      BY <1>11 DEF l
    <3> HIDE DEF k
    <3>2. Share(u).off + i # Share(t).off + k
      BY <3>1, <1>3, <1>21, SharesApart
    <3> QED
      BY <3>2 DEF a
  <2> QED
    BY <2>1, <1>10, <1>11, <1>18
<1>22. BufKept
  BY <1>1 DEF BufKept, Current
<1> QED
  BY <1>1, <1>3, <1>8, <1>13, <1>20, <1>21, <1>22, SenderSteps

\* A step outside of OutboundHamal.
LEMMA GapElsewhere ==
    ASSUME InTransfer,
           \/ CountPushed \/ Return \/ SendRest \/ PushBack
           \/ \E w \in Workers : SeeTask(w) \/ Take(w) \/ CountTaken(w)
    PROVE  InStepOK'
<1>0. TypeOK /\ PartsOK /\ WritesOK /\ QueueOK /\ size \in 0..(4 * Mb) /\ Mb \in Nat /\ pushed \in Nat
  <2>1. TypeOK /\ PartsOK /\ WritesOK /\ QueueOK
    BY DEF InTransfer, IInv
  <2>2. size \in 0..(4 * Mb) /\ pushed \in 0..WORKER_NUMBER
    BY <2>1 DEF TypeOK
  <2> QED
    BY <2>1, <2>2, TransferAssumption
<1>t. pc \in [Threads -> Labels] /\ queue \in [Workers -> Seq(Tasks)]
  BY <1>0 DEF TypeOK, Labels
<1>u. task \in [Threads -> Tasks \union {Null}] /\ total \in [Threads -> 0..(4 * Mb)]
      /\ staged \in [Threads -> 0..Mb]
  BY <1>0 DEF TypeOK
<1>1. UNCHANGED <<buf, target, size, transfers, posts, placed>>
  BY DEF CountPushed, Return, SendRest, PushBack, SeeTask, Take, CountTaken, callerVars, wireVars
<1>2. BufKept /\ Senders' = Senders /\ \A t : Share(t)' = Share(t)
  BY <1>1 DEF BufKept, Current, Senders, Share
<1>c. Caller \in Threads /\ (\A w \in Workers : w \in Threads /\ w # Caller) /\ Threads = {Caller} \union Workers
  BY Threads3 DEF Threads
<1>3. ASSUME size >= Mb => \A w \in Workers : ShareQueued(w)',
             size < Mb => \A w \in Workers : Done(w)', \A t \in Senders : SenderOK(t)'
      PROVE  InStepOK'
  BY <1>1, <1>2, <1>3 DEF InTransfer, InStepOK, Current
<1>4. ASSUME NEW t \in Senders, HasBegun(t)' = HasBegun(t),
             HasBegun(t) => task'[t] = task[t] /\ total'[t] = total[t],
             pc'[t] = "poll" <=> pc[t] = "poll",
             pc'[t] \in {"stage", "poll"} => pc[t] \in {"stage", "poll"} /\ staged'[t] = staged[t]
      PROVE  SenderOK(t)'
  BY <1>0, <1>1, <1>2, <1>4, SenderFrame DEF InTransfer, InStepOK
<1>5. \A w \in Workers : CounterFits(w)
  BY <1>0 DEF InTransfer, QueueOK
<1>6. /\ \A t \in Senders : SenderOK(t) /\ t \in Threads
      /\ size < Mb => \A w \in Workers : Done(w)
      /\ size >= Mb => \A w \in Workers : ShareQueued(w)
  BY DEF InTransfer, InStepOK, Senders, Threads
\* A thread t moves on, and no queue changes.
<1>7. ASSUME NEW t \in Threads, NEW m \in Labels \ {"stage", "poll", "uncount"}, Goto(t, m),
             pc[t] \notin {"poll", "uncount"}, UNCHANGED <<queue, pushed, task, total, staged>>,
             t \in Workers => ~Done(t),
             t = Caller => (pc[t] \in {"push", "count"} <=> m \in {"push", "count"})
      PROVE  InStepOK'
  <2>1. pc'[t] = m /\ \A u \in Threads \ {t} : pc'[u] = pc[u]
    BY <1>7, <1>t DEF Goto
  <2>2. \A w \in Workers : Done(w) => Done(w)'
    BY <2>1, <1>7, <1>c DEF Done
  <2>3. size >= Mb => \A w \in Workers : ShareQueued(w)'
    BY <2>2, <1>2, <1>6, <1>7 DEF ShareQueued
  <2>4. ASSUME NEW u \in Senders PROVE SenderOK(u)'
    <3>1. HasBegun(u)' = HasBegun(u)
      BY <2>1, <1>6, <1>7 DEF HasBegun
    <3>2. (pc'[u] = "poll" <=> pc[u] = "poll")
          /\ (pc'[u] \in {"stage", "poll"} => pc[u] \in {"stage", "poll"} /\ staged'[u] = staged[u])
      BY <2>1, <1>6, <1>7
    <3> QED
      BY <3>1, <3>2, <1>4, <1>7
  <2> QED
    BY <2>2, <2>3, <2>4, <1>3, <1>6
\* A thread t enters OutboundHamal with its share.
<1>8. ASSUME NEW t \in Senders, EnterHamal(t, Share(t)), ~HasBegun(t), HasBegun(t)',
             UNCHANGED <<queue, pushed>>, size >= Mb, t \in Workers => ~Done(t)
      PROVE  InStepOK'
  <2>1. /\ pc'[t] = "stage" /\ task'[t] = Share(t)
        /\ \A u \in Threads \ {t} : pc'[u] = pc[u] /\ task'[u] = task[u] /\ total'[u] = total[u]
                                    /\ staged'[u] = staged[u]
    BY <1>8, <1>6, <1>t, <1>u DEF EnterHamal, Goto
  <2>2. \A w \in Workers : Done(w) => Done(w)'
    BY <2>1, <1>8, <1>c DEF Done
  <2>3. \A w \in Workers : ShareQueued(w)'
    <3> SUFFICES ASSUME NEW w \in Workers PROVE ShareQueued(w)'
      OBVIOUS
    <3>1. task'[w] = task[w] \/ task'[w] = Share(w)
      BY <2>1, <1>c
    <3> QED
      BY <3>1, <2>2, <1>2, <1>6, <1>8 DEF ShareQueued
  <2>4. SenderOK(t)'
    BY <1>0, <1>1, <1>6, <1>8, SenderEnters
  <2>5. ASSUME NEW u \in Senders, u # t PROVE SenderOK(u)'
    <3>1. HasBegun(u)' = HasBegun(u)
      BY <2>1, <2>5, <1>6, <1>8 DEF HasBegun
    <3> QED
      BY <3>1, <2>1, <2>5, <1>4, <1>6
  <2> QED
    BY <2>3, <2>4, <2>5, <1>0, <1>3, <1>8
<1>9. CASE CountPushed
  BY <1>9, <1>7, <1>c DEF CountPushed, callerVars, Labels
<1>10. CASE Return
  BY <1>10, <1>7, <1>c DEF Return, queueVars, Labels
<1>11. CASE SendRest
  <2>1. size >= Mb /\ Caller \in Senders /\ Share(Caller) = Part(size, Caller)
    BY <1>0, <1>11, <1>c DEF SendRest, QueueOK, Senders, Share
  <2>2. pc[Caller] = "push" /\ EnterHamal(Caller, Share(Caller)) /\ UNCHANGED <<queue, pushed>>
    BY <2>1, <1>11 DEF SendRest, callerVars, queueVars
  <2>3. pc'[Caller] = "stage"
    BY <2>2, <1>c, <1>t DEF EnterHamal, Goto
  <2>4. ~HasBegun(Caller) /\ HasBegun(Caller)'
    BY <2>2, <2>3 DEF HasBegun
  <2> QED
    BY <2>1, <2>2, <2>4, <1>8, <1>c
<1>12. ASSUME NEW w \in Workers, SeeTask(w) PROVE InStepOK'
  <2>1. pc[w] = "pop" /\ Goto(w, "take") /\ UNCHANGED <<queue, pushed, task, total, staged>>
    BY <1>12 DEF SeeTask, callerVars, queueVars
  <2>2. ~Done(w)
    <3>1. queue[w] = <<>> => Len(queue[w]) = 0
      BY <1>12
    <3> QED
      BY <3>1, <1>5, <1>12 DEF SeeTask, CounterFits, Done
  <2> QED
    BY <2>1, <2>2, <1>7, <1>c DEF Labels
\* The worker is at a task: it has its share to send.
<1>13. ASSUME NEW w \in Workers, pc[w] \in {"take", "uncount"}
       PROVE  size >= Mb /\ w <= pushed /\ ShareQueued(w) /\ w \in Senders
  <2>1. ~Done(w) /\ w \in Nat
    BY <1>13 DEF Done, Workers
  <2>2. size >= Mb
    BY <2>1, <1>0, <1>6
  <2> QED
    BY <2>1, <2>2, <1>0, <1>6, <1>c DEF ShareQueued, Senders
<1>14. ASSUME NEW w \in Workers, CountTaken(w) PROVE InStepOK'
  <2>1. pc[w] = "uncount" /\ EnterHamal(w, task[w]) /\ UNCHANGED <<queue, pushed>>
    BY <1>14 DEF CountTaken, callerVars
  <2>2. queue[w] = <<>> /\ task[w] = Share(w)
    BY <2>1, <1>5, <1>13 DEF CounterFits, ShareQueued
  <2>3. pc'[w] = "stage"
    BY <2>1, <1>c, <1>t DEF EnterHamal, Goto
  <2>4. ~HasBegun(w) /\ HasBegun(w)'
    BY <2>1, <2>2, <2>3, <1>13, <1>c DEF HasBegun
  <2> QED
    BY <2>1, <2>2, <2>4, <1>8, <1>13 DEF Done
<1>15. ASSUME NEW w \in Workers, Take(w) PROVE InStepOK'
  <2>1. pc[w] = "take" /\ UNCHANGED <<pushed, total, staged>>
    BY <1>15 DEF Take, callerVars
  <2>2. size >= Mb /\ w <= pushed /\ ShareQueued(w)
    BY <2>1, <1>13
  <2>3. queue[w] \in Seq(Tasks) /\ Len(queue[w]) = 1
    BY <2>1, <1>5, <1>t DEF CounterFits
  <2>4. queue[w] # <<>> /\ Tail(queue[w]) = <<>> /\ Head(queue[w]) = queue[w][1] /\ 1 \in 1..Len(queue[w])
    BY <2>3, LenOne, HeadTail
  <2>5. task' = [task EXCEPT ![w] = Head(queue[w])] /\ queue' = [queue EXCEPT ![w] = Tail(@)]
        /\ Goto(w, "uncount")
    BY <2>4, <1>15 DEF Take
  <2>6. /\ pc'[w] = "uncount" /\ task'[w] = Share(w) /\ queue'[w] = <<>> /\ Len(queue'[w]) = 0
        /\ \A u \in Threads \ {w} : pc'[u] = pc[u] /\ task'[u] = task[u]
        /\ \A u \in Workers \ {w} : queue'[u] = queue[u]
    BY <2>2, <2>4, <2>5, <1>c, <1>t, <1>u DEF Goto, ShareQueued
  <2>7. \A u \in Workers \ {w} : ShareQueued(u)'
    BY <2>1, <2>2, <2>6, <1>2, <1>6, <1>c DEF ShareQueued, Done
  <2>8. ShareQueued(w)'
    <3>1. ~(w > pushed)
      BY <2>2, <1>0 DEF Workers
    <3> QED
      BY <3>1, <2>1, <2>6, <1>2 DEF ShareQueued
  <2>9. ASSUME NEW u \in Senders PROVE SenderOK(u)'
    <3>1. CASE u = w
      <4>1. ~HasBegun(u) /\ HasBegun(u)' = HasBegun(u)
        BY <3>1, <2>4, <2>6, <1>c DEF HasBegun
      <4>2. (pc'[u] = "poll" <=> pc[u] = "poll") /\ pc'[u] \notin {"stage", "poll"}
        BY <3>1, <2>1, <2>6
      <4> QED
        BY <4>1, <4>2, <1>4
    <3>2. CASE u # w
      <4>1. HasBegun(u)' = HasBegun(u)
        BY <3>2, <2>1, <2>6, <1>6, <1>c DEF HasBegun
      <4> QED
        BY <4>1, <3>2, <2>1, <2>6, <1>4, <1>6
    <3> QED
      BY <3>1, <3>2
  <2> QED
    BY <2>2, <2>7, <2>8, <2>9, <1>0, <1>3
<1>16. CASE PushBack
  <2>1. PICK w \in Workers : w = pushed + 1
    BY <1>0, <1>16, TransferAssumption DEF PushBack, Workers
  <2>2. pc[Caller] = "push" /\ pushed' = w /\ UNCHANGED <<task, total, staged>>
        /\ queue' = [queue EXCEPT ![w] = Append(@, Part(size, w))]
    BY <2>1, <1>16 DEF PushBack
  <2>3. size >= Mb
    BY <2>2, <1>0 DEF QueueOK
  <2>4. Done(w) /\ w > pushed
    <3>1. w > pushed
      BY <2>1, <1>0
    <3> QED
      BY <3>1, <2>3, <1>6 DEF ShareQueued
  <2>5. Goto(Caller, "count")
    BY <2>1, <2>4, <1>16 DEF PushBack, Done
  <2>6. Share(w) = Part(size, w) /\ Part(size, w) \in Tasks
    BY <2>3, <1>0, <1>c, PartFits DEF Share
  <2>7. queue'[w] # <<>> /\ Len(queue'[w]) = 1 /\ queue'[w][1] = Share(w)
    <3>1. queue[w] = <<>> /\ queue[w] \in Seq(Tasks) /\ queue'[w] = Append(queue[w], Part(size, w))
      BY <2>2, <2>4, <1>t DEF Done
    <3> QED
      BY <3>1, <2>6, PushOne
  <2>8. /\ pc'[Caller] = "count" /\ \A u \in Workers : pc'[u] = pc[u]
        /\ \A u \in Workers \ {w} : queue'[u] = queue[u]
    BY <2>2, <2>5, <1>c, <1>t DEF Goto
  <2>9. ASSUME NEW u \in Workers PROVE ShareQueued(u)'
    <3>1. CASE u = w
      <4>1. \A i \in 1..Len(queue'[w]) : i = 1
        BY <2>7
      <4>2. ~(w > pushed')
        BY <2>1, <2>2, <1>0
      <4> QED
        BY <4>1, <4>2, <3>1, <2>7, <1>2 DEF ShareQueued
    <3>2. CASE u # w
      <4>1. (u <= pushed' <=> u <= pushed) /\ (u > pushed' => u > pushed)
        BY <3>2, <2>1, <2>2, <1>0 DEF Workers
      <4> QED
        BY <4>1, <3>2, <2>2, <2>3, <2>8, <1>2, <1>6 DEF ShareQueued, Done
    <3> QED
      BY <3>1, <3>2
  <2>10. ASSUME NEW u \in Senders PROVE SenderOK(u)'
    <3>1. HasBegun(u)' = HasBegun(u)
      <4>1. CASE u = Caller
        BY <4>1, <2>2, <2>8 DEF HasBegun
      <4>2. CASE u = w
        <5>1. ~(w <= pushed)
          BY <2>1, <1>0
        <5> QED
          BY <5>1, <4>2, <2>7, <1>c DEF HasBegun
      <4>3. CASE u \in Workers /\ u # w
        <5>1. u <= pushed' <=> u <= pushed
          BY <4>3, <2>1, <2>2, <1>0 DEF Workers
        <5> QED
          BY <5>1, <4>3, <2>8, <1>c DEF HasBegun
      <4> QED
        BY <4>1, <4>2, <4>3, <1>6, <1>c
    <3>2. (pc'[u] = "poll" <=> pc[u] = "poll")
          /\ (pc'[u] \in {"stage", "poll"} => pc[u] \in {"stage", "poll"} /\ staged'[u] = staged[u])
      BY <2>2, <2>8, <1>6, <1>c
    <3> QED
      BY <3>1, <3>2, <2>2, <1>4
  <2> QED
    BY <2>3, <2>9, <2>10, <1>0, <1>3
<1> QED
  BY <1>9, <1>10, <1>11, <1>12, <1>14, <1>15, <1>16

LEMMA InStepStep ==
    ASSUME IInv, IInv', AgeOK, CountOK, InStepOK, [Next]_vars
    PROVE  InStepOK'
<1>0. transfers \in Nat /\ (transfers = 0 => ~early /\ pc[Caller] = "idle")
  BY TransferAssumption DEF IInv, TypeOK, QueueOK
<1>1. CASE BeginSmall
  <2>1. PICK n \in Sizes : n < Mb /\ BeginTransfer(n) /\ EnterHamal(Caller, Whole(n))
    BY <1>1 DEF BeginSmall
  <2>2. UNCHANGED pushed
    BY <1>1 DEF BeginSmall
  <2>3. CASE InStep'
    BY <2>1, <2>2, <2>3, GapBegin
  <2> QED
    BY <2>3 DEF InStepOK
<1>2. CASE BeginLarge
  <2>1. PICK n \in Sizes : n >= Mb /\ BeginTransfer(n)
    BY <1>2 DEF BeginLarge
  <2>2. Goto(Caller, "push") /\ pushed' = 0
    BY <1>2 DEF BeginLarge
  <2>3. CASE InStep'
    BY <2>1, <2>2, <2>3, GapBegin
  <2> QED
    BY <2>3 DEF InStepOK
<1>3. CASE UNCHANGED vars
  <2>1. /\ UNCHANGED <<buf, target, size, transfers, pushed, early>> /\ UNCHANGED <<queue, posts, placed>>
        /\ UNCHANGED <<pc, task, total, staged>>
    BY <1>3 DEF vars, callerVars, queueVars, threadVars, wireVars
  <2> QED
    BY <2>1 DEF InStepOK, InStep, Senders, SenderOK, ShareQueued, Done, Share, HasBegun, Handed, ChunkLength,
       StagedCurrent, PostedCurrent, InShare, Chained, ArrivedInOrder, AtPeer, Current
<1>4. ASSUME InStep', transfers' > 0, UNCHANGED transfers, early' \/ ~early
      PROVE  InTransfer
  BY <1>4 DEF InTransfer, InStep
<1>5. CASE CountPushed \/ Return \/ SendRest \/ PushBack
           \/ \E w \in Workers : SeeTask(w) \/ Take(w) \/ CountTaken(w)
  <2>1. UNCHANGED transfers /\ (early => early')
    <3>1. CASE CountPushed \/ SendRest \/ PushBack
      BY <3>1 DEF CountPushed, SendRest, PushBack, callerVars
    <3>2. CASE Return
      BY <3>2 DEF Return
    <3>3. ASSUME NEW w \in Workers, SeeTask(w) \/ Take(w) \/ CountTaken(w)
          PROVE  UNCHANGED transfers /\ (early => early')
      BY <3>3 DEF SeeTask, Take, CountTaken, callerVars
    <3> QED
      BY <1>5, <3>1, <3>2, <3>3
  <2>2. CASE InTransfer
    BY <2>2, <1>5, GapElsewhere
  <2>3. CASE ~InTransfer
    BY <2>1, <2>3, <1>4 DEF InStepOK, InStep
  <2> QED
    BY <2>2, <2>3
<1>6. ASSUME NEW t \in Threads, Stage(t) \/ PostWrite(t) \/ PollWrite(t) \/ Finish(t) \/ Place(t)
      PROVE  InStepOK'
  <2>1. UNCHANGED <<transfers, early>>
    BY <1>6 DEF Stage, StageOf, PostWrite, PostChunk, PollWrite, PollSome, Finish, Place, callerVars
  <2>2. CASE InTransfer
    BY <2>2, <1>6, GapStage, GapPost, GapPoll, GapFinish, GapPlace
  <2>3. CASE ~InTransfer
    BY <2>1, <2>3, <1>4 DEF InStepOK, InStep
  <2> QED
    BY <2>2, <2>3
<1> QED
  BY <1>1, <1>2, <1>3, <1>5, <1>6 DEF Next

LEMMA InStepInit == Init => AgeOK /\ InStepOK
BY TransferAssumption DEF Init, AgeOK, Old, InStepOK, Bytes

-----------------------------------------------------------------------------
(* Theorems *)

\* The invariant behind all of them: parts and posted writes lie in the buffers, the
\* counters of the queues fit, and what is known of small and of first transfers.
THEOREM TransferInvariant == Spec => []IInv
<1>1. IInv /\ [Next]_vars => IInv'
  BY TypeStep, PartsStep, WritesStep, QueueStep, SmallStep DEF IInv
<1> QED
  BY InitInv, <1>1, PTL DEF Spec

\* Types: no copy of OutboundHamal leaves the buffers, for any size up to 4 MB and any
\* alignment of the parts.
THEOREM TransferTypes == Spec => []TypeOK
<1>1. IInv => TypeOK
  BY DEF IInv
<1> QED
  BY <1>1, TransferInvariant, PTL

\* RemoteWrite below 1 MB has delivered the bytes when it returns, as long as no large
\* transfer came before.
THEOREM SmallTransfersExact == Spec => []SmallExact
<1>1. IInv => SmallExact
  <2> SUFFICES ASSUME IInv, ~large, pc[Caller] = "idle"
               PROVE  \A o \in 0..(size - 1) : target[o] = <<transfers, o>>
    BY DEF SmallExact
  <2> QED
    BY DEF IInv, SmallOK, HasArrived
<1> QED
  BY <1>1, TransferInvariant, PTL

\* Push and pop of a queue meet in the vector only after RemoteWrite has returned before
\* a worker was done.
THEOREM QueueSafeTheorem == Spec => []QueueSafe
<1>1. IInv => QueueSafe
  BY DEF IInv, QueueOK, QueueSafe, InStep
<1> QED
  BY <1>1, TransferInvariant, PTL

\* With the account of the completions: while no worker is behind, what is staged and posted
\* is of the current transfer, and every sender's writes continue what is at the peer.
THEOREM InStepInvariant == Spec => [](CountOK /\ AgeOK /\ InStepOK)
<1>1. IInv /\ IInv' /\ (CountOK /\ AgeOK /\ InStepOK) /\ [Next]_vars => (CountOK /\ AgeOK /\ InStepOK)'
  BY CountStep, AgeStep, InStepStep DEF IInv
<1>2. Init => CountOK /\ AgeOK /\ InStepOK
  BY CountInit, InStepInit
<1> QED
  BY <1>1, <1>2, TransferInvariant, PTL DEF Spec

\* Whichever completions the threads take, as many are queued or still to come as threads
\* wait for one.
THEOREM CompletionsCounted == Spec => []CompletionsSuffice
<1>1. CountOK /\ AgeOK /\ InStepOK => CompletionsSuffice
  BY DEF CountOK
<1> QED
  BY <1>1, InStepInvariant, PTL

\* No cell is lost, sent twice or sent out of order in any transfer during which no worker
\* of an earlier one is behind, although a thread may take another's completion for its own.
THEOREM NoGapTheorem == Spec => []NoGap
<1>1. CountOK /\ AgeOK /\ InStepOK => NoGap
  BY DEF InStepOK, SenderOK, NoGap, Chained, ArrivedInOrder, Current
<1> QED
  BY <1>1, InStepInvariant, PTL
====
