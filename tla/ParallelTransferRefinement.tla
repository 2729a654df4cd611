---- MODULE ParallelTransferRefinement ----
(***************************************************************************)
(* RemoteWrite below 1 MB implements OneWrite: the invariant's SmallOK says *)
(* in which of four situations the caller is, and each of them has one     *)
(* value of Arrived.                                                       *)
(***************************************************************************)
EXTENDS ParallelTransferProofs

-----------------------------------------------------------------------------
(* What the invariant says as long as no large transfer was begun *)

LEMMA SmallTypes ==
    ASSUME IInv
    PROVE  /\ Mb \in Nat /\ Mb > 0
           /\ buf \in [Offsets -> Bytes \union {Blank}]
           /\ pc \in [Threads -> Labels] /\ size \in Nat /\ transfers \in Nat
           /\ staged \in [Threads -> Nat] /\ placed \in [Threads -> Nat]
           /\ posts \in [Threads -> Seq(Writes)] /\ total \in [Threads -> 0..(4 * Mb)]
           /\ task \in [Threads -> Tasks \union {Null}]
           /\ Caller \in Threads /\ \A w \in Workers : w \in Threads /\ w # Caller
<1>0. TypeOK /\ Mb \in Nat /\ Mb > 0
  BY TransferAssumption DEF IInv
<1>1. buf \in [Offsets -> Bytes \union {Blank}] /\ pc \in [Threads -> Labels]
  BY <1>0 DEF TypeOK, Labels
<1>2. size \in Nat /\ transfers \in Nat
  BY <1>0, TransferAssumption DEF TypeOK
<1>3. staged \in [Threads -> Nat]
  BY <1>0 DEF TypeOK
<1>4. placed \in [Threads -> Nat]
  BY <1>0 DEF TypeOK
<1>5. posts \in [Threads -> Seq(Writes)] /\ total \in [Threads -> 0..(4 * Mb)]
  BY <1>0 DEF TypeOK, Writes
<1>6. task \in [Threads -> Tasks \union {Null}]
  BY <1>0 DEF TypeOK
<1>7. Caller \in Threads /\ \A w \in Workers : w \in Threads /\ w # Caller
  BY Threads3 DEF Threads
<1> QED
  BY <1>0, <1>1, <1>2, <1>3, <1>4, <1>5, <1>6, <1>7

\* The value of Arrived in each situation.
LEMMA ArrivedIdle == SmallIdle => Arrived = size
BY DEF SmallIdle, Arrived

LEMMA ArrivedStage ==
    SmallStage => Arrived = IF total[Caller] = 0 THEN 0 ELSE size
BY DEF SmallStage, Arrived

LEMMA ArrivedCompleted == SmallCompleted => Arrived = size
BY DEF SmallCompleted, Arrived

LEMMA ArrivedOut == SmallOut => Arrived = placed[Caller]
BY DEF SmallOut, Arrived

\* Once a transfer of 1 MB or more was begun, one was begun.
LEMMA LargeStays == ASSUME [Next]_vars, large PROVE large'
BY DEF Next, vars, callerVars, BeginSmall, BeginLarge, BeginTransfer, PushBack, CountPushed,
   SendRest, Return, SeeTask, Take, CountTaken, Stage, StageOf, PostWrite, PostChunk, PollWrite,
   PollSome, Finish, Place

-----------------------------------------------------------------------------
(* Initial states and steps *)

LEMMA WriteInit == Init => Write!Init
<1> SUFFICES ASSUME Init PROVE Write!Init
  OBVIOUS
<1>1. Caller \in Threads /\ posts[Caller] = <<>> /\ pc[Caller] = "idle" /\ size = 0
  BY DEF Init, Threads
<1>2. Arrived = 0
  BY <1>1 DEF Arrived
<1> QED
  BY <1>1, <1>2 DEF Write!Init, Init, Offsets

\* What of a state the abstract transfer shows.
Shown == <<target, transfers, size, pc[Caller] # "idle", Arrived>>

LEMMA WriteStep ==
    ASSUME IInv, IInv', [Next]_vars, ~large'
    PROVE  Write!Next \/ UNCHANGED Shown
<1> DEFINE Goal == Write!Next \/ UNCHANGED Shown
<1>s. ~large
  BY LargeStays
<1>0. TypeOK
  BY DEF IInv
<1>t. /\ Mb \in Nat /\ Mb > 0
      /\ buf \in [Offsets -> Bytes \union {Blank}]
      /\ pc \in [Threads -> Labels] /\ size \in Nat /\ transfers \in Nat
      /\ staged \in [Threads -> Nat] /\ placed \in [Threads -> Nat]
      /\ Caller \in Threads /\ \A w \in Workers : w \in Threads /\ w # Caller
  BY SmallTypes
<1>f. /\ posts \in [Threads -> Seq(Writes)] /\ total \in [Threads -> 0..(4 * Mb)]
      /\ task \in [Threads -> Tasks \union {Null}]
  BY SmallTypes
<1>i. WorkersIdle /\ (SmallIdle \/ (SmallBusy /\ (SmallStage \/ SmallCompleted \/ SmallOut)))
  BY <1>s, SmallCases DEF IInv
<1>p. pc[Caller] \in {"idle", "stage", "poll"} /\ \A w \in Workers : pc[w] = "pop"
  BY <1>i DEF SmallIdle, SmallStage, SmallCompleted, SmallOut, WorkersIdle, Done
\* BeginSmall is Begin.
<1>1. CASE BeginSmall
  <2>1. PICK n \in Sizes : n < Mb /\ BeginTransfer(n) /\ EnterHamal(Caller, Whole(n))
    BY <1>1 DEF BeginSmall
  <2>2. /\ size' = n /\ transfers' = transfers + 1 /\ transfers < MaxTransfers
        /\ pc[Caller] = "idle" /\ UNCHANGED <<target, posts>>
    BY <2>1 DEF BeginTransfer, wireVars
  <2>3. pc'[Caller] = "stage" /\ total'[Caller] = 0
    BY <2>1, <1>t, <1>f DEF EnterHamal, Goto
  <2>4. posts'[Caller] = <<>>
    BY <2>2, <1>i DEF SmallIdle, SmallStage, SmallCompleted, SmallOut
  <2>5. Arrived' = 0
    BY <2>3, <2>4 DEF Arrived
  <2>6. Write!Begin
    BY <2>1, <2>2, <2>3, <2>5 DEF Write!Begin
  <2> QED
    BY <2>6 DEF Write!Next
<1>2. CASE BeginLarge
  BY <1>2 DEF BeginLarge
<1>3. CASE PushBack \/ CountPushed \/ SendRest \/ Return
  BY <1>3, <1>p DEF PushBack, CountPushed, SendRest, Return
<1>4. ASSUME NEW w \in Workers, SeeTask(w) \/ Take(w) \/ CountTaken(w) PROVE Goal
  BY <1>4, <1>p, <1>i DEF SeeTask, Take, CountTaken, WorkersIdle
\* The caller stages, posts and polls unseen.
<1>5. ASSUME NEW t \in Threads, Stage(t) PROVE Goal
  <2>1. UNCHANGED <<target, size, transfers, pc, total, posts, placed>>
    BY <1>5 DEF Stage, StageOf, callerVars, wireVars
  <2> QED
    BY <2>1 DEF Shown, Arrived
<1>6. ASSUME NEW t \in Threads, PostWrite(t) PROVE Goal
  <2>1. /\ pc[t] = "stage" /\ total[t] < task[t].len /\ Goto(t, "poll")
        /\ \E p : posts' = [posts EXCEPT ![t] = Append(@, p)]
        /\ UNCHANGED <<target, size, transfers, placed>>
    BY <1>6 DEF PostWrite, PostChunk, callerVars
  <2>2. t = Caller
    BY <2>1, <1>p DEF Threads
  <2>3. SmallBusy /\ SmallStage
    BY <2>1, <2>2, <1>i DEF SmallIdle, SmallCompleted, SmallOut
  <2>4. total[t] = 0 /\ Arrived = 0
    BY <2>1, <2>2, <2>3, <1>t, <1>0, SmallChunk, ArrivedStage DEF SmallStage
  <2>5. posts'[Caller] # <<>>
    <3>1. PICK p : posts' = [posts EXCEPT ![t] = Append(@, p)]
      BY <2>1
    <3>2. posts'[Caller] = <<p>>
      BY <3>1, <2>2, <2>3, <1>t, <1>f DEF SmallStage
    <3> QED
      BY <3>2
  <2>6. placed[Caller] = 0
    BY <2>3, <1>t DEF SmallStage, IInv, WritesOK, WriteOK
  <2>7. Arrived' = 0
    BY <2>1, <2>5, <2>6 DEF Arrived
  <2>8. pc[Caller] # "idle" /\ pc'[Caller] # "idle"
    BY <2>1, <2>2, <1>t DEF Goto
  <2> QED
    BY <2>1, <2>4, <2>7, <2>8 DEF Shown
<1>7. ASSUME NEW t \in Threads, PollWrite(t) PROVE Goal
  <2>1. /\ pc[t] = "poll" /\ cq > 0 /\ Goto(t, "stage")
        /\ total' = [total EXCEPT ![t] = @ + ChunkLength(t)]
        /\ UNCHANGED <<target, size, transfers, posts>>
    BY <1>7 DEF PollWrite, PollSome, NextChunk, callerVars
  <2>2. t = Caller
    BY <2>1, <1>p DEF Threads
  <2>3. SmallBusy /\ SmallCompleted
    BY <2>1, <2>2, <1>i, <1>t DEF SmallIdle, SmallStage, SmallOut
  <2>4. total'[Caller] = 0 + size
    BY <2>1, <2>2, <2>3, <1>t, <1>f, <1>0, SmallChunk DEF SmallCompleted
  <2>5. pc'[Caller] = "stage" /\ posts'[Caller] = <<>> /\ total'[Caller] # 0
    BY <2>1, <2>2, <2>3, <2>4, <1>t DEF Goto, SmallCompleted, SmallBusy
  <2>6. Arrived = size /\ Arrived' = size'
    BY <2>3, <2>5, ArrivedCompleted DEF Arrived
  <2>7. pc[Caller] # "idle" /\ pc'[Caller] # "idle"
    BY <2>1, <2>2, <2>5
  <2> QED
    BY <2>1, <2>6, <2>7 DEF Shown
\* Finish is Return.
<1>8. ASSUME NEW t \in Threads, Finish(t) PROVE Goal
  <2>1. /\ pc[t] = "stage" /\ total[t] = task[t].len
        /\ Goto(t, IF t \in Workers THEN "pop" ELSE IF size < Mb THEN "idle" ELSE "wait")
        /\ UNCHANGED <<target, size, transfers, posts, total>>
    BY <1>8 DEF Finish, callerVars, wireVars, threadVars
  <2>2. t = Caller
    BY <2>1, <1>p DEF Threads
  <2>3. SmallBusy /\ SmallStage
    BY <2>1, <2>2, <1>i DEF SmallIdle, SmallCompleted, SmallOut
  <2>4. size < Mb /\ total[Caller] # 0
    BY <2>1, <2>2, <2>3, <1>t, <1>0, SmallChunk
  <2>5. pc[Caller] # "idle" /\ pc'[Caller] = "idle"
    BY <2>1, <2>2, <2>4, <1>t DEF Goto
  <2>6. Arrived = size
    BY <2>3, <2>4, ArrivedStage
  <2>7. Arrived' = size'
    BY <2>1, <2>3, <2>5 DEF Arrived, SmallStage
  <2>8. Write!Return
    BY <2>1, <2>5, <2>6, <2>7 DEF Write!Return
  <2> QED
    BY <2>8 DEF Write!Next
\* Place is Arrive.
<1>9. ASSUME NEW t \in Threads, Place(t) PROVE Goal
  <2> DEFINE n == placed[Caller]
  <2>1. posts[t] # <<>> /\ UNCHANGED <<size, transfers, pc, total>>
    BY <1>9 DEF Place, callerVars, threadVars
  <2>2. t = Caller
    BY <2>1, <1>i DEF WorkersIdle, Threads
  <2>3. SmallBusy /\ SmallOut
    BY <2>1, <2>2, <1>i DEF SmallIdle, SmallStage, SmallCompleted
  <2>4. Head(posts[t]).src = 0 /\ Head(posts[t]).dst = 0 /\ Head(posts[t]).len = size
        /\ Tail(posts[t]) = <<>> /\ posts[t][1].len = size
    BY <2>2, <2>3 DEF SmallOut
  <2>5. n \in Nat /\ n < size /\ size < Mb
    BY <2>2, <2>4, <2>1, <2>3, <1>t, <1>0, SmallChunk DEF IInv, WritesOK, WriteOK
  <2>6. target' = [target EXCEPT ![n] = <<transfers, n>>]
    <3>1. target' = [target EXCEPT ![0 + n] = buf[0 + n]]
      BY <1>9, <2>2, <2>4 DEF Place
    <3>2. 0 + n = n
      BY <2>5
    <3>3. buf[n] = <<transfers, n>>
      BY <2>3, <2>5, <1>t DEF SmallBusy
    <3> QED
      BY <3>1, <3>2, <3>3, Zenon
  <2>7. Arrived = n /\ pc[Caller] = "poll"
    BY <2>3, ArrivedOut DEF SmallOut
  <2>8. Arrived' = n + 1
    <3>1. CASE n + 1 = size
      <4>1. posts'[Caller] = <<>>
        BY <1>9, <2>2, <2>4, <3>1, <1>t, <1>f DEF Place
      <4> QED
        BY <4>1, <2>1, <2>7, <3>1 DEF Arrived
    <3>2. CASE n + 1 # size
      <4>1. posts'[Caller] = posts[Caller] /\ placed'[Caller] = n + 1
        BY <1>9, <2>2, <2>4, <3>2, <1>t, <1>f DEF Place
      <4> QED
        BY <4>1, <2>1, <2>2 DEF Arrived
    <3> QED
      BY <3>1, <3>2
  <2>9. Write!Arrive
    BY <2>1, <2>5, <2>6, <2>7, <2>8 DEF Write!Arrive
  <2> QED
    BY <2>9 DEF Write!Next
<1>10. CASE UNCHANGED vars
  BY <1>10 DEF vars, callerVars, threadVars, wireVars, Shown, Arrived
<1> QED
  BY <1>1, <1>2, <1>3, <1>4, <1>5, <1>6, <1>7, <1>8, <1>9, <1>10 DEF Next

-----------------------------------------------------------------------------
(* The theorem *)

\* Until a transfer of 1 MB or more begins, RemoteWrite as it is, with its copy through the
\* staging area, its posts and its polls, is one RDMA write of the bytes it was called with:
\* every step is a step of OneWrite or one it does not show.
THEOREM SmallRefinement == Spec => SmallIsOneWrite
<1>1. IInv /\ IInv' /\ [Next]_vars => [large' \/ Write!Next]_(Write!vars)
  <2> SUFFICES ASSUME IInv, IInv', [Next]_vars, ~large' PROVE Write!Next \/ UNCHANGED Write!vars
    OBVIOUS
  <2>1. Write!Next \/ UNCHANGED Shown
    BY WriteStep
  <2> QED
    BY <2>1 DEF Shown, Write!vars
<1>2. Init => Write!Init
  BY WriteInit
<1> QED
  BY <1>1, <1>2, TransferInvariant, PTL DEF Spec, SmallIsOneWrite
====
