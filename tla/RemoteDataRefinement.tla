---- MODULE RemoteDataRefinement ----
(***************************************************************************)
(* Proof that the remote data calls implement the pool of PoolData, for    *)
(* any number of requesters, any objects, words and sizes, with early or   *)
(* late acknowledgements, as long as no requester asks for anything after  *)
(* its write.                                                              *)
(***************************************************************************)
EXTENDS RemoteDataProofs

\* The condition under which the refinement is run and proved.
AllCalm == \A r \in Requesters : Calm(r)

\* IInv knows that an answer is fresh; the refinement needs to know that it is what
\* was gathered, and that a write is copied once.
AnswerOK(r) ==
    /\ spc[r] \in {"begin", "end"} => word[r] = 1
    /\ r \in stored => LastIsWrite(r) /\ ~wire[r] /\ NoRecv(cq[r]) /\ AtRest(r)
    /\ (~LastIsWrite(r) /\ pc[r] # "idle") =>
         /\ sends[r] > 0 =>
              /\ word[r] = Size + 1 /\ outBuf[r][Size + 1] = call[r].obj
              /\ \A i \in 1..Size : i < sent[r] => inBuf[r][i] = outBuf[r][i]
         /\ sends[r] = 0 /\ inBuf[r][Size + 1] # Zero =>
              /\ word[r] = Size + 1
              /\ \A i \in 1..Size : inBuf[r][i] = outBuf[r][i]
         /\ pc[r] = "take" => inBuf[r][Size + 1] # Zero

RInv == IInv /\ \A r \in Requesters : AnswerOK(r)

-----------------------------------------------------------------------------
(* The invariant *)

\* A step that leaves the answer as it is.
LEMMA AnswerKept ==
    ASSUME NEW r \in Requesters, AnswerOK(r),
           call'[r] = call[r], inBuf'[r] = inBuf[r], sends'[r] = sends[r], sent'[r] = sent[r],
           word'[r] = word[r], outBuf'[r] = outBuf[r],
           spc'[r] \in {"begin", "end"} => spc[r] \in {"begin", "end"},
           r \in stored' => LastIsWrite(r) /\ ~wire'[r] /\ NoRecv(cq'[r]) /\ AtRest(r)',
           pc[r] = "idle" => pc'[r] = "idle",
           pc'[r] = "take" => pc[r] = "take" \/ inBuf[r][Size + 1] # Zero
    PROVE  AnswerOK(r)'
<1>1. LastIsWrite(r)' <=> LastIsWrite(r)
  BY DEF LastIsWrite
<1> QED
  BY <1>1 DEF AnswerOK

LEMMA AnswerSame ==
    ASSUME NEW u \in Requesters, AnswerOK(u), Same(u), u \in stored' <=> u \in stored
    PROVE  AnswerOK(u)'
BY AnswerKept DEF Same, AnswerOK, AtRest

LEMMA AnswerGet ==
    ASSUME AllCalm, RInv, NEW r \in Requesters, Get(r)
    PROVE  AnswerOK(r)'
<1> USE DEF poolVars, callVars, requestVars, writeVars, answerVars, serveVars
<1>0. IInv /\ Calm(r)
  BY DEF RInv, AllCalm
<1>1. PICK o \in Objects : Begin(r, "get", o, Null)
  BY DEF Get
<1>2. /\ pc[r] = "idle" /\ calls[r] < Len(Script[r])
      /\ pc'[r] = "sending" /\ inBuf'[r] = ZeroFrame
      /\ UNCHANGED <<spc, sends, word, stored>>
  BY <1>0, <1>1, Mine DEF Begin, Goto, Get, TypeOK
<1>3. ~LastIsWrite(r) /\ ReadIdle(r)
  BY <1>0, <1>2, Mine DEF WriteOK, ReadOK, ReadBusy
<1>4. r \notin stored /\ sends'[r] = 0 /\ spc'[r] \notin {"begin", "end"}
  BY <1>2, <1>3 DEF RInv, AnswerOK, ReadIdle, Idle, AtRest
<1>5. inBuf'[r][Size + 1] = Zero
  BY <1>2, PositionFacts DEF ZeroFrame
<1> QED
  BY <1>2, <1>4, <1>5 DEF AnswerOK

LEMMA AnswerWrite ==
    ASSUME AllCalm, RInv, NEW r \in Requesters, Write(r)
    PROVE  AnswerOK(r)'
<1> USE DEF poolVars, callVars, requestVars, writeVars, answerVars, serveVars
<1>0. IInv /\ Calm(r)
  BY DEF RInv, AllCalm
<1>1. PICK o \in Objects, image \in [1..Size -> Words] : Begin(r, "write", o, image)
  BY DEF Write
<1>2. /\ pc[r] = "idle" /\ calls[r] < Len(Script[r])
      /\ call'[r] = [kind |-> "write", obj |-> o, image |-> image]
      /\ spc' = spc /\ stored' = stored \ {r}
  BY <1>0, <1>1, Mine DEF Begin, Goto, Write, TypeOK
<1>3. ~LastIsWrite(r) /\ ReadIdle(r)
  BY <1>0, <1>2, Mine DEF WriteOK, ReadOK, ReadBusy
<1>4. r \notin stored' /\ spc'[r] \notin {"begin", "end"}
  BY <1>2, <1>3 DEF ReadIdle, Idle, AtRest
<1>5. LastIsWrite(r)'
  <2>1. image \in Images
    BY DEF Images, Contents
  <2> QED
    BY <1>2, <2>1, DataAssumption DEF LastIsWrite, Requests, Kinds
<1> QED
  BY <1>4, <1>5 DEF AnswerOK

LEMMA AnswerRequester ==
    ASSUME AllCalm, RInv, NEW r \in Requesters, RequesterStep(r)
    PROVE  AnswerOK(r)'
<1>0. IInv /\ Calm(r) /\ TypeOK
  BY Mine DEF RInv, AllCalm
<1>1. PICK from, to : /\ Advance(r, from, to) /\ inBuf' = inBuf
                      /\ from # "idle" /\ (to = "take" => inBuf[r][Size + 1] = call[r].obj)
  BY <1>0 DEF RequesterStep, PollSend, PollWritten, SeeBegin, SeeEnd, TakeResult, AfterSend
<1>2. /\ pc[r] = from /\ pc'[r] = to
      /\ KeptParts(r) /\ UNCHANGED <<cq, spc>> /\ stored' = stored
  BY <1>0, <1>1, Advanced DEF Advance
<1>3. pc'[r] = "take" => inBuf[r][Size + 1] # Zero
  BY <1>0, <1>1, <1>2, Mine, PositionFacts DEF Sane
<1> QED
  BY <1>1, <1>2, <1>3, AnswerKept DEF RInv, AnswerOK, KeptParts, AtRest

LEMMA AnswerAdapter ==
    ASSUME AllCalm, RInv, NEW r \in Requesters, DeliverRequest(r) \/ PlaceAtOwner(r) \/ Ack(r)
    PROVE  AnswerOK(r)'
<1> USE DEF poolVars, callVars, requestVars, writeVars, answerVars, serveVars
<1>0. IInv /\ TypeOK /\ AnswerOK(r) /\ cq[r] \in Queues
  BY Mine DEF RInv
<1>1. CASE DeliverRequest(r)
  <2>1. r \notin stored
    BY <1>0, <1>1 DEF DeliverRequest, AnswerOK
  <2> QED
    BY <1>0, <1>1, <2>1, AnswerKept DEF DeliverRequest
<1>2. CASE PlaceAtOwner(r)
  BY <1>0, <1>2, AnswerKept DEF PlaceAtOwner, AnswerOK, AtRest
<1>3. CASE Ack(r)
  <2>1. cq'[r] = Append(cq[r], "WRITE")
    BY <1>0, <1>3 DEF Ack, TypeOK
  <2>2. NoRecv(cq[r]) => NoRecv(cq'[r])
    BY <1>0, <2>1, RecvAdded
  <2>3. UNCHANGED <<call, inBuf, sends, sent, word, outBuf, spc, wire, pc, stored>>
    BY <1>3 DEF Ack
  <2> QED
    BY <1>0, <2>2, <2>3, AnswerKept DEF AnswerOK, AtRest
<1> QED
  BY <1>1, <1>2, <1>3

\* The RDMA write of the answer brings what the send buffer holds, the end marker last.
LEMMA AnswerPlace ==
    ASSUME AllCalm, RInv, NEW r \in Requesters, PlaceAtRequester(r)
    PROVE  AnswerOK(r)'
<1> USE DEF poolVars, requestVars, writeVars, serveVars
<1> DEFINE p == sent[r]
           last == p = Size + 1
<1>0. IInv /\ Calm(r) /\ TypeOK /\ AnswerOK(r)
  BY Mine DEF RInv, AllCalm
<1>1. /\ sends[r] > 0
      /\ inBuf'[r] = [inBuf[r] EXCEPT ![p] = outBuf[r][p]]
      /\ sent'[r] = IF last THEN 0 ELSE p + 1
      /\ sends'[r] = IF last THEN sends[r] - 1 ELSE sends[r]
      /\ UNCHANGED <<pc, call, wire, cq, spc, word, outBuf, stored>>
  BY <1>0 DEF PlaceAtRequester, TypeOK
<1>2. p \in Positions /\ inBuf[r] \in Frames
  BY <1>0 DEF TypeOK
<1>3. /\ inBuf'[r][p] = outBuf[r][p]
      /\ \A i \in Positions : i # p => inBuf'[r][i] = inBuf[r][i]
  BY <1>1, <1>2 DEF Frames
<1>4. LastIsWrite(r)' <=> LastIsWrite(r)
  BY <1>1 DEF LastIsWrite
<1>5. ASSUME ~LastIsWrite(r), pc[r] # "idle"
      PROVE  /\ sends'[r] > 0 => \A i \in 1..Size : i < sent'[r] => inBuf'[r][i] = outBuf[r][i]
             /\ sends'[r] = 0 => \A i \in 1..Size : inBuf'[r][i] = outBuf[r][i]
             /\ word[r] = Size + 1 /\ outBuf[r][Size + 1] = call[r].obj
             /\ pc[r] # "take"
  <2>1. Answering(r) /\ pc[r] # "take"
    BY <1>0, <1>1, <1>5, Mine DEF ReadOK, ReadIdle, ReadBusy, ReadPlace, Asking, Asked, Received,
       Gathering, Answered, Idle
  <2>2. sends[r] = 1 /\ word[r] = Size + 1 /\ outBuf[r][Size + 1] = call[r].obj
    BY <1>0, <1>1, <1>5, <2>1 DEF Answering, AnswerOK
  <2>3. ASSUME NEW i \in 1..Size, i < p + 1 PROVE inBuf'[r][i] = outBuf[r][i]
    BY <1>0, <1>1, <1>2, <1>3, <1>5, <2>3, PositionFacts DEF AnswerOK
  <2>4. CASE last
    BY <1>1, <2>1, <2>2, <2>3, <2>4, PositionFacts
  <2>5. CASE ~last
    BY <1>1, <2>1, <2>2, <2>3, <2>5
  <2> QED
    BY <2>4, <2>5
<1>6. AtRest(r)' <=> AtRest(r)
  BY <1>1 DEF AtRest
<1> QED
  BY <1>0, <1>1, <1>4, <1>5, <1>6 DEF AnswerOK

\* The polling thread between two requests, while it waits and when it is done.
LEMMA AnswerMoves ==
    ASSUME AllCalm, RInv, NEW r \in Requesters,
           Poll(r) \/ AwaitPosted(r) \/ AwaitBegin(r) \/ AwaitEnd(r) \/ Persist(r)
    PROVE  AnswerOK(r)'
<1> USE DEF callVars, requestVars, serveVars
<1>0. IInv /\ Calm(r) /\ TypeOK /\ AnswerOK(r) /\ cq[r] \in Queues
  BY Mine DEF RInv, AllCalm
<1>1. CASE Poll(r) \/ AwaitPosted(r)
  <2>1. /\ cq[r] # <<>> /\ cq'[r] = Tail(cq[r])
        /\ spc'[r] = "poll" \/ (spc'[r] = "recv" /\ Head(cq[r]) = "RECV")
        /\ UNCHANGED <<pc, call, inBuf, wire, sends, sent, word, outBuf, stored>>
    BY <1>0, <1>1 DEF Poll, AwaitPosted, Take, Work, TypeOK
  <2>2. NoRecv(cq[r]) => NoRecv(cq'[r]) /\ Head(cq[r]) # "RECV"
    BY <1>0, <2>1, RecvTaken
  <2> QED
    BY <1>0, <2>1, <2>2, AnswerKept DEF AnswerOK, AtRest
<1>2. CASE AwaitBegin(r) \/ AwaitEnd(r)
  <2>1. /\ spc[r] \in {"begin", "end"}
        /\ UNCHANGED <<pc, call, inBuf, wire, cq, sends, sent, word, outBuf, stored>>
    BY <1>2 DEF AwaitBegin, AwaitEnd, Work
  <2>2. r \notin stored
    BY <1>0, <2>1 DEF AnswerOK, AtRest
  <2> QED
    BY <1>0, <2>1, <2>2, AnswerKept
<1>3. CASE Persist(r)
  <2>1. /\ spc[r] = "scatter" /\ spc'[r] = "poll"
        /\ UNCHANGED <<pc, call, inBuf, wire, cq, sends, sent, word, outBuf>>
    BY <1>0, <1>3 DEF Persist, Work, TypeOK
  <2>2. LastIsWrite(r) /\ ~wire[r] /\ NoRecv(cq[r])
    BY <1>0, <2>1, Serving
  <2> QED
    BY <1>0, <2>1, <2>2, AnswerKept DEF AtRest
<1> QED
  BY <1>1, <1>2, <1>3

LEMMA AnswerServeGet ==
    ASSUME AllCalm, RInv, NEW r \in Requesters, ServeGet(r) \/ Gather(r) \/ Post(r)
    PROVE  AnswerOK(r)'
<1> USE DEF callVars, requestVars, serveVars
<1>0. IInv /\ Calm(r) /\ TypeOK /\ AnswerOK(r)
  BY Mine DEF RInv, AllCalm
<1>1. /\ spc[r] \in {"recv", "gather"} /\ spc'[r] \in {"gather", "posted"}
      /\ spc[r] = "recv" => header[r].kind = "get"
      /\ UNCHANGED <<pc, call, inBuf, wire, cq, sent, stored>>
  BY <1>0 DEF ServeGet, Gather, Post, Work, TypeOK
<1>2. ~LastIsWrite(r)
  BY <1>0, <1>1, Serving DEF LastIsWrite
<1>3. /\ Received(r) \/ Gathering(r)
      /\ pc[r] # "take"
      /\ sends[r] = 0 /\ sent[r] = 0 /\ inBuf[r] = ZeroFrame
  BY <1>0, <1>1, <1>2, Serving DEF Received, Gathering
<1>4. r \notin stored /\ ~LastIsWrite(r)' /\ inBuf[r][Size + 1] = Zero
  BY <1>0, <1>1, <1>2, <1>3, PositionFacts DEF AnswerOK, LastIsWrite, ZeroFrame
<1>5. ASSUME sends'[r] > 0 PROVE word'[r] = Size + 1 /\ outBuf'[r][Size + 1] = call[r].obj
  <2>1. Post(r)
    BY <1>3, <1>5 DEF ServeGet, Gather
  <2>2. spc[r] = "gather" /\ word'[r] = Size + 1 /\ outBuf'[r] = [outBuf[r] EXCEPT ![Size + 1] = job[r].obj]
    BY <1>0, <2>1 DEF Post, Work, TypeOK
  <2>3. job[r] = call[r] /\ outBuf[r] \in Frames
    BY <1>0, <2>2, Serving DEF Gathering, TypeOK
  <2> QED
    BY <2>2, <2>3, PositionFacts DEF Frames
<1>6. \A i \in 1..Size : ~(i < sent'[r])
  BY <1>1, <1>3
<1> QED
  BY <1>1, <1>3, <1>4, <1>5, <1>6 DEF AnswerOK

LEMMA AnswerServeWrite ==
    ASSUME AllCalm, RInv, NEW r \in Requesters, ServeWrite(r) \/ Scatter(r)
    PROVE  AnswerOK(r)'
<1> USE DEF callVars, requestVars, serveVars
<1>0. IInv /\ Calm(r) /\ TypeOK /\ AnswerOK(r)
  BY Mine DEF RInv, AllCalm
<1>1. /\ spc[r] \in {"recv", "scatter"} /\ spc'[r] \in {"begin", "scatter"}
      /\ spc[r] = "recv" => header[r].kind = "write"
      /\ spc'[r] = "begin" => word'[r] = 1
      /\ UNCHANGED <<call, stored>>
  BY <1>0 DEF ServeWrite, Scatter, ScatterFrom, Work, TypeOK
<1>2. LastIsWrite(r)
  BY <1>0, <1>1, Mine, Serving DEF Received, ReadBusy, Sane
<1>3. r \notin stored
  BY <1>0, <1>1 DEF AnswerOK, AtRest
<1> QED
  BY <1>1, <1>2, <1>3 DEF AnswerOK, LastIsWrite

\* What no step of r does to another requester.
LEMMA OthersStored ==
    ASSUME NEW r \in Requesters, NEW u \in Requesters, u # r,
           \/ Get(r) \/ Write(r) \/ RequesterStep(r) \/ PollThreadStep(r)
           \/ DeliverRequest(r) \/ PlaceAtOwner(r) \/ PlaceAtRequester(r) \/ Ack(r)
    PROVE  u \in stored' <=> u \in stored
<1>1. ASSUME RequesterStep(r) PROVE stored' = stored
  BY <1>1 DEF RequesterStep, PollSend, PollWritten, SeeBegin, SeeEnd, TakeResult, Advance
<1>2. ASSUME PollThreadStep(r) PROVE stored' = stored \/ stored' = stored \union {r}
  BY <1>2 DEF PollThreadStep, Poll, AwaitPosted, Take, ServeGet, Gather, Post, ServeWrite,
     AwaitBegin, AwaitEnd, Scatter, ScatterFrom, Persist
<1> QED
  BY <1>1, <1>2 DEF Get, Write, DeliverRequest, PlaceAtOwner, PlaceAtRequester, Ack

LEMMA OthersSame ==
    ASSUME IInv, NEW r \in Requesters, NEW u \in Requesters, u # r,
           \/ Get(r) \/ Write(r) \/ RequesterStep(r) \/ PollThreadStep(r)
           \/ DeliverRequest(r) \/ PlaceAtOwner(r) \/ PlaceAtRequester(r) \/ Ack(r)
    PROVE  Same(u) /\ (u \in stored' <=> u \in stored)
BY Mine, OthersStored, OthersRequester, OthersServer, OthersAdapter

LEMMA RInvInit == Init => RInv
<1>1. Init => \A r \in Requesters : AnswerOK(r)
  BY DEF Init, AnswerOK
<1> QED
  BY <1>1, InitInv DEF RInv

LEMMA RInvNext ==
    ASSUME AllCalm, RInv, [Next]_vars
    PROVE  RInv'
<1>0. IInv /\ IInv'
  BY StepInv DEF RInv
<1> SUFFICES ASSUME NEW u \in Requesters PROVE AnswerOK(u)'
  BY <1>0 DEF RInv
<1>1. ASSUME Same(u), u \in stored' <=> u \in stored PROVE AnswerOK(u)'
  BY <1>1, AnswerSame DEF RInv
<1>2. CASE LocalWrite \/ UNCHANGED vars
  <2>1. stored' = stored
    BY <1>2 DEF LocalWrite, vars
  <2>2. Same(u)
    BY <1>0, <1>2, LocalStep DEF vars, Same, callVars, requestVars, writeVars, answerVars, serveVars
  <2> QED
    BY <1>1, <2>1, <2>2
<1>3. ASSUME NEW r \in Requesters,
             \/ Get(r) \/ Write(r) \/ RequesterStep(r) \/ PollThreadStep(r)
             \/ DeliverRequest(r) \/ PlaceAtOwner(r) \/ PlaceAtRequester(r) \/ Ack(r)
      PROVE  AnswerOK(u)'
  <2>1. CASE u # r
    BY <1>0, <1>1, <1>3, <2>1, OthersSame
  <2>2. CASE u = r
    BY <1>3, <2>2, AnswerGet, AnswerWrite, AnswerRequester, AnswerAdapter, AnswerPlace, AnswerMoves,
       AnswerServeGet, AnswerServeWrite DEF PollThreadStep
  <2> QED
    BY <2>1, <2>2
<1> QED
  BY <1>2, <1>3 DEF Next

-----------------------------------------------------------------------------
(* The refinement mapping *)

Busy == [r \in Requesters |-> pc[r] # "idle"]
Got == [r \in Requesters |-> [i \in ReadSoFar(r) |-> outBuf[r][i]]]
Todo == [r \in Requesters |-> LeftToStore(r)]

\* What the mapping depends on.
LEMMA MappedSame ==
    ASSUME NEW u \in Requesters, Same(u), u \in stored' <=> u \in stored
    PROVE  /\ Busy'[u] = Busy[u] /\ Got'[u] = Got[u] /\ Todo'[u] = Todo[u]
           /\ call'[u] = call[u] /\ result'[u] = result[u]
<1>1. (pc[u] # "idle")' = (pc[u] # "idle")
  BY DEF Same
<1>2. ReadSoFar(u)' = ReadSoFar(u)
  BY DEF Same, ReadSoFar
<1>3. LeftToStore(u)' = LeftToStore(u)
  BY DEF Same, LeftToStore
<1>4. [i \in ReadSoFar(u) |-> outBuf[u][i]]' = [i \in ReadSoFar(u) |-> outBuf[u][i]]
  BY <1>2 DEF Same
<1> QED
  BY <1>1, <1>3, <1>4 DEF Busy, Got, Todo, Same

\* Two functions that agree everywhere, or everywhere but in one place.
LEMMA SameFunction ==
    ASSUME NEW S, NEW f, NEW g, f = [u \in S |-> f[u]], g = [u \in S |-> g[u]],
           \A u \in S : g[u] = f[u]
    PROVE  g = f
<1>1. [u \in S |-> g[u]] = [u \in S |-> f[u]]
  OBVIOUS
<1> QED
  BY <1>1

LEMMA ChangedFunction ==
    ASSUME NEW S, NEW f, NEW g, NEW r \in S, f = [u \in S |-> f[u]], g = [u \in S |-> g[u]],
           \A u \in S : u # r => g[u] = f[u]
    PROVE  /\ g = [f EXCEPT ![r] = g[r]]
           /\ g[r] = f[r] => g = f
<1>1. g = [f EXCEPT ![r] = g[r]]
  <2> DEFINE h == [f EXCEPT ![r] = g[r]]
  <2>1. h = [u \in S |-> h[u]] /\ \A u \in S : g[u] = h[u]
    OBVIOUS
  <2> HIDE DEF h
  <2>2. g = h
    BY <2>1, SameFunction
  <2> QED
    BY <2>2 DEF h
<1>2. g[r] = f[r] => g = f
  BY SameFunction
<1> QED
  BY <1>1, <1>2

LEMMA MappedFunctions ==
    /\ Busy = [r \in Requesters |-> Busy[r]] /\ Busy' = [r \in Requesters |-> Busy'[r]]
    /\ Got = [r \in Requesters |-> Got[r]] /\ Got' = [r \in Requesters |-> Got'[r]]
    /\ Todo = [r \in Requesters |-> Todo[r]] /\ Todo' = [r \in Requesters |-> Todo'[r]]
BY DEF Busy, Got, Todo

\* A step of r changes the mapping for r only.
LEMMA MappedStep ==
    ASSUME IInv, NEW r \in Requesters,
           \/ Get(r) \/ Write(r) \/ RequesterStep(r) \/ PollThreadStep(r)
           \/ DeliverRequest(r) \/ PlaceAtOwner(r) \/ PlaceAtRequester(r) \/ Ack(r)
    PROVE  /\ Busy' = [Busy EXCEPT ![r] = (pc[r] # "idle")']
           /\ Got' = [Got EXCEPT ![r] = [i \in ReadSoFar(r) |-> outBuf[r][i]]']
           /\ Todo' = [Todo EXCEPT ![r] = LeftToStore(r)']
           /\ (pc[r] # "idle")' = (pc[r] # "idle") => Busy' = Busy
           /\ [i \in ReadSoFar(r) |-> outBuf[r][i]]' = [i \in ReadSoFar(r) |-> outBuf[r][i]] => Got' = Got
           /\ LeftToStore(r)' = LeftToStore(r) => Todo' = Todo
<1>1. \A u \in Requesters : u # r =>
        Busy'[u] = Busy[u] /\ Got'[u] = Got[u] /\ Todo'[u] = Todo[u]
  BY OthersSame, MappedSame
<1>2. Busy' = [Busy EXCEPT ![r] = Busy'[r]] /\ (Busy'[r] = Busy[r] => Busy' = Busy)
  BY <1>1, MappedFunctions, ChangedFunction
<1>3. Got' = [Got EXCEPT ![r] = Got'[r]] /\ (Got'[r] = Got[r] => Got' = Got)
  BY <1>1, MappedFunctions, ChangedFunction
<1>4. Todo' = [Todo EXCEPT ![r] = Todo'[r]] /\ (Todo'[r] = Todo[r] => Todo' = Todo)
  BY <1>1, MappedFunctions, ChangedFunction
<1>5. /\ Busy[r] = (pc[r] # "idle") /\ Busy'[r] = (pc[r] # "idle")'
      /\ Got[r] = [i \in ReadSoFar(r) |-> outBuf[r][i]]
      /\ Got'[r] = [i \in ReadSoFar(r) |-> outBuf[r][i]]'
      /\ Todo[r] = LeftToStore(r) /\ Todo'[r] = LeftToStore(r)'
  BY DEF Busy, Got, Todo
<1> QED
  BY <1>2, <1>3, <1>4, <1>5

-----------------------------------------------------------------------------
(* The simulation *)

\* A step that moves no word and neither begins nor ends a call.
LEMMA Stutter ==
    ASSUME UNCHANGED <<mem, call, result>>, Busy' = Busy, Got' = Got, Todo' = Todo
    PROVE  UNCHANGED Pool!vars
BY DEF Pool!vars, Busy, Got, Todo

LEMMA LocalSimulation ==
    ASSUME IInv, LocalWrite
    PROVE  Pool!LocalWrite
<1>1. \A u \in Requesters : Same(u)
  BY LocalStep
<1>2. stored' = stored /\ UNCHANGED <<call, result>>
  BY DEF LocalWrite, callVars
<1>3. \A u \in Requesters : Busy'[u] = Busy[u] /\ Got'[u] = Got[u] /\ Todo'[u] = Todo[u]
  BY <1>1, <1>2, MappedSame
<1>4. Busy' = Busy /\ Got' = Got /\ Todo' = Todo
  BY <1>3, MappedFunctions, SameFunction
<1>5. \E o \in Objects, i \in 1..Size, w \in Words : mem' = [mem EXCEPT ![o][i] = w]
  BY DEF LocalWrite, Store
<1> QED
  BY <1>2, <1>4, <1>5 DEF Pool!LocalWrite, Busy, Got, Todo

\* Both calls begin.
LEMMA BeginSimulation ==
    ASSUME AllCalm, RInv, NEW r \in Requesters, Get(r) \/ Write(r)
    PROVE  Pool!Begin(r)
<1> USE DEF poolVars, callVars, requestVars, writeVars, answerVars, serveVars
<1>0. IInv /\ Calm(r) /\ TypeOK
  BY Mine DEF RInv, AllCalm
<1>1. PICK kind \in Kinds, o \in Objects, image \in [1..Size -> Words] \union {Null} :
        /\ Begin(r, kind, o, image)
        /\ kind = "get" => image = Null /\ inBuf' = [inBuf EXCEPT ![r] = ZeroFrame] /\ Get(r)
        /\ kind = "write" => image \in [1..Size -> Words] /\ stored' = stored \ {r} /\ Write(r)
  BY DEF Get, Write, Kinds
<1> DEFINE c == [kind |-> kind, obj |-> o, image |-> image]
<1>2. /\ pc[r] = "idle" /\ pc'[r] = "sending" /\ calls[r] < Len(Script[r])
      /\ call' = [call EXCEPT ![r] = c] /\ result' = [result EXCEPT ![r] = Null]
      /\ UNCHANGED <<mem, spc, sends>> /\ call'[r] = c
  BY <1>0, <1>1 DEF Begin, Goto, TypeOK
<1>3. ~LastIsWrite(r) /\ ReadIdle(r)
  BY <1>0, <1>2, Mine DEF WriteOK, ReadOK, ReadBusy
<1>4. (call[r] # Null => call[r].kind = "get") /\ spc[r] \notin {"gather", "scatter"} /\ sends[r] = 0
  BY <1>0, <1>3, Mine DEF ReadIdle, Idle, AtRest
<1>5. c \in Requests /\ c # Null
  BY <1>1, DataAssumption DEF Requests, Images, Contents
<1>6. ReadSoFar(r) = {} /\ ReadSoFar(r)' = {}
  <2>1. kind = "get" => inBuf'[r][Size + 1] = Zero
    BY <1>0, <1>1, PositionFacts DEF TypeOK, ZeroFrame
  <2>2. kind \in {"get", "write"}
    BY DEF Kinds
  <2>3. ReadSoFar(r) = {}
    BY <1>2 DEF ReadSoFar
  <2>4. ReadSoFar(r)' = {}
    BY <1>2, <1>4, <2>1, <2>2 DEF ReadSoFar
  <2> QED
    BY <2>3, <2>4
<1>7. LeftToStore(r)' = IF kind = "get" THEN {} ELSE 1..Size
  BY <1>1, <1>2, <1>4, <1>5 DEF LeftToStore, Kinds
<1>8. [i \in ReadSoFar(r) |-> outBuf[r][i]]' = [i \in ReadSoFar(r) |-> outBuf[r][i]]
  BY <1>6
<1>9. /\ Busy' = [Busy EXCEPT ![r] = TRUE] /\ Got' = Got
      /\ Todo' = [Todo EXCEPT ![r] = IF c.kind = "get" THEN {} ELSE 1..Size]
  <2>1. (pc[r] # "idle")' = TRUE
    BY <1>2
  <2> QED
    BY <1>0, <1>7, <1>8, <2>1, MappedStep
<1>10. c \in Pool!Gets \union Pool!Writes
  BY <1>1 DEF Kinds, Pool!Gets, Pool!Writes
<1>11. ~Busy[r]
  BY <1>2 DEF Busy
<1> HIDE DEF c
<1> QED
  BY <1>2, <1>4, <1>9, <1>10, <1>11 DEF Pool!Begin, Busy, Got, Todo

\* The requester's steps: the end of a get, the end of a write, or nothing.
LEMMA RequesterSimulation ==
    ASSUME AllCalm, RInv, NEW r \in Requesters, RequesterStep(r)
    PROVE  Pool!ReturnGet(r) \/ Pool!ReturnWrite(r) \/ UNCHANGED Pool!vars
<1> USE DEF poolVars, requestVars, answerVars, serveVars
<1>0. IInv /\ Calm(r) /\ TypeOK /\ AnswerOK(r)
  BY Mine DEF RInv, AllCalm
<1>a. ASSUME NEW from, NEW to, Advance(r, from, to), inBuf' = inBuf
      PROVE  /\ pc[r] = from /\ pc'[r] = to
             /\ LeftToStore(r)' = LeftToStore(r) /\ UNCHANGED <<mem, call>>
             /\ ((from = "idle") = (to = "idle")) => ReadSoFar(r)' = ReadSoFar(r)
             /\ outBuf' = outBuf
  BY <1>0, <1>a DEF Advance, Goto, TypeOK, LeftToStore, ReadSoFar
<1>1. CASE PollSend(r) \/ SeeBegin(r) \/ SeeEnd(r)
  <2>1. PICK from, to : Advance(r, from, to) /\ inBuf' = inBuf /\ from # "idle" /\ to # "idle"
                        /\ result' = result
    BY <1>1 DEF PollSend, SeeBegin, SeeEnd, AfterSend
  <2>2. /\ (pc[r] # "idle")' = (pc[r] # "idle") /\ LeftToStore(r)' = LeftToStore(r)
        /\ [i \in ReadSoFar(r) |-> outBuf[r][i]]' = [i \in ReadSoFar(r) |-> outBuf[r][i]]
        /\ UNCHANGED <<mem, call, result>>
    BY <1>a, <2>1
  <2> QED
    BY <1>0, <2>2, MappedStep, Stutter
<1>2. CASE PollWritten(r)
  <2>1. /\ pc[r] = "writing" /\ pc'[r] = "idle" /\ LeftToStore(r)' = LeftToStore(r)
        /\ UNCHANGED <<mem, call, result, outBuf>>
    BY <1>2, <1>a DEF PollWritten
  <2>2. call[r].kind = "write" /\ Busy[r]
    BY <1>0, <2>1, Mine DEF Sane, Busy
  <2>3. ReadSoFar(r) = {} /\ ReadSoFar(r)' = {}
    BY <2>1, <2>2 DEF ReadSoFar
  <2>4. [i \in ReadSoFar(r) |-> outBuf[r][i]]' = [i \in ReadSoFar(r) |-> outBuf[r][i]]
    BY <2>3
  <2>5. (pc[r] # "idle")' = FALSE
    BY <2>1
  <2>6. Busy' = [Busy EXCEPT ![r] = FALSE] /\ Got' = Got /\ Todo' = Todo
    BY <1>0, <2>1, <2>4, <2>5, MappedStep
  <2> QED
    BY <2>1, <2>2, <2>6 DEF Pool!ReturnWrite, Busy, Got, Todo
<1>3. CASE TakeResult(r)
  <2>1. /\ pc[r] = "take" /\ pc'[r] = "idle" /\ LeftToStore(r)' = LeftToStore(r)
        /\ UNCHANGED <<mem, call, outBuf>>
    BY <1>3, <1>a DEF TakeResult
  <2>2. ~LastIsWrite(r) /\ ReadBusy(r)
    BY <1>0, <2>1, Mine DEF WriteOK, WriteData, ReadOK, ReadIdle
  <2>3. call[r].kind = "get" /\ sends[r] = 0 /\ inBuf[r][Size + 1] # Zero
    BY <1>0, <2>1, <2>2, Mine DEF Sane, ReadBusy, ReadPlace, Answered, Idle, AnswerOK
  <2>4. word[r] = Size + 1 /\ \A i \in 1..Size : inBuf[r][i] = outBuf[r][i]
    BY <1>0, <2>1, <2>2, <2>3 DEF AnswerOK
  <2>5. ReadSoFar(r) = 1..Size /\ ReadSoFar(r)' = {}
    BY <2>1, <2>3, <2>4, PositionFacts DEF ReadSoFar
  <2>6. Got[r] = [i \in 1..Size |-> outBuf[r][i]] /\ DOMAIN Got[r] = 1..Size /\ Busy[r]
    BY <2>1, <2>5 DEF Got, Busy
  <2>7. Image(inBuf[r]) = Got[r]
    BY <2>4, <2>6 DEF Image
  <2>8. result' = [result EXCEPT ![r] = Got[r]]
    BY <1>3, <2>7 DEF TakeResult
  <2>9. [i \in ReadSoFar(r) |-> outBuf[r][i]]' = Pool!Nothing
    BY <2>5 DEF Pool!Nothing
  <2>10. (pc[r] # "idle")' = FALSE
    BY <2>1
  <2>11. Busy' = [Busy EXCEPT ![r] = FALSE] /\ Got' = [Got EXCEPT ![r] = Pool!Nothing] /\ Todo' = Todo
    BY <1>0, <2>1, <2>9, <2>10, MappedStep
  <2> QED
    BY <2>1, <2>3, <2>6, <2>8, <2>11 DEF Pool!ReturnGet, Busy, Got, Todo
<1> QED
  BY <1>1, <1>2, <1>3 DEF RequesterStep

\* The adapters move bytes that were read, or that are still to be stored.
LEMMA AdapterSimulation ==
    ASSUME AllCalm, RInv, NEW r \in Requesters,
           DeliverRequest(r) \/ PlaceAtOwner(r) \/ PlaceAtRequester(r) \/ Ack(r)
    PROVE  UNCHANGED Pool!vars
<1> USE DEF poolVars, callVars, requestVars, writeVars, answerVars, serveVars
<1>0. IInv /\ Calm(r) /\ TypeOK /\ AnswerOK(r)
  BY Mine DEF RInv, AllCalm
<1>1. UNCHANGED <<mem, pc, call, result, spc, word, outBuf, stored>>
  BY DEF DeliverRequest, PlaceAtOwner, PlaceAtRequester, Ack
<1>2. LeftToStore(r)' = LeftToStore(r) /\ (pc[r] # "idle")' = (pc[r] # "idle")
  BY <1>1 DEF LeftToStore
<1>3. ASSUME ~PlaceAtRequester(r) PROVE ReadSoFar(r)' = ReadSoFar(r)
  <2>1. UNCHANGED <<inBuf, sends>>
    BY <1>3 DEF DeliverRequest, PlaceAtOwner, Ack
  <2> QED
    BY <1>1, <2>1 DEF ReadSoFar
<1>4. ReadSoFar(r)' = ReadSoFar(r)
  <2>1. CASE pc[r] # "idle" /\ call[r].kind = "get" /\ PlaceAtRequester(r)
    <3>1. sends[r] > 0 /\ sends'[r] = IF sent[r] = Size + 1 THEN sends[r] - 1 ELSE sends[r]
      BY <1>0, <2>1 DEF PlaceAtRequester, TypeOK
    <3>2. sent[r] = Size + 1 => inBuf'[r][Size + 1] = outBuf[r][Size + 1]
      BY <1>0, <2>1, PositionFacts DEF PlaceAtRequester, TypeOK, Frames
    <3>3. outBuf[r][Size + 1] = call[r].obj /\ call[r].obj # Zero
      BY <1>0, <2>1, <3>1, Mine, PositionFacts DEF AnswerOK, LastIsWrite, Sane
    <3> QED
      BY <1>1, <2>1, <3>1, <3>2, <3>3 DEF ReadSoFar
  <2>2. CASE ~(pc[r] # "idle" /\ call[r].kind = "get")
    BY <1>1, <2>2 DEF ReadSoFar
  <2> QED
    BY <1>3, <2>1, <2>2
<1>5. [i \in ReadSoFar(r) |-> outBuf[r][i]]' = [i \in ReadSoFar(r) |-> outBuf[r][i]]
  BY <1>1, <1>4
<1> QED
  BY <1>0, <1>1, <1>2, <1>5, MappedStep, Stutter

\* Waiting, and taking requests and completions, moves no word.
LEMMA WaitSimulation ==
    ASSUME AllCalm, RInv, NEW r \in Requesters,
           Poll(r) \/ AwaitPosted(r) \/ ServeWrite(r) \/ AwaitBegin(r) \/ AwaitEnd(r) \/ Persist(r)
    PROVE  UNCHANGED Pool!vars
<1> USE DEF callVars, requestVars, serveVars
<1>0. IInv /\ Calm(r) /\ TypeOK /\ AnswerOK(r)
  BY Mine DEF RInv, AllCalm
<1>1. /\ UNCHANGED <<mem, pc, call, result, inBuf, outBuf, sends>>
      /\ spc[r] # "gather" /\ spc'[r] # "gather"
      /\ spc[r] = "scatter" => Persist(r)
      /\ spc'[r] = "scatter" => spc[r] = "end" /\ word' = word
      /\ ~Persist(r) => stored' = stored
      /\ word' # word => ServeWrite(r)
  BY <1>0 DEF Poll, AwaitPosted, Take, ServeWrite, AwaitBegin, AwaitEnd, Persist, Work, TypeOK
<1>2. ASSUME ServeWrite(r) PROVE LastIsWrite(r)
  <2>1. spc[r] = "recv" /\ header[r].kind = "write"
    BY <1>2 DEF ServeWrite, Work
  <2> QED
    BY <1>0, <2>1, Mine, Serving DEF Received, ReadBusy, Sane
<1>3. ReadSoFar(r)' = ReadSoFar(r)
  <2>1. CASE word' = word
    BY <1>1, <2>1 DEF ReadSoFar
  <2>2. CASE ServeWrite(r)
    BY <1>1, <1>2, <2>2 DEF ReadSoFar, LastIsWrite
  <2> QED
    BY <1>1, <2>1, <2>2
<1>4. LeftToStore(r)' = LeftToStore(r)
  <2>1. CASE Persist(r)
    <3>1. spc[r] = "scatter" /\ word[r] = Size + 1 /\ spc'[r] = "poll"
          /\ stored' = IF job[r] = call[r] THEN stored \union {r} ELSE stored
      BY <1>0, <2>1 DEF Persist, Work, TypeOK
    <3>2. job[r] = call[r] /\ (Size + 1)..Size = {}
      BY <1>0, <3>1, Serving, PositionFacts
    <3> QED
      BY <1>1, <3>1, <3>2 DEF LeftToStore
  <2>2. CASE spc'[r] = "scatter"
    BY <1>0, <1>1, <2>1, <2>2 DEF LeftToStore, AnswerOK
  <2>3. CASE ~Persist(r) /\ spc'[r] # "scatter"
    BY <1>1, <2>3 DEF LeftToStore
  <2> QED
    BY <2>1, <2>2, <2>3
<1>5. /\ (pc[r] # "idle")' = (pc[r] # "idle")
      /\ [i \in ReadSoFar(r) |-> outBuf[r][i]]' = [i \in ReadSoFar(r) |-> outBuf[r][i]]
  BY <1>1, <1>3
<1>6. PollThreadStep(r)
  BY DEF PollThreadStep
<1> QED
  BY <1>0, <1>1, <1>4, <1>5, <1>6, MappedStep, Stutter

\* What the handler of a get knows.
LEMMA Gathers ==
    ASSUME AllCalm, RInv, NEW r \in Requesters, ServeGet(r) \/ Gather(r) \/ Post(r)
    PROVE  /\ pc[r] # "idle" /\ call[r].kind = "get" /\ call[r] # Null
           /\ sends[r] = 0 /\ inBuf[r][Size + 1] = Zero
           /\ spc[r] = "gather" => job[r] = call[r]
           /\ spc[r] # "gather" => ReadSoFar(r) = {}
           /\ UNCHANGED <<mem, pc, call, result, inBuf, stored>>
           /\ LeftToStore(r) = {} /\ LeftToStore(r)' = {}
<1> USE DEF callVars, requestVars, serveVars
<1>0. IInv /\ Calm(r) /\ TypeOK
  BY Mine DEF RInv, AllCalm
<1>1. /\ spc[r] = "gather" \/ (spc[r] = "recv" /\ header[r].kind = "get")
      /\ UNCHANGED <<mem, pc, call, result, inBuf, stored>>
  BY <1>0 DEF ServeGet, Gather, Post, Work, TypeOK
<1>2. ~LastIsWrite(r)
  BY <1>0, <1>1, Serving DEF LastIsWrite
<1>3. /\ ReadBusy(r) /\ (Received(r) \/ Gathering(r))
      /\ spc[r] = "gather" => Gathering(r)
  BY <1>0, <1>1, <1>2, Serving
<1>4. pc[r] # "idle" /\ sends[r] = 0 /\ inBuf[r] = ZeroFrame /\ (spc[r] = "gather" => job[r] = call[r])
  BY <1>3 DEF ReadBusy, Received, Gathering
<1>5. call[r] # Null /\ call[r].kind = "get"
  BY <1>0, <1>2, <1>4, Mine DEF Sane
<1>6. inBuf[r][Size + 1] = Zero
  BY <1>4, PositionFacts DEF ZeroFrame
<1>7. spc[r] # "gather" => ReadSoFar(r) = {}
  BY <1>4, <1>6 DEF ReadSoFar
<1>8. LeftToStore(r) = {} /\ LeftToStore(r)' = {}
  BY <1>1, <1>5 DEF LeftToStore
<1> QED
  BY <1>1, <1>4, <1>5, <1>6, <1>7, <1>8

LEMMA GetSimulation ==
    ASSUME AllCalm, RInv, NEW r \in Requesters, ServeGet(r) \/ Gather(r) \/ Post(r)
    PROVE  Pool!ReadWord(r) \/ UNCHANGED Pool!vars
<1> USE DEF callVars, requestVars, serveVars
<1>0. IInv /\ TypeOK /\ PollThreadStep(r)
  BY Mine DEF RInv, PollThreadStep
<1>1. /\ pc[r] # "idle" /\ call[r].kind = "get" /\ sends[r] = 0 /\ inBuf[r][Size + 1] = Zero
      /\ spc[r] = "gather" => job[r] = call[r]
      /\ spc[r] # "gather" => ReadSoFar(r) = {}
      /\ UNCHANGED <<mem, pc, call, result, inBuf>>
      /\ LeftToStore(r)' = LeftToStore(r) /\ (pc[r] # "idle")' = (pc[r] # "idle")
  BY Gathers
<1>2. Busy' = Busy /\ Todo' = Todo
  BY <1>0, <1>1, MappedStep
<1>3. CASE ServeGet(r)
  <2>1. spc[r] # "gather" /\ word'[r] = 1
    BY <1>0, <1>3 DEF ServeGet, Work, TypeOK
  <2>2. ReadSoFar(r) = {} /\ ReadSoFar(r)' = {}
    BY <1>1, <2>1 DEF ReadSoFar
  <2>3. [i \in ReadSoFar(r) |-> outBuf[r][i]]' = [i \in ReadSoFar(r) |-> outBuf[r][i]]
    BY <2>2
  <2> QED
    BY <1>0, <1>1, <1>2, <2>3, MappedStep, Stutter
<1>4. CASE Post(r)
  <2>1. spc[r] = "gather" /\ word[r] = Size + 1 /\ word' = word /\ sends'[r] > 0
        /\ outBuf'[r] = [outBuf[r] EXCEPT ![Size + 1] = job[r].obj]
    BY <1>0, <1>1, <1>4 DEF Post, Work, TypeOK
  <2>2. ReadSoFar(r) = 1..Size /\ ReadSoFar(r)' = 1..Size
    BY <1>1, <2>1, PositionFacts DEF ReadSoFar
  <2>3. outBuf[r] \in Frames
    BY <1>0 DEF TypeOK
  <2>4. \A i \in 1..Size : outBuf'[r][i] = outBuf[r][i]
    BY <2>1, <2>3, PositionFacts DEF Frames
  <2>5. [i \in ReadSoFar(r) |-> outBuf[r][i]]' = [i \in ReadSoFar(r) |-> outBuf[r][i]]
    BY <2>2, <2>4
  <2> QED
    BY <1>0, <1>1, <1>2, <2>5, MappedStep, Stutter
<1>5. CASE Gather(r)
  <2> DEFINE w == word[r]
             D == 1..(w - 1)
             read == mem[call[r].obj][w]
  <2>1. spc[r] = "gather" /\ spc'[r] = "gather" /\ w <= Size /\ word'[r] = w + 1
        /\ outBuf'[r] = [outBuf[r] EXCEPT ![w] = mem[job[r].obj][w]]
    BY <1>0, <1>5 DEF Gather, Work, TypeOK
  <2>2. w \in 1..(Size + 1)
    BY <1>0 DEF TypeOK
  <2>3. /\ w \in (1..Size) \ D /\ (w + 1) - 1 = w /\ 1..w = D \union {w} /\ w \in Positions
        /\ \A i \in D : i \in Positions /\ i # w
    BY <2>1, <2>2, PositionFacts
  <2>4. ReadSoFar(r) = D
    BY <1>1, <2>1 DEF ReadSoFar
  <2>5. ReadSoFar(r)' = D \union {w}
    BY <1>1, <2>1, <2>3 DEF ReadSoFar
  <2>6. outBuf[r] \in [Positions -> Cells]
    BY <1>0 DEF TypeOK, Frames
  <2>7. outBuf'[r] = [outBuf[r] EXCEPT ![w] = read]
    BY <1>1, <2>1
  <2> HIDE DEF w, D, read
  <2>8. outBuf'[r][w] = read /\ \A i \in D : outBuf'[r][i] = outBuf[r][i] /\ i # w
    BY <2>3, <2>6, <2>7
  <2>9. Got[r] = [i \in D |-> outBuf[r][i]] /\ DOMAIN Got[r] = D
    BY <2>4 DEF Got
  <2>10. [i \in ReadSoFar(r) |-> outBuf[r][i]]'
           = [j \in DOMAIN Got[r] \union {w} |-> IF j = w THEN read ELSE Got[r][j]]
    BY <2>5, <2>8, <2>9
  <2>11. Got' = [Got EXCEPT ![r] = [j \in DOMAIN Got[r] \union {w} |-> IF j = w THEN read ELSE Got[r][j]]]
    BY <1>0, <2>10, MappedStep
  <2>12. w \in (1..Size) \ DOMAIN Got[r] /\ Busy[r]
    BY <1>1, <2>3, <2>9 DEF Busy
  <2> QED
    BY <1>1, <1>2, <2>11, <2>12 DEF Pool!ReadWord, Busy, Got, Todo, read
<1> QED
  BY <1>3, <1>4, <1>5

LEMMA ScatterSimulation ==
    ASSUME AllCalm, RInv, NEW r \in Requesters, Scatter(r)
    PROVE  Pool!StoreWord(r)
<1> USE DEF callVars, requestVars, serveVars
<1> DEFINE w == word[r]
<1>0. IInv /\ Calm(r) /\ TypeOK /\ AnswerOK(r) /\ PollThreadStep(r)
  BY Mine DEF RInv, AllCalm, PollThreadStep
<1>1. /\ spc[r] = "scatter" /\ spc'[r] = "scatter" /\ w <= Size /\ word'[r] = w + 1
      /\ UNCHANGED <<pc, call, result, inBuf, outBuf, sends, stored>>
  BY <1>0 DEF Scatter, ScatterFrom, Work, TypeOK
<1>2. w \in 1..Size /\ 1 + w - 1 = w
  BY <1>0, <1>1, PositionFacts DEF TypeOK
<1>3. /\ LastIsWrite(r) /\ job[r] = call[r]
      /\ data[r] = Frame(call[r].obj, call[r].image)
  BY <1>0, <1>1, Serving
<1>4. data[r][w] = call[r].image[w]
  BY <1>0, <1>2, <1>3, Mine, FrameFacts DEF LastIsWrite, Sane
<1>5. mem' = [mem EXCEPT ![call[r].obj][w] = call[r].image[w]]
  BY <1>2, <1>3, <1>4 DEF Scatter, ScatterFrom, Store
<1>6. r \notin stored
  BY <1>0, <1>1 DEF AnswerOK, AtRest
<1>7. call[r].kind = "write" /\ call[r] # Null
  BY <1>3 DEF LastIsWrite
<1>8. LeftToStore(r) = w..Size /\ LeftToStore(r)' = (w + 1)..Size
  BY <1>1, <1>6, <1>7 DEF LeftToStore
<1>9. w \in w..Size /\ (w + 1)..Size = (w..Size) \ {w}
  BY <1>2, PositionFacts
<1>10. Todo[r] = w..Size
  BY <1>8 DEF Todo
<1>11. Todo' = [Todo EXCEPT ![r] = Todo[r] \ {w}]
  BY <1>0, <1>8, <1>9, <1>10, MappedStep
<1>12. ReadSoFar(r) = {} /\ ReadSoFar(r)' = {}
  BY <1>1, <1>7 DEF ReadSoFar
<1>13. /\ (pc[r] # "idle")' = (pc[r] # "idle")
       /\ [i \in ReadSoFar(r) |-> outBuf[r][i]]' = [i \in ReadSoFar(r) |-> outBuf[r][i]]
  BY <1>1, <1>12
<1>14. Busy' = Busy /\ Got' = Got
  BY <1>0, <1>13, MappedStep
<1> HIDE DEF w
<1> QED
  BY <1>1, <1>5, <1>9, <1>10, <1>11, <1>14 DEF Pool!StoreWord, Busy, Got, Todo

\* Every step is a step of the pool or none it can see.
LEMMA StepSimulation ==
    ASSUME AllCalm, RInv, [Next]_vars
    PROVE  [Pool!Next]_Pool!vars
<1>0. IInv
  BY DEF RInv
<1>1. CASE LocalWrite
  BY <1>0, <1>1, LocalSimulation DEF Pool!Next
<1>2. CASE UNCHANGED vars
  <2>1. UNCHANGED <<mem, pc, call, result, inBuf, outBuf, sends, spc, word, stored>>
    BY <1>2 DEF vars, poolVars, callVars, answerVars, serveVars
  <2>2. \A r \in Requesters : ReadSoFar(r)' = ReadSoFar(r) /\ LeftToStore(r)' = LeftToStore(r)
    BY <2>1 DEF ReadSoFar, LeftToStore
  <2>3. Busy' = Busy /\ Got' = Got /\ Todo' = Todo
    BY <2>1, <2>2 DEF Busy, Got, Todo
  <2> QED
    BY <2>1, <2>3, Stutter
<1>3. ASSUME NEW r \in Requesters, Get(r) \/ Write(r) PROVE Pool!Next
  BY <1>3, BeginSimulation DEF Pool!Next
<1>4. ASSUME NEW r \in Requesters, RequesterStep(r) PROVE [Pool!Next]_Pool!vars
  BY <1>4, RequesterSimulation DEF Pool!Next
<1>5. ASSUME NEW r \in Requesters, PollThreadStep(r) PROVE [Pool!Next]_Pool!vars
  BY <1>5, WaitSimulation, GetSimulation, ScatterSimulation DEF PollThreadStep, Pool!Next
<1>6. ASSUME NEW r \in Requesters,
             DeliverRequest(r) \/ PlaceAtOwner(r) \/ PlaceAtRequester(r) \/ Ack(r)
      PROVE  [Pool!Next]_Pool!vars
  BY <1>6, AdapterSimulation
<1> QED
  BY <1>1, <1>2, <1>3, <1>4, <1>5, <1>6 DEF Next

LEMMA InitSimulation == Init => Pool!Init
<1> SUFFICES ASSUME Init PROVE Pool!Init
  OBVIOUS
<1>1. \A r \in Requesters : pc[r] = "idle" /\ call[r] = Null
  BY DEF Init
<1>2. Busy = [r \in Requesters |-> FALSE]
  BY <1>1 DEF Busy
<1>3. Got = [r \in Requesters |-> Pool!Nothing]
  <2>1. \A r \in Requesters : ReadSoFar(r) = {}
    BY <1>1 DEF ReadSoFar
  <2> QED
    BY <2>1 DEF Got, Pool!Nothing
<1>4. Todo = [r \in Requesters |-> {}]
  BY <1>1 DEF Todo, LeftToStore
<1> QED
  BY <1>2, <1>3, <1>4 DEF Init, Pool!Init, Busy, Got, Todo

\* SendGetPoolData, SendWritePoolData and their handlers, with the two markers, the
\* buffers nobody locks and the RDMA writes behind everybody's back, amount to reading
\* every word of an object once during the call and to storing every word of an image
\* exactly once, for requesters that stop after a write.
THEOREM PoolRefinement ==
    ASSUME AllCalm
    PROVE  Spec => ImplementsPoolData
<1>1. Init => RInv
  BY RInvInit
<1>2. RInv /\ [Next]_vars => RInv'
  BY RInvNext
<1>3. Init => Pool!Init
  BY InitSimulation
<1>4. RInv /\ [Next]_vars => [Pool!Next]_Pool!vars
  BY StepSimulation
<1> QED
  BY <1>1, <1>2, <1>3, <1>4, PTL DEF Spec, ImplementsPoolData, Pool!Spec

====
