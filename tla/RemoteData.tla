---- MODULE RemoteData ----
(***************************************************************************)
(* Reading and writing the pool of another client: SendGetPoolData and     *)
(* SendWritePoolData on the calling node, the GETPOOLDATA and              *)
(* WRITEPOOLDATA branches of Client::ProcessRecv on the owner.             *)
(*                                                                         *)
(* The request is an RDMA send.  The bytes go by RDMA write straight into  *)
(* the receive buffer of the other side, between two markers that spell    *)
(* the address of the object; the other side spins until it reads them.    *)
(* Transfers are below 1 MB, which RemoteWrite makes with one RDMA write.  *)
(*                                                                         *)
(* One owner; every requester is one thread with a connection of its own,  *)
(* served by a polling thread of its own.  A requester only ever has its   *)
(* own completion to wait for, so its send buffer keeps what it posted.    *)
(***************************************************************************)
EXTENDS Integers, Sequences

CONSTANTS
    Requesters, \* the calling threads, each on a node of its own
    Script,     \* Script[r]: the kinds of calls r makes, in order
    LateAcks,   \* requesters whose requests may overtake the acknowledgement of
                \* the data written to them before
    Objects,    \* addresses (va + offset) in the owner's pool
    Words,      \* what a word of an object may hold, other than Zero
    Size,       \* words per transfer
    Depth,      \* receives the owner posts per connection (QPS_MAX_DEPTH)
    MaxLocal,   \* bound: words the owner's own threads write
    Zero, Null

Kinds == {"get", "write"}

Contents == Words \union {Zero}
Images == [1..Size -> Contents]             \* the bytes of an object
Positions == 0..(Size + 1)                  \* begin marker, words, end marker
Cells == Contents \union Objects
Frames == [Positions -> Cells]              \* the part of a buffer that a transfer fills
Requests == [kind : Kinds, obj : Objects, image : Images \union {Null}]

ASSUME DataAssumption ==
    /\ Script \in [Requesters -> Seq(Kinds)]
    /\ LateAcks \subseteq Requesters
    /\ Size \in Nat \ {0}
    /\ Depth \in Nat
    /\ MaxLocal \in Nat
    /\ Zero \notin Words
    /\ Objects \cap (Words \union {Zero}) = {}
    /\ Null \notin Requests

\* What a transfer of the image of obj consists of.
Frame(obj, image) == [i \in Positions |-> IF i \in 1..Size THEN image[i] ELSE obj]
ZeroFrame == [i \in Positions |-> Zero]
Image(frame) == [i \in 1..Size |-> frame[i]]

VARIABLES
    mem,        \* mem[o]: the bytes of object o in the owner's pool
    locals,     \* how many words the owner has written itself
    \* requester
    pc,         \* pc[r]: where r is
    calls,      \* calls[r]: how many calls r has made
    call,       \* call[r]: the last of them
    result,     \* result[r]: what its last get returned, or Null
    inBuf,      \* inBuf[r]: the receive buffer of r
    \* connection
    wire,       \* wire[r]: the request of r is posted and not yet received
    rq,         \* rq[r]: receives the owner has posted for r
    placed,     \* placed[r]: how much of r's write is in the owner's buffer
    sends,      \* sends[r]: writes the owner posted towards r and not yet complete
    sent,       \* sent[r]: how much of the first of them is in r's buffer
    acks,       \* acks[r]: complete writes towards r, completion still to come
    cq,         \* cq[r]: completions at the owner, oldest first
    \* owner
    header,     \* header[r]: the request in the receive buffer, or Null
    data,       \* data[r]: what follows it there
    spc,        \* spc[r]: where the polling thread of r is
    job,        \* job[r]: the request it has copied from the buffer, or Null
    word,       \* word[r]: the next word its memcpy copies
    outBuf,     \* outBuf[r]: its send buffer
    \* history, read by no action
    seen,       \* seen[r][i]: what word i of the object read held during the call
    stored      \* requesters whose last write is in the pool

poolVars == <<mem, locals>>
callVars == <<calls, call, inBuf>>
requestVars == <<wire, rq, header>>
writeVars == <<placed, data>>
answerVars == <<sends, sent, acks>>
serveVars == <<job, word, outBuf>>
vars == <<poolVars, pc, callVars, result, requestVars, writeVars, answerVars, cq, spc,
          serveVars, seen, stored>>

Init ==
    /\ mem = [o \in Objects |-> [i \in 1..Size |-> Zero]]
    /\ locals = 0
    /\ pc = [r \in Requesters |-> "idle"]
    /\ calls = [r \in Requesters |-> 0]
    /\ call = [r \in Requesters |-> Null]
    /\ result = [r \in Requesters |-> Null]
    /\ inBuf = [r \in Requesters |-> ZeroFrame]
    /\ wire = [r \in Requesters |-> FALSE]
    /\ rq = [r \in Requesters |-> Depth]
    /\ placed = [r \in Requesters |-> 0]
    /\ sends = [r \in Requesters |-> 0]
    /\ sent = [r \in Requesters |-> 0]
    /\ acks = [r \in Requesters |-> 0]
    /\ cq = [r \in Requesters |-> <<>>]
    /\ header = [r \in Requesters |-> Null]
    /\ data = [r \in Requesters |-> ZeroFrame]
    /\ spc = [r \in Requesters |-> "poll"]
    /\ job = [r \in Requesters |-> Null]
    /\ word = [r \in Requesters |-> 1]
    /\ outBuf = [r \in Requesters |-> ZeroFrame]
    /\ seen = [r \in Requesters |-> [i \in 1..Size |-> {}]]
    /\ stored = {}

-----------------------------------------------------------------------------
(* The pool *)

\* Store one word; every get under way has now seen it too.
Store(o, i, w) ==
    /\ mem' = [mem EXCEPT ![o][i] = w]
    /\ seen' = [r \in Requesters |->
                  IF pc[r] # "idle" /\ call[r].kind = "get" /\ call[r].obj = o
                  THEN [seen[r] EXCEPT ![i] = @ \union {w}]
                  ELSE seen[r]]

\* The owner's own threads write their pool meanwhile (rdmapmem_direct_write).
LocalWrite ==
    /\ locals < MaxLocal
    /\ locals' = locals + 1
    /\ \E o \in Objects, i \in 1..Size, w \in Words : Store(o, i, w)
    /\ UNCHANGED <<pc, callVars, result, requestVars, writeVars, answerVars, cq, spc,
                   serveVars, stored>>

-----------------------------------------------------------------------------
(* The requester *)

Goto(r, l) == pc' = [pc EXCEPT ![r] = l]

\* A call fills the send buffer and posts the request.
Begin(r, kind, o, image) ==
    /\ pc[r] = "idle"
    /\ calls[r] < Len(Script[r])
    /\ Script[r][calls[r] + 1] = kind
    /\ Goto(r, "sending")
    /\ calls' = [calls EXCEPT ![r] = @ + 1]
    /\ call' = [call EXCEPT ![r] = [kind |-> kind, obj |-> o, image |-> image]]
    /\ result' = [result EXCEPT ![r] = Null]
    /\ wire' = [wire EXCEPT ![r] = TRUE]
    /\ UNCHANGED <<poolVars, rq, header, writeVars, answerVars, cq, spc, serveVars>>

Look(r, o) == seen' = [seen EXCEPT ![r] = [i \in 1..Size |-> {mem[o][i]}]]

\* Mutant of Get: the receive buffer is not cleared.
GetUncleared(r) ==
    /\ \E o \in Objects : Begin(r, "get", o, Null) /\ Look(r, o)
    /\ UNCHANGED <<inBuf, stored>>

\* SendGetPoolData clears the receive buffer first.
Get(r) ==
    /\ \E o \in Objects : Begin(r, "get", o, Null) /\ Look(r, o)
    /\ inBuf' = [inBuf EXCEPT ![r] = ZeroFrame]
    /\ UNCHANGED stored

\* SendWritePoolData posts the request first, the bytes later.
Write(r) ==
    /\ \E o \in Objects, image \in [1..Size -> Words] : Begin(r, "write", o, image)
    /\ stored' = stored \ {r}
    /\ UNCHANGED <<inBuf, seen>>

\* A step of the requester that concerns nobody else yet.
Advance(r, from, to) ==
    /\ pc[r] = from
    /\ Goto(r, to)
    /\ UNCHANGED <<poolVars, calls, call, requestVars, data, answerVars, cq, spc, serveVars,
                   seen, stored>>

AfterSend(r) == IF call[r].kind = "get" THEN "begin" ELSE "writing"

\* Mutant of PollSend: the receive buffer is cleared only now.
PollSendClearing(r) ==
    /\ Advance(r, "sending", AfterSend(r))
    /\ ~wire[r]
    /\ placed' = [placed EXCEPT ![r] = 0]
    /\ inBuf' = [inBuf EXCEPT ![r] = ZeroFrame]
    /\ UNCHANGED result

\* The send completed.  A reader starts to wait for its bytes; a writer puts the
\* frame into its send buffer and posts the RDMA write.
PollSend(r) ==
    /\ Advance(r, "sending", AfterSend(r))
    /\ ~wire[r]
    /\ placed' = [placed EXCEPT ![r] = 0]
    /\ UNCHANGED <<inBuf, result>>

\* The RDMA write completed: SendWritePoolData returns, whatever the owner has done.
PollWritten(r) ==
    Advance(r, "writing", "idle") /\ placed[r] = Size + 2 /\ UNCHANGED <<placed, inBuf, result>>

\* The two loops over memcmp, and the copy of the result.
SeeBegin(r) ==
    Advance(r, "begin", "end") /\ inBuf[r][0] = call[r].obj /\ UNCHANGED <<placed, inBuf, result>>

SeeEnd(r) ==
    Advance(r, "end", "take") /\ inBuf[r][Size + 1] = call[r].obj /\ UNCHANGED <<placed, inBuf, result>>

TakeResult(r) ==
    /\ Advance(r, "take", "idle")
    /\ result' = [result EXCEPT ![r] = Image(inBuf[r])]
    /\ UNCHANGED <<placed, inBuf>>

-----------------------------------------------------------------------------
(* The adapters *)

\* The request is received; outside LateAcks its adapter has acknowledged before
\* what was written to it.
DeliverRequest(r) ==
    /\ wire[r]
    /\ rq[r] > 0
    /\ r \in LateAcks \/ acks[r] = 0
    /\ wire' = [wire EXCEPT ![r] = FALSE]
    /\ rq' = [rq EXCEPT ![r] = @ - 1]
    /\ header' = [header EXCEPT ![r] = call[r]]
    /\ cq' = [cq EXCEPT ![r] = Append(@, "RECV")]
    /\ UNCHANGED <<poolVars, pc, callVars, result, writeVars, answerVars, spc, serveVars,
                   seen, stored>>

\* The next part of the requester's frame reaches the owner's buffer, in the order
\* of the addresses.
PlaceAtOwner(r) ==
    /\ pc[r] = "writing"
    /\ placed[r] < Size + 2
    /\ data' = [data EXCEPT ![r][placed[r]] = Frame(call[r].obj, call[r].image)[placed[r]]]
    /\ placed' = [placed EXCEPT ![r] = @ + 1]
    /\ UNCHANGED <<poolVars, pc, callVars, result, requestVars, answerVars, cq, spc,
                   serveVars, seen, stored>>

\* The same for the owner's frame, which is read from its send buffer now.
PlaceAtRequester(r) ==
    LET last == sent[r] = Size + 1 IN
    /\ sends[r] > 0
    /\ inBuf' = [inBuf EXCEPT ![r][sent[r]] = outBuf[r][sent[r]]]
    /\ sent' = [sent EXCEPT ![r] = IF last THEN 0 ELSE @ + 1]
    /\ sends' = [sends EXCEPT ![r] = IF last THEN @ - 1 ELSE @]
    /\ acks' = [acks EXCEPT ![r] = IF last THEN @ + 1 ELSE @]
    /\ UNCHANGED <<poolVars, pc, calls, call, result, requestVars, writeVars, cq, spc,
                   serveVars, seen, stored>>

Ack(r) ==
    /\ acks[r] > 0
    /\ acks' = [acks EXCEPT ![r] = @ - 1]
    /\ cq' = [cq EXCEPT ![r] = Append(@, "WRITE")]
    /\ UNCHANGED <<poolVars, pc, callVars, result, requestVars, writeVars, sends, sent, spc,
                   serveVars, seen, stored>>

-----------------------------------------------------------------------------
(* The owner's polling thread of r *)

\* A step of the polling thread that leaves the requester and the adapters alone.
Work(r, from, to) ==
    /\ spc[r] = from
    /\ spc' = [spc EXCEPT ![r] = to]
    /\ UNCHANGED <<locals, pc, callVars, result, requestVars, placed, sent, acks>>

\* PollCompletion: the oldest completion, whatever it is.
Take(r) ==
    /\ cq[r] # <<>>
    /\ cq' = [cq EXCEPT ![r] = Tail(@)]
    /\ UNCHANGED <<mem, data, sends, serveVars, seen, stored>>

\* ProcessRequest: a receive completion leads to ProcessRecv, any other is dropped.
Poll(r) == Take(r) /\ Work(r, "poll", IF Head(cq[r]) = "RECV" THEN "recv" ELSE "poll")

\* GETPOOLDATA: copy the request, clear the send buffer, set the begin marker.
ServeGet(r) ==
    /\ Work(r, "recv", "gather")
    /\ header[r].kind = "get"
    /\ job' = [job EXCEPT ![r] = header[r]]
    /\ outBuf' = [outBuf EXCEPT ![r] = [ZeroFrame EXCEPT ![0] = header[r].obj]]
    /\ word' = [word EXCEPT ![r] = 1]
    /\ UNCHANGED <<mem, data, sends, cq, seen, stored>>

\* One word of the memcpy from the pool.
Gather(r) ==
    /\ Work(r, "gather", "gather")
    /\ word[r] <= Size
    /\ outBuf' = [outBuf EXCEPT ![r][word[r]] = mem[job[r].obj][word[r]]]
    /\ word' = [word EXCEPT ![r] = @ + 1]
    /\ UNCHANGED <<mem, data, sends, cq, job, seen, stored>>

\* Set the end marker and post the RDMA write (RemoteWrite, OutboundHamal).
Post(r) ==
    /\ Work(r, "gather", "posted")
    /\ word[r] = Size + 1
    /\ outBuf' = [outBuf EXCEPT ![r][Size + 1] = job[r].obj]
    /\ sends' = [sends EXCEPT ![r] = @ + 1]
    /\ UNCHANGED <<mem, data, cq, job, word, seen, stored>>

\* The wait for the write takes any completion, also that of the next request.
AwaitPosted(r) == Work(r, "posted", "poll") /\ Take(r)

\* Mutant of ServeWrite: the handler clears the buffer before it waits.
ServeWriteClearing(r) ==
    /\ Work(r, "recv", "begin")
    /\ header[r].kind = "write"
    /\ job' = [job EXCEPT ![r] = header[r]]
    /\ word' = [word EXCEPT ![r] = 1]
    /\ data' = [data EXCEPT ![r] = ZeroFrame]
    /\ UNCHANGED <<mem, sends, cq, outBuf, seen, stored>>

\* WRITEPOOLDATA: copy the request, then wait for the markers.  The buffer is not
\* cleared, neither now nor later.
ServeWrite(r) ==
    /\ Work(r, "recv", "begin")
    /\ header[r].kind = "write"
    /\ job' = [job EXCEPT ![r] = header[r]]
    /\ word' = [word EXCEPT ![r] = 1]
    /\ UNCHANGED <<mem, data, sends, cq, outBuf, seen, stored>>

AwaitBegin(r) ==
    /\ Work(r, "begin", "end")
    /\ data[r][0] = job[r].obj
    /\ UNCHANGED <<mem, data, sends, cq, serveVars, seen, stored>>

\* Mutant of AwaitEnd: the end marker is not awaited.
AwaitEndSkipped(r) ==
    Work(r, "end", "scatter") /\ UNCHANGED <<mem, data, sends, cq, serveVars, seen, stored>>

AwaitEnd(r) ==
    /\ Work(r, "end", "scatter")
    /\ data[r][Size + 1] = job[r].obj
    /\ UNCHANGED <<mem, data, sends, cq, serveVars, seen, stored>>

\* One word of the memcpy into the pool, from the cell so far from the begin marker.
ScatterFrom(r, first) ==
    /\ Work(r, "scatter", "scatter")
    /\ word[r] <= Size
    /\ Store(job[r].obj, word[r], data[r][first + word[r] - 1])
    /\ word' = [word EXCEPT ![r] = @ + 1]
    /\ UNCHANGED <<data, sends, cq, job, outBuf, stored>>

\* Mutant of Scatter: the copy starts at the begin marker.
ScatterFromMarker(r) == ScatterFrom(r, 0)

Scatter(r) == ScatterFrom(r, 1)

\* Mutant of Persist: the last word is not copied.
PersistEarly(r) ==
    /\ Work(r, "scatter", "poll")
    /\ word[r] = Size
    /\ stored' = IF job[r] = call[r] THEN stored \union {r} ELSE stored
    /\ UNCHANGED <<mem, data, sends, cq, serveVars, seen>>

\* pmem_persist, and back to ProcessRequest.
Persist(r) ==
    /\ Work(r, "scatter", "poll")
    /\ word[r] = Size + 1
    /\ stored' = IF job[r] = call[r] THEN stored \union {r} ELSE stored
    /\ UNCHANGED <<mem, data, sends, cq, serveVars, seen>>

-----------------------------------------------------------------------------
RequesterStep(r) == PollSend(r) \/ PollWritten(r) \/ SeeBegin(r) \/ SeeEnd(r) \/ TakeResult(r)
PollThreadStep(r) ==
    \/ Poll(r) \/ ServeGet(r) \/ Gather(r) \/ Post(r) \/ AwaitPosted(r)
    \/ ServeWrite(r) \/ AwaitBegin(r) \/ AwaitEnd(r) \/ Scatter(r) \/ Persist(r)

Next ==
    \/ LocalWrite
    \/ \E r \in Requesters :
         \/ Get(r) \/ Write(r) \/ RequesterStep(r) \/ PollThreadStep(r)
         \/ DeliverRequest(r) \/ PlaceAtOwner(r) \/ PlaceAtRequester(r) \/ Ack(r)

Spec == Init /\ [][Next]_vars

\* The threads spin, the adapters make progress; nobody has to call.
Fairness ==
    \A r \in Requesters :
      /\ WF_vars(RequesterStep(r))
      /\ WF_vars(PollThreadStep(r))
      /\ WF_vars(DeliverRequest(r))
      /\ WF_vars(PlaceAtOwner(r))
      /\ WF_vars(PlaceAtRequester(r))
      /\ WF_vars(Ack(r))

FairSpec == Spec /\ Fairness

-----------------------------------------------------------------------------
TypeOK ==
    /\ mem \in [Objects -> Images]
    /\ locals \in 0..MaxLocal
    /\ pc \in [Requesters -> {"idle", "sending", "begin", "end", "take", "writing"}]
    /\ calls \in [Requesters -> Nat]
    /\ call \in [Requesters -> Requests \union {Null}]
    /\ result \in [Requesters -> [1..Size -> Cells] \union {Null}]
    /\ inBuf \in [Requesters -> Frames]
    /\ wire \in [Requesters -> BOOLEAN]
    /\ rq \in [Requesters -> 0..Depth]
    /\ placed \in [Requesters -> 0..(Size + 2)]
    /\ sends \in [Requesters -> Nat]
    /\ sent \in [Requesters -> Positions]
    /\ acks \in [Requesters -> Nat]
    /\ cq \in [Requesters -> Seq({"RECV", "WRITE"})]
    /\ header \in [Requesters -> Requests \union {Null}]
    /\ data \in [Requesters -> Frames]
    /\ spc \in [Requesters -> {"poll", "recv", "gather", "posted", "begin", "end", "scatter"}]
    /\ job \in [Requesters -> Requests \union {Null}]
    /\ word \in [Requesters -> 1..(Size + 1)]
    /\ outBuf \in [Requesters -> Frames]
    /\ seen \in [Requesters -> [1..Size -> SUBSET Contents]]
    /\ stored \subseteq Requesters

\* Requesters that issue no request after a write.  The code gives no other
\* requester any guarantee: nothing tells a writer when the owner has read its
\* request, and the next request overwrites it.
Calm(r) == \A i \in 1..Len(Script[r]) : Script[r][i] = "write" => i = Len(Script[r])

\* Every word a read returns was in the pool at some moment of the call: no byte
\* of an earlier answer, no zero of the cleared buffer, nothing from another object.
\* SendGetPoolData's markers and its clearing of the buffer are there for this.
ReadFresh ==
    \A r \in Requesters :
      (Calm(r) /\ pc[r] = "idle" /\ result[r] # Null) =>
        \A i \in 1..Size : result[r][i] \in seen[r][i]

\* When the handler of a write begins to copy, it is at the right object and the
\* whole image is there, although the RDMA write arrives behind its back.
CompleteOnCopy ==
    \A r \in Requesters :
      (Calm(r) /\ spc[r] = "scatter") =>
        /\ job[r] = call[r]
        /\ Image(data[r]) = call[r].image

\* The words a read under way has got: those its answer has been filled with.
ReadSoFar(r) ==
    IF /\ pc[r] # "idle" /\ call[r].kind = "get"
       /\ spc[r] = "gather" \/ sends[r] > 0 \/ inBuf[r][Size + 1] # Zero
    THEN 1..(word[r] - 1) ELSE {}

\* The words of the last write that the owner has still to copy.
LeftToStore(r) ==
    IF call[r] = Null \/ call[r].kind = "get" \/ r \in stored THEN {}
    ELSE IF spc[r] = "scatter" THEN word[r]..Size ELSE 1..Size

Pool == INSTANCE PoolData WITH
            busy <- [r \in Requesters |-> pc[r] # "idle"],
            got <- [r \in Requesters |-> [i \in ReadSoFar(r) |-> outBuf[r][i]]],
            todo <- [r \in Requesters |-> LeftToStore(r)]

\* For calm requesters the requests, markers, buffers and completions implement a
\* pool that is read word by word during a get and written word by word, exactly
\* once, by a write, and that nothing else changes.
ImplementsPoolData == Pool!Spec

\* A write whose bytes are under way ends up in the pool, if the acknowledgements
\* are prompt.
WriteLands ==
    \A r \in Requesters \ LateAcks :
      Calm(r) => (pc[r] = "writing" ~> r \in stored)

\* The first Depth calls of such a requester return, whatever its earlier ones left
\* in the buffers and completion queues.  The owner posts its receives once, so a
\* call after these waits at the sender for ever.
ReadsReturn ==
    \A r \in Requesters \ LateAcks :
      Calm(r) => ((pc[r] # "idle" /\ calls[r] <= Depth) ~> pc[r] = "idle")

\* What readme.md says of a write: its bytes get to persistent memory.  Once
\* nothing is under way, the pool holds what the last write that returned wrote.
Quiet(r) ==
    /\ pc[r] = "idle" /\ ~wire[r]
    /\ cq[r] = <<>> /\ spc[r] = "poll" /\ sends[r] + acks[r] = 0
WritesReachPool ==
    \A r \in Requesters :
      (Quiet(r) /\ call[r] # Null /\ call[r].kind = "write") =>
        mem[call[r].obj] = call[r].image
====
