---- MODULE RemoteDataProofs ----
(***************************************************************************)
(* Safety of RemoteData for any number of requesters, any scripts and any  *)
(* objects, sizes, words and numbers of receives, with early or late       *)
(* acknowledgements.                                                       *)
(***************************************************************************)
EXTENDS RemoteData, TLAPS

NoRecv(q) == \A i \in 1..Len(q) : q[i] # "RECV"
AtMostOneRecv(q) == \A i, j \in 1..Len(q) : (q[i] = "RECV" /\ q[j] = "RECV") => i = j

\* What is there when it is used, whatever the scripts.
Sane(r) ==
    /\ pc[r] # "idle" => call[r] # Null
    /\ call[r] # Null /\ call[r].kind = "write" => call[r].image \in Images
    /\ pc[r] = "writing" => call[r].kind = "write"
    /\ wire[r] => call[r] # Null
    /\ ~NoRecv(cq[r]) => header[r] # Null
    /\ spc[r] = "recv" => header[r] # Null
    /\ spc[r] \in {"gather", "begin", "end", "scatter"} => job[r] # Null
    /\ \A i \in 1..Size : data[r][i] \in Contents

\* The polling thread has nothing to do for r.
AtRest(r) == spc[r] \in {"posted", "poll"}
LastIsWrite(r) == call[r] # Null /\ call[r].kind = "write"
FreshIn(r, f) == \A i \in 1..Size : f[i] \in seen[r][i]

\* Where a read can be: its request is under way, received (or its completion was
\* taken for another one), being served, answered in part, answered.
Idle(r) ==
    /\ ~wire[r] /\ NoRecv(cq[r]) /\ AtRest(r) /\ sends[r] = 0 /\ sent[r] = 0
Asking(r) ==
    /\ wire[r] /\ NoRecv(cq[r]) /\ AtRest(r)
    /\ sends[r] = 0 /\ sent[r] = 0 /\ inBuf[r] = ZeroFrame
Asked(r) ==
    /\ ~wire[r] /\ AtMostOneRecv(cq[r]) /\ header[r] = call[r] /\ AtRest(r)
    /\ sends[r] = 0 /\ sent[r] = 0 /\ inBuf[r] = ZeroFrame
Received(r) ==
    /\ ~wire[r] /\ NoRecv(cq[r]) /\ header[r] = call[r] /\ spc[r] = "recv"
    /\ sends[r] = 0 /\ sent[r] = 0 /\ inBuf[r] = ZeroFrame
Gathering(r) ==
    /\ ~wire[r] /\ NoRecv(cq[r]) /\ job[r] = call[r] /\ spc[r] = "gather"
    /\ \A i \in 1..(word[r] - 1) : outBuf[r][i] \in seen[r][i]
    /\ sends[r] = 0 /\ sent[r] = 0 /\ inBuf[r] = ZeroFrame
Answering(r) ==
    /\ ~wire[r] /\ NoRecv(cq[r]) /\ AtRest(r) /\ sends[r] = 1
    /\ FreshIn(r, outBuf[r])
    /\ \A i \in 1..Size : i < sent[r] => inBuf[r][i] \in seen[r][i]
    /\ \A i \in sent[r]..(Size + 1) : inBuf[r][i] = Zero
Answered(r) == Idle(r) /\ FreshIn(r, inBuf[r])

ReadIdle(r) ==
    pc[r] = "idle" /\ Idle(r) /\ (result[r] # Null => FreshIn(r, result[r]))
ReadPlace(r) ==
    \/ Asking(r) /\ pc[r] = "sending"
    \/ (Asked(r) \/ Received(r) \/ Gathering(r) \/ Answering(r)) /\ pc[r] # "take"
    \/ Answered(r)
ReadBusy(r) ==
    /\ pc[r] \in {"sending", "begin", "end", "take"}
    /\ FreshIn(r, mem[call[r].obj])
    /\ ReadPlace(r)
ReadOK(r) == data[r] = ZeroFrame /\ (ReadIdle(r) \/ ReadBusy(r))

\* Where a write can be, the last call of its requester: what the buffer holds, and
\* what the polling thread does with it.
WriteData(r) ==
    \/ pc[r] = "sending" /\ data[r] = ZeroFrame
    \/ /\ pc[r] = "writing"
       /\ \A i \in Positions :
            data[r][i] = IF i < placed[r] THEN Frame(call[r].obj, call[r].image)[i] ELSE Zero
    \/ pc[r] = "idle" /\ data[r] = Frame(call[r].obj, call[r].image)
WriteServed(r) ==
    \/ wire[r] /\ NoRecv(cq[r]) /\ AtRest(r) /\ pc[r] = "sending"
    \/ ~wire[r] /\ AtMostOneRecv(cq[r]) /\ header[r] = call[r] /\ AtRest(r)
    \/ ~wire[r] /\ NoRecv(cq[r]) /\ header[r] = call[r] /\ spc[r] = "recv"
    \/ /\ ~wire[r] /\ NoRecv(cq[r]) /\ header[r] = call[r] /\ job[r] = call[r]
       /\ spc[r] \in {"begin", "end"}
    \/ /\ ~wire[r] /\ NoRecv(cq[r]) /\ header[r] = call[r] /\ job[r] = call[r]
       /\ spc[r] = "scatter"
       /\ data[r] = Frame(call[r].obj, call[r].image) /\ pc[r] \in {"writing", "idle"}
WriteOK(r) ==
    /\ calls[r] = Len(Script[r])
    /\ result[r] = Null
    /\ WriteData(r) /\ WriteServed(r)

SaneAll == \A r \in Requesters : Sane(r)
CalmOK(r) == Calm(r) => IF LastIsWrite(r) THEN WriteOK(r) ELSE ReadOK(r)

IInv == TypeOK /\ \A r \in Requesters : Sane(r) /\ CalmOK(r)

-----------------------------------------------------------------------------
(* Completion queues, frames *)

Queues == Seq({"RECV", "WRITE"})

LEMMA QueueTail ==
    ASSUME NEW q \in Queues, q # <<>>
    PROVE  /\ Tail(q) \in Queues /\ Head(q) = q[1] /\ Len(q) \in Nat \ {0}
           /\ Len(Tail(q)) = Len(q) - 1 /\ 1 \in 1..Len(q)
           /\ \A i \in 1..Len(Tail(q)) : i + 1 \in 1..Len(q) /\ Tail(q)[i] = q[i + 1]
BY DEF Queues

LEMMA QueueAppend ==
    ASSUME NEW q \in Queues, NEW e \in {"RECV", "WRITE"}
    PROVE  /\ Append(q, e) \in Queues
           /\ \A i \in 1..Len(Append(q, e)) :
                \/ i \in 1..Len(q) /\ Append(q, e)[i] = q[i]
                \/ i = Len(q) + 1 /\ Append(q, e)[i] = e
BY DEF Queues

\* What taking the oldest completion and adding one do to the receive completions.
LEMMA RecvTaken ==
    ASSUME NEW q \in Queues, q # <<>>
    PROVE  /\ NoRecv(q) => NoRecv(Tail(q)) /\ Head(q) # "RECV"
           /\ AtMostOneRecv(q) => AtMostOneRecv(Tail(q))
           /\ AtMostOneRecv(q) /\ Head(q) = "RECV" => NoRecv(Tail(q))
           /\ Head(q) = "RECV" => ~NoRecv(q)
<1>1. NoRecv(q) => NoRecv(Tail(q)) /\ Head(q) # "RECV"
  BY QueueTail DEF NoRecv
<1>2. ASSUME AtMostOneRecv(q) PROVE AtMostOneRecv(Tail(q))
  <2> SUFFICES ASSUME NEW i \in 1..Len(Tail(q)), NEW j \in 1..Len(Tail(q)),
                      Tail(q)[i] = "RECV", Tail(q)[j] = "RECV"
               PROVE  i = j
    BY DEF AtMostOneRecv
  <2>1. i + 1 = j + 1
    BY <1>2, QueueTail DEF AtMostOneRecv
  <2> QED
    BY <2>1
<1>3. ASSUME AtMostOneRecv(q), Head(q) = "RECV" PROVE NoRecv(Tail(q))
  <2> SUFFICES ASSUME NEW i \in 1..Len(Tail(q)), Tail(q)[i] = "RECV" PROVE FALSE
    BY DEF NoRecv
  <2>1. i + 1 = 1
    BY <1>3, QueueTail DEF AtMostOneRecv
  <2> QED
    BY <2>1
<1>4. Head(q) = "RECV" => ~NoRecv(q)
  BY QueueTail DEF NoRecv
<1> QED
  BY <1>1, <1>2, <1>3, <1>4

LEMMA RecvAdded ==
    ASSUME NEW q \in Queues
    PROVE  /\ NoRecv(q) => AtMostOneRecv(Append(q, "RECV"))
           /\ NoRecv(q) => NoRecv(Append(q, "WRITE"))
           /\ ~NoRecv(q) => ~NoRecv(Append(q, "WRITE"))
           /\ NoRecv(q) <=> NoRecv(Append(q, "WRITE"))
           /\ AtMostOneRecv(q) => AtMostOneRecv(Append(q, "WRITE"))
<1>1. NoRecv(q) => AtMostOneRecv(Append(q, "RECV"))
  BY QueueAppend DEF NoRecv, AtMostOneRecv
<1>2. NoRecv(q) => NoRecv(Append(q, "WRITE"))
  BY QueueAppend DEF NoRecv
<1>3. NoRecv(Append(q, "WRITE")) => NoRecv(q)
  <2>1. \A i \in 1..Len(q) : i \in 1..Len(Append(q, "WRITE")) /\ Append(q, "WRITE")[i] = q[i]
    BY DEF Queues
  <2> QED
    BY <2>1 DEF NoRecv
<1>4. AtMostOneRecv(q) => AtMostOneRecv(Append(q, "WRITE"))
  BY QueueAppend DEF AtMostOneRecv
<1> QED
  BY <1>1, <1>2, <1>3, <1>4

LEMMA NoneIsAtMostOne ==
    ASSUME NEW q, NoRecv(q)
    PROVE  AtMostOneRecv(q)
BY DEF NoRecv, AtMostOneRecv

LEMMA PositionFacts ==
    /\ Size \in Nat /\ Size > 0
    /\ 0 \in Positions /\ Size + 1 \in Positions /\ \A i \in 1..Size : i \in Positions
    /\ \A i \in Positions : i \in Nat /\ i <= Size + 1
    /\ Zero \notin Objects /\ \A w \in Words : w \notin Objects
BY DataAssumption DEF Positions

LEMMA FrameFacts ==
    ASSUME NEW o \in Objects, NEW image \in Images
    PROVE  /\ Frame(o, image) \in Frames
           /\ Frame(o, image)[0] = o /\ Frame(o, image)[Size + 1] = o
           /\ \A i \in 1..Size : Frame(o, image)[i] = image[i]
           /\ Image(Frame(o, image)) = image
           /\ ZeroFrame \in Frames /\ \A i \in Positions : ZeroFrame[i] = Zero
<1>1. \A i \in Positions : Frame(o, image)[i] = IF i \in 1..Size THEN image[i] ELSE o
  BY DEF Frame
<1>2. Frame(o, image)[0] = o /\ Frame(o, image)[Size + 1] = o
  BY <1>1, PositionFacts
<1>3. \A i \in 1..Size : Frame(o, image)[i] = image[i]
  BY <1>1, PositionFacts
<1>4. Frame(o, image) \in Frames
  BY DEF Frame, Frames, Cells, Images
<1>5. Image(Frame(o, image)) = image
  BY <1>3 DEF Image, Images
<1>6. ZeroFrame \in Frames /\ \A i \in Positions : ZeroFrame[i] = Zero
  BY DEF ZeroFrame, Frames, Cells, Contents
<1> QED
  BY <1>2, <1>3, <1>4, <1>5, <1>6

-----------------------------------------------------------------------------
(* The other requesters *)

\* Nothing of u's changes that its transfer depends on, but perhaps its program counter;
\* no receive completion is added, and the polling thread stays where it is, or at rest.
KeptParts(u) ==
    /\ call'[u] = call[u] /\ inBuf'[u] = inBuf[u] /\ wire'[u] = wire[u]
    /\ sends'[u] = sends[u] /\ sent'[u] = sent[u] /\ header'[u] = header[u]
    /\ data'[u] = data[u] /\ job'[u] = job[u] /\ word'[u] = word[u] /\ outBuf'[u] = outBuf[u]
    /\ NoRecv(cq[u]) => NoRecv(cq'[u])
    /\ AtMostOneRecv(cq[u]) => AtMostOneRecv(cq'[u])
    /\ spc'[u] = spc[u] \/ (AtRest(u) /\ spc'[u] \in {"posted", "poll"})

\* Nothing of u's changes at all.
Same(u) ==
    /\ pc'[u] = pc[u] /\ calls'[u] = calls[u] /\ result'[u] = result[u] /\ placed'[u] = placed[u]
    /\ cq'[u] = cq[u] /\ spc'[u] = spc[u]
    /\ call'[u] = call[u] /\ inBuf'[u] = inBuf[u] /\ wire'[u] = wire[u]
    /\ sends'[u] = sends[u] /\ sent'[u] = sent[u] /\ header'[u] = header[u]
    /\ data'[u] = data[u] /\ job'[u] = job[u] /\ word'[u] = word[u] /\ outBuf'[u] = outBuf[u]

\* A word stored meanwhile is seen.
Grows(u) ==
    /\ \A i \in 1..Size : seen[u][i] \subseteq seen'[u][i]
    /\ (pc[u] # "idle" /\ call[u].kind = "get" /\ FreshIn(u, mem[call[u].obj])) =>
         \A i \in 1..Size : mem'[call[u].obj][i] \in seen'[u][i]

LEMMA SameKept ==
    ASSUME NEW u \in Requesters, Same(u)
    PROVE  KeptParts(u)
BY DEF Same, KeptParts

LEMMA NothingGrows ==
    ASSUME NEW u \in Requesters, mem' = mem, seen'[u] = seen[u]
    PROVE  Grows(u)
BY DEF Grows, FreshIn

LEMMA StoreGrows ==
    ASSUME TypeOK, SaneAll, NEW o \in Objects, NEW i \in 1..Size, NEW w \in Contents, Store(o, i, w)
    PROVE  \A u \in Requesters : Grows(u)
<1> SUFFICES ASSUME NEW u \in Requesters PROVE Grows(u)
  OBVIOUS
<1> DEFINE looks == pc[u] # "idle" /\ call[u].kind = "get" /\ call[u].obj = o
<1>1. seen'[u] = IF looks THEN [seen[u] EXCEPT ![i] = @ \union {w}] ELSE seen[u]
  BY DEF Store
<1>2. seen[u] \in [1..Size -> SUBSET Contents] /\ mem \in [Objects -> Images]
  BY DEF TypeOK
<1>3. \A j \in 1..Size : seen[u][j] \subseteq seen'[u][j]
  BY <1>1, <1>2
<1>4. ASSUME pc[u] # "idle", call[u].kind = "get", FreshIn(u, mem[call[u].obj]), NEW j \in 1..Size
      PROVE  mem'[call[u].obj][j] \in seen'[u][j]
  <2>1. call[u].obj \in Objects /\ mem[call[u].obj][j] \in seen[u][j]
    BY <1>4 DEF SaneAll, Sane, TypeOK, Requests, FreshIn
  <2>2. mem' = [mem EXCEPT ![o][i] = w]
    BY DEF Store
  <2>3. CASE call[u].obj = o /\ i = j
    <3>1. mem'[o][i] = w
      BY <2>2, <1>2 DEF Images
    <3>2. w \in seen'[u][i]
      BY <1>1, <1>2, <1>4, <2>3
    <3> QED
      BY <2>3, <3>1, <3>2
  <2>4. CASE ~(call[u].obj = o /\ i = j)
    <3>1. mem'[call[u].obj][j] = mem[call[u].obj][j]
      BY <2>1, <2>2, <2>4, <1>2 DEF Images
    <3> QED
      BY <2>1, <3>1, <1>3, <1>4
  <2> QED
    BY <2>3, <2>4
<1> QED
  BY <1>3, <1>4 DEF Grows

\* Each place a read can be.
LEMMA PlacesKept ==
    ASSUME NEW u \in Requesters, KeptParts(u), \A i \in 1..Size : seen[u][i] \subseteq seen'[u][i], TypeOK
    PROVE  /\ (Idle(u) => Idle(u)')
           /\ (Asking(u) => Asking(u)')
           /\ (Asked(u) => Asked(u)')
           /\ (Received(u) => Received(u)')
           /\ (Gathering(u) => Gathering(u)')
           /\ (Answering(u) => Answering(u)')
           /\ (Answered(u) => Answered(u)')
<1>0. AtRest(u) => AtRest(u)'
  BY DEF KeptParts, AtRest
<1>1. Idle(u) => Idle(u)'
  BY <1>0 DEF Idle, KeptParts
<1>2. Asking(u) => Asking(u)'
  BY <1>0 DEF Asking, KeptParts
<1>3. Asked(u) => Asked(u)'
  BY <1>0 DEF Asked, KeptParts
<1>4. Received(u) => Received(u)'
  BY DEF Received, KeptParts, AtRest
<1>5. ASSUME Gathering(u) PROVE Gathering(u)'
  <2>1. \A i \in 1..(word[u] - 1) : i \in 1..Size
    BY PositionFacts DEF TypeOK
  <2>2. \A i \in 1..(word'[u] - 1) : outBuf'[u][i] \in seen'[u][i]
    BY <2>1, <1>5 DEF Gathering, KeptParts
  <2> QED
    BY <2>2, <1>5 DEF Gathering, KeptParts, AtRest
<1>6. ASSUME Answering(u) PROVE Answering(u)'
  <2>1. FreshIn(u, outBuf[u])'
    BY <1>6 DEF Answering, FreshIn, KeptParts
  <2>2. \A i \in 1..Size : i < sent'[u] => inBuf'[u][i] \in seen'[u][i]
    BY <1>6 DEF Answering, KeptParts
  <2> QED
    BY <1>0, <1>6, <2>1, <2>2 DEF Answering, KeptParts
<1>7. Answered(u) => Answered(u)'
  BY <1>1 DEF Answered, FreshIn, KeptParts
<1> QED
  BY <1>1, <1>2, <1>3, <1>4, <1>5, <1>6, <1>7

\* What a write's request goes through.
LEMMA ServedKept ==
    ASSUME NEW u \in Requesters, KeptParts(u), WriteServed(u),
           wire[u] => pc'[u] = pc[u], pc[u] \in {"writing", "idle"} => pc'[u] \in {"writing", "idle"}
    PROVE  WriteServed(u)'
BY DEF KeptParts, WriteServed, AtRest

LEMMA SameSane ==
    ASSUME NEW u \in Requesters, Sane(u), Same(u)
    PROVE  Sane(u)'
BY DEF Sane, Same, NoRecv

\* u's transfer stays what it is, and u where it is.
Steady(u) ==
    /\ KeptParts(u)
    /\ pc'[u] = pc[u] /\ calls'[u] = calls[u] /\ result'[u] = result[u] /\ placed'[u] = placed[u]

LEMMA SameSteady ==
    ASSUME NEW u \in Requesters, Same(u)
    PROVE  Steady(u)
BY SameKept DEF Same, Steady

LEMMA SteadyCalm ==
    ASSUME NEW u \in Requesters, Steady(u), Grows(u), TypeOK, Sane(u), CalmOK(u)
    PROVE  CalmOK(u)'
<1> SUFFICES ASSUME Calm(u) PROVE IF LastIsWrite(u)' THEN WriteOK(u)' ELSE ReadOK(u)'
  BY DEF CalmOK, Calm
<1>1. LastIsWrite(u)' <=> LastIsWrite(u)
  BY DEF LastIsWrite, Steady, KeptParts
<1>k. KeptParts(u) /\ pc'[u] = pc[u]
  BY DEF Steady
<1>2. CASE LastIsWrite(u)
  <2>1. WriteOK(u)
    BY <1>2 DEF CalmOK
  <2>2. WriteData(u)'
    BY <2>1 DEF WriteOK, WriteData, Steady, KeptParts
  <2>3. WriteServed(u)'
    BY <2>1, <1>k, ServedKept DEF WriteOK
  <2> QED
    BY <1>1, <1>2, <2>1, <2>2, <2>3 DEF WriteOK, Steady
<1>3. CASE ~LastIsWrite(u)
  <2>1. ReadOK(u)
    BY <1>3 DEF CalmOK
  <2>s. /\ (Idle(u) => Idle(u)')
        /\ (Asking(u) => Asking(u)')
        /\ (Asked(u) => Asked(u)')
        /\ (Received(u) => Received(u)')
        /\ (Gathering(u) => Gathering(u)')
        /\ (Answering(u) => Answering(u)')
        /\ (Answered(u) => Answered(u)')
    BY <1>k, PlacesKept DEF Grows
  <2>2. CASE ReadIdle(u)
    <3>1. result'[u] # Null => FreshIn(u, result[u])'
      BY <2>2 DEF ReadIdle, Steady, Grows, FreshIn
    <3>2. ReadIdle(u)'
      BY <2>2, <2>s, <1>k, <3>1 DEF ReadIdle
    <3> QED
      BY <1>1, <1>3, <2>1, <3>2 DEF ReadOK, Steady, KeptParts
  <2>3. CASE ReadBusy(u)
    <3>1. call[u].kind = "get"
      BY <1>3, <2>3 DEF ReadBusy, LastIsWrite, Sane, TypeOK, Requests, Kinds
    <3>2. FreshIn(u, mem[call[u].obj])'
      BY <2>3, <3>1 DEF ReadBusy, Grows, Steady, KeptParts, FreshIn
    <3>3. ReadPlace(u)'
      BY <2>3, <2>s, <1>k DEF ReadBusy, ReadPlace
    <3>4. ReadBusy(u)'
      BY <2>3, <3>2, <3>3, <1>k DEF ReadBusy
    <3> QED
      BY <1>1, <1>3, <2>1, <3>4 DEF ReadOK, Steady, KeptParts
  <2> QED
    BY <2>1, <2>2, <2>3 DEF ReadOK
<1> QED
  BY <1>2, <1>3

-----------------------------------------------------------------------------
(* Initial states *)

LEMMA InitInv == Init => IInv
<1> SUFFICES ASSUME Init PROVE IInv
  OBVIOUS
<1> USE DEF Init
<1>0. ZeroFrame \in Frames /\ \A i \in Positions : ZeroFrame[i] = Zero
  BY DEF ZeroFrame, Frames, Cells, Contents
<1>1. TypeOK
  <2>1. mem \in [Objects -> Images] /\ locals \in 0..MaxLocal
    BY DataAssumption DEF Images, Contents
  <2>2. /\ pc \in [Requesters -> {"idle", "sending", "begin", "end", "take", "writing"}]
        /\ spc \in [Requesters -> {"poll", "recv", "gather", "posted", "begin", "end", "scatter"}]
        /\ calls \in [Requesters -> Nat] /\ call \in [Requesters -> Requests \union {Null}]
        /\ header \in [Requesters -> Requests \union {Null}] /\ job \in [Requesters -> Requests \union {Null}]
        /\ result \in [Requesters -> [1..Size -> Cells] \union {Null}] /\ wire \in [Requesters -> BOOLEAN]
    OBVIOUS
  <2>3. /\ inBuf \in [Requesters -> Frames] /\ data \in [Requesters -> Frames]
        /\ outBuf \in [Requesters -> Frames]
    BY <1>0
  <2>4. /\ rq \in [Requesters -> 0..Depth] /\ placed \in [Requesters -> 0..(Size + 2)]
        /\ sends \in [Requesters -> Nat] /\ sent \in [Requesters -> Positions]
        /\ acks \in [Requesters -> Nat] /\ word \in [Requesters -> 1..(Size + 1)]
    BY DataAssumption DEF Positions
  <2>5. cq \in [Requesters -> Seq({"RECV", "WRITE"})]
    OBVIOUS
  <2>6. seen \in [Requesters -> [1..Size -> SUBSET Contents]] /\ stored \subseteq Requesters
    OBVIOUS
  <2> QED
    BY <2>1, <2>2, <2>3, <2>4, <2>5, <2>6 DEF TypeOK
<1>2. ASSUME NEW r \in Requesters PROVE Sane(r) /\ CalmOK(r)
  <2>1. NoRecv(cq[r]) /\ data[r] = ZeroFrame /\ pc[r] = "idle" /\ spc[r] = "poll" /\ call[r] = Null
        /\ result[r] = Null /\ ~wire[r] /\ sends[r] = 0 /\ sent[r] = 0
    BY DEF NoRecv
  <2>2. Sane(r)
    BY <2>1, <1>0, PositionFacts DEF Sane, Contents
  <2>3. ReadOK(r) /\ ~LastIsWrite(r)
    BY <2>1 DEF ReadOK, ReadIdle, Idle, AtRest, LastIsWrite
  <2> QED
    BY <2>2, <2>3 DEF CalmOK
<1> QED
  BY <1>1, <1>2 DEF IInv

-----------------------------------------------------------------------------
(* Types *)

LEMMA TypeStore ==
    ASSUME TypeOK, NEW o \in Objects, NEW i \in 1..Size, NEW w \in Contents, Store(o, i, w)
    PROVE  /\ mem' \in [Objects -> Images]
           /\ seen' \in [Requesters -> [1..Size -> SUBSET Contents]]
BY ZenonT(60) DEF TypeOK, Store, Images

LEMMA TypeRequester == ASSUME TypeOK, SaneAll, NEW r \in Requesters PROVE
    Get(r) \/ Write(r) \/ RequesterStep(r) => TypeOK'
<1> USE DEF poolVars, callVars, requestVars, writeVars, answerVars, serveVars, Goto
<1>z. ZeroFrame \in Frames
  BY DEF ZeroFrame, Frames, Cells, Contents
<1>b. ASSUME NEW kind \in Kinds, NEW o \in Objects, NEW image \in Images \union {Null}, Begin(r, kind, o, image),
             inBuf' \in [Requesters -> Frames], seen' \in [Requesters -> [1..Size -> SUBSET Contents]],
             stored' \subseteq Requesters
      PROVE  TypeOK'
  <2>1. call' \in [Requesters -> Requests \union {Null}]
    BY <1>b DEF Begin, TypeOK, Requests
  <2>2. pc' \in [Requesters -> {"idle", "sending", "begin", "end", "take", "writing"}]
        /\ calls' \in [Requesters -> Nat] /\ wire' \in [Requesters -> BOOLEAN]
    BY <1>b DEF Begin, TypeOK
  <2>3. result' \in [Requesters -> [1..Size -> Cells] \union {Null}]
    BY <1>b DEF Begin, TypeOK
  <2> QED
    BY <1>b, <2>1, <2>2, <2>3 DEF Begin, TypeOK
<1>1. ASSUME Get(r) PROVE TypeOK'
  <2>1. PICK o \in Objects : Begin(r, "get", o, Null) /\ Look(r, o)
    BY <1>1 DEF Get
  <2>2. inBuf' \in [Requesters -> Frames] /\ stored' \subseteq Requesters
    BY <1>1, <1>z DEF Get, TypeOK
  <2>3. seen' \in [Requesters -> [1..Size -> SUBSET Contents]]
    <3>1. \A i \in 1..Size : mem[o][i] \in Contents
      BY DEF TypeOK, Images
    <3>2. [i \in 1..Size |-> {mem[o][i]}] \in [1..Size -> SUBSET Contents]
      BY <3>1
    <3> QED
      BY <2>1, <3>2 DEF Look, TypeOK
  <2> QED
    BY <2>1, <2>2, <2>3, <1>b DEF Kinds
<1>2. ASSUME Write(r) PROVE TypeOK'
  <2>1. PICK o \in Objects, image \in [1..Size -> Words] : Begin(r, "write", o, image)
    BY <1>2 DEF Write
  <2>2. image \in Images
    BY DEF Images, Contents
  <2>3. /\ inBuf' \in [Requesters -> Frames] /\ stored' \subseteq Requesters
        /\ seen' \in [Requesters -> [1..Size -> SUBSET Contents]]
    BY <1>2 DEF Write, TypeOK
  <2> QED
    BY <2>1, <2>2, <2>3, <1>b DEF Kinds
<1>3. ASSUME PollSend(r) PROVE TypeOK'
  <2>1. placed' \in [Requesters -> 0..(Size + 2)]
    BY <1>3, DataAssumption DEF PollSend, TypeOK
  <2>2. pc' \in [Requesters -> {"idle", "sending", "begin", "end", "take", "writing"}]
    BY <1>3 DEF PollSend, Advance, AfterSend, TypeOK
  <2> QED
    BY <1>3, <2>1, <2>2 DEF PollSend, Advance, TypeOK
<1>4. ASSUME PollWritten(r) \/ SeeBegin(r) \/ SeeEnd(r) PROVE TypeOK'
  <2>1. pc' \in [Requesters -> {"idle", "sending", "begin", "end", "take", "writing"}]
    <3>1. PICK l \in {"idle", "end", "take"} : pc' = [pc EXCEPT ![r] = l]
      BY <1>4 DEF PollWritten, SeeBegin, SeeEnd, Advance
    <3> QED
      BY <3>1 DEF TypeOK
  <2> QED
    BY <1>4, <2>1 DEF PollWritten, SeeBegin, SeeEnd, Advance, TypeOK
<1>5. ASSUME TakeResult(r) PROVE TypeOK'
  <2>1. Image(inBuf[r]) \in [1..Size -> Cells]
    BY PositionFacts DEF Image, TypeOK, Frames
  <2>2. result' \in [Requesters -> [1..Size -> Cells] \union {Null}]
    BY <1>5, <2>1 DEF TakeResult, TypeOK
  <2>3. pc' \in [Requesters -> {"idle", "sending", "begin", "end", "take", "writing"}]
    BY <1>5 DEF TakeResult, Advance, TypeOK
  <2> QED
    BY <1>5, <2>2, <2>3 DEF TakeResult, Advance, TypeOK
<1> QED
  BY <1>1, <1>2, <1>3, <1>4, <1>5 DEF RequesterStep

LEMMA TypeAdapter == ASSUME TypeOK, SaneAll, NEW r \in Requesters PROVE
    DeliverRequest(r) \/ PlaceAtOwner(r) \/ PlaceAtRequester(r) \/ Ack(r) => TypeOK'
<1> USE DEF poolVars, callVars, requestVars, writeVars, answerVars, serveVars
<1>q. \A q \in Queues : Append(q, "RECV") \in Queues /\ Append(q, "WRITE") \in Queues
  BY QueueAppend
<1>1. ASSUME DeliverRequest(r) PROVE TypeOK'
  <2>1. cq' \in [Requesters -> Seq({"RECV", "WRITE"})]
    BY <1>1, <1>q DEF DeliverRequest, TypeOK, Queues
  <2>2. rq' \in [Requesters -> 0..Depth] /\ wire' \in [Requesters -> BOOLEAN]
    BY <1>1, DataAssumption DEF DeliverRequest, TypeOK
  <2>3. header' \in [Requesters -> Requests \union {Null}]
    BY <1>1 DEF DeliverRequest, TypeOK
  <2> QED
    BY <1>1, <2>1, <2>2, <2>3 DEF DeliverRequest, TypeOK
<1>2. ASSUME PlaceAtOwner(r) PROVE TypeOK'
  <2>1. call[r] \in Requests /\ call[r].image \in Images
    BY <1>2 DEF SaneAll, Sane, PlaceAtOwner, TypeOK
  <2>2. Frame(call[r].obj, call[r].image) \in Frames
    BY <2>1, FrameFacts DEF Requests
  <2>3. placed[r] \in Positions /\ placed[r] + 1 \in 0..(Size + 2)
    BY <1>2, DataAssumption DEF PlaceAtOwner, TypeOK, Positions
  <2>4. data' \in [Requesters -> Frames]
    BY <1>2, <2>2, <2>3 DEF PlaceAtOwner, TypeOK, Frames
  <2>5. placed' \in [Requesters -> 0..(Size + 2)]
    BY <1>2, <2>3 DEF PlaceAtOwner, TypeOK
  <2> QED
    BY <1>2, <2>4, <2>5 DEF PlaceAtOwner, TypeOK
<1>3. ASSUME PlaceAtRequester(r) PROVE TypeOK'
  <2>1. inBuf' \in [Requesters -> Frames]
    BY <1>3 DEF PlaceAtRequester, TypeOK, Frames
  <2>2. sent' \in [Requesters -> Positions]
    <3>1. (IF sent[r] = Size + 1 THEN 0 ELSE sent[r] + 1) \in Positions
      BY DataAssumption DEF TypeOK, Positions
    <3> QED
      BY <1>3, <3>1 DEF PlaceAtRequester, TypeOK
  <2>3. sends' \in [Requesters -> Nat] /\ acks' \in [Requesters -> Nat]
    BY <1>3 DEF PlaceAtRequester, TypeOK
  <2> QED
    BY <1>3, <2>1, <2>2, <2>3 DEF PlaceAtRequester, TypeOK
<1>4. ASSUME Ack(r) PROVE TypeOK'
  <2>1. cq' \in [Requesters -> Seq({"RECV", "WRITE"})]
    BY <1>4, <1>q DEF Ack, TypeOK, Queues
  <2>2. acks' \in [Requesters -> Nat]
    BY <1>4 DEF Ack, TypeOK
  <2> QED
    BY <1>4, <2>1, <2>2 DEF Ack, TypeOK
<1> QED
  BY <1>1, <1>2, <1>3, <1>4

\* What Work and Take change.
LEMMA TypeWork ==
    ASSUME TypeOK, NEW r \in Requesters, NEW from,
           NEW to \in {"poll", "recv", "gather", "posted", "begin", "end", "scatter"}, Work(r, from, to)
    PROVE  /\ spc' \in [Requesters -> {"poll", "recv", "gather", "posted", "begin", "end", "scatter"}]
           /\ UNCHANGED <<locals, pc, calls, call, inBuf, result, wire, rq, header, placed, sent, acks>>
BY DEF TypeOK, Work, callVars, requestVars

LEMMA TypeTake ==
    ASSUME TypeOK, NEW r \in Requesters, Take(r)
    PROVE  /\ cq' \in [Requesters -> Seq({"RECV", "WRITE"})]
           /\ UNCHANGED <<mem, data, sends, job, word, outBuf, seen, stored>>
<1>1. cq[r] \in Queues /\ cq[r] # <<>>
  BY DEF TypeOK, Take, Queues
<1>2. Tail(cq[r]) \in Seq({"RECV", "WRITE"})
  BY <1>1, QueueTail DEF Queues
<1> QED
  BY <1>2 DEF TypeOK, Take, serveVars

LEMMA TypeServer == ASSUME TypeOK, SaneAll, NEW r \in Requesters PROVE
    PollThreadStep(r) => TypeOK'
<1> USE DEF serveVars
<1>z. ZeroFrame \in Frames
  BY DEF ZeroFrame, Frames, Cells, Contents
<1>1. ASSUME Poll(r) PROVE TypeOK'
  BY <1>1, TypeWork, TypeTake DEF Poll, TypeOK
<1>2. ASSUME AwaitPosted(r) PROVE TypeOK'
  BY <1>2, TypeWork, TypeTake DEF AwaitPosted, TypeOK
<1>j. ASSUME spc[r] = "recv" PROVE header[r] \in Requests
  BY <1>j DEF SaneAll, Sane, TypeOK
<1>w. word[r] \in 1..(Size + 1) /\ Size \in Nat
  BY DataAssumption DEF TypeOK
<1>3. ASSUME ServeGet(r) PROVE TypeOK'
  <2>1. header[r] \in Requests
    BY <1>3, <1>j DEF ServeGet, Work
  <2>2. [ZeroFrame EXCEPT ![0] = header[r].obj] \in Frames
    BY <1>z, <2>1 DEF Frames, Cells, Requests
  <2>3. job' \in [Requesters -> Requests \union {Null}] /\ outBuf' \in [Requesters -> Frames]
        /\ word' \in [Requesters -> 1..(Size + 1)]
    BY <1>3, <2>1, <2>2, <1>w DEF ServeGet, TypeOK
  <2> QED
    BY <1>3, <2>3, TypeWork DEF ServeGet, TypeOK
<1>4. ASSUME Gather(r) PROVE TypeOK'
  <2>1. job[r] \in Requests /\ word[r] \in 1..Size
    BY <1>4, <1>w DEF SaneAll, Sane, TypeOK, Gather, Work
  <2>2. mem[job[r].obj][word[r]] \in Contents
    <3>1. mem[job[r].obj] \in Images
      BY <2>1 DEF TypeOK, Requests
    <3> QED
      BY <2>1, <3>1 DEF Images
  <2>3. outBuf' \in [Requesters -> Frames]
    BY <1>4, <2>2 DEF Gather, TypeOK, Frames, Cells
  <2>4. word' \in [Requesters -> 1..(Size + 1)]
    BY <1>4, <2>1, <1>w DEF Gather, TypeOK
  <2> QED
    BY <1>4, <2>3, <2>4, TypeWork DEF Gather, TypeOK
<1>5. ASSUME Post(r) PROVE TypeOK'
  <2>1. job[r] \in Requests
    BY <1>5 DEF SaneAll, Sane, TypeOK, Post, Work
  <2>2. outBuf' \in [Requesters -> Frames]
    BY <1>5, <2>1 DEF Post, TypeOK, Frames, Cells, Requests
  <2>3. sends' \in [Requesters -> Nat]
    BY <1>5 DEF Post, TypeOK
  <2> QED
    BY <1>5, <2>2, <2>3, TypeWork DEF Post, TypeOK
<1>6. ASSUME ServeWrite(r) PROVE TypeOK'
  <2>1. header[r] \in Requests
    BY <1>6, <1>j DEF ServeWrite, Work
  <2>2. job' \in [Requesters -> Requests \union {Null}] /\ word' \in [Requesters -> 1..(Size + 1)]
    BY <1>6, <2>1, <1>w DEF ServeWrite, TypeOK
  <2> QED
    BY <1>6, <2>2, TypeWork DEF ServeWrite, TypeOK
<1>7. ASSUME AwaitBegin(r) PROVE TypeOK'
  BY <1>7, TypeWork DEF AwaitBegin, TypeOK
<1>8. ASSUME AwaitEnd(r) PROVE TypeOK'
  BY <1>8, TypeWork DEF AwaitEnd, TypeOK
<1>9. ASSUME Scatter(r) PROVE TypeOK'
  <2>1. job[r] \in Requests /\ word[r] \in 1..Size
    BY <1>9, <1>w DEF SaneAll, Sane, TypeOK, Scatter, ScatterFrom, Work
  <2>2. 1 + word[r] - 1 = word[r]
    BY <1>w
  <2>3. Store(job[r].obj, word[r], data[r][word[r]])
    BY <1>9, <2>2 DEF Scatter, ScatterFrom
  <2>4. data[r][word[r]] \in Contents /\ job[r].obj \in Objects
    BY <2>1 DEF SaneAll, Sane, Requests
  <2>5. mem' \in [Objects -> Images] /\ seen' \in [Requesters -> [1..Size -> SUBSET Contents]]
    BY <2>1, <2>3, <2>4, TypeStore
  <2>6. word' \in [Requesters -> 1..(Size + 1)]
    BY <1>9, <2>1, <1>w DEF Scatter, ScatterFrom, TypeOK
  <2> QED
    BY <1>9, <2>5, <2>6, TypeWork DEF Scatter, ScatterFrom, TypeOK
<1>10. ASSUME Persist(r) PROVE TypeOK'
  BY <1>10, TypeWork DEF Persist, TypeOK
<1> QED
  BY <1>1, <1>2, <1>3, <1>4, <1>5, <1>6, <1>7, <1>8, <1>9, <1>10 DEF PollThreadStep

LEMMA TypeStep == IInv /\ [Next]_vars => TypeOK'
<1> SUFFICES ASSUME IInv, [Next]_vars PROVE TypeOK'
  OBVIOUS
<1>0. TypeOK /\ SaneAll
  BY DEF IInv, SaneAll
<1>1. CASE LocalWrite
  <2>1. PICK o \in Objects, i \in 1..Size, w \in Words : Store(o, i, w)
    BY <1>1 DEF LocalWrite
  <2>2. mem' \in [Objects -> Images] /\ seen' \in [Requesters -> [1..Size -> SUBSET Contents]]
    BY <2>1, <1>0, TypeStore DEF Contents
  <2>3. locals' \in 0..MaxLocal
    BY <1>0, <1>1, DataAssumption DEF LocalWrite, TypeOK
  <2> QED
    BY <1>0, <1>1, <2>2, <2>3 DEF LocalWrite, TypeOK, callVars, requestVars, writeVars, answerVars, serveVars
<1>2. CASE UNCHANGED vars
  BY <1>0, <1>2 DEF vars, poolVars, callVars, requestVars, writeVars, answerVars, serveVars, TypeOK
<1> QED
  BY <1>0, <1>1, <1>2, TypeRequester, TypeAdapter, TypeServer DEF Next

-----------------------------------------------------------------------------
(* What a step does to the requesters it is not a step of *)

LEMMA OthersRequester ==
    ASSUME TypeOK, NEW r \in Requesters, NEW u \in Requesters, u # r,
           Get(r) \/ Write(r) \/ RequesterStep(r)
    PROVE  Same(u) /\ Grows(u)
<1> USE DEF poolVars, callVars, requestVars, writeVars, answerVars, serveVars, Goto, Same
<1>m. mem' = mem /\ seen'[u] = seen[u] => Grows(u)
  BY NothingGrows
<1>1. CASE Get(r)
  <2>1. PICK o \in Objects : Begin(r, "get", o, Null) /\ Look(r, o)
    BY <1>1 DEF Get
  <2>2. mem' = mem /\ seen'[u] = seen[u]
    BY <2>1 DEF Begin, Look, TypeOK
  <2>3. Same(u)
    BY <1>1, <2>1 DEF Get, Begin, TypeOK
  <2> QED
    BY <1>m, <2>2, <2>3
<1>2. CASE Write(r)
  <2>1. PICK o \in Objects, image \in [1..Size -> Words] : Begin(r, "write", o, image)
    BY <1>2 DEF Write
  <2>2. mem' = mem /\ seen'[u] = seen[u]
    BY <1>2, <2>1 DEF Write, Begin
  <2>3. Same(u)
    BY <1>2, <2>1 DEF Write, Begin, TypeOK
  <2> QED
    BY <1>m, <2>2, <2>3
<1>3. CASE RequesterStep(r)
  <2>1. PICK from, to : Advance(r, from, to)
    BY <1>3 DEF RequesterStep, PollSend, PollWritten, SeeBegin, SeeEnd, TakeResult
  <2>2. mem' = mem /\ seen'[u] = seen[u]
    BY <2>1 DEF Advance
  <2>3. placed'[u] = placed[u] /\ inBuf'[u] = inBuf[u] /\ result'[u] = result[u]
    BY <1>3 DEF RequesterStep, PollSend, PollWritten, SeeBegin, SeeEnd, TakeResult, TypeOK
  <2>4. Same(u)
    BY <2>1, <2>3 DEF Advance, TypeOK
  <2> QED
    BY <1>m, <2>2, <2>4
<1> QED
  BY <1>1, <1>2, <1>3

LEMMA OthersAdapter ==
    ASSUME TypeOK, NEW r \in Requesters, NEW u \in Requesters, u # r,
           DeliverRequest(r) \/ PlaceAtOwner(r) \/ PlaceAtRequester(r) \/ Ack(r)
    PROVE  Same(u) /\ Grows(u)
<1> USE DEF poolVars, callVars, requestVars, writeVars, answerVars, serveVars, Same
<1>0. Grows(u)
  BY NothingGrows DEF DeliverRequest, PlaceAtOwner, PlaceAtRequester, Ack
<1>1. DeliverRequest(r) => Same(u)
  BY DEF DeliverRequest, TypeOK
<1>2. PlaceAtOwner(r) => Same(u)
  BY DEF PlaceAtOwner, TypeOK
<1>3. PlaceAtRequester(r) => Same(u)
  BY DEF PlaceAtRequester, TypeOK
<1>4. Ack(r) => Same(u)
  BY DEF Ack, TypeOK
<1> QED
  BY <1>0, <1>1, <1>2, <1>3, <1>4

LEMMA OthersServer ==
    ASSUME TypeOK, SaneAll, NEW r \in Requesters, NEW u \in Requesters, u # r, PollThreadStep(r)
    PROVE  Same(u) /\ Grows(u)
<1> USE DEF callVars, requestVars, serveVars, Same
<1>m. mem' = mem /\ seen' = seen => Grows(u)
  BY NothingGrows
<1>1. CASE Poll(r) \/ AwaitPosted(r)
  <2>1. PICK from, to : Work(r, from, to) /\ Take(r)
    BY <1>1 DEF Poll, AwaitPosted
  <2> QED
    BY <1>m, <2>1 DEF Work, Take, TypeOK
<1>2. CASE ServeGet(r)
  BY <1>m, <1>2 DEF ServeGet, Work, TypeOK
<1>3. CASE Gather(r)
  BY <1>m, <1>3 DEF Gather, Work, TypeOK
<1>4. CASE Post(r)
  BY <1>m, <1>4 DEF Post, Work, TypeOK
<1>5. CASE ServeWrite(r)
  BY <1>m, <1>5 DEF ServeWrite, Work, TypeOK
<1>6. CASE AwaitBegin(r) \/ AwaitEnd(r) \/ Persist(r)
  <2>1. PICK from, to : Work(r, from, to) /\ UNCHANGED <<mem, data, sends, cq, serveVars, seen>>
    BY <1>6 DEF AwaitBegin, AwaitEnd, Persist
  <2> QED
    BY <1>m, <2>1 DEF Work, TypeOK
<1>7. CASE Scatter(r)
  <2>1. Same(u)
    BY <1>7 DEF Scatter, ScatterFrom, Work, TypeOK
  <2>2. Size \in Nat /\ word[r] \in 1..Size /\ job[r] \in Requests
    BY <1>7, DataAssumption DEF Scatter, ScatterFrom, Work, SaneAll, Sane, TypeOK
  <2>3. 1 + word[r] - 1 = word[r]
    BY <2>2
  <2>4. Store(job[r].obj, word[r], data[r][word[r]])
    BY <1>7, <2>3 DEF Scatter, ScatterFrom
  <2>5. data[r][word[r]] \in Contents /\ job[r].obj \in Objects
    BY <2>2 DEF SaneAll, Sane, Requests
  <2>6. Grows(u)
    BY <2>2, <2>4, <2>5, StoreGrows
  <2> QED
    BY <2>1, <2>6
<1> QED
  BY <1>1, <1>2, <1>3, <1>4, <1>5, <1>6, <1>7 DEF PollThreadStep

-----------------------------------------------------------------------------
(* The requester *)

\* What holds of the requester whose step it is, before the step.
LEMMA Mine ==
    ASSUME IInv, NEW r \in Requesters
    PROVE  /\ TypeOK /\ SaneAll /\ Sane(r)
           /\ Calm(r) => IF LastIsWrite(r) THEN WriteOK(r) ELSE ReadOK(r)
           /\ cq[r] \in Queues
           /\ call[r] # Null => call[r] \in Requests /\ call[r].obj \in Objects
           /\ call[r] # Null /\ ~LastIsWrite(r) => call[r].kind = "get"
BY DEF IInv, SaneAll, CalmOK, TypeOK, Queues, LastIsWrite, Requests, Kinds

LEMMA GetStep ==
    ASSUME IInv, NEW r \in Requesters, Get(r)
    PROVE  Sane(r)' /\ CalmOK(r)'
<1> USE DEF poolVars, callVars, requestVars, writeVars, answerVars, serveVars
<1>1. PICK o \in Objects : Begin(r, "get", o, Null) /\ Look(r, o)
  BY DEF Get
<1>2. /\ pc[r] = "idle" /\ calls[r] < Len(Script[r])
      /\ pc'[r] = "sending" /\ call'[r] = [kind |-> "get", obj |-> o, image |-> Null]
      /\ wire'[r] /\ inBuf'[r] = ZeroFrame /\ seen'[r] = [i \in 1..Size |-> {mem[o][i]}]
      /\ UNCHANGED <<mem, cq, spc, header, job, data, sends, sent, word, outBuf>>
  <2>1. TypeOK
    BY Mine
  <2>2. seen'[r] = [i \in 1..Size |-> {mem[o][i]}]
    BY <1>1, <2>1 DEF Look, TypeOK
  <2>3. inBuf'[r] = ZeroFrame
    BY <2>1 DEF Get, TypeOK
  <2> QED
    BY <1>1, <2>1, <2>2, <2>3 DEF Begin, Goto, TypeOK
<1>3. call'[r] # Null /\ call'[r].kind = "get" /\ call'[r].obj = o /\ ~LastIsWrite(r)'
  BY <1>2, DataAssumption DEF Requests, Kinds, LastIsWrite
<1>4. Sane(r)'
  BY <1>2, <1>3, Mine DEF Sane
<1>5. ASSUME Calm(r) PROVE ReadOK(r)'
  <2>1. ~LastIsWrite(r) /\ ReadIdle(r) /\ data[r] = ZeroFrame
    BY <1>2, <1>5, Mine DEF WriteOK, ReadOK, ReadBusy
  <2>2. Asking(r)'
    BY <1>2, <2>1 DEF ReadIdle, Idle, Asking, AtRest
  <2>3. FreshIn(r, mem[call[r].obj])'
    BY <1>2, <1>3 DEF FreshIn
  <2> QED
    BY <1>2, <2>1, <2>2, <2>3 DEF ReadOK, ReadBusy, ReadPlace
<1> QED
  BY <1>3, <1>4, <1>5 DEF CalmOK, Calm

LEMMA WriteStep ==
    ASSUME IInv, NEW r \in Requesters, Write(r)
    PROVE  Sane(r)' /\ CalmOK(r)'
<1> USE DEF poolVars, callVars, requestVars, writeVars, answerVars, serveVars
<1>1. PICK o \in Objects, image \in [1..Size -> Words] : Begin(r, "write", o, image)
  BY DEF Write
<1>2. /\ pc[r] = "idle" /\ calls[r] < Len(Script[r]) /\ Script[r][calls[r] + 1] = "write"
      /\ calls'[r] = calls[r] + 1 /\ result'[r] = Null
      /\ pc'[r] = "sending" /\ call'[r] = [kind |-> "write", obj |-> o, image |-> image]
      /\ wire'[r]
      /\ UNCHANGED <<cq, spc, header, job, data, sends, sent, word, outBuf>>
  BY <1>1, Mine DEF Begin, Goto, TypeOK
<1>i. image \in Images
  BY DEF Images, Contents
<1>3. call'[r] # Null /\ call'[r].kind = "write" /\ call'[r].image = image /\ LastIsWrite(r)'
  BY <1>2, <1>i, DataAssumption DEF Requests, Kinds, LastIsWrite
<1>4. Sane(r)'
  BY <1>2, <1>3, <1>i, Mine DEF Sane
<1>5. ASSUME Calm(r) PROVE WriteOK(r)'
  <2>1. ~LastIsWrite(r) /\ ReadIdle(r) /\ data[r] = ZeroFrame
    BY <1>2, <1>5, Mine DEF WriteOK, ReadOK, ReadBusy
  <2>2. calls'[r] = Len(Script[r])
    <3>1. Script[r] \in Seq(Kinds) /\ calls[r] \in Nat
      BY Mine, DataAssumption DEF TypeOK
    <3>2. calls[r] + 1 \in 1..Len(Script[r])
      BY <3>1, <1>2
    <3> QED
      BY <3>2, <1>2, <1>5 DEF Calm
  <2>3. WriteServed(r)'
    BY <1>2, <2>1 DEF ReadIdle, Idle, WriteServed, AtRest
  <2>4. WriteData(r)'
    BY <1>2, <2>1 DEF WriteData
  <2> QED
    BY <1>2, <2>2, <2>3, <2>4 DEF WriteOK
<1> QED
  BY <1>3, <1>4, <1>5 DEF CalmOK, Calm

\* The steps of a call under way move only the program counter and what TakeResult
\* and PollSend set.
LEMMA Advanced ==
    ASSUME IInv, NEW r \in Requesters, NEW from, NEW to, Advance(r, from, to), inBuf' = inBuf
    PROVE  /\ pc[r] = from /\ pc'[r] = to
           /\ KeptParts(r) /\ UNCHANGED <<cq, spc, calls, mem, seen>>
           /\ LastIsWrite(r)' = LastIsWrite(r)
BY Mine DEF Advance, Goto, KeptParts, LastIsWrite, TypeOK, poolVars, requestVars, answerVars, serveVars

\* A read's program counter moves on without touching its transfer.
LEMMA ReadMoves ==
    ASSUME IInv, NEW r \in Requesters, KeptParts(r), UNCHANGED <<mem, seen>>,
           ReadBusy(r), data[r] = ZeroFrame, ~wire[r],
           pc'[r] \in {"sending", "begin", "end", "take"}, pc'[r] = "take" => Answered(r)
    PROVE  ReadOK(r)'
<1>1. /\ (Asked(r) => Asked(r)') /\ (Received(r) => Received(r)') /\ (Gathering(r) => Gathering(r)')
      /\ (Answering(r) => Answering(r)') /\ (Answered(r) => Answered(r)')
  BY Mine, PlacesKept
<1>2. ReadPlace(r)'
  BY <1>1 DEF ReadBusy, ReadPlace, Asking
<1>3. FreshIn(r, mem[call[r].obj])'
  BY DEF ReadBusy, FreshIn, KeptParts
<1> QED
  BY <1>2, <1>3 DEF ReadOK, ReadBusy, KeptParts

LEMMA PollSendStep ==
    ASSUME IInv, NEW r \in Requesters, PollSend(r)
    PROVE  Sane(r)' /\ CalmOK(r)'
<1>1. /\ pc[r] = "sending" /\ pc'[r] = AfterSend(r)
      /\ KeptParts(r) /\ UNCHANGED <<cq, spc, calls, mem, seen>>
      /\ LastIsWrite(r)' = LastIsWrite(r)
  BY Advanced DEF PollSend
<1>2. ~wire[r] /\ placed'[r] = 0 /\ result' = result
  BY Mine DEF PollSend, TypeOK
<1>3. call[r] # Null /\ pc'[r] = IF LastIsWrite(r) THEN "writing" ELSE "begin"
  BY <1>1, Mine DEF Sane, AfterSend, LastIsWrite
<1>4. Sane(r)'
  BY <1>1, <1>3, Mine DEF Sane, KeptParts, LastIsWrite
<1>5. ASSUME Calm(r), LastIsWrite(r) PROVE WriteOK(r)'
  <2>1. WriteOK(r) /\ data[r] = ZeroFrame
    BY <1>1, <1>5, Mine DEF WriteOK, WriteData
  <2>2. WriteData(r)'
    BY <1>1, <1>2, <1>3, <1>5, <2>1 DEF WriteData, KeptParts, ZeroFrame, Positions
  <2>3. WriteServed(r)'
    BY <1>1, <1>2, <2>1, ServedKept DEF WriteOK
  <2> QED
    BY <1>1, <1>2, <2>1, <2>2, <2>3 DEF WriteOK
<1>6. ASSUME Calm(r), ~LastIsWrite(r) PROVE ReadOK(r)'
  BY <1>1, <1>2, <1>3, <1>6, Mine, ReadMoves DEF ReadOK, ReadIdle
<1> QED
  BY <1>1, <1>4, <1>5, <1>6 DEF CalmOK, Calm

LEMMA PollWrittenStep ==
    ASSUME IInv, NEW r \in Requesters, PollWritten(r)
    PROVE  Sane(r)' /\ CalmOK(r)'
<1>1. /\ pc[r] = "writing" /\ pc'[r] = "idle"
      /\ KeptParts(r) /\ UNCHANGED <<cq, spc, calls, mem, seen>>
      /\ LastIsWrite(r)' = LastIsWrite(r)
  BY Advanced DEF PollWritten
<1>2. placed[r] = Size + 2 /\ result' = result /\ LastIsWrite(r)
  BY <1>1, Mine DEF PollWritten, Sane, LastIsWrite
<1>4. Sane(r)'
  BY <1>1, Mine DEF Sane, KeptParts
<1>5. ASSUME Calm(r) PROVE WriteOK(r)'
  <2>1. WriteOK(r) /\ ~wire[r]
    BY <1>1, <1>2, <1>5, Mine DEF WriteOK, WriteServed
  <2>2. data[r] = Frame(call[r].obj, call[r].image)
    <3>1. Frame(call[r].obj, call[r].image) \in Frames
      BY <1>2, Mine, FrameFacts DEF LastIsWrite, Sane
    <3>2. data[r] \in Frames
      BY Mine DEF TypeOK
    <3>3. \A i \in Positions : data[r][i] = Frame(call[r].obj, call[r].image)[i]
      BY <1>1, <1>2, <2>1, PositionFacts DEF WriteOK, WriteData
    <3> QED
      BY <3>1, <3>2, <3>3 DEF Frames
  <2>3. WriteServed(r)'
    BY <1>1, <1>2, <2>1, ServedKept DEF WriteOK
  <2> QED
    BY <1>1, <1>2, <2>1, <2>2, <2>3 DEF WriteOK, WriteData, KeptParts
<1> QED
  BY <1>1, <1>2, <1>4, <1>5 DEF CalmOK, Calm

LEMMA SeeStep ==
    ASSUME IInv, NEW r \in Requesters, SeeBegin(r) \/ SeeEnd(r)
    PROVE  Sane(r)' /\ CalmOK(r)'
<1>0. PICK from \in {"begin", "end"}, to \in {"end", "take"} :
        Advance(r, from, to) /\ (to = "take" => inBuf[r][Size + 1] = call[r].obj)
        /\ inBuf' = inBuf /\ result' = result
  BY DEF SeeBegin, SeeEnd
<1>1. /\ pc[r] \in {"begin", "end"} /\ pc'[r] = to
      /\ KeptParts(r) /\ UNCHANGED <<cq, spc, calls, mem, seen>>
      /\ LastIsWrite(r)' = LastIsWrite(r)
  BY <1>0, Advanced
<1>4. Sane(r)'
  BY <1>1, Mine DEF Sane, KeptParts
<1>5. ASSUME Calm(r) PROVE ~LastIsWrite(r) /\ ReadOK(r)'
  <2>1. ~LastIsWrite(r) /\ ReadBusy(r) /\ data[r] = ZeroFrame
    BY <1>1, <1>5, Mine DEF WriteOK, WriteData, ReadOK, ReadIdle
  <2>2. ~wire[r]
    BY <1>1, <2>1 DEF ReadBusy, ReadPlace, Asking, Asked, Received, Gathering, Answering, Answered, Idle
  <2>3. ASSUME to = "take" PROVE Answered(r)
    <3>1. inBuf[r][Size + 1] # Zero
      BY <1>0, <1>1, <2>3, Mine, PositionFacts DEF Sane
    <3>2. inBuf[r] # ZeroFrame
      BY <3>1, PositionFacts DEF ZeroFrame
    <3>3. ~Answering(r)
      BY <3>1, Mine, PositionFacts DEF Answering, TypeOK, Positions
    <3> QED
      BY <1>1, <2>1, <3>2, <3>3 DEF ReadBusy, ReadPlace, Asking, Asked, Received, Gathering
  <2> QED
    BY <1>1, <2>1, <2>2, <2>3, ReadMoves
<1> QED
  BY <1>1, <1>4, <1>5 DEF CalmOK, Calm

LEMMA TakeResultStep ==
    ASSUME IInv, NEW r \in Requesters, TakeResult(r)
    PROVE  Sane(r)' /\ CalmOK(r)'
<1>1. /\ pc[r] = "take" /\ pc'[r] = "idle"
      /\ KeptParts(r) /\ UNCHANGED <<cq, spc, calls, mem, seen>>
      /\ LastIsWrite(r)' = LastIsWrite(r)
  BY Advanced DEF TakeResult
<1>2. result'[r] = Image(inBuf[r])
  BY Mine DEF TakeResult, TypeOK
<1>4. Sane(r)'
  BY <1>1, Mine DEF Sane, KeptParts
<1>5. ASSUME Calm(r) PROVE ~LastIsWrite(r) /\ ReadOK(r)'
  <2>1. ~LastIsWrite(r) /\ ReadBusy(r) /\ data[r] = ZeroFrame
    BY <1>1, <1>5, Mine DEF WriteOK, WriteData, ReadOK, ReadIdle
  <2>2. Answered(r) /\ Answered(r)' /\ Idle(r)'
    <3>1. Answered(r)
      BY <1>1, <2>1 DEF ReadBusy, ReadPlace
    <3> QED
      BY <3>1, <1>1, Mine, PlacesKept DEF Answered
  <2>3. FreshIn(r, result[r])'
    BY <1>1, <1>2, <2>2 DEF Answered, FreshIn, Image
  <2> QED
    BY <1>1, <2>1, <2>2, <2>3 DEF ReadOK, ReadIdle, KeptParts
<1> QED
  BY <1>1, <1>4, <1>5 DEF CalmOK, Calm

-----------------------------------------------------------------------------
(* The adapters *)

LEMMA DeliverStep ==
    ASSUME IInv, NEW r \in Requesters, DeliverRequest(r)
    PROVE  Sane(r)' /\ CalmOK(r)'
<1> USE DEF poolVars, callVars, requestVars, writeVars, answerVars, serveVars
<1>1. /\ wire[r] /\ ~wire'[r] /\ header'[r] = call[r] /\ cq'[r] = Append(cq[r], "RECV")
      /\ UNCHANGED <<mem, pc, calls, call, inBuf, result, placed, data, sends, sent, spc,
                     job, word, outBuf, seen>>
  BY Mine DEF DeliverRequest, TypeOK
<1>2. call[r] # Null
  BY <1>1, Mine DEF Sane
<1>3. NoRecv(cq[r]) => AtMostOneRecv(cq'[r])
  BY <1>1, Mine, RecvAdded
<1>4. Sane(r)'
  BY <1>1, <1>2, Mine DEF Sane
<1>5. ASSUME Calm(r), LastIsWrite(r) PROVE WriteOK(r)'
  <2>1. WriteOK(r)
    BY <1>5, Mine
  <2>2. WriteServed(r)'
    BY <1>1, <1>3, <2>1 DEF WriteOK, WriteServed, AtRest
  <2> QED
    BY <1>1, <2>1, <2>2 DEF WriteOK, WriteData
<1>6. ASSUME Calm(r), ~LastIsWrite(r) PROVE ReadOK(r)'
  <2>1. ReadBusy(r) /\ data[r] = ZeroFrame
    BY <1>1, <1>6, Mine DEF ReadOK, ReadIdle, Idle
  <2>2. Asking(r) /\ pc[r] = "sending"
    BY <1>1, <2>1 DEF ReadBusy, ReadPlace, Asked, Received, Gathering, Answering, Answered, Idle
  <2>3. Asked(r)'
    BY <1>1, <1>3, <2>2 DEF Asking, Asked, AtRest
  <2> QED
    BY <1>1, <2>1, <2>2, <2>3 DEF ReadOK, ReadBusy, ReadPlace, FreshIn
<1> QED
  BY <1>1, <1>4, <1>5, <1>6 DEF CalmOK, Calm, LastIsWrite

LEMMA PlaceAtOwnerStep ==
    ASSUME IInv, NEW r \in Requesters, PlaceAtOwner(r)
    PROVE  Sane(r)' /\ CalmOK(r)'
<1> USE DEF poolVars, callVars, requestVars, writeVars, answerVars, serveVars
<1> DEFINE p == placed[r]
           f == Frame(call[r].obj, call[r].image)
<1>1. /\ pc[r] = "writing" /\ p < Size + 2 /\ placed'[r] = p + 1
      /\ data'[r] = [data[r] EXCEPT ![p] = f[p]]
      /\ UNCHANGED <<mem, pc, calls, call, inBuf, result, wire, header, cq, sends, sent, spc,
                     job, word, outBuf, seen>>
  BY Mine DEF PlaceAtOwner, TypeOK
<1>2. LastIsWrite(r) /\ call[r] \in Requests /\ call[r].obj \in Objects /\ call[r].image \in Images
  BY <1>1, Mine DEF Sane, LastIsWrite
<1>3. p \in Positions /\ data[r] \in Frames
  BY <1>1, Mine, PositionFacts DEF TypeOK, Positions
<1>4. /\ f \in Frames /\ \A i \in 1..Size : f[i] = call[r].image[i] /\ f[i] \in Contents
  BY <1>2, FrameFacts, ZenonT(60) DEF Images
<1> HIDE DEF f, p
<1>5. /\ data'[r] \in Frames /\ data'[r][p] = f[p]
      /\ \A i \in Positions : i # p => data'[r][i] = data[r][i]
  BY <1>1, <1>3, <1>4 DEF Frames
<1>6. Sane(r)'
  <2>1. \A i \in 1..Size : data'[r][i] \in Contents
    BY <1>4, <1>5, Mine, PositionFacts DEF Sane
  <2> QED
    BY <1>1, <2>1, Mine DEF Sane
<1>7. ASSUME Calm(r) PROVE WriteOK(r)'
  <2>1. WriteOK(r)
    BY <1>2, <1>7, Mine
  <2>d. \A i \in Positions : data[r][i] = IF i < p THEN f[i] ELSE Zero
    BY <1>1, <2>1 DEF WriteOK, WriteData, p, f
  <2>2. \A i \in Positions : data'[r][i] = IF i < p + 1 THEN f[i] ELSE Zero
    <3> SUFFICES ASSUME NEW i \in Positions PROVE data'[r][i] = IF i < p + 1 THEN f[i] ELSE Zero
      OBVIOUS
    <3>1. CASE i = p
      BY <3>1, <1>3, <1>5, PositionFacts
    <3>2. CASE i # p
      <4>1. i < p + 1 <=> i < p
        BY <3>2, <1>3, PositionFacts
      <4> QED
        BY <3>2, <4>1, <1>5, <2>d
    <3> QED
      BY <3>1, <3>2
  <2>3. WriteData(r)'
    BY <1>1, <2>2 DEF WriteData, p, f
  <2>4. WriteServed(r)'
    <3>1. ASSUME data[r] = f PROVE data'[r] = f
      <4>1. \A i \in Positions : data'[r][i] = f[i]
        BY <3>1, <1>5
      <4> QED
        BY <4>1, <1>4, <1>5 DEF Frames
    <3>2. Frame(call'[r].obj, call'[r].image) = f
      BY <1>1 DEF f
    <3> QED
      BY <1>1, <2>1, <3>1, <3>2 DEF WriteOK, WriteServed, AtRest, f
  <2> QED
    BY <1>1, <2>1, <2>3, <2>4 DEF WriteOK
<1> QED
  BY <1>1, <1>2, <1>6, <1>7 DEF CalmOK, Calm, LastIsWrite

LEMMA PlaceAtRequesterStep ==
    ASSUME IInv, NEW r \in Requesters, PlaceAtRequester(r)
    PROVE  Sane(r)' /\ CalmOK(r)'
<1> USE DEF poolVars, requestVars, writeVars, serveVars
<1> DEFINE p == sent[r]
           last == p = Size + 1
<1>1. /\ sends[r] > 0
      /\ inBuf'[r] = [inBuf[r] EXCEPT ![p] = outBuf[r][p]]
      /\ sent'[r] = IF last THEN 0 ELSE p + 1
      /\ sends'[r] = IF last THEN sends[r] - 1 ELSE sends[r]
      /\ UNCHANGED <<mem, pc, calls, call, result, wire, header, data, placed, cq, spc,
                     job, word, outBuf, seen>>
  BY Mine DEF PlaceAtRequester, TypeOK
<1>2. p \in Positions /\ inBuf[r] \in Frames
  BY Mine DEF TypeOK
<1>3. /\ inBuf'[r][p] = outBuf[r][p]
      /\ \A i \in Positions : i # p => inBuf'[r][i] = inBuf[r][i]
  BY <1>1, <1>2 DEF Frames
<1>4. Sane(r)'
  BY <1>1, Mine DEF Sane
<1>5. ASSUME Calm(r), LastIsWrite(r) PROVE WriteOK(r)'
  <2>1. WriteOK(r)
    BY <1>5, Mine
  <2> QED
    BY <1>1, <2>1 DEF WriteOK, WriteData, WriteServed, AtRest
<1>6. ASSUME Calm(r), ~LastIsWrite(r) PROVE ReadOK(r)'
  <2>1. ReadBusy(r) /\ data[r] = ZeroFrame
    BY <1>1, <1>6, Mine DEF ReadOK, ReadIdle, Idle
  <2>2. Answering(r) /\ pc[r] # "take"
    BY <1>1, <2>1 DEF ReadBusy, ReadPlace, Asking, Asked, Received, Gathering, Answered, Idle
  <2>3. ASSUME NEW i \in 1..Size, i < p + 1 PROVE inBuf'[r][i] \in seen[r][i]
    BY <2>2, <2>3, <1>2, <1>3, PositionFacts DEF Answering, FreshIn
  <2>4. ReadPlace(r)'
    <3>1. CASE last
      <4>1. FreshIn(r, inBuf[r])'
        BY <3>1, <2>3, <1>1, PositionFacts DEF FreshIn
      <4>2. Idle(r)'
        BY <3>1, <1>1, <2>2 DEF Answering, Idle, AtRest
      <4> QED
        BY <4>1, <4>2 DEF ReadPlace, Answered
    <3>2. CASE ~last
      <4>1. \A i \in 1..Size : i < sent'[r] => inBuf'[r][i] \in seen'[r][i]
        BY <3>2, <2>3, <1>1
      <4>2. \A i \in sent'[r]..(Size + 1) : inBuf'[r][i] = Zero
        <5>1. \A i \in (p + 1)..(Size + 1) : i \in Positions /\ i # p /\ i \in p..(Size + 1)
          BY <1>2, PositionFacts DEF Positions
        <5> QED
          BY <3>2, <5>1, <1>1, <1>3, <2>2 DEF Answering
      <4>3. Answering(r)'
        BY <3>2, <4>1, <4>2, <1>1, <2>2 DEF Answering, AtRest, FreshIn
      <4> QED
        BY <4>3, <2>2, <1>1 DEF ReadPlace
    <3> QED
      BY <3>1, <3>2
  <2> QED
    BY <1>1, <2>1, <2>4 DEF ReadOK, ReadBusy, FreshIn
<1> QED
  BY <1>1, <1>4, <1>5, <1>6 DEF CalmOK, Calm, LastIsWrite

\* A step that leaves the transfer and the pool as they are.
LEMMA SteadyStep ==
    ASSUME IInv, NEW r \in Requesters, Steady(r), UNCHANGED <<mem, seen>>, Sane(r)'
    PROVE  CalmOK(r)'
BY SteadyCalm, NothingGrows DEF IInv

LEMMA AckStep ==
    ASSUME IInv, NEW r \in Requesters, Ack(r)
    PROVE  Sane(r)' /\ CalmOK(r)'
<1>1. cq'[r] = Append(cq[r], "WRITE") /\ spc' = spc
      /\ UNCHANGED <<mem, pc, calls, call, inBuf, result, wire, header, data, placed, sends, sent,
                     job, word, outBuf, seen>>
  BY Mine DEF Ack, TypeOK, poolVars, callVars, requestVars, writeVars, serveVars
<1>2. /\ NoRecv(cq[r]) <=> NoRecv(cq'[r])
      /\ AtMostOneRecv(cq[r]) => AtMostOneRecv(cq'[r])
  BY <1>1, Mine, RecvAdded
<1>3. Sane(r)'
  BY <1>1, <1>2, Mine DEF Sane
<1>4. Steady(r)
  BY <1>1, <1>2 DEF Steady, KeptParts
<1> QED
  BY <1>1, <1>3, <1>4, SteadyStep

-----------------------------------------------------------------------------
(* The polling thread *)

LEMMA PollStep ==
    ASSUME IInv, NEW r \in Requesters, Poll(r)
    PROVE  Sane(r)' /\ CalmOK(r)'
<1> USE DEF callVars, requestVars, serveVars
<1>1. /\ cq[r] # <<>> /\ cq'[r] = Tail(cq[r]) /\ spc[r] = "poll"
      /\ spc'[r] = IF Head(cq[r]) = "RECV" THEN "recv" ELSE "poll"
      /\ UNCHANGED <<mem, pc, calls, call, inBuf, result, wire, header, data, placed, sends, sent,
                     job, word, outBuf, seen>>
  BY Mine DEF Poll, Take, Work, TypeOK
<1>2. /\ NoRecv(cq[r]) => NoRecv(cq'[r]) /\ Head(cq[r]) # "RECV"
      /\ AtMostOneRecv(cq[r]) => AtMostOneRecv(cq'[r])
      /\ AtMostOneRecv(cq[r]) /\ Head(cq[r]) = "RECV" => NoRecv(cq'[r])
      /\ Head(cq[r]) = "RECV" => ~NoRecv(cq[r])
  BY <1>1, Mine, RecvTaken
<1>3. Sane(r)'
  BY <1>1, <1>2, Mine DEF Sane
<1>4. CASE Head(cq[r]) # "RECV"
  <2>1. Steady(r)
    BY <1>1, <1>2, <1>4 DEF Steady, KeptParts
  <2> QED
    BY <1>1, <1>3, <2>1, SteadyStep
<1>5. CASE Head(cq[r]) = "RECV"
  <2>1. ASSUME Calm(r), LastIsWrite(r) PROVE WriteOK(r)'
    <3>1. WriteOK(r)
      BY <2>1, Mine
    <3>2. WriteServed(r)'
      BY <1>1, <1>2, <1>5, <3>1 DEF WriteOK, WriteServed, AtRest
    <3> QED
      BY <1>1, <3>1, <3>2 DEF WriteOK, WriteData
  <2>2. ASSUME Calm(r), ~LastIsWrite(r) PROVE ReadOK(r)'
    <3>1. ReadBusy(r) /\ data[r] = ZeroFrame
      BY <1>2, <1>5, <2>2, Mine DEF ReadOK, ReadIdle, Idle
    <3>2. Asked(r) /\ pc[r] # "take"
      BY <1>2, <1>5, <3>1 DEF ReadBusy, ReadPlace, Asking, Received, Gathering, Answering, Answered, Idle
    <3>3. Received(r)'
      BY <1>1, <1>2, <1>5, <3>2 DEF Asked, Received
    <3> QED
      BY <1>1, <3>1, <3>2, <3>3 DEF ReadOK, ReadBusy, ReadPlace, FreshIn
  <2> QED
    BY <1>1, <1>3, <2>1, <2>2 DEF CalmOK, Calm, LastIsWrite
<1> QED
  BY <1>4, <1>5

LEMMA AwaitPostedStep ==
    ASSUME IInv, NEW r \in Requesters, AwaitPosted(r)
    PROVE  Sane(r)' /\ CalmOK(r)'
<1> USE DEF callVars, requestVars, serveVars
<1>1. /\ cq[r] # <<>> /\ cq'[r] = Tail(cq[r]) /\ spc[r] = "posted" /\ spc'[r] = "poll"
      /\ UNCHANGED <<mem, pc, calls, call, inBuf, result, wire, header, data, placed, sends, sent,
                     job, word, outBuf, seen>>
  BY Mine DEF AwaitPosted, Take, Work, TypeOK
<1>2. /\ NoRecv(cq[r]) => NoRecv(cq'[r])
      /\ AtMostOneRecv(cq[r]) => AtMostOneRecv(cq'[r])
  BY <1>1, Mine, RecvTaken
<1>3. Sane(r)'
  BY <1>1, <1>2, Mine DEF Sane
<1>4. Steady(r)
  BY <1>1, <1>2 DEF Steady, KeptParts, AtRest
<1> QED
  BY <1>1, <1>3, <1>4, SteadyStep

\* Where the polling thread is tells where the call is.
LEMMA Serving ==
    ASSUME IInv, NEW r \in Requesters, Calm(r)
    PROVE  /\ spc[r] = "recv" /\ ~LastIsWrite(r) =>
                Received(r) /\ ReadBusy(r) /\ data[r] = ZeroFrame /\ pc[r] # "take"
           /\ spc[r] = "gather" =>
                ~LastIsWrite(r) /\ Gathering(r) /\ ReadBusy(r) /\ data[r] = ZeroFrame /\ pc[r] # "take"
           /\ spc[r] \in {"begin", "end", "scatter"} => LastIsWrite(r)
           /\ LastIsWrite(r) => WriteOK(r)
           /\ spc[r] = "recv" /\ LastIsWrite(r) => ~wire[r] /\ NoRecv(cq[r]) /\ header[r] = call[r]
           /\ spc[r] \in {"begin", "end", "scatter"} =>
                ~wire[r] /\ NoRecv(cq[r]) /\ header[r] = call[r] /\ job[r] = call[r]
           /\ spc[r] = "scatter" =>
                data[r] = Frame(call[r].obj, call[r].image) /\ pc[r] \in {"writing", "idle"}
<1> DEFINE busy == spc[r] \in {"recv", "gather", "begin", "end", "scatter"}
<1>0. busy => ~AtRest(r)
  BY DEF AtRest
<1>1. ASSUME busy, ~LastIsWrite(r)
      PROVE  (Received(r) \/ Gathering(r)) /\ ReadBusy(r) /\ data[r] = ZeroFrame /\ pc[r] # "take"
  BY <1>0, <1>1, Mine DEF ReadOK, ReadIdle, ReadBusy, ReadPlace, Asking, Asked, Answering, Answered, Idle
<1>2. LastIsWrite(r) => WriteOK(r)
  BY Mine
<1>3. ASSUME busy, LastIsWrite(r)
      PROVE  /\ ~wire[r] /\ NoRecv(cq[r]) /\ header[r] = call[r] /\ spc[r] # "gather"
             /\ spc[r] # "recv" => job[r] = call[r]
             /\ spc[r] = "scatter" =>
                  data[r] = Frame(call[r].obj, call[r].image) /\ pc[r] \in {"writing", "idle"}
  BY <1>0, <1>2, <1>3 DEF WriteOK, WriteServed
<1> QED
  BY <1>1, <1>2, <1>3 DEF Received, Gathering

LEMMA ServeGetStep ==
    ASSUME IInv, NEW r \in Requesters, ServeGet(r)
    PROVE  Sane(r)' /\ CalmOK(r)'
<1> USE DEF callVars, requestVars, serveVars
<1>1. /\ spc[r] = "recv" /\ spc'[r] = "gather" /\ header[r].kind = "get"
      /\ job'[r] = header[r] /\ word'[r] = 1
      /\ UNCHANGED <<mem, pc, calls, call, inBuf, result, wire, header, data, placed, sends, sent,
                     cq, seen>>
  BY Mine DEF ServeGet, Work, TypeOK
<1>2. Sane(r)'
  BY <1>1, Mine DEF Sane
<1>3. ASSUME Calm(r) PROVE ~LastIsWrite(r) /\ ReadOK(r)'
  <2>1. ~LastIsWrite(r)
    BY <1>1, <1>3, Serving DEF LastIsWrite
  <2>2. Received(r) /\ ReadBusy(r) /\ data[r] = ZeroFrame /\ pc[r] # "take"
    BY <1>1, <1>3, <2>1, Serving
  <2>3. Gathering(r)'
    BY <1>1, <2>2 DEF Received, Gathering
  <2> QED
    BY <1>1, <2>1, <2>2, <2>3 DEF ReadOK, ReadBusy, ReadPlace, FreshIn
<1> QED
  BY <1>1, <1>2, <1>3 DEF CalmOK, Calm, LastIsWrite

LEMMA GatherStep ==
    ASSUME IInv, NEW r \in Requesters, Gather(r)
    PROVE  Sane(r)' /\ CalmOK(r)'
<1> USE DEF callVars, requestVars, serveVars
<1> DEFINE w == word[r]
<1>1. /\ spc[r] = "gather" /\ spc'[r] = "gather" /\ w \in 1..Size /\ word'[r] = w + 1
      /\ outBuf'[r] = [outBuf[r] EXCEPT ![w] = mem[job[r].obj][w]]
      /\ UNCHANGED <<mem, pc, calls, call, inBuf, result, wire, header, data, placed, sends, sent,
                     cq, job, seen>>
  <2>0. TypeOK
    BY Mine
  <2>t. w \in 1..(Size + 1)
    BY <2>0 DEF TypeOK
  <2>l. w <= Size
    BY DEF Gather
  <2>1. w \in 1..Size
    BY <2>t, <2>l, PositionFacts
  <2>2. word'[r] = w + 1
    BY <2>0 DEF Gather, TypeOK
  <2>3. outBuf'[r] = [outBuf[r] EXCEPT ![w] = mem[job[r].obj][w]]
    BY <2>0 DEF Gather, TypeOK
  <2> QED
    BY <2>0, <2>1, <2>2, <2>3 DEF Gather, Work, TypeOK
<1>2. Sane(r)'
  BY <1>1, Mine DEF Sane
<1>3. ASSUME Calm(r) PROVE ~LastIsWrite(r) /\ ReadOK(r)'
  <2>1. ~LastIsWrite(r) /\ Gathering(r) /\ ReadBusy(r) /\ data[r] = ZeroFrame /\ pc[r] # "take"
    BY <1>1, <1>3, Serving
  <2>2. ASSUME NEW i \in 1..(word'[r] - 1) PROVE outBuf'[r][i] \in seen'[r][i]
    <3>0. outBuf[r] \in [Positions -> Cells] /\ i \in Positions /\ w \in Positions /\ i \in 1..w
      <4>1. outBuf[r] \in [Positions -> Cells]
        BY Mine DEF TypeOK, Frames
      <4>2. i \in 1..w
        BY <1>1, <2>2, Mine DEF TypeOK
      <4> QED
        BY <1>1, <4>1, <4>2, Mine, PositionFacts DEF TypeOK
    <3>1. CASE i = w
      <4>1. outBuf'[r][w] = mem[call[r].obj][w]
        BY <1>1, <2>1, <3>0 DEF Gathering
      <4> QED
        BY <3>1, <4>1, <1>1, <2>1 DEF ReadBusy, FreshIn
    <3>2. CASE i # w
      <4>1. i \in 1..(w - 1)
        BY <3>0, <3>2, <1>1
      <4>2. outBuf'[r][i] = outBuf[r][i]
        BY <1>1, <3>0, <3>2
      <4> QED
        BY <4>1, <4>2, <1>1, <2>1 DEF Gathering
    <3> QED
      BY <3>1, <3>2
  <2>3. Gathering(r)'
    BY <1>1, <2>1, <2>2 DEF Gathering
  <2> QED
    BY <1>1, <2>1, <2>3 DEF ReadOK, ReadBusy, ReadPlace, FreshIn
<1> QED
  BY <1>1, <1>2, <1>3 DEF CalmOK, Calm, LastIsWrite

LEMMA PostStep ==
    ASSUME IInv, NEW r \in Requesters, Post(r)
    PROVE  Sane(r)' /\ CalmOK(r)'
<1> USE DEF callVars, requestVars, serveVars
<1>1. /\ spc[r] = "gather" /\ spc'[r] = "posted" /\ word[r] = Size + 1
      /\ outBuf'[r] = [outBuf[r] EXCEPT ![Size + 1] = job[r].obj] /\ sends'[r] = sends[r] + 1
      /\ UNCHANGED <<mem, pc, calls, call, inBuf, result, wire, header, data, placed, sent,
                     cq, job, seen>>
  BY Mine DEF Post, Work, TypeOK
<1>2. Sane(r)'
  BY <1>1, Mine DEF Sane
<1>3. ASSUME Calm(r) PROVE ~LastIsWrite(r) /\ ReadOK(r)'
  <2>1. ~LastIsWrite(r) /\ Gathering(r) /\ ReadBusy(r) /\ data[r] = ZeroFrame /\ pc[r] # "take"
    BY <1>1, <1>3, Serving
  <2>2. FreshIn(r, outBuf[r])'
    <3>0. \A i \in 1..Size : i # Size + 1 /\ i \in 1..(word[r] - 1) /\ outBuf'[r][i] = outBuf[r][i]
      BY <1>1, Mine, PositionFacts DEF TypeOK, Frames
    <3> QED
      BY <3>0, <1>1, <2>1 DEF FreshIn, Gathering
  <2>3. sent'[r] = 0 /\ sends'[r] = 1 /\ inBuf'[r] = ZeroFrame
    BY <1>1, <2>1 DEF Gathering
  <2>4. /\ \A i \in 1..Size : i < sent'[r] => inBuf'[r][i] \in seen'[r][i]
        /\ \A i \in sent'[r]..(Size + 1) : inBuf'[r][i] = Zero
    BY <2>3, PositionFacts DEF ZeroFrame, Positions
  <2>5. Answering(r)'
    BY <1>1, <2>1, <2>2, <2>3, <2>4 DEF Gathering, Answering, AtRest
  <2> QED
    BY <1>1, <2>1, <2>5 DEF ReadOK, ReadBusy, ReadPlace, FreshIn
<1> QED
  BY <1>1, <1>2, <1>3 DEF CalmOK, Calm, LastIsWrite

LEMMA ServeWriteStep ==
    ASSUME IInv, NEW r \in Requesters, ServeWrite(r)
    PROVE  Sane(r)' /\ CalmOK(r)'
<1> USE DEF callVars, requestVars, serveVars
<1>1. /\ spc[r] = "recv" /\ spc'[r] = "begin" /\ header[r].kind = "write" /\ job'[r] = header[r]
      /\ UNCHANGED <<mem, pc, calls, call, inBuf, result, wire, header, data, placed, sends, sent,
                     cq, outBuf, seen>>
  BY Mine DEF ServeWrite, Work, TypeOK
<1>2. Sane(r)'
  BY <1>1, Mine DEF Sane
<1>3. ASSUME Calm(r) PROVE LastIsWrite(r) /\ WriteOK(r)'
  <2>1. LastIsWrite(r)
    BY <1>1, <1>3, Mine, Serving DEF Received, ReadBusy, Sane
  <2>2. WriteOK(r) /\ ~wire[r] /\ NoRecv(cq[r]) /\ header[r] = call[r]
    BY <1>1, <1>3, <2>1, Serving
  <2>3. WriteServed(r)'
    BY <1>1, <2>2 DEF WriteServed
  <2> QED
    BY <1>1, <2>1, <2>2, <2>3 DEF WriteOK, WriteData
<1> QED
  BY <1>1, <1>2, <1>3 DEF CalmOK, Calm, LastIsWrite

\* The end marker comes last: once it is there, the whole frame is.
LEMMA WholeFrame ==
    ASSUME IInv, NEW r \in Requesters, Calm(r), spc[r] = "end", data[r][Size + 1] = job[r].obj
    PROVE  data[r] = Frame(call[r].obj, call[r].image) /\ pc[r] \in {"writing", "idle"}
<1>1. LastIsWrite(r) /\ WriteOK(r) /\ job[r] = call[r]
  BY Serving
<1>2. /\ Frame(call[r].obj, call[r].image) \in Frames /\ data[r] \in Frames
      /\ data[r][Size + 1] # Zero
  BY <1>1, Mine, FrameFacts, PositionFacts DEF LastIsWrite, Sane, TypeOK
<1>3. data[r] # ZeroFrame
  BY <1>2, PositionFacts DEF ZeroFrame
<1>4. ASSUME pc[r] = "writing",
             \A i \in Positions :
               data[r][i] = IF i < placed[r] THEN Frame(call[r].obj, call[r].image)[i] ELSE Zero
      PROVE  data[r] = Frame(call[r].obj, call[r].image)
  <2>1. Size + 1 < placed[r]
    BY <1>2, <1>4, PositionFacts
  <2>2. \A i \in Positions : i < placed[r]
    BY <2>1, PositionFacts, Mine DEF TypeOK
  <2> QED
    BY <1>2, <1>4, <2>2 DEF Frames
<1> QED
  BY <1>1, <1>3, <1>4 DEF WriteOK, WriteData

LEMMA AwaitStep ==
    ASSUME IInv, NEW r \in Requesters, AwaitBegin(r) \/ AwaitEnd(r)
    PROVE  Sane(r)' /\ CalmOK(r)'
<1> USE DEF callVars, requestVars, serveVars
<1>1. /\ spc[r] \in {"begin", "end"} /\ spc'[r] \in {"end", "scatter"}
      /\ spc'[r] = "scatter" => spc[r] = "end" /\ data[r][Size + 1] = job[r].obj
      /\ UNCHANGED <<mem, pc, calls, call, inBuf, result, wire, header, data, placed, sends, sent,
                     cq, job, word, outBuf, seen>>
  BY Mine DEF AwaitBegin, AwaitEnd, Work, TypeOK
<1>2. Sane(r)'
  BY <1>1, Mine DEF Sane
<1>3. ASSUME Calm(r) PROVE LastIsWrite(r) /\ WriteOK(r)'
  <2>1. /\ LastIsWrite(r) /\ WriteOK(r) /\ ~wire[r] /\ NoRecv(cq[r])
        /\ header[r] = call[r] /\ job[r] = call[r]
    BY <1>1, <1>3, Serving
  <2>2. WriteServed(r)'
    BY <1>1, <1>3, <2>1, WholeFrame DEF WriteServed
  <2> QED
    BY <1>1, <2>1, <2>2 DEF WriteOK, WriteData
<1> QED
  BY <1>1, <1>2, <1>3 DEF CalmOK, Calm, LastIsWrite

LEMMA ScatterPersistStep ==
    ASSUME IInv, NEW r \in Requesters, Scatter(r) \/ Persist(r)
    PROVE  Sane(r)' /\ CalmOK(r)'
<1> USE DEF callVars, requestVars, serveVars
<1>1. /\ spc[r] = "scatter" /\ spc'[r] \in {"scatter", "poll"}
      /\ UNCHANGED <<pc, calls, call, inBuf, result, wire, header, data, placed, sends, sent, cq, job>>
  BY Mine DEF Scatter, ScatterFrom, Persist, Work, TypeOK
<1>2. Sane(r)'
  BY <1>1, Mine DEF Sane
<1>3. ASSUME Calm(r) PROVE LastIsWrite(r) /\ WriteOK(r)'
  <2>1. /\ LastIsWrite(r) /\ WriteOK(r) /\ ~wire[r] /\ NoRecv(cq[r])
        /\ header[r] = call[r] /\ job[r] = call[r]
        /\ data[r] = Frame(call[r].obj, call[r].image) /\ pc[r] \in {"writing", "idle"}
    BY <1>1, <1>3, Serving
  <2>2. WriteServed(r)'
    BY <1>1, <2>1, NoneIsAtMostOne DEF WriteServed, AtRest
  <2> QED
    BY <1>1, <2>1, <2>2 DEF WriteOK, WriteData
<1> QED
  BY <1>1, <1>2, <1>3 DEF CalmOK, Calm, LastIsWrite

-----------------------------------------------------------------------------
(* The theorems *)

\* The owner writes its own pool: every read under way sees it.
LEMMA LocalStep ==
    ASSUME IInv, LocalWrite, NEW u \in Requesters
    PROVE  Same(u) /\ Grows(u)
<1>1. Same(u)
  BY DEF LocalWrite, Same, callVars, requestVars, writeVars, answerVars, serveVars
<1>2. PICK o \in Objects, i \in 1..Size, w \in Words : Store(o, i, w)
  BY DEF LocalWrite
<1>3. Grows(u)
  BY <1>2, Mine, StoreGrows DEF Contents
<1> QED
  BY <1>1, <1>3

LEMMA StepInv == IInv /\ [Next]_vars => IInv'
<1> SUFFICES ASSUME IInv, [Next]_vars, NEW u \in Requesters PROVE Sane(u)' /\ CalmOK(u)'
  BY TypeStep DEF IInv
<1>0. TypeOK /\ SaneAll
  BY Mine
<1>1. ASSUME Same(u), Grows(u) PROVE Sane(u)' /\ CalmOK(u)'
  BY <1>1, <1>0, SameSane, SameSteady, SteadyCalm DEF IInv
<1>2. CASE LocalWrite
  BY <1>1, <1>2, LocalStep
<1>3. CASE UNCHANGED vars
  <2>1. Same(u) /\ mem' = mem /\ seen' = seen
    BY <1>3 DEF vars, Same, poolVars, callVars, requestVars, writeVars, answerVars, serveVars
  <2> QED
    BY <1>1, <2>1, NothingGrows
<1>4. ASSUME NEW r \in Requesters, Get(r) \/ Write(r) \/ RequesterStep(r) PROVE Sane(u)' /\ CalmOK(u)'
  <2>1. CASE u = r
    BY <1>4, <2>1, GetStep, WriteStep, PollSendStep, PollWrittenStep, SeeStep, TakeResultStep
      DEF RequesterStep
  <2>2. CASE u # r
    BY <1>0, <1>1, <1>4, <2>2, OthersRequester
  <2> QED
    BY <2>1, <2>2
<1>5. ASSUME NEW r \in Requesters, DeliverRequest(r) \/ PlaceAtOwner(r) \/ PlaceAtRequester(r) \/ Ack(r)
      PROVE  Sane(u)' /\ CalmOK(u)'
  <2>1. CASE u = r
    BY <1>5, <2>1, DeliverStep, PlaceAtOwnerStep, PlaceAtRequesterStep, AckStep
  <2>2. CASE u # r
    BY <1>0, <1>1, <1>5, <2>2, OthersAdapter
  <2> QED
    BY <2>1, <2>2
<1>6. ASSUME NEW r \in Requesters, PollThreadStep(r) PROVE Sane(u)' /\ CalmOK(u)'
  <2>1. CASE u = r
    BY <1>6, <2>1, PollStep, ServeGetStep, GatherStep, PostStep, AwaitPostedStep,
       ServeWriteStep, AwaitStep, ScatterPersistStep DEF PollThreadStep
  <2>2. CASE u # r
    BY <1>0, <1>1, <1>6, <2>2, OthersServer
  <2> QED
    BY <2>1, <2>2
<1> QED
  BY <1>2, <1>3, <1>4, <1>5, <1>6 DEF Next

\* For every calm requester the inductive invariant follows its call through the
\* request's send, the completion queue, the handler of the owner and the RDMA
\* write between the two markers; for every requester nothing is used before it is
\* there.
THEOREM DataInvariant == Spec => []IInv
<1>1. Init => IInv
  BY InitInv
<1>2. IInv /\ [Next]_vars => IInv'
  BY StepInv
<1> QED
  BY <1>1, <1>2, PTL DEF Spec

\* Every variable keeps its type; above all, no handler and no RDMA write ever uses
\* a request or an image that is not there.
THEOREM DataTypes == Spec => []TypeOK
<1>1. IInv => TypeOK
  BY DEF IInv
<1> QED
  BY <1>1, DataInvariant, PTL

\* SendGetPoolData of a calm requester returns only words that were in the pool
\* during the call, whatever the other requesters and the owner write meanwhile.
THEOREM ReadsFresh == Spec => []ReadFresh
<1>1. IInv => ReadFresh
  <2> SUFFICES ASSUME IInv, NEW r \in Requesters, Calm(r), pc[r] = "idle", result[r] # Null
               PROVE  \A i \in 1..Size : result[r][i] \in seen[r][i]
    BY DEF ReadFresh
  <2>1. ~LastIsWrite(r) /\ ReadIdle(r)
    BY Mine DEF WriteOK, ReadOK, ReadBusy
  <2> QED
    BY <2>1 DEF ReadIdle, FreshIn
<1> QED
  BY <1>1, DataInvariant, PTL

\* The handler of WRITEPOOLDATA starts to copy the image of a calm requester only
\* when the whole of it is in the buffer.
THEOREM CopiesComplete == Spec => []CompleteOnCopy
<1>1. IInv => CompleteOnCopy
  <2> SUFFICES ASSUME IInv, NEW r \in Requesters, Calm(r), spc[r] = "scatter"
               PROVE  job[r] = call[r] /\ Image(data[r]) = call[r].image
    BY DEF CompleteOnCopy
  <2>1. /\ LastIsWrite(r) /\ job[r] = call[r] /\ data[r] = Frame(call[r].obj, call[r].image)
    BY Serving
  <2>2. Image(Frame(call[r].obj, call[r].image)) = call[r].image
    BY <2>1, Mine, FrameFacts DEF LastIsWrite, Sane
  <2> QED
    BY <2>1, <2>2
<1> QED
  BY <1>1, DataInvariant, PTL
====
