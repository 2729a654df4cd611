---- MODULE PoolLifecycleProofs ----
(***************************************************************************)
(* The safety properties of PoolLifecycle for any nodes, files, addresses  *)
(* and number of calls, whichever calls fail.  The argument: as long as a  *)
(* node is sound, at most one caller is responsible for a pool of it, by   *)
(* holding it, by having just opened it or by closing it; what somebody is *)
(* responsible for is open, and what is open without somebody is left from *)
(* a failed call.  No step makes a node sound again that was not.          *)
(***************************************************************************)
EXTENDS PoolLifecycle, TLAPS

Opening(c, p) == pc[c] = "register" /\ call[c].pool = p
Closing(c, p) == pc[c] \in {"find", "delete", "close"} /\ call[c].op = "close" /\ call[c].pool = p
\* The call goes on to do something at an address that must still be that of its pool.
Uses(c) ==
    \/ pc[c] \in {"register", "delete", "close", "root"}
    \/ pc[c] = "data" /\ call[c].pool \in held[c]

Responsible(c, p) == p \in held[c] \/ Opening(c, p) \/ Closing(c, p)

NoneFailed(p, whats) == \A f \in failed : f.pool = p => f.what \notin whats

\* Each step belongs to certain calls.
StepsFit ==
    \A c \in Nodes :
      /\ pc[c] # "idle" => call[c] \in Calls
      /\ pc[c] \in {"open", "register"} => call[c].op \in {"create", "open"}
      /\ pc[c] = "find" => call[c].op \in {"close", "root", "data"}
      /\ pc[c] \in {"delete", "close"} => call[c].op = "close"
      /\ pc[c] = "root" => call[c].op = "root"
      /\ pc[c] = "data" => call[c].op = "data"
      /\ (pc[c] \in {"find", "root"} /\ call[c].op = "root") => call[c].pool \in held[c]
      /\ pc[c] = "register" => at[c] # Null

OneResponsible ==
    \A p \in Pools : \A c, d \in Nodes :
      Sound(NodeOf(p)) /\ Responsible(c, p) /\ Responsible(d, p) => c = d

\* Nobody holds a pool that is still being registered or already being closed.
HeldAlone ==
    \A p \in Pools : \A c \in Nodes :
      Sound(NodeOf(p)) /\ p \in held[c] => ~Opening(c, p) /\ ~Closing(c, p)

ResponsibleIsOpen ==
    \A p \in Pools : \A c \in Nodes :
      Sound(NodeOf(p)) /\ Responsible(c, p) => mapped[p] # Null

OpenIsResponsible ==
    \A p \in Pools :
      Sound(NodeOf(p)) /\ mapped[p] # Null /\ NoneFailed(p, {"create", "find", "reply"})
        => \E c \in Nodes : Responsible(c, p)

\* How far the directory is, at each step of opening and closing.
Progress ==
    \A c \in Nodes, p \in Pools :
      pc[c] # "idle" /\ call[c].pool = p /\ Sound(NodeOf(p)) =>
        /\ pc[c] \in {"register", "close"} => pool_info[p] = Null
        /\ (pc[c] = "find" /\ call[c].op = "close" /\ NoneFailed(p, {"create"})) =>
             pool_info[p] # Null
        /\ Uses(c) => mapped[p] = at[c]

\* libpmemobj maps two open pools of a node at different addresses.
OwnAddress ==
    \A p, q \in Pools :
      (NodeOf(p) = NodeOf(q) /\ mapped[p] = mapped[q] /\ mapped[p] # Null) => p = q

Connected ==
    \A c \in Nodes :
      /\ \A p \in held[c] : Known(c, NodeOf(p))
      /\ (pc[c] \notin {"idle", "crashed"} /\ ~(pc[c] = "find" /\ call[c].op = "data")) =>
           Known(c, NodeOf(call[c].pool))

IInv ==
    /\ TypeOK
    /\ StepsFit
    /\ OneResponsible
    /\ HeldAlone
    /\ ResponsibleIsOpen
    /\ OpenIsResponsible
    /\ Progress
    /\ RegisteredIsOpen
    /\ HeldCanBeFound
    /\ OwnAddress
    /\ Connected
    /\ PeerKnown

LEMMA PoolNode == \A p \in Pools : NodeOf(p) \in Nodes
  BY DEF Pools, NodeOf

\* A failure or a crash stays.
LEMMA SoundBefore ==
    ASSUME failed \subseteq failed', \A c \in Nodes : pc[c] = "crashed" => pc'[c] = "crashed"
    PROVE  /\ \A n \in Nodes : Sound(n)' => Sound(n)
           /\ \A p \in Pools : Sound(NodeOf(p))' => Sound(NodeOf(p))
           /\ \A p \in Pools, w \in SUBSET {"create", "find", "reply"} :
                NoneFailed(p, w)' => NoneFailed(p, w)
           /\ \A p \in Pools :
                (\E f \in failed : f.what = "create" /\ f.pool = p)
                  => (\E f \in failed : f.what = "create" /\ f.pool = p)'
  <1>1. \A n \in Nodes : Sound(n)' => Sound(n)
    BY DEF Sound
  <1>2. \A p \in Pools : Sound(NodeOf(p))' => Sound(NodeOf(p))
    BY PoolNode, <1>1
  <1> QED
    BY <1>1, <1>2 DEF NoneFailed

LEMMA InitIInv == Init => IInv
  <1> SUFFICES ASSUME Init PROVE IInv
    OBVIOUS
  <1>1. \A c \in Nodes : pc[c] = "idle" /\ held[c] = {}
    BY DEF Init
  <1>2. \A p \in Pools : mapped[p] = Null /\ pool_info[p] = Null
    BY DEF Init
  <1>3. TypeOK
    BY LifecycleAssumption DEF Init, TypeOK
  <1>4. \A p \in Pools : \A c \in Nodes : ~Responsible(c, p)
    BY <1>1 DEF Responsible, Opening, Closing
  <1> QED
    BY <1>1, <1>2, <1>3, <1>4 DEF IInv, StepsFit, OneResponsible, HeldAlone, ResponsibleIsOpen,
      OpenIsResponsible, Progress, RegisteredIsOpen, HeldCanBeFound, OwnAddress, Connected, PeerKnown

\* A call begins: it makes nobody responsible for anything.
LEMMA Begin ==
    ASSUME IInv, TypeOK', NEW c \in Nodes, NEW op \in {"create", "open", "root", "data"},
           NEW p \in Pools, NEW l \in {"open", "find"},
           op \in {"create", "open"} <=> l = "open",
           op = "root" => p \in held[c],
           op = "data" \/ NodeOf(p) = c \/ NodeOf(p) \in peers'[c],
           pc[c] = "idle", pc' = [pc EXCEPT ![c] = l],
           call' = [call EXCEPT ![c] = [op |-> op, pool |-> p]],
           \A d \in Nodes : peers[d] \subseteq peers'[d],
           misdialed \subseteq misdialed',
           UNCHANGED <<mapped, pool_info, at, held, failed>>
    PROVE  IInv'
  <1>a. /\ pc'[c] = l /\ call'[c].op = op /\ call'[c].pool = p /\ call'[c] \in Calls
        /\ \A d \in Nodes \ {c} : pc'[d] = pc[d] /\ call'[d] = call[d]
    BY DEF IInv, TypeOK, Calls, Ops
  <1>s. /\ \A n \in Nodes : Sound(n)' => Sound(n)
        /\ \A q \in Pools : Sound(NodeOf(q))' => Sound(NodeOf(q))
    <2>1. failed \subseteq failed' /\ \A d \in Nodes : pc[d] = "crashed" => pc'[d] = "crashed"
      BY <1>a
    <2> QED
      BY <2>1, SoundBefore
  <1>2. StepsFit'
    BY <1>a DEF IInv, StepsFit
  <1>3. \A d \in Nodes, q \in Pools : Responsible(d, q)' <=> Responsible(d, q)
    BY <1>a DEF Responsible, Opening, Closing
  <1>4. OneResponsible' /\ ResponsibleIsOpen'
    BY <1>3, <1>s DEF IInv, OneResponsible, ResponsibleIsOpen
  <1>5. HeldAlone'
    BY <1>a, <1>s DEF IInv, HeldAlone, Opening, Closing
  <1>6. OpenIsResponsible'
    BY <1>3, <1>s DEF IInv, OpenIsResponsible, NoneFailed
  <1>7. Progress'
    BY <1>a, <1>s DEF IInv, Progress, Uses, NoneFailed
  <1>8. RegisteredIsOpen'
    BY <1>s DEF IInv, RegisteredIsOpen
  <1>9. HeldCanBeFound'
    BY <1>s DEF IInv, TypeOK, HeldCanBeFound
  <1>10. OwnAddress' /\ PeerKnown'
    BY <1>a DEF IInv, OwnAddress, PeerKnown
  <1>11. Connected'
    BY <1>a DEF IInv, Connected, Known
  <1> QED
    BY <1>2, <1>4, <1>5, <1>6, <1>7, <1>8, <1>9, <1>10, <1>11 DEF IInv

\* A process ends, with no registration or closing under way.
LEMMA Crash ==
    ASSUME IInv, TypeOK', NEW c \in Nodes,
           pc[c] = "idle" \/ (pc[c] = "find" /\ call[c].op # "close"),
           pc' = [pc EXCEPT ![c] = "crashed"],
           mapped' = [p \in Pools |-> IF NodeOf(p) = c THEN Null ELSE mapped[p]],
           call'[c] \in Calls, \A d \in Nodes \ {c} : call'[d] = call[d] /\ at'[d] = at[d],
           \A d \in Nodes : peers[d] \subseteq peers'[d],
           misdialed \subseteq misdialed', c \in misdialed',
           UNCHANGED <<pool_info, held, failed>>
    PROVE  IInv'
  <1>a. /\ pc'[c] = "crashed" /\ \A d \in Nodes \ {c} : pc'[d] = pc[d]
        /\ ~Sound(c)'
    BY DEF IInv, TypeOK, Sound
  <1>s. \A q \in Pools : Sound(NodeOf(q))' => /\ Sound(NodeOf(q)) /\ NodeOf(q) # c
                                             /\ mapped'[q] = mapped[q]
    <2>1. failed \subseteq failed' /\ \A d \in Nodes : pc[d] = "crashed" => pc'[d] = "crashed"
      BY <1>a
    <2> QED
      BY <2>1, <1>a, SoundBefore
  <1>2. StepsFit'
    BY <1>a DEF IInv, StepsFit
  <1>3. \A d \in Nodes, q \in Pools : Responsible(d, q)' <=> Responsible(d, q)
    BY <1>a DEF Responsible, Opening, Closing
  <1>4. OneResponsible' /\ ResponsibleIsOpen'
    BY <1>3, <1>s DEF IInv, OneResponsible, ResponsibleIsOpen
  <1>5. HeldAlone'
    BY <1>a, <1>s DEF IInv, HeldAlone, Opening, Closing
  <1>6. OpenIsResponsible'
    BY <1>3, <1>s DEF IInv, OpenIsResponsible, NoneFailed
  <1>7. Progress'
    BY <1>a, <1>s DEF IInv, Progress, Uses, NoneFailed
  <1>8. RegisteredIsOpen'
    BY <1>s DEF IInv, RegisteredIsOpen
  <1>9. HeldCanBeFound'
    BY <1>s DEF IInv, TypeOK, HeldCanBeFound
  <1>10. OwnAddress'
    BY DEF IInv, OwnAddress
  <1>11. PeerKnown'
    BY <1>a DEF IInv, PeerKnown
  <1>12. Connected'
    BY <1>a DEF IInv, Connected, Known
  <1> QED
    BY <1>2, <1>4, <1>5, <1>6, <1>7, <1>8, <1>9, <1>10, <1>11, <1>12 DEF IInv

LEMMA StartFacts ==
    ASSUME TypeOK, NEW c \in Nodes, NEW op \in Ops, NEW p \in Pools, Start(c, op, p)
    PROVE  /\ pc[c] = "idle" /\ at' = at
           /\ call' = [call EXCEPT ![c] = [op |-> op, pool |-> p]]
           /\ [op |-> op, pool |-> p] \in Calls
           /\ call' \in [Nodes -> Calls \union {Null}]
           /\ calls' \in [Nodes -> 0..MaxCalls]
  <1>1. [op |-> op, pool |-> p] \in Calls
    BY DEF Calls
  <1>2. pc[c] = "idle" /\ calls[c] < MaxCalls /\ calls' = [calls EXCEPT ![c] = @ + 1]
    BY DEF Start
  <1>3. calls' \in [Nodes -> 0..MaxCalls]
    BY <1>2, LifecycleAssumption DEF TypeOK
  <1> QED
    BY <1>1, <1>2, <1>3 DEF Start, TypeOK

LEMMA ConnectFacts ==
    ASSUME TypeOK, NEW c \in Nodes, NEW n \in Nodes, Connect(c, n)
    PROVE  /\ peers' \in [Nodes -> SUBSET Nodes]
           /\ misdialed' \subseteq Nodes /\ misdialed \subseteq misdialed'
           /\ \A d \in Nodes : peers[d] \subseteq peers'[d]
           /\ n = c \/ n \in peers'[c] \/ c \in misdialed'
  BY DEF Connect, Known, TypeOK

LEMMA StepListen == ASSUME IInv, NEW c \in Nodes, Listen(c) PROVE IInv'
  <1>1. TypeOK'
    BY DEF IInv, Listen, TypeOK
  <1>2. StepsFit' /\ OneResponsible' /\ HeldAlone' /\ ResponsibleIsOpen' /\ OpenIsResponsible'
    BY DEF IInv, Listen, StepsFit, OneResponsible, HeldAlone, ResponsibleIsOpen, OpenIsResponsible,
      Responsible, Opening, Closing, Sound, NoneFailed
  <1>3. Progress' /\ RegisteredIsOpen' /\ HeldCanBeFound' /\ OwnAddress' /\ Connected' /\ PeerKnown'
    BY DEF IInv, Listen, Progress, RegisteredIsOpen, HeldCanBeFound, OwnAddress, Connected, PeerKnown,
      Uses, Sound, NoneFailed, Known
  <1> QED
    BY <1>1, <1>2, <1>3 DEF IInv

LEMMA StepRefused == ASSUME IInv, NEW c \in Nodes, Refused(c) PROVE IInv'
  <1>1. TypeOK'
    BY LifecycleAssumption DEF IInv, Refused, TypeOK, linkVars
  <1>2. StepsFit' /\ OneResponsible' /\ HeldAlone' /\ ResponsibleIsOpen' /\ OpenIsResponsible'
    BY DEF IInv, Refused, StepsFit, OneResponsible, HeldAlone, ResponsibleIsOpen, OpenIsResponsible,
      Responsible, Opening, Closing, Sound, NoneFailed
  <1>3. Progress' /\ RegisteredIsOpen' /\ HeldCanBeFound' /\ OwnAddress' /\ Connected' /\ PeerKnown'
    BY DEF IInv, Refused, Progress, RegisteredIsOpen, HeldCanBeFound, OwnAddress, Connected, PeerKnown,
      Uses, Sound, NoneFailed, Known, linkVars
  <1> QED
    BY <1>1, <1>2, <1>3 DEF IInv

LEMMA StepStartOpen == ASSUME IInv, NEW c \in Nodes, StartOpen(c) PROVE IInv'
  <1> PICK op \in {"create", "open"}, p \in Pools :
        Start(c, op, p) /\ Connect(c, NodeOf(p)) /\ UsePeer(c, NodeOf(p), "open")
    BY DEF StartOpen
  <1>1. UNCHANGED <<exists, pool_info, listening, held, failed>>
    BY DEF StartOpen
  <1>2. /\ pc[c] = "idle" /\ at' = at
        /\ call' = [call EXCEPT ![c] = [op |-> op, pool |-> p]]
        /\ [op |-> op, pool |-> p] \in Calls
        /\ call' \in [Nodes -> Calls \union {Null}]
        /\ calls' \in [Nodes -> 0..MaxCalls]
    BY StartFacts DEF IInv, Ops
  <1>3. /\ peers' \in [Nodes -> SUBSET Nodes]
        /\ misdialed' \subseteq Nodes /\ misdialed \subseteq misdialed'
        /\ \A d \in Nodes : peers[d] \subseteq peers'[d]
        /\ NodeOf(p) = c \/ NodeOf(p) \in peers'[c] \/ c \in misdialed'
    BY PoolNode, ConnectFacts DEF IInv
  <1>4. CASE NodeOf(p) = c \/ NodeOf(p) \in peers'[c]
    <2>1. pc' = [pc EXCEPT ![c] = "open"] /\ mapped' = mapped
      BY <1>4 DEF UsePeer, Goto
    <2>2. TypeOK'
      BY <1>1, <1>2, <1>3, <2>1 DEF IInv, TypeOK
    <2> QED
      BY <1>1, <1>2, <1>3, <1>4, <2>1, <2>2, Begin
  <1>5. CASE ~(NodeOf(p) = c \/ NodeOf(p) \in peers'[c])
    <2>1. /\ pc' = [pc EXCEPT ![c] = "crashed"]
          /\ mapped' = [q \in Pools |-> IF NodeOf(q) = c THEN Null ELSE mapped[q]]
      BY <1>5 DEF UsePeer, Goto
    <2>2. TypeOK'
      BY <1>1, <1>2, <1>3, <2>1 DEF IInv, TypeOK
    <2>3. call'[c] \in Calls /\ \A d \in Nodes \ {c} : call'[d] = call[d] /\ at'[d] = at[d]
      BY <1>2 DEF IInv, TypeOK
    <2> QED
      BY <1>1, <1>2, <1>3, <1>5, <2>1, <2>2, <2>3, Crash
  <1> QED
    BY <1>4, <1>5

LEMMA StepStartUse == ASSUME IInv, NEW c \in Nodes, StartUse(c) PROVE IInv'
  <1> PICK op \in {"root", "data"}, p \in Pools : Start(c, op, p) /\ (op = "root" => p \in held[c])
    BY DEF StartUse
  <1>1. /\ UNCHANGED <<exists, mapped, pool_info, linkVars, held, failed>>
        /\ pc' = [pc EXCEPT ![c] = "find"]
    BY DEF StartUse, Goto
  <1>2. /\ pc[c] = "idle" /\ at' = at
        /\ call' = [call EXCEPT ![c] = [op |-> op, pool |-> p]]
        /\ call' \in [Nodes -> Calls \union {Null}]
        /\ calls' \in [Nodes -> 0..MaxCalls]
    BY StartFacts DEF IInv, Ops
  <1>3. TypeOK'
    BY <1>1, <1>2 DEF IInv, TypeOK, linkVars
  <1>4. op = "data" \/ NodeOf(p) = c \/ NodeOf(p) \in peers'[c]
    BY <1>1 DEF IInv, Connected, Known, linkVars
  <1>5. (\A d \in Nodes : peers[d] \subseteq peers'[d]) /\ misdialed \subseteq misdialed'
    BY <1>1 DEF linkVars
  <1> QED
    BY <1>1, <1>2, <1>3, <1>4, <1>5, Begin

LEMMA StepStartClose == ASSUME IInv, NEW c \in Nodes, StartClose(c) PROVE IInv'
  <1> PICK p \in held[c] : /\ Start(c, "close", p)
                          /\ held' = [held EXCEPT ![c] = @ \ {p}]
                          /\ Connect(c, NodeOf(p))
                          /\ UsePeer(c, NodeOf(p), "find")
    BY DEF StartClose
  <1>c. p \in Pools /\ p \in held[c]
    BY DEF IInv, TypeOK
  <1>h. /\ UNCHANGED <<exists, pool_info, listening, failed>>
        /\ held' \in [Nodes -> SUBSET Pools]
        /\ held'[c] = held[c] \ {p}
        /\ \A d \in Nodes \ {c} : held'[d] = held[d]
    BY DEF StartClose, IInv, TypeOK
  <1>k. NodeOf(p) = c \/ NodeOf(p) \in peers[c]
    BY <1>c DEF IInv, Connected, Known
  <1>b. /\ peers' \in [Nodes -> SUBSET Nodes]
        /\ misdialed' \subseteq Nodes /\ misdialed \subseteq misdialed'
        /\ \A d \in Nodes : peers[d] \subseteq peers'[d]
    BY <1>c, PoolNode, ConnectFacts DEF IInv
  <1>m. mapped' = mapped /\ pc' = [pc EXCEPT ![c] = "find"]
    BY <1>b, <1>k DEF UsePeer, Goto
  <1>d. /\ pc[c] = "idle" /\ at' = at
        /\ call' = [call EXCEPT ![c] = [op |-> "close", pool |-> p]]
        /\ [op |-> "close", pool |-> p] \in Calls
        /\ call' \in [Nodes -> Calls \union {Null}]
        /\ calls' \in [Nodes -> 0..MaxCalls]
    BY <1>c, StartFacts DEF IInv, Ops
  <1>a. /\ pc'[c] = "find" /\ call'[c] \in Calls /\ call'[c].op = "close" /\ call'[c].pool = p
        /\ \A d \in Nodes \ {c} : pc'[d] = pc[d] /\ call'[d] = call[d]
    BY <1>d, <1>m DEF IInv, TypeOK
  <1>s. \A q \in Pools : Sound(NodeOf(q))' => Sound(NodeOf(q))
    <2>1. failed \subseteq failed' /\ \A d \in Nodes : pc[d] = "crashed" => pc'[d] = "crashed"
      BY <1>a, <1>d, <1>h
    <2> QED
      BY <2>1, SoundBefore
  <1>1. TypeOK'
    BY <1>h, <1>b, <1>m, <1>d DEF IInv, TypeOK
  <1>2. StepsFit'
    BY <1>a, <1>d, <1>h DEF IInv, StepsFit
  <1>3. \A d \in Nodes, q \in Pools : Responsible(d, q)' <=> Responsible(d, q)
    BY <1>a, <1>c, <1>d, <1>h DEF Responsible, Opening, Closing
  <1>4. OneResponsible' /\ ResponsibleIsOpen'
    BY <1>3, <1>s, <1>m DEF IInv, OneResponsible, ResponsibleIsOpen
  <1>5. HeldAlone'
    BY <1>a, <1>c, <1>d, <1>h, <1>s DEF IInv, HeldAlone, OneResponsible, Responsible, Opening, Closing
  <1>6. OpenIsResponsible'
    BY <1>3, <1>s, <1>m, <1>h DEF IInv, OpenIsResponsible, NoneFailed
  <1>7. Progress'
    <2> SUFFICES ASSUME NEW d \in Nodes, NEW q \in Pools, pc'[d] # "idle", call'[d].pool = q,
                        Sound(NodeOf(q))'
                 PROVE  /\ pc'[d] \in {"register", "close"} => pool_info'[q] = Null
                        /\ (pc'[d] = "find" /\ call'[d].op = "close" /\ NoneFailed(q, {"create"})') =>
                             pool_info'[q] # Null
                        /\ Uses(d)' => mapped'[q] = at'[d]
      BY DEF Progress
    <2>1. CASE d = c
      <3>1. q = p /\ Sound(NodeOf(p))
        BY <2>1, <1>a, <1>s, <1>c
      <3>2. pool_info[p] # Null \/ \E f \in failed : f.what = "create" /\ f.pool = p
        BY <3>1, <1>c DEF IInv, HeldCanBeFound
      <3> QED
        BY <2>1, <3>1, <3>2, <1>a, <1>h DEF Uses, NoneFailed
    <2>2. CASE d # c
      BY <2>2, <1>a, <1>d, <1>h, <1>m, <1>s DEF IInv, Progress, Uses, NoneFailed
    <2> QED
      BY <2>1, <2>2
  <1>8. RegisteredIsOpen'
    BY <1>h, <1>m, <1>s DEF IInv, RegisteredIsOpen
  <1>9. HeldCanBeFound'
    BY <1>h, <1>s DEF IInv, TypeOK, HeldCanBeFound
  <1>10. OwnAddress'
    BY <1>m DEF IInv, OwnAddress
  <1>11. PeerKnown'
    BY <1>a, <1>b DEF IInv, PeerKnown
  <1>12. Connected'
    BY <1>a, <1>b, <1>h, <1>k DEF IInv, Connected, Known
  <1> QED
    BY <1>1, <1>2, <1>4, <1>5, <1>6, <1>7, <1>8, <1>9, <1>10, <1>11, <1>12 DEF IInv

\* A call returns: its caller is no longer responsible for a pool it was closing, and that
\* is so only after a failure.
LEMMA Ends ==
    ASSUME IInv, TypeOK', NEW c \in Nodes, pc[c] \in {"open", "find", "root", "data"}, Return(c),
           failed \subseteq failed',
           \A p \in Pools : (Closing(c, p) /\ Sound(NodeOf(p))) =>
                            ~NoneFailed(p, {"create", "find", "reply"})',
           UNCHANGED <<mapped, pool_info, peers, misdialed, held>>
    PROVE  IInv'
  <1>a. /\ pc'[c] = "idle"
        /\ \A d \in Nodes \ {c} : pc'[d] = pc[d] /\ call'[d] = call[d] /\ at'[d] = at[d]
    BY DEF Return, Goto, IInv, TypeOK
  <1>s. /\ \A q \in Pools : Sound(NodeOf(q))' => Sound(NodeOf(q))
        /\ \A q \in Pools, w \in SUBSET {"create", "find", "reply"} :
             NoneFailed(q, w)' => NoneFailed(q, w)
        /\ \A q \in Pools :
             (\E f \in failed : f.what = "create" /\ f.pool = q)
               => (\E f \in failed : f.what = "create" /\ f.pool = q)'
    <2>1. \A d \in Nodes : pc[d] = "crashed" => pc'[d] = "crashed"
      BY <1>a
    <2> QED
      BY <2>1, SoundBefore
  <1>2. StepsFit'
    BY <1>a DEF IInv, StepsFit
  <1>3. \A d \in Nodes, q \in Pools :
          /\ Responsible(d, q)' => Responsible(d, q)
          /\ Responsible(d, q) => Responsible(d, q)' \/ Closing(c, q)
    BY <1>a DEF Responsible, Opening, Closing
  <1>4. OneResponsible' /\ ResponsibleIsOpen'
    BY <1>3, <1>s DEF IInv, OneResponsible, ResponsibleIsOpen
  <1>5. HeldAlone'
    BY <1>a, <1>s DEF IInv, HeldAlone, Opening, Closing
  <1>6. OpenIsResponsible'
    <2> SUFFICES ASSUME NEW q \in Pools, Sound(NodeOf(q))', mapped'[q] # Null,
                        NoneFailed(q, {"create", "find", "reply"})'
                 PROVE  \E d \in Nodes : Responsible(d, q)'
      BY DEF OpenIsResponsible
    <2>1. Sound(NodeOf(q)) /\ NoneFailed(q, {"create", "find", "reply"}) /\ ~Closing(c, q)
      BY <1>s
    <2> QED
      BY <2>1, <1>3 DEF IInv, OpenIsResponsible
  <1>7. Progress'
    <2> SUFFICES ASSUME NEW d \in Nodes, NEW q \in Pools, pc'[d] # "idle", call'[d].pool = q,
                        Sound(NodeOf(q))'
                 PROVE  /\ pc'[d] \in {"register", "close"} => pool_info'[q] = Null
                        /\ (pc'[d] = "find" /\ call'[d].op = "close" /\ NoneFailed(q, {"create"})') =>
                             pool_info'[q] # Null
                        /\ Uses(d)' => mapped'[q] = at'[d]
      BY DEF Progress
    <2>1. d # c /\ Sound(NodeOf(q)) /\ (NoneFailed(q, {"create"})' => NoneFailed(q, {"create"}))
      BY <1>a, <1>s
    <2> QED
      BY <2>1, <1>a DEF IInv, Progress, Uses
  <1>8. RegisteredIsOpen'
    BY <1>s DEF IInv, RegisteredIsOpen
  <1>9. HeldCanBeFound'
    BY <1>s DEF IInv, TypeOK, HeldCanBeFound
  <1>10. OwnAddress' /\ PeerKnown'
    BY <1>a DEF IInv, OwnAddress, PeerKnown
  <1>11. Connected'
    BY <1>a DEF IInv, Connected, Known
  <1> QED
    BY <1>2, <1>4, <1>5, <1>6, <1>7, <1>8, <1>9, <1>10, <1>11 DEF IInv

LEMMA ReturnTypes ==
    ASSUME TypeOK, NEW c \in Nodes, Return(c)
    PROVE  /\ pc' \in [Nodes -> {"idle", "open", "register", "find", "delete", "close", "root", "data",
                                 "crashed"}]
           /\ call' \in [Nodes -> Calls \union {Null}]
           /\ at' \in [Nodes -> Vas \union {Null}]
  BY DEF TypeOK, Return, Goto

LEMMA StepEnds ==
    ASSUME IInv, NEW c \in Nodes,
           MapFails(c) \/ Use(c) \/ NotFound(c) \/ OwnerRefuses(c) \/ FindFails(c)
    PROVE  IInv'
  <1>1. /\ Return(c) /\ pc[c] \in {"open", "find", "root", "data"}
        /\ UNCHANGED <<exists, mapped, pool_info, linkVars, calls, held>>
    BY DEF MapFails, Use, NotFound, OwnerRefuses, FindFails, Works
  <1>2. failed' = failed \/ (FindFails(c) /\ failed' = failed \union Lost(c, "find"))
    BY DEF MapFails, Use, NotFound, OwnerRefuses, FindFails
  <1>3. call[c] \in Calls
    BY <1>1 DEF IInv, StepsFit
  <1>4. Lost(c, "find") \subseteq Failures
    BY <1>3 DEF Lost, Failures, Calls
  <1>5. failed \subseteq failed' /\ failed' \subseteq Failures
    BY <1>2, <1>4 DEF IInv, TypeOK
  <1>6. TypeOK'
    BY <1>1, <1>5, ReturnTypes DEF IInv, TypeOK, linkVars
  <1>7. ASSUME NEW p \in Pools, Closing(c, p), Sound(NodeOf(p))
        PROVE  ~NoneFailed(p, {"create", "find", "reply"})'
    <2>1. pc[c] = "find" /\ call[c].op = "close" /\ call[c].pool = p
      BY <1>1, <1>7 DEF Closing
    <2>2. CASE NotFound(c)
      <3>1. pool_info[p] = Null
        BY <2>1, <2>2 DEF NotFound
      <3>2. ~NoneFailed(p, {"create"})
        BY <2>1, <3>1, <1>7 DEF IInv, Progress
      <3> QED
        BY <3>2, <1>5 DEF NoneFailed
    <2>3. CASE FindFails(c)
      <3>1. failed' = failed \union Lost(c, "find")
        BY <2>1, <2>3 DEF FindFails
      <3>2. [what |-> "find", pool |-> p, by |-> c] \in failed'
        BY <2>1, <3>1 DEF Lost
      <3> QED
        BY <3>2 DEF NoneFailed
    <2> QED
      BY <2>1, <2>2, <2>3 DEF MapFails, Use, OwnerRefuses, Works
  <1> QED
    BY <1>1, <1>5, <1>6, <1>7, Ends DEF linkVars

LEMMA StepMap == ASSUME IInv, NEW c \in Nodes, Map(c) PROVE IInv'
  <1> DEFINE p == call[c].pool
  <1>0. pc[c] = "open" /\ p \in Pools /\ call[c] \in Calls
    BY DEF IInv, StepsFit, Calls, Map, Works
  <1>a. PICK va \in Vas \ {mapped[q] : q \in {q \in Pools : NodeOf(q) = NodeOf(p)}} :
          mapped' = [mapped EXCEPT ![p] = va] /\ at' = [at EXCEPT ![c] = va]
    BY DEF Map
  <1>b. /\ pc' = [pc EXCEPT ![c] = "register"]
        /\ mapped[p] = Null
        /\ UNCHANGED <<pool_info, linkVars, call, calls, held, failed>>
    BY DEF Map, Goto
  <1>c. /\ mapped'[p] = va /\ va # Null
        /\ \A q \in Pools \ {p} : mapped'[q] = mapped[q]
        /\ \A q \in Pools : NodeOf(q) = NodeOf(p) => mapped[q] # va
        /\ at'[c] = va /\ pc'[c] = "register"
        /\ \A d \in Nodes \ {c} : pc'[d] = pc[d] /\ at'[d] = at[d]
    BY <1>0, <1>a, <1>b, LifecycleAssumption DEF IInv, TypeOK
  <1>s. \A q \in Pools : Sound(NodeOf(q))' => Sound(NodeOf(q))
    <2>1. failed \subseteq failed' /\ \A d \in Nodes : pc[d] = "crashed" => pc'[d] = "crashed"
      BY <1>0, <1>b, <1>c
    <2> QED
      BY <2>1, SoundBefore
  <1>d. Sound(NodeOf(p)) => \A d \in Nodes : ~Responsible(d, p)
    BY <1>0, <1>b DEF IInv, ResponsibleIsOpen
  <1>e. Sound(NodeOf(p)) => pool_info[p] = Null
    BY <1>0, <1>b, LifecycleAssumption DEF IInv, TypeOK, RegisteredIsOpen, Infos
  <1>1. TypeOK'
    BY <1>0, <1>a, <1>b DEF IInv, TypeOK, Map, linkVars
  <1>2. StepsFit'
    BY <1>0, <1>b, <1>c DEF IInv, StepsFit
  <1>3. \A d \in Nodes, q \in Pools : Responsible(d, q)' <=> (Responsible(d, q) \/ (d = c /\ q = p))
    BY <1>0, <1>b, <1>c DEF Responsible, Opening, Closing
  <1>4. OneResponsible' /\ ResponsibleIsOpen'
    BY <1>0, <1>3, <1>c, <1>d, <1>s DEF IInv, OneResponsible, ResponsibleIsOpen
  <1>5. HeldAlone'
    BY <1>0, <1>b, <1>c, <1>d, <1>s DEF IInv, HeldAlone, Responsible, Opening, Closing
  <1>6. OpenIsResponsible'
    BY <1>0, <1>3, <1>b, <1>c, <1>s DEF IInv, OpenIsResponsible, NoneFailed
  <1>7. Progress'
    <2> SUFFICES ASSUME NEW d \in Nodes, NEW q \in Pools, pc'[d] # "idle", call'[d].pool = q,
                        Sound(NodeOf(q))'
                 PROVE  /\ pc'[d] \in {"register", "close"} => pool_info'[q] = Null
                        /\ (pc'[d] = "find" /\ call'[d].op = "close" /\ NoneFailed(q, {"create"})') =>
                             pool_info'[q] # Null
                        /\ Uses(d)' => mapped'[q] = at'[d]
      BY DEF Progress
    <2>1. CASE d = c
      BY <2>1, <1>0, <1>b, <1>c, <1>e, <1>s DEF Uses
    <2>2. CASE d # c
      <3>1. /\ pc'[d] = pc[d] /\ at'[d] = at[d] /\ call'[d] = call[d] /\ Sound(NodeOf(q))
            /\ held' = held /\ pool_info' = pool_info /\ failed' = failed
        BY <2>2, <1>b, <1>c, <1>s
      <3>2. Uses(d) => Responsible(d, q)
        BY <3>1 DEF IInv, StepsFit, Uses, Responsible, Opening, Closing
      <3>3. Uses(d) => mapped'[q] = mapped[q]
        BY <3>1, <3>2, <1>0, <1>c, <1>d
      <3> QED
        BY <3>1, <3>3 DEF IInv, Progress, Uses, NoneFailed
    <2> QED
      BY <2>1, <2>2
  <1>8. RegisteredIsOpen'
    BY <1>0, <1>b, <1>c, <1>e, <1>s DEF IInv, RegisteredIsOpen
  <1>9. HeldCanBeFound'
    BY <1>b, <1>s DEF IInv, TypeOK, HeldCanBeFound
  <1>10. OwnAddress' /\ PeerKnown'
    BY <1>0, <1>b, <1>c DEF IInv, OwnAddress, PeerKnown, linkVars
  <1>11. Connected'
    BY <1>0, <1>b, <1>c DEF IInv, Connected, Known, linkVars
  <1> QED
    BY <1>1, <1>2, <1>4, <1>5, <1>6, <1>7, <1>8, <1>9, <1>10, <1>11 DEF IInv

LEMMA StepRegister == ASSUME IInv, NEW c \in Nodes, Register(c) PROVE IInv'
  <1> DEFINE p == call[c].pool
  <1>0. pc[c] = "register" /\ p \in Pools /\ call[c] \in Calls
    BY DEF IInv, StepsFit, Calls, Register, Works
  <1> PICK taken \in BOOLEAN, told \in BOOLEAN :
        /\ RegisterAs(c, taken, told)
        /\ failed' = failed \union (IF taken THEN {} ELSE Lost(c, "create"))
                            \union (IF told THEN {} ELSE Lost(c, "reply"))
    BY DEF Register
  <1>a. /\ Return(c)
        /\ held' = IF told THEN [held EXCEPT ![c] = @ \union {p}] ELSE held
        /\ UNCHANGED <<exists, mapped, linkVars, calls>>
    BY DEF RegisterAs
  <1>b. at[c] \in Vas
    BY <1>0 DEF IInv, StepsFit, TypeOK
  <1>c. pool_info' = IF taken /\ pool_info[p] = Null
                     THEN [pool_info EXCEPT ![p] = [node |-> NodeOf(p), va |-> at[c]]]
                     ELSE pool_info
    BY DEF RegisterAs
  <1>d. [node |-> NodeOf(p), va |-> at[c]] \in Infos /\ [node |-> NodeOf(p), va |-> at[c]] # Null
    BY <1>0, <1>b, PoolNode, LifecycleAssumption DEF Infos
  <1>e. /\ taken => pool_info'[p] # Null
        /\ taken /\ pool_info[p] = Null => pool_info'[p] = [node |-> NodeOf(p), va |-> at[c]]
        /\ ~(taken /\ pool_info[p] = Null) => pool_info'[p] = pool_info[p]
        /\ \A q \in Pools \ {p} : pool_info'[q] = pool_info[q]
    BY <1>0, <1>c, <1>d DEF IInv, TypeOK
  <1>f. /\ pc'[c] = "idle" /\ held'[c] = IF told THEN held[c] \union {p} ELSE held[c]
        /\ \A d \in Nodes \ {c} : pc'[d] = pc[d] /\ held'[d] = held[d] /\ call'[d] = call[d] /\ at'[d] = at[d]
    BY <1>0, <1>a DEF IInv, TypeOK, Return, Goto
  <1>g. Lost(c, "create") \subseteq Failures /\ Lost(c, "reply") \subseteq Failures
    BY <1>0 DEF Lost, Failures, Calls
  <1>h. /\ failed \subseteq failed' /\ failed' \subseteq Failures
        /\ ~taken => \E f \in failed' : f.what = "create" /\ f.pool = p
        /\ ~told => \E f \in failed' : f.what = "reply" /\ f.pool = p
    <2>1. failed \subseteq failed' /\ failed' \subseteq Failures
      BY <1>g DEF IInv, TypeOK
    <2>2. ASSUME ~taken PROVE \E f \in failed' : f.what = "create" /\ f.pool = p
      <3>1. [what |-> "create", pool |-> p, by |-> c] \in failed'
        BY <2>2 DEF Lost
      <3> QED
        BY <3>1
    <2>3. ASSUME ~told PROVE \E f \in failed' : f.what = "reply" /\ f.pool = p
      <3>1. [what |-> "reply", pool |-> p, by |-> c] \in failed'
        BY <2>3 DEF Lost
      <3> QED
        BY <3>1
    <2> QED
      BY <2>1, <2>2, <2>3
  <1>s. /\ \A q \in Pools : Sound(NodeOf(q))' => Sound(NodeOf(q))
        /\ \A q \in Pools, w \in SUBSET {"create", "find", "reply"} :
             NoneFailed(q, w)' => NoneFailed(q, w)
        /\ \A q \in Pools :
             (\E f \in failed : f.what = "create" /\ f.pool = q)
               => (\E f \in failed : f.what = "create" /\ f.pool = q)'
    <2>1. \A d \in Nodes : pc[d] = "crashed" => pc'[d] = "crashed"
      BY <1>0, <1>f
    <2> QED
      BY <2>1, <1>h, SoundBefore
  <1>r. Responsible(c, p) /\ (Sound(NodeOf(p)) => pool_info[p] = Null /\ mapped[p] = at[c])
    BY <1>0 DEF Responsible, Opening, IInv, Progress, Uses
  <1>1. TypeOK'
    <2>1. pool_info' \in [Pools -> Infos \union {Null}]
      BY <1>0, <1>c, <1>d DEF IInv, TypeOK
    <2>2. held' \in [Nodes -> SUBSET Pools]
      BY <1>0, <1>a DEF IInv, TypeOK
    <2> QED
      BY <2>1, <2>2, <1>a, <1>h, ReturnTypes DEF IInv, TypeOK, linkVars
  <1>2. StepsFit'
    BY <1>f DEF IInv, StepsFit
  <1>3. \A d \in Nodes, q \in Pools :
          /\ Responsible(d, q)' => Responsible(d, q)
          /\ Responsible(d, q) => Responsible(d, q)' \/ (~told /\ q = p)
    BY <1>0, <1>r, <1>f DEF Responsible, Opening, Closing
  <1>4. OneResponsible' /\ ResponsibleIsOpen'
    BY <1>3, <1>a, <1>s DEF IInv, OneResponsible, ResponsibleIsOpen
  <1>5. HeldAlone'
    <2> SUFFICES ASSUME NEW q \in Pools, NEW d \in Nodes, Sound(NodeOf(q))', q \in held'[d]
                 PROVE  ~Opening(d, q)' /\ ~Closing(d, q)'
      BY DEF HeldAlone
    <2> QED
      BY <1>f, <1>s DEF IInv, HeldAlone, Opening, Closing
  <1>6. OpenIsResponsible'
    <2> SUFFICES ASSUME NEW q \in Pools, Sound(NodeOf(q))', mapped'[q] # Null,
                        NoneFailed(q, {"create", "find", "reply"})'
                 PROVE  \E d \in Nodes : Responsible(d, q)'
      BY DEF OpenIsResponsible
    <2>1. Sound(NodeOf(q)) /\ NoneFailed(q, {"create", "find", "reply"})
      BY <1>s
    <2>2. ~(~told /\ q = p)
      BY <1>h DEF NoneFailed
    <2> QED
      BY <2>1, <2>2, <1>3, <1>a DEF IInv, OpenIsResponsible
  <1>7. Progress'
    <2> SUFFICES ASSUME NEW d \in Nodes, NEW q \in Pools, pc'[d] # "idle", call'[d].pool = q,
                        Sound(NodeOf(q))'
                 PROVE  /\ pc'[d] \in {"register", "close"} => pool_info'[q] = Null
                        /\ (pc'[d] = "find" /\ call'[d].op = "close" /\ NoneFailed(q, {"create"})') =>
                             pool_info'[q] # Null
                        /\ Uses(d)' => mapped'[q] = at'[d]
      BY DEF Progress
    <2>1. d # c /\ Sound(NodeOf(q)) /\ (NoneFailed(q, {"create"})' => NoneFailed(q, {"create"}))
      BY <1>f, <1>s
    <2>2. pc'[d] = pc[d] /\ at'[d] = at[d] /\ call'[d] = call[d] /\ held'[d] = held[d] /\ mapped' = mapped
      BY <2>1, <1>f, <1>a
    <2>3. pc[d] = "close" \/ pc[d] = "register" => Responsible(d, q)
      BY <2>2 DEF IInv, StepsFit, Responsible, Opening, Closing
    <2>4. pc[d] \in {"close", "register"} => pool_info'[q] = pool_info[q]
      BY <2>1, <2>3, <1>0, <1>r, <1>e DEF IInv, OneResponsible
    <2>5. pool_info[q] # Null => pool_info'[q] # Null
      BY <1>0, <1>e
    <2> QED
      BY <2>1, <2>2, <2>4, <2>5 DEF IInv, Progress, Uses
  <1>8. RegisteredIsOpen'
    BY <1>0, <1>a, <1>e, <1>r, <1>s DEF IInv, RegisteredIsOpen
  <1>9. HeldCanBeFound'
    <2> SUFFICES ASSUME NEW d \in Nodes, NEW q \in Pools, q \in held'[d]
                 PROVE  \/ pool_info'[q] # Null
                        \/ (\E f \in failed : f.what = "create" /\ f.pool = q)'
                        \/ ~Sound(NodeOf(q))'
      BY <1>1 DEF TypeOK, HeldCanBeFound
    <2>1. CASE q = p
      BY <2>1, <1>e, <1>h
    <2>2. CASE q # p
      <3>1. q \in held[d]
        BY <2>2, <1>f
      <3> QED
        BY <2>2, <3>1, <1>e, <1>s DEF IInv, HeldCanBeFound
    <2> QED
      BY <2>1, <2>2
  <1>10. OwnAddress' /\ PeerKnown'
    BY <1>a, <1>f DEF IInv, OwnAddress, PeerKnown, linkVars
  <1>11. Connected'
    BY <1>0, <1>a, <1>f DEF IInv, Connected, Known, linkVars
  <1> QED
    BY <1>1, <1>2, <1>4, <1>5, <1>6, <1>7, <1>8, <1>9, <1>10, <1>11 DEF IInv

LEMMA StepDelete == ASSUME IInv, NEW c \in Nodes, Delete(c) PROVE IInv'
  <1> DEFINE p == call[c].pool
  <1>0. pc[c] = "delete" /\ p \in Pools /\ call[c] \in Calls /\ call[c].op = "close"
    BY DEF IInv, StepsFit, Calls, Delete, Works
  <1>a. /\ pc' = [pc EXCEPT ![c] = "close"]
        /\ UNCHANGED <<exists, mapped, linkVars, call, calls, at, held>>
        /\ \/ pool_info' = [pool_info EXCEPT ![p] = Null] /\ failed' = failed
           \/ pool_info' = pool_info /\ failed' = failed \union Lost(c, "delete")
    BY DEF Delete, Goto
  <1>b. Responsible(c, p)
    BY <1>0 DEF Responsible, Closing
  <1>c. /\ pc'[c] = "close"
        /\ \A d \in Nodes \ {c} : pc'[d] = pc[d]
        /\ \A q \in Pools \ {p} : pool_info'[q] = pool_info[q]
        /\ pool_info'[p] \in {pool_info[p], Null}
    BY <1>0, <1>a DEF IInv, TypeOK
  <1>d. failed \subseteq failed' /\ failed' \subseteq Failures
    <2>1. Lost(c, "delete") \subseteq Failures
      BY <1>0 DEF Lost, Failures, Calls
    <2> QED
      BY <2>1, <1>a DEF IInv, TypeOK
  <1>s. /\ \A q \in Pools : Sound(NodeOf(q))' => Sound(NodeOf(q))
        /\ \A q \in Pools, w \in SUBSET {"create", "find", "reply"} :
             NoneFailed(q, w)' => NoneFailed(q, w)
        /\ \A q \in Pools :
             (\E f \in failed : f.what = "create" /\ f.pool = q)
               => (\E f \in failed : f.what = "create" /\ f.pool = q)'
    <2>1. \A d \in Nodes : pc[d] = "crashed" => pc'[d] = "crashed"
      BY <1>0, <1>c
    <2> QED
      BY <2>1, <1>d, SoundBefore
  <1>e. Sound(NodeOf(p))' => pool_info'[p] = Null
    <2>1. CASE pool_info' = [pool_info EXCEPT ![p] = Null]
      BY <2>1, <1>0 DEF IInv, TypeOK
    <2>2. CASE failed' = failed \union Lost(c, "delete")
      <3>1. [what |-> "delete", pool |-> p, by |-> c] \in failed'
        BY <2>2 DEF Lost
      <3>2. ~Sound(NodeOf(p))'
        BY <3>1, <1>a DEF Sound
      <3> QED
        BY <3>2
    <2> QED
      BY <2>1, <2>2, <1>a
  <1>1. TypeOK'
    BY <1>0, <1>a, <1>d DEF IInv, TypeOK, linkVars
  <1>2. StepsFit'
    BY <1>0, <1>a, <1>c DEF IInv, StepsFit
  <1>3. \A d \in Nodes, q \in Pools : Responsible(d, q)' <=> Responsible(d, q)
    BY <1>0, <1>a, <1>c DEF Responsible, Opening, Closing
  <1>4. OneResponsible' /\ ResponsibleIsOpen'
    BY <1>3, <1>a, <1>s DEF IInv, OneResponsible, ResponsibleIsOpen
  <1>5. HeldAlone'
    BY <1>0, <1>a, <1>c, <1>s DEF IInv, HeldAlone, Opening, Closing
  <1>6. OpenIsResponsible'
    <2> SUFFICES ASSUME NEW q \in Pools, Sound(NodeOf(q))', mapped'[q] # Null,
                        NoneFailed(q, {"create", "find", "reply"})'
                 PROVE  \E d \in Nodes : Responsible(d, q)'
      BY DEF OpenIsResponsible
    <2>1. Sound(NodeOf(q)) /\ NoneFailed(q, {"create", "find", "reply"})
      BY <1>s
    <2> QED
      BY <2>1, <1>3, <1>a DEF IInv, OpenIsResponsible
  <1>7. Progress'
    <2> SUFFICES ASSUME NEW d \in Nodes, NEW q \in Pools, pc'[d] # "idle", call'[d].pool = q,
                        Sound(NodeOf(q))'
                 PROVE  /\ pc'[d] \in {"register", "close"} => pool_info'[q] = Null
                        /\ (pc'[d] = "find" /\ call'[d].op = "close" /\ NoneFailed(q, {"create"})') =>
                             pool_info'[q] # Null
                        /\ Uses(d)' => mapped'[q] = at'[d]
      BY DEF Progress
    <2>0. /\ Sound(NodeOf(q)) /\ call'[d] = call[d] /\ at' = at /\ held' = held /\ mapped' = mapped
          /\ (NoneFailed(q, {"create"})' => NoneFailed(q, {"create"}))
      BY <1>a, <1>s
    <2>1. CASE d = c
      BY <2>0, <2>1, <1>0, <1>c, <1>e DEF IInv, Progress, Uses
    <2>2. CASE d # c
      <3>1. pc'[d] = pc[d]
        BY <2>2, <1>c
      <3>2. (pc[d] = "find" /\ call[d].op = "close") => q # p
        <4>1. (pc[d] = "find" /\ call[d].op = "close") => Responsible(d, q)
          BY <2>0 DEF Responsible, Closing
        <4> QED
          BY <4>1, <2>0, <2>2, <1>0, <1>b DEF IInv, OneResponsible
      <3>3. pool_info'[q] \in {pool_info[q], Null} /\ (q # p => pool_info'[q] = pool_info[q])
        BY <1>c
      <3> QED
        BY <2>0, <3>1, <3>2, <3>3 DEF IInv, Progress, Uses
    <2> QED
      BY <2>1, <2>2
  <1>8. RegisteredIsOpen'
    BY <1>a, <1>c, <1>s DEF IInv, RegisteredIsOpen
  <1>9. HeldCanBeFound'
    <2> SUFFICES ASSUME NEW d \in Nodes, NEW q \in Pools, q \in held[d], Sound(NodeOf(q))'
                 PROVE  \/ pool_info'[q] # Null
                        \/ (\E f \in failed : f.what = "create" /\ f.pool = q)'
      BY <1>1, <1>a DEF TypeOK, HeldCanBeFound
    <2>1. Sound(NodeOf(q))
      BY <1>s
    <2>2. q # p
      BY <2>1, <1>0, <1>b DEF IInv, HeldAlone, OneResponsible, Responsible, Opening, Closing
    <2> QED
      BY <2>1, <2>2, <1>c, <1>s DEF IInv, HeldCanBeFound
  <1>10. OwnAddress' /\ PeerKnown'
    BY <1>0, <1>a, <1>c DEF IInv, OwnAddress, PeerKnown, linkVars
  <1>11. Connected'
    BY <1>0, <1>a, <1>c DEF IInv, Connected, Known, linkVars
  <1> QED
    BY <1>1, <1>2, <1>4, <1>5, <1>6, <1>7, <1>8, <1>9, <1>10, <1>11 DEF IInv

LEMMA StepClose == ASSUME IInv, NEW c \in Nodes, Close(c) PROVE IInv'
  <1> DEFINE p == call[c].pool
  <1>0. pc[c] = "close" /\ p \in Pools /\ call[c] \in Calls /\ call[c].op = "close"
    BY DEF IInv, StepsFit, Calls, Close, Works
  <1>a. /\ Return(c)
        /\ mapped' = [q \in Pools |-> IF NodeOf(q) = NodeOf(p) /\ mapped[q] = at[c]
                                      THEN Null ELSE mapped[q]]
        /\ UNCHANGED <<exists, pool_info, linkVars, calls, held, failed>>
    BY DEF Close
  <1>b. /\ Responsible(c, p)
        /\ Sound(NodeOf(p)) => pool_info[p] = Null /\ mapped[p] = at[c]
    BY <1>0 DEF IInv, Progress, Uses, Responsible, Closing
  <1>c. Sound(NodeOf(p)) => mapped[p] # Null
    BY <1>0, <1>b DEF IInv, ResponsibleIsOpen
  <1>d. /\ pc'[c] = "idle"
        /\ \A d \in Nodes \ {c} : pc'[d] = pc[d] /\ call'[d] = call[d] /\ at'[d] = at[d]
    BY <1>a DEF IInv, TypeOK, Return, Goto
  <1>s. \A q \in Pools : Sound(NodeOf(q))' => Sound(NodeOf(q))
    <2>1. failed \subseteq failed' /\ \A d \in Nodes : pc[d] = "crashed" => pc'[d] = "crashed"
      BY <1>0, <1>a, <1>d
    <2> QED
      BY <2>1, SoundBefore
  <1>e. \A q \in Pools : Sound(NodeOf(q)) => mapped'[q] = IF q = p THEN Null ELSE mapped[q]
    BY <1>0, <1>a, <1>b, <1>c DEF IInv, OwnAddress
  <1>f. (\A q \in Pools : mapped'[q] \in {Null, mapped[q]}) /\ mapped' \in [Pools -> Vas \union {Null}]
    BY <1>a DEF IInv, TypeOK
  <1>1. TypeOK'
    BY <1>a, <1>f, ReturnTypes DEF IInv, TypeOK, linkVars
  <1>2. StepsFit'
    BY <1>a, <1>d DEF IInv, StepsFit
  <1>3. \A d \in Nodes, q \in Pools :
          /\ Responsible(d, q)' => Responsible(d, q)
          /\ Responsible(d, q) => Responsible(d, q)' \/ (d = c /\ q = p)
    BY <1>0, <1>a, <1>d DEF Responsible, Opening, Closing
  <1>4. OneResponsible'
    BY <1>3, <1>s DEF IInv, OneResponsible
  <1>5. HeldAlone'
    BY <1>a, <1>d, <1>s DEF IInv, HeldAlone, Opening, Closing
  <1>r. ResponsibleIsOpen'
    <2> SUFFICES ASSUME NEW q \in Pools, NEW d \in Nodes, Sound(NodeOf(q))', Responsible(d, q)'
                 PROVE  mapped'[q] # Null
      BY DEF ResponsibleIsOpen
    <2>1. Sound(NodeOf(q)) /\ Responsible(d, q)
      BY <1>3, <1>s
    <2>2. q # p
      <3> SUFFICES ASSUME q = p PROVE FALSE
        OBVIOUS
      <3>1. d = c
        BY <2>1, <1>b DEF IInv, OneResponsible
      <3>2. p \in held[c]
        BY <3>1, <1>a, <1>d DEF Responsible, Opening, Closing
      <3> QED
        BY <3>2, <2>1, <1>0 DEF IInv, HeldAlone, Closing
    <2> QED
      BY <2>1, <2>2, <1>e DEF IInv, ResponsibleIsOpen
  <1>6. OpenIsResponsible'
    <2> SUFFICES ASSUME NEW q \in Pools, Sound(NodeOf(q))', mapped'[q] # Null,
                        NoneFailed(q, {"create", "find", "reply"})'
                 PROVE  \E d \in Nodes : Responsible(d, q)'
      BY DEF OpenIsResponsible
    <2>1. Sound(NodeOf(q)) /\ NoneFailed(q, {"create", "find", "reply"})
      BY <1>a, <1>s DEF NoneFailed
    <2>2. q # p /\ mapped[q] # Null
      BY <2>1, <1>e
    <2> QED
      BY <2>1, <2>2, <1>3 DEF IInv, OpenIsResponsible
  <1>7. Progress'
    <2> SUFFICES ASSUME NEW d \in Nodes, NEW q \in Pools, pc'[d] # "idle", call'[d].pool = q,
                        Sound(NodeOf(q))'
                 PROVE  /\ pc'[d] \in {"register", "close"} => pool_info'[q] = Null
                        /\ (pc'[d] = "find" /\ call'[d].op = "close" /\ NoneFailed(q, {"create"})') =>
                             pool_info'[q] # Null
                        /\ Uses(d)' => mapped'[q] = at'[d]
      BY DEF Progress
    <2>1. d # c /\ Sound(NodeOf(q)) /\ (NoneFailed(q, {"create"})' => NoneFailed(q, {"create"}))
      BY <1>a, <1>d, <1>s DEF NoneFailed
    <2>2. pc'[d] = pc[d] /\ at'[d] = at[d] /\ call'[d] = call[d] /\ held' = held /\ pool_info' = pool_info
      BY <2>1, <1>d, <1>a
    <2>3. Uses(d) => Responsible(d, q)
      BY <2>2 DEF IInv, StepsFit, Uses, Responsible, Opening, Closing
    <2>4. Uses(d) => mapped'[q] = mapped[q]
      BY <2>1, <2>3, <1>0, <1>b, <1>e DEF IInv, OneResponsible
    <2> QED
      BY <2>1, <2>2, <2>4 DEF IInv, Progress, Uses
  <1>8. RegisteredIsOpen'
    BY <1>0, <1>a, <1>b, <1>e, <1>s DEF IInv, RegisteredIsOpen
  <1>9. HeldCanBeFound'
    BY <1>a, <1>s DEF IInv, TypeOK, HeldCanBeFound
  <1>10. OwnAddress' /\ PeerKnown'
    BY <1>a, <1>d, <1>f DEF IInv, OwnAddress, PeerKnown, linkVars
  <1>11. Connected'
    BY <1>a, <1>d DEF IInv, Connected, Known, linkVars
  <1> QED
    BY <1>1, <1>2, <1>4, <1>5, <1>6, <1>7, <1>8, <1>9, <1>10, <1>11, <1>r DEF IInv

LEMMA StepFind == ASSUME IInv, NEW c \in Nodes, Find(c) PROVE IInv'
  <1> DEFINE p == call[c].pool
             info == pool_info[p]
  <1>0. /\ pc[c] = "find" /\ p \in Pools /\ call[c] \in Calls
        /\ call[c].op \in {"close", "root", "data"} /\ (call[c].op = "root" => p \in held[c])
    BY DEF IInv, StepsFit, Calls, Find, Works
  <1>a. info # Null /\ GoOn(c, info.node, info.va)
    BY DEF Find
  <1>b. /\ info \in Infos /\ info.node = NodeOf(p) /\ info.va \in Vas
        /\ Sound(NodeOf(p)) => info.va = mapped[p]
    BY <1>0, <1>a DEF IInv, TypeOK, RegisteredIsOpen, Infos
  <1>c. /\ at' = [at EXCEPT ![c] = info.va]
        /\ UNCHANGED <<exists, pool_info, listening, call, calls, held, failed>>
    BY <1>a DEF GoOn
  <1>d. /\ at'[c] = info.va
        /\ \A d \in Nodes \ {c} : at'[d] = at[d]
    BY <1>c DEF IInv, TypeOK
  <1>e. /\ peers' \in [Nodes -> SUBSET Nodes]
        /\ misdialed' \subseteq Nodes /\ misdialed \subseteq misdialed'
        /\ \A d \in Nodes : peers[d] \subseteq peers'[d]
        /\ call[c].op # "close" => NodeOf(p) = c \/ NodeOf(p) \in peers'[c] \/ c \in misdialed'
    <2>1. CASE call[c].op = "data"
      <3>1. Connect(c, NodeOf(p))
        BY <2>1, <1>a, <1>b DEF GoOn
      <3> QED
        BY <1>0, <3>1, PoolNode, ConnectFacts DEF IInv
    <2>2. CASE call[c].op # "data"
      <3>1. UNCHANGED <<peers, misdialed>>
        BY <2>2, <1>a DEF GoOn
      <3> QED
        BY <3>1, <2>2, <1>0 DEF IInv, TypeOK, Connected, Known
    <2> QED
      BY <2>1, <2>2
  <1>1. CASE call[c].op # "close" /\ ~(NodeOf(p) = c \/ NodeOf(p) \in peers'[c])
    <2>1. /\ pc' = [pc EXCEPT ![c] = "crashed"]
          /\ mapped' = [q \in Pools |-> IF NodeOf(q) = c THEN Null ELSE mapped[q]]
      BY <1>1, <1>a, <1>b DEF GoOn, UsePeer, Goto
    <2>2. TypeOK'
      BY <2>1, <1>b, <1>c, <1>e DEF IInv, TypeOK
    <2> QED
      BY <2>1, <2>2, <1>0, <1>1, <1>c, <1>d, <1>e, Crash
  <1>2. CASE ~(call[c].op # "close" /\ ~(NodeOf(p) = c \/ NodeOf(p) \in peers'[c]))
    <2> DEFINE l == IF call[c].op = "close" THEN "delete" ELSE call[c].op
    <2>a. pc' = [pc EXCEPT ![c] = l] /\ mapped' = mapped
      BY <1>2, <1>a, <1>b DEF GoOn, UsePeer, Goto
    <2>b. /\ pc'[c] = l /\ l \in {"delete", "root", "data"}
          /\ \A d \in Nodes \ {c} : pc'[d] = pc[d]
      BY <2>a, <1>0 DEF IInv, TypeOK
    <2>k. NodeOf(p) = c \/ NodeOf(p) \in peers'[c]
      BY <1>0, <1>2, <1>e DEF IInv, Connected, Known
    <2>s. \A q \in Pools : Sound(NodeOf(q))' => Sound(NodeOf(q))
      <3>1. failed \subseteq failed' /\ \A d \in Nodes : pc[d] = "crashed" => pc'[d] = "crashed"
        BY <1>0, <1>c, <2>b
      <3> QED
        BY <3>1, SoundBefore
    <2>1. TypeOK'
      BY <2>a, <2>b, <1>b, <1>c, <1>e DEF IInv, TypeOK
    <2>2. StepsFit'
      BY <1>0, <1>c, <1>d, <2>b DEF IInv, StepsFit
    <2>3. \A d \in Nodes, q \in Pools : Responsible(d, q)' <=> Responsible(d, q)
      BY <1>0, <1>c, <2>b DEF Responsible, Opening, Closing
    <2>4. OneResponsible' /\ ResponsibleIsOpen'
      BY <2>3, <2>a, <2>s DEF IInv, OneResponsible, ResponsibleIsOpen
    <2>5. HeldAlone'
      BY <1>0, <1>c, <2>b, <2>s DEF IInv, HeldAlone, Opening, Closing
    <2>6. OpenIsResponsible'
      BY <2>3, <2>a, <2>s, <1>c DEF IInv, OpenIsResponsible, NoneFailed
    <2>7. Progress'
      <3> SUFFICES ASSUME NEW d \in Nodes, NEW q \in Pools, pc'[d] # "idle", call'[d].pool = q,
                          Sound(NodeOf(q))'
                   PROVE  /\ pc'[d] \in {"register", "close"} => pool_info'[q] = Null
                          /\ (pc'[d] = "find" /\ call'[d].op = "close" /\ NoneFailed(q, {"create"})') =>
                               pool_info'[q] # Null
                          /\ Uses(d)' => mapped'[q] = at'[d]
        BY DEF Progress
      <3>0. Sound(NodeOf(q)) /\ call'[d] = call[d] /\ held' = held
        BY <1>c, <2>s
      <3>1. CASE d = c
        BY <3>0, <3>1, <1>b, <1>c, <1>d, <2>a, <2>b DEF Uses
      <3>2. CASE d # c
        BY <3>0, <3>2, <1>c, <1>d, <2>a, <2>b DEF IInv, Progress, Uses, NoneFailed
      <3> QED
        BY <3>1, <3>2
    <2>8. RegisteredIsOpen'
      BY <1>c, <2>a, <2>s DEF IInv, RegisteredIsOpen
    <2>9. HeldCanBeFound'
      BY <1>c, <2>s DEF IInv, TypeOK, HeldCanBeFound
    <2>10. OwnAddress' /\ PeerKnown'
      BY <1>e, <2>a, <2>b DEF IInv, OwnAddress, PeerKnown
    <2>11. Connected'
      BY <1>c, <1>e, <2>b, <2>k DEF IInv, Connected, Known
    <2> QED
      BY <2>1, <2>2, <2>4, <2>5, <2>6, <2>7, <2>8, <2>9, <2>10, <2>11 DEF IInv
  <1> QED
    BY <1>1, <1>2

LEMMA StepIInv == IInv /\ [Next]_vars => IInv'
  <1> SUFFICES ASSUME IInv, [Next]_vars PROVE IInv'
    OBVIOUS
  <1>1. CASE UNCHANGED vars
    <2>1. TypeOK' /\ StepsFit' /\ OneResponsible' /\ HeldAlone' /\ ResponsibleIsOpen' /\ OpenIsResponsible'
      BY <1>1 DEF vars, linkVars, IInv, TypeOK, StepsFit, OneResponsible, HeldAlone, ResponsibleIsOpen,
        OpenIsResponsible, Responsible, Opening, Closing, Sound, NoneFailed
    <2>2. Progress' /\ RegisteredIsOpen' /\ HeldCanBeFound' /\ OwnAddress' /\ Connected' /\ PeerKnown'
      BY <1>1 DEF vars, linkVars, IInv, Progress, RegisteredIsOpen, HeldCanBeFound, OwnAddress, Connected,
        PeerKnown, Uses, Sound, NoneFailed, Known
    <2> QED
      BY <2>1, <2>2 DEF IInv
  <1>2. CASE Next
    BY <1>2, StepListen, StepStartOpen, StepRefused, StepStartClose, StepStartUse, StepMap, StepEnds,
      StepRegister, StepFind, StepDelete, StepClose DEF Next
  <1> QED
    BY <1>1, <1>2

\* The inductive invariant of creating, opening and closing pools.
THEOREM LifecycleInvariant == Spec => []IInv
  BY InitIInv, StepIInv, PTL DEF Spec

\* Every variable keeps its type.
THEOREM LifecycleTypes == Spec => []TypeOK
  <1>1. IInv => TypeOK
    BY DEF IInv
  <1> QED
    BY <1>1, LifecycleInvariant, PTL

\* Whoever finds a pool of a sound node in the directory finds it open at that node and
\* address, whichever other calls fail: SendCreatePool comes after pmemobj_create or
\* pmemobj_open, and SendDeletePool before pmemobj_close.
THEOREM DirectoryTellsTruth == Spec => []RegisteredIsOpen
  <1>1. IInv => RegisteredIsOpen
    BY DEF IInv
  <1> QED
    BY <1>1, LifecycleInvariant, PTL

\* What CreateRemotePool or OpenRemotePool returned can be found until it is closed, unless
\* its own SendCreatePool failed, whose result they ignore, or its node crashed or lost a
\* SendDeletePool.
THEOREM HandlesStayGood == Spec => []HeldCanBeFound
  <1>1. IInv => HeldCanBeFound
    BY DEF IInv
  <1> QED
    BY <1>1, LifecycleInvariant, PTL

\* pmemobj_close and pmemobj_root are called for the pool that is meant, while it
\* is open, although its address was read from the server some calls before; and so
\* is the owner's memcpy made for a reader or writer that opened the pool.
THEOREM ClosesItsOwnPool == Spec => []UsesOpenPool
  <1>1. IInv => UsesOpenPool
    <2> SUFFICES ASSUME IInv, NEW c \in Nodes,
                        pc[c] \in {"close", "root"} \/ (pc[c] = "data" /\ call[c].pool \in held[c]),
                        Sound(NodeOf(call[c].pool))
                 PROVE  mapped[call[c].pool] # Null /\ mapped[call[c].pool] = at[c]
      BY DEF UsesOpenPool
    <2>1. call[c].pool \in Pools /\ pc[c] # "idle" /\ Uses(c)
      BY DEF IInv, StepsFit, Calls, Uses
    <2>2. Responsible(c, call[c].pool)
      BY DEF IInv, StepsFit, Responsible, Opening, Closing
    <2> QED
      BY <2>1, <2>2 DEF IInv, ResponsibleIsOpen, Progress
  <1> QED
    BY <1>1, LifecycleInvariant, PTL

\* Whoever indexes peers without a check finds the connection there, unless it dialed
\* another node before its own listener had its port and got the server.
THEOREM ConnectionIsThere == Spec => []PeerKnown
  <1>1. IInv => PeerKnown
    BY DEF IInv
  <1> QED
    BY <1>1, LifecycleInvariant, PTL

\* No pool stays open with nobody left to close it, unless one of the calls made for
\* this very pool failed.
THEOREM EveryOpenPoolHasACloser == Spec => []NoOrphans
  <1>1. IInv => NoOrphans
    <2> SUFFICES ASSUME IInv, NEW p \in Pools, mapped[p] # Null, Sound(NodeOf(p)),
                        \A f \in failed : f.pool # p
                 PROVE  \E c \in Nodes :
                          \/ p \in held[c]
                          \/ pc[c] \notin {"idle", "crashed"} /\ call[c].pool = p
                             /\ call[c].op \in {"create", "open", "close"}
      BY DEF NoOrphans
    <2>1. PICK c \in Nodes : Responsible(c, p)
      BY DEF IInv, OpenIsResponsible, NoneFailed
    <2> QED
      BY <2>1 DEF IInv, StepsFit, Responsible, Opening, Closing
  <1> QED
    BY <1>1, LifecycleInvariant, PTL
====
