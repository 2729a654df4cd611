---- MODULE PoolLifecycle ----
(***************************************************************************)
(* Creating, opening, closing and using pools on other nodes:              *)
(* Client::CreateRemotePool, OpenRemotePool, CloseRemotePool,              *)
(* RemotePoolRoot, GetRemotePoolData and WriteRemotePoolData, and the      *)
(* branches of Client::ProcessRecv that serve them.                        *)
(*                                                                         *)
(* The work on a pool is done by one thread at the pool's node: the caller *)
(* itself if the pool is local, else the polling thread of its connection, *)
(* for which the caller waits.  Either takes the same steps, one call of   *)
(* libpmemobj or of the server at a time, and other callers' steps come in *)
(* between.  A call of the server is one step here: it takes effect once,  *)
(* or, when its connection fails or it is lost among those of the other    *)
(* threads that share it, not at all.                                      *)
(*                                                                         *)
(* As in the test programs a caller closes, and asks the root of, pools it *)
(* created or opened; nothing in the code sees to that.  It reads and      *)
(* writes the objects of any pool whose id it knows (testGetPoolObj).      *)
(***************************************************************************)
EXTENDS Integers, FiniteSets

CONSTANTS
    Nodes,      \* client nodes; each has one thread that calls
    Files,      \* paths of pool files
    Vas,        \* virtual addresses libpmemobj maps pools at
    AtServer,   \* the nodes on the server's machine
    MaxCalls,   \* bound: calls per node
    Null

Pools == Nodes \X Files         \* a pool id: the file's uuid, which no other file has
NodeOf(p) == p[1]
Infos == [node : Nodes, va : Vas]
Ops == {"create", "open", "close", "root", "data"}
Calls == [op : Ops, pool : Pools]
\* A call that came to nothing: at the server, or the reply to the caller.
Failures == [what : {"create", "delete", "find", "reply"}, pool : Pools, by : Nodes]

ASSUME LifecycleAssumption ==
    /\ MaxCalls \in Nat
    /\ AtServer \subseteq Nodes
    /\ Null \notin Vas \union Infos \union Calls

VARIABLES
    exists,     \* pool files on disk
    mapped,     \* mapped[p]: where pool p is open, or Null
    pool_info,  \* the server's directory
    listening,  \* nodes whose listener has taken its port
    peers,      \* peers[c]: nodes c has connected to
    pc,         \* pc[c]: the next step of c's call
    call,       \* call[c]: the call of c, or Null
    calls,      \* calls[c]: how many calls c has made
    at,         \* at[c]: the address the call works with, or Null
    held,       \* held[c]: pools whose creation or opening was reported to c
    failed,     \* history: the calls that failed
    misdialed   \* history: nodes that dialed another one and got the server

linkVars == <<listening, peers, misdialed>>
vars == <<exists, mapped, pool_info, linkVars, pc, call, calls, at, held, failed>>

Init ==
    /\ exists \in SUBSET Pools
    /\ mapped = [p \in Pools |-> Null]
    /\ pool_info = [p \in Pools |-> Null]
    /\ peers = [c \in Nodes |-> {}]
    /\ pc = [c \in Nodes |-> "idle"]
    /\ call = [c \in Nodes |-> Null]
    /\ calls = [c \in Nodes |-> 0]
    /\ at = [c \in Nodes |-> Null]
    /\ held = [c \in Nodes |-> {}]
    /\ listening = {}
    /\ failed = {}
    /\ misdialed = {}

-----------------------------------------------------------------------------
(* The caller *)

Goto(c, l) == pc' = [pc EXCEPT ![c] = l]

\* The call is over, and with it what it had found.
Return(c) ==
    /\ Goto(c, "idle")
    /\ call' = [call EXCEPT ![c] = Null]
    /\ at' = [at EXCEPT ![c] = Null]

Known(c, n) == n = c \/ n \in peers[c]

\* A connection failed with a reply.  What the code takes for the answers to later calls over
\* it is seen in DirectoryRpc (SuccessMeansServed); here its caller uses it no more.
Cut(c, n) == \E f \in failed : f.what = "reply" /\ f.by = c /\ NodeOf(f.pool) = n

Start(c, op, p) ==
    /\ pc[c] = "idle"
    /\ calls[c] < MaxCalls
    /\ ~Cut(c, NodeOf(p))
    /\ call' = [call EXCEPT ![c] = [op |-> op, pool |-> p]]
    /\ calls' = [calls EXCEPT ![c] = @ + 1]
    /\ UNCHANGED at

\* The listener thread of c takes its port, the one after the server's.
Listen(c) ==
    /\ c \notin listening
    /\ pc[c] # "crashed"
    /\ listening' = listening \union {c}
    /\ UNCHANGED <<exists, mapped, pool_info, peers, pc, call, calls, at, held, failed, misdialed>>

\* Mutant of Connect: a new connection is not entered in peers.
ConnectUnrecorded(c, n) == n \in Nodes /\ UNCHANGED <<peers, misdialed>>

\* The connection to the pool's node, unless the pool is local: it is there, or
\* ConnectClient makes it.  Before c's own listener runs, c dials the server's port: on
\* the server's machine the server answers, ConnectClient enters it, as node 0, and
\* returns true.
Connect(c, n) ==
    \/ Known(c, n) /\ UNCHANGED <<peers, misdialed>>
    \/ /\ ~Known(c, n) /\ {c, n} \subseteq listening /\ pc[n] # "crashed"
       /\ peers' = [peers EXCEPT ![c] = @ \union {n}]
       /\ UNCHANGED misdialed
    \/ /\ ~Known(c, n) /\ c \notin listening /\ n \in AtServer
       /\ misdialed' = misdialed \union {c}
       /\ UNCHANGED peers

\* c takes the connection from peers, without a look, and goes on to l.  If it is not
\* there the program ends, and with it c's pools are no longer open.
UsePeer(c, n, l) ==
    IF n = c \/ n \in peers'[c]
    THEN Goto(c, l) /\ UNCHANGED mapped
    ELSE Goto(c, "crashed") /\ mapped' = [p \in Pools |-> IF NodeOf(p) = c THEN Null ELSE mapped[p]]

\* CreateRemotePool and OpenRemotePool.
StartOpen(c) ==
    /\ \E op \in {"create", "open"}, p \in Pools :
         /\ Start(c, op, p)
         /\ Connect(c, NodeOf(p))
         /\ UsePeer(c, NodeOf(p), "open")
    /\ UNCHANGED <<exists, pool_info, listening, held, failed>>

\* ConnectClient fails, and the call returns 0.
Refused(c) ==
    /\ pc[c] = "idle"
    /\ calls[c] < MaxCalls
    /\ calls' = [calls EXCEPT ![c] = @ + 1]
    /\ \E n \in Nodes : ~Known(c, n)
    /\ UNCHANGED <<exists, mapped, pool_info, linkVars, pc, call, at, held, failed>>

\* CloseRemotePool.  It does not report whether it closed anything.
StartClose(c) ==
    /\ \E p \in held[c] :
         /\ Start(c, "close", p)
         /\ held' = [held EXCEPT ![c] = @ \ {p}]
         /\ Connect(c, NodeOf(p))
         /\ UsePeer(c, NodeOf(p), "find")
    /\ UNCHANGED <<exists, pool_info, listening, failed>>

\* RemotePoolRoot, and GetRemotePoolData and WriteRemotePoolData for the pools of other
\* nodes: what pmemobj_direct finds is read and written directly.
StartUse(c) ==
    /\ \E p \in Pools :
         \/ p \in held[c] /\ Start(c, "root", p)
         \/ NodeOf(p) # c /\ Start(c, "data", p)
    /\ Goto(c, "find")
    /\ UNCHANGED <<exists, mapped, pool_info, linkVars, held, failed>>

-----------------------------------------------------------------------------
(* The work at the pool's node *)

\* The thread that works on c's call is at step l, and its process has not ended.  The
\* registration is looked up by the caller, but for a close.
Works(c, l) ==
    /\ pc[c] = l
    /\ (l = "find" /\ call[c].op # "close") \/ pc[NodeOf(call[c].pool)] # "crashed"

\* A call of c comes to nothing.
Lost(c, what) == {[what |-> what, pool |-> call[c].pool, by |-> c]}

\* pmemobj_create or pmemobj_open succeeds: the one needs that there is no such
\* file, the other that there is one and that it is not open.
Map(c) ==
    LET p == call[c].pool IN
    /\ Works(c, "open")
    /\ IF call[c].op = "create" THEN p \notin exists ELSE p \in exists
    /\ mapped[p] = Null
    /\ \E va \in Vas \ {mapped[q] : q \in {q \in Pools : NodeOf(q) = NodeOf(p)}} :
         /\ mapped' = [mapped EXCEPT ![p] = va]
         /\ at' = [at EXCEPT ![c] = va]
    /\ exists' = exists \union {p}
    /\ Goto(c, "register")
    /\ UNCHANGED <<pool_info, linkVars, call, calls, held, failed>>

\* They fail, for this or another reason.  The caller is told so.
MapFails(c) ==
    /\ Works(c, "open")
    /\ Return(c)
    /\ UNCHANGED <<exists, mapped, pool_info, linkVars, calls, held, failed>>

\* SendCreatePool, if it is taken, and the reply, if the caller is told.
RegisterAs(c, taken, told) ==
    LET p == call[c].pool IN
    /\ pool_info' = IF taken /\ pool_info[p] = Null
                    THEN [pool_info EXCEPT ![p] = [node |-> NodeOf(p), va |-> at[c]]]
                    ELSE pool_info
    /\ held' = IF told THEN [held EXCEPT ![c] = @ \union {p}] ELSE held
    /\ Return(c)
    /\ UNCHANGED <<exists, mapped, linkVars, calls>>

\* Mutant of Register: the pool is reported, but never registered.
RegisterForgotten(c) == Works(c, "register") /\ RegisterAs(c, FALSE, TRUE) /\ UNCHANGED failed

\* SendCreatePool.  Its result is ignored, and the pool id is returned or sent back.
Register(c) ==
    /\ Works(c, "register")
    /\ \E taken, told \in BOOLEAN :
         /\ told \/ NodeOf(call[c].pool) # c
         /\ RegisterAs(c, taken, told)
         /\ failed' = failed \union (IF taken THEN {} ELSE Lost(c, "create"))
                             \union (IF told THEN {} ELSE Lost(c, "reply"))

\* SendFindPool finds no registration, and the call is over.
NotFound(c) ==
    /\ Works(c, "find")
    /\ pool_info[call[c].pool] = Null
    /\ Return(c)
    /\ UNCHANGED <<exists, mapped, pool_info, linkVars, calls, held, failed>>

\* SendFindPool fails, which looks the same, or the request for it does.
FindFails(c) ==
    /\ Works(c, "find")
    /\ pool_info[call[c].pool] # Null
    /\ failed' = IF call[c].op = "close" THEN failed \union Lost(c, "find") ELSE failed
    /\ Return(c)
    /\ UNCHANGED <<exists, mapped, pool_info, linkVars, calls, held>>

\* The call goes on with the address va at node n.  GetRemotePoolData and
\* WriteRemotePoolData connect to n first, RemotePoolRoot does not.
GoOn(c, n, va) ==
    /\ at' = [at EXCEPT ![c] = va]
    /\ IF call[c].op = "data" THEN Connect(c, n) ELSE UNCHANGED <<peers, misdialed>>
    /\ IF call[c].op = "close"
       THEN Goto(c, "delete") /\ UNCHANGED mapped
       ELSE UsePeer(c, n, call[c].op)
    /\ UNCHANGED <<exists, pool_info, listening, call, calls, held, failed>>

\* Mutant of Find: the address found is not handed on.
FindStale(c) ==
    LET info == pool_info[call[c].pool] IN
    Works(c, "find") /\ info # Null /\ GoOn(c, info.node, at[c])

\* Mutant of Find: the directory's entry is taken for the address.
FindMistyped(c) ==
    LET info == pool_info[call[c].pool] IN
    Works(c, "find") /\ info # Null /\ GoOn(c, info.node, info)

\* SendFindPool of CloseRemotePool (or its handler), RemotePoolRoot, GetRemotePoolData
\* and WriteRemotePoolData.
Find(c) ==
    LET info == pool_info[call[c].pool] IN
    Works(c, "find") /\ info # Null /\ GoOn(c, info.node, info.va)

\* The last two cannot connect, and the call is over.
OwnerRefuses(c) ==
    LET info == pool_info[call[c].pool] IN
    /\ Works(c, "find")
    /\ call[c].op = "data"
    /\ info # Null
    /\ ~Known(c, info.node)
    /\ Return(c)
    /\ UNCHANGED <<exists, mapped, pool_info, linkVars, calls, held, failed>>

\* Mutant of Delete: a close ends once the registration is deleted.
DeleteOnly(c) ==
    /\ Works(c, "delete")
    /\ pool_info' = [pool_info EXCEPT ![call[c].pool] = Null]
    /\ Return(c)
    /\ UNCHANGED <<exists, mapped, linkVars, calls, held, failed>>

\* Mutant of Delete: the pool is closed first, the registration deleted later.
CloseFirst(c) ==
    /\ Works(c, "delete")
    /\ mapped' = [mapped EXCEPT ![call[c].pool] = Null]
    /\ Goto(c, "close")
    /\ UNCHANGED <<exists, pool_info, linkVars, call, calls, at, held, failed>>

\* SendDeletePool.  Its result is ignored.
Delete(c) ==
    /\ Works(c, "delete")
    /\ \/ pool_info' = [pool_info EXCEPT ![call[c].pool] = Null] /\ UNCHANGED failed
       \/ failed' = failed \union Lost(c, "delete") /\ UNCHANGED pool_info
    /\ Goto(c, "close")
    /\ UNCHANGED <<exists, mapped, linkVars, call, calls, at, held>>

\* pmemobj_close of whatever is open at the address found before.
Close(c) ==
    LET p == call[c].pool IN
    /\ Works(c, "close")
    /\ mapped' = [q \in Pools |-> IF NodeOf(q) = NodeOf(p) /\ mapped[q] = at[c]
                                  THEN Null ELSE mapped[q]]
    /\ Return(c)
    /\ UNCHANGED <<exists, pool_info, linkVars, calls, held, failed>>

\* pmemobj_root, or the owner's copy from or to the object, on whatever is open at the
\* address found before.
Use(c) ==
    /\ Works(c, "root") \/ Works(c, "data")
    /\ Return(c)
    /\ UNCHANGED <<exists, mapped, pool_info, linkVars, calls, held, failed>>

-----------------------------------------------------------------------------
WorkStep(c) ==
    \/ Map(c) \/ MapFails(c) \/ Register(c)
    \/ NotFound(c) \/ FindFails(c) \/ Find(c) \/ OwnerRefuses(c)
    \/ Delete(c) \/ Close(c) \/ Use(c)

Next ==
    \E c \in Nodes :
      \/ Listen(c)
      \/ StartOpen(c) \/ Refused(c) \/ StartClose(c) \/ StartUse(c)
      \/ Map(c) \/ MapFails(c) \/ Register(c)
      \/ NotFound(c) \/ FindFails(c) \/ Find(c) \/ OwnerRefuses(c)
      \/ Delete(c) \/ Close(c) \/ Use(c)

Spec == Init /\ [][Next]_vars

\* Whoever works on a call goes on with it: calls of the server return, with or without
\* effect.
FairSpec == Spec /\ \A c \in Nodes : WF_vars(WorkStep(c))

-----------------------------------------------------------------------------
TypeOK ==
    /\ exists \subseteq Pools
    /\ mapped \in [Pools -> Vas \union {Null}]
    /\ pool_info \in [Pools -> Infos \union {Null}]
    /\ listening \subseteq Nodes
    /\ peers \in [Nodes -> SUBSET Nodes]
    /\ pc \in [Nodes -> {"idle", "open", "register", "find", "delete", "close", "root", "data",
                         "crashed"}]
    /\ call \in [Nodes -> Calls \union {Null}]
    /\ calls \in [Nodes -> 0..MaxCalls]
    /\ at \in [Nodes -> Vas \union {Null}]
    /\ held \in [Nodes -> SUBSET Pools]
    /\ failed \subseteq Failures
    /\ misdialed \subseteq Nodes

\* The process of node n runs, and no SendDeletePool of its pools was lost: after that an
\* entry of the directory has the address of a pool that is closed, and perhaps opened
\* again at another one.
Sound(n) ==
    /\ pc[n] # "crashed"
    /\ \A f \in failed : f.what = "delete" => NodeOf(f.pool) # n

\* What the directory says of a sound node is so: a registered pool is open, at that node
\* and address, also when other calls fail.  GetRemotePoolData and WriteRemotePoolData have
\* the owner read and write at the registered address without looking.
RegisteredIsOpen ==
    \A p \in Pools :
      pool_info[p] # Null =>
        /\ pool_info[p].node = NodeOf(p)
        /\ Sound(NodeOf(p)) => pool_info[p].va = mapped[p]

\* A pool whose creation or opening was reported can be found until its holder closes it,
\* whatever other callers do and whatever else fails.  The one exception is the result
\* that CreateRemotePool and OpenRemotePool ignore: that of its own SendCreatePool.
HeldCanBeFound ==
    \A c \in Nodes : \A p \in held[c] :
      \/ pool_info[p] # Null
      \/ \E f \in failed : f.what = "create" /\ f.pool = p
      \/ ~Sound(NodeOf(p))

\* pmemobj_close and pmemobj_root get the address of the pool they are meant for,
\* open at this moment: no pool is closed twice, no other pool is closed.  The same
\* holds of the owner's memcpy if the reader or writer opened the pool; others
\* may come after the pool was closed, and another opened at its address.
UsesOpenPool ==
    \A c \in Nodes :
      /\ pc[c] \in {"close", "root"} \/ (pc[c] = "data" /\ call[c].pool \in held[c])
      /\ Sound(NodeOf(call[c].pool))
      => /\ mapped[call[c].pool] # Null
         /\ mapped[call[c].pool] = at[c]

\* Every use of peers without a look (SendCreateRemotePool, SendOpenRemotePool,
\* SendCloseRemotePool, SendRemotePoolRoot, SendGetPoolData, SendWritePoolData) finds the
\* connection, whichever earlier call of the node made it; unless the node dialed before its
\* listener ran, and got the server.
PeerKnown == \A c \in Nodes : pc[c] = "crashed" => c \in misdialed

\* An open pool of a sound node has a holder, or someone who is opening or closing it: a
\* pool that nobody can close any more would stay open, and its file locked, for ever.  It
\* takes a failed call on this very pool to leave one behind: a registration, or the search
\* for it in a close, or the reply that would have made its opener its holder.  (A process
\* that ended goes on holding what it held: nothing in the code closes it.)
NoOrphans ==
    \A p \in Pools :
      (mapped[p] # Null /\ Sound(NodeOf(p)) /\ \A f \in failed : f.pool # p) =>
        \E c \in Nodes :
          \/ p \in held[c]
          \/ pc[c] \notin {"idle", "crashed"} /\ call[c].pool = p
             /\ call[c].op \in {"create", "open", "close"}

\* A pool that somebody closes becomes free for others to open, whatever other calls come
\* in between, if the server knew of it and can tell.
ClosedInTheEnd ==
    \A p \in Pools :
      (\E c \in Nodes : pc[c] = "find" /\ call[c] = [op |-> "close", pool |-> p])
        ~> \/ mapped[p] = Null
           \/ ~Sound(NodeOf(p))
           \/ \E f \in failed : f.pool = p /\ f.what \in {"create", "find"}
====
