---- MODULE Connections ----
(***************************************************************************)
(* How nodes come to be connected: the main thread of a client dials the   *)
(* server (ConnectServer, in its constructor) and other clients            *)
(* (ConnectClient), the listener thread of every node accepts (Accept,     *)
(* Server::Accecpt), both ends run ConnectQueuePair over the socket, and   *)
(* the accepting node starts a polling thread.  Destructors take all of    *)
(* this down again; a client may also die and come back.                   *)
(*                                                                         *)
(* A connection has two ends, the PeerConnection objects of its two nodes. *)
(* What is sent over it is the subject of the other modules.               *)
(***************************************************************************)
EXTENDS BufferSlots, Configuration, Sequences

CONSTANTS
    Server, Clients,
    Ip,             \* Ip[n]: the address of the machine of n
    Targets,        \* pairs <<n, id>>: n's program connects to the client of that id
    MaxDials,       \* bound: connections n dials, over all its lives
    MaxFaults,      \* bound: reads that time out although the other node lives, and
                    \* processes that die
    MayRestart,     \* clients whose process may die and be started again
    MayStop,        \* nodes that may be stopped
    Null

Nodes == Clients \union {Server}
IdOf(n) == IF n = Server THEN 0 ELSE getIDbyIP(Ip[n])
Ids == {IdOf(n) : n \in Nodes} \union DOMAIN id2ip_

Conns == UNION {{n} \X (1..MaxDials[n]) : n \in Clients}
Sides == {"dial", "accept"}
Ends == Conns \X Sides
Dialer(c) == c[1]
Dialed(c) == <<c, "dial">>
Accepted(c) == <<c, "accept">>
Other(e) == <<e[1], IF e[2] = "dial" THEN "accept" ELSE "dial">>

ASSUME ConnectionsAssumption ==
    /\ MAX_CLIENT_NUM < Unlisted
    /\ Server \notin Clients
    /\ DOMAIN Ip = Nodes
    /\ Ip[Server] = server_ip_
    /\ \A m, n \in Clients : Ip[m] = Ip[n] => m = n      \* one client per machine
    /\ Targets \subseteq {p \in Clients \X DOMAIN id2ip_ : p[2] # IdOf(p[1])}
    /\ MaxDials \in [Clients -> Nat]
    /\ MaxFaults \in Nat
    /\ MayRestart \subseteq Clients
    /\ MayStop \subseteq Nodes
    /\ Null \notin Ends \union Conns \union Nodes

VARIABLES
    \* connections
    dest,       \* dest[c]: the node that c reached, Null before
    backlog,    \* backlog[n]: connections to n that it has not accepted
    wrote,      \* wrote[e]: messages of ConnectQueuePair that end e has sent
    obj,        \* obj[e]: the PeerConnection of end e
    \* nodes
    main,       \* main[n]: where the main thread is
    dials,      \* dials[n]: connections n has dialed
    listener,   \* listener[n]: where the listener thread is
    inHand,     \* inHand[n]: the connection it works on
    peers,      \* peers[n][id]: the end in the map peers, or Null
    threads,    \* threads[n][id]: the end whose thread is in poll_request_thread_
    polling,    \* ends with a running polling thread
    faults,     \* how many faults have happened
    \* history
    gaveUp      \* ends whose handshake failed

connVars == <<dest, backlog, wrote>>
nodeVars == <<main, dials, listener, inHand>>
vars == <<connVars, obj, nodeVars, peers, threads, polling, faults, gaveUp>>

Init ==
    /\ dest = [c \in Conns |-> Null]
    /\ backlog = [n \in Nodes |-> <<>>]
    /\ wrote = [e \in Ends |-> 0]
    /\ obj = [e \in Ends |-> "none"]
    /\ main = [n \in Nodes |-> IF n = Server THEN "idle" ELSE "start"]
    /\ dials = [n \in Clients |-> 0]
    /\ listener = [n \in Nodes |-> IF n = Server THEN "starting" ELSE "none"]
    /\ inHand = [n \in Nodes |-> Null]
    /\ peers = [n \in Nodes |-> [i \in Ids |-> Null]]
    /\ threads = [n \in Nodes |-> [i \in Ids |-> Null]]
    /\ polling = {}
    /\ faults = 0
    /\ gaveUp = {}

\* Whose object an end is, and who is at the other side.
Owner(e) == IF e[2] = "dial" THEN Dialer(e[1]) ELSE dest[e[1]]
Remote(e) == Owner(Other(e))
Current(n) == <<n, dials[n]>>           \* the connection n dialed last

\* Connections that n may still accept.
Waiting(n) == IF listener[n] = "gone" THEN {} ELSE {backlog[n][i] : i \in 1..Len(backlog[n])}

Listening(n) == listener[n] \notin {"none", "starting"} /\ main[n] # "gone"

\* The constructor ends: the listener thread is started.
EndOfStart(n) ==
    listener' = [listener EXCEPT ![n] = IF @ = "none" THEN "starting" ELSE @]

-----------------------------------------------------------------------------
(* Dialing *)

\* SocketConnect(id) reaches r.  RdmaListen, in the listener thread, adds one to
\* sock_port_: until then a client dials the server's port.
Reaches(n, id, r) ==
    /\ Ip[r] = IF id = 0 THEN server_ip_ ELSE getIPbyID(id)
    /\ IF id = 0 \/ listener[n] = "starting" THEN r = Server ELSE r \in Clients
    /\ Listening(r)

\* SocketConnect succeeded, ConnectQueuePair has sent the id of n.
Dial(n, id, r) ==
    LET c == <<n, dials[n] + 1>> IN
    /\ IF id = 0 THEN main[n] = "start" ELSE main[n] = "idle" /\ <<n, id>> \in Targets
    /\ dials[n] < MaxDials[n]
    /\ peers[n][id] = Null
    /\ Reaches(n, id, r)
    /\ dials' = [dials EXCEPT ![n] = @ + 1]
    /\ dest' = [dest EXCEPT ![c] = r]
    /\ backlog' = [backlog EXCEPT ![r] = Append(@, c)]
    /\ wrote' = [wrote EXCEPT ![Dialed(c)] = 1]
    /\ obj' = [obj EXCEPT ![Dialed(c)] = "id"]
    /\ main' = [main EXCEPT ![n] = "handshake"]
    /\ UNCHANGED <<listener, inHand, peers, threads, polling, faults, gaveUp>>

\* SocketConnect failed in the constructor, which goes on without the server.  Later
\* such a failure changes nothing.
StartAlone(n) ==
    /\ main[n] = "start"
    /\ ~Listening(Server)
    /\ main' = [main EXCEPT ![n] = "idle"]
    /\ EndOfStart(n)
    /\ UNCHANGED <<connVars, obj, dials, inHand, peers, threads, polling, faults, gaveUp>>

-----------------------------------------------------------------------------
(* ConnectQueuePair *)

\* Mutant of SwapIds: the own address is sent only in answer to the other's.
SwapIdsLate(e) ==
    /\ obj[e] = "id"
    /\ wrote[Other(e)] = 2
    /\ obj' = [obj EXCEPT ![e] = "meta"]
    /\ wrote' = [wrote EXCEPT ![e] = 2]
    /\ UNCHANGED <<dest, backlog, nodeVars, peers, threads, polling, faults, gaveUp>>

\* The id of the other side is read; GetPeerAddr, CreateQueuePair, and the own
\* address and queue pair numbers are sent.
SwapIds(e) ==
    /\ obj[e] = "id"
    /\ wrote[Other(e)] >= 1
    /\ obj' = [obj EXCEPT ![e] = "meta"]
    /\ wrote' = [wrote EXCEPT ![e] = 2]
    /\ UNCHANGED <<dest, backlog, nodeVars, peers, threads, polling, faults, gaveUp>>

\* Those of the other side are read, and the queue pairs taken to RTS.
SwapMeta(e) ==
    /\ obj[e] = "meta"
    /\ wrote[Other(e)] = 2
    /\ obj' = [obj EXCEPT ![e] = "ready"]
    /\ UNCHANGED <<connVars, nodeVars, peers, threads, polling, faults, gaveUp>>

Unanswered(e) ==
    \/ obj[e] = "id" /\ wrote[Other(e)] = 0
    \/ obj[e] = "meta" /\ wrote[Other(e)] < 2

\* The process at the other side died in the middle of the handshake: reads return
\* 0, which ends neither the loop of SockSyncData nor, as an error would, the call.
WaitsForDead(e) ==
    Unanswered(e) /\ obj[Other(e)] = "deleted" /\ Other(e) \notin gaveUp

\* The listener of n does, and accepts no other connection.
Stuck(n) == listener[n] = "handshake" /\ WaitsForDead(Accepted(inHand[n]))

\* No answer will come: the other process died, or its thread gave up or is stuck.
Hopeless(e) ==
    LET r == dest[e[1]] IN
    \/ obj[Other(e)] = "deleted"
    \/ obj[Other(e)] = "none" /\ (e[1] \notin Waiting(r) \/ Stuck(r))

Failed(e) ==
    /\ Unanswered(e)
    /\ IF Hopeless(e) THEN UNCHANGED faults ELSE faults < MaxFaults /\ faults' = faults + 1
    /\ obj' = [obj EXCEPT ![e] = "deleted"]
    /\ gaveUp' = gaveUp \union {e}
    /\ UNCHANGED <<connVars, dials, inHand, peers, threads, polling>>

\* A read timed out (SO_RCVTIMEO): the object is deleted, the socket stays open.
DialFails(n) ==
    /\ main[n] = "handshake"
    /\ Failed(Dialed(Current(n)))
    /\ main' = [main EXCEPT ![n] = "idle"]
    /\ EndOfStart(n)

AcceptFails(n) ==
    /\ listener[n] = "handshake"
    /\ Failed(Accepted(inHand[n]))
    /\ listener' = [listener EXCEPT ![n] = "accept"]
    /\ UNCHANGED main

-----------------------------------------------------------------------------
(* The maps *)

\* Mutant of Enter: the connection that is there already is kept.
EnterUnlessThere(n, id, e) ==
    LET old == peers[n][id] IN
    /\ peers' = [peers EXCEPT ![n][id] = IF @ = Null THEN e ELSE @]
    /\ obj' = IF old = Null THEN obj ELSE [obj EXCEPT ![e] = "deleted"]

\* if (peers[id]) delete peers[id]; peers[id] = peer;
Enter(n, id, e) ==
    LET old == peers[n][id] IN
    /\ peers' = [peers EXCEPT ![n][id] = e]
    /\ obj' = IF old = Null THEN obj ELSE [obj EXCEPT ![old] = "deleted"]

\* ConnectServer, ConnectClient: the id is the one the other side sent.
EnterDialed(n) ==
    LET e == Dialed(Current(n)) IN
    /\ main[n] = "handshake"
    /\ obj[e] = "ready"
    /\ Enter(n, IdOf(Remote(e)), e)
    /\ main' = [main EXCEPT ![n] = "idle"]
    /\ EndOfStart(n)
    /\ UNCHANGED <<connVars, dials, inHand, threads, polling, faults, gaveUp>>

\* RdmaListen.
Listen(n) ==
    /\ listener[n] = "starting"
    /\ listener' = [listener EXCEPT ![n] = "accept"]
    /\ UNCHANGED <<connVars, obj, main, dials, inHand, peers, threads, polling, faults, gaveUp>>

\* accept; ConnectQueuePair has sent the id of n.
Accept(n) ==
    LET c == Head(backlog[n]) IN
    /\ listener[n] = "accept"
    /\ backlog[n] # <<>>
    /\ backlog' = [backlog EXCEPT ![n] = Tail(@)]
    /\ inHand' = [inHand EXCEPT ![n] = c]
    /\ wrote' = [wrote EXCEPT ![Accepted(c)] = 1]
    /\ obj' = [obj EXCEPT ![Accepted(c)] = "id"]
    /\ listener' = [listener EXCEPT ![n] = "handshake"]
    /\ UNCHANGED <<dest, main, dials, peers, threads, polling, faults, gaveUp>>

\* Mutant of EnterAccepted: nothing polls for the requests of a new peer.
EnterAcceptedQuiet(n) ==
    LET e == Accepted(inHand[n]) IN
    /\ listener[n] = "handshake"
    /\ obj[e] = "ready"
    /\ Enter(n, IdOf(Remote(e)), e)
    /\ listener' = [listener EXCEPT ![n] = "accept"]
    /\ UNCHANGED <<connVars, main, dials, inHand, threads, polling, faults, gaveUp>>

EnterAccepted(n) ==
    LET e == Accepted(inHand[n]) IN
    /\ listener[n] = "handshake"
    /\ obj[e] = "ready"
    /\ Enter(n, IdOf(Remote(e)), e)
    /\ listener' = [listener EXCEPT ![n] = "spawn"]
    /\ UNCHANGED <<connVars, main, dials, inHand, threads, polling, faults, gaveUp>>

\* Mutant of Spawn: the thread polls the connection of the thread before it.
SpawnOld(n) ==
    LET id == IdOf(Remote(Accepted(inHand[n]))) IN
    /\ listener[n] = "spawn"
    /\ polling' = polling \union {threads[n][id]}
    /\ threads' = [threads EXCEPT ![n][id] = Accepted(inHand[n])]
    /\ listener' = [listener EXCEPT ![n] = "accept"]
    /\ UNCHANGED <<connVars, obj, main, dials, inHand, peers, faults, gaveUp>>

\* Mutant of Spawn: a peer that has a thread gets no other one.
SpawnOnce(n) ==
    LET e == Accepted(inHand[n])
        id == IdOf(Remote(e))
    IN
    /\ listener[n] = "spawn"
    /\ polling' = polling \union (IF threads[n][id] = Null THEN {e} ELSE {})
    /\ threads' = [threads EXCEPT ![n][id] = IF @ = Null THEN e ELSE @]
    /\ listener' = [listener EXCEPT ![n] = "accept"]
    /\ UNCHANGED <<connVars, obj, main, dials, inHand, peers, faults, gaveUp>>

\* The receives are posted and the polling thread is started.
Spawn(n) ==
    LET e == Accepted(inHand[n])
        id == IdOf(Remote(e))
    IN
    /\ listener[n] = "spawn"
    /\ polling' = polling \union {e}
    /\ IF threads[n][id] = Null
       THEN /\ threads' = [threads EXCEPT ![n][id] = e]
            /\ listener' = [listener EXCEPT ![n] = "accept"]
       ELSE listener' = [listener EXCEPT ![n] = "kill"] /\ UNCHANGED threads
    /\ UNCHANGED <<connVars, obj, main, dials, inHand, peers, faults, gaveUp>>

Register(n) ==
    LET e == Accepted(inHand[n]) IN
    /\ listener[n] = "kill"
    /\ threads' = [threads EXCEPT ![n][IdOf(Remote(e))] = e]
    /\ listener' = [listener EXCEPT ![n] = "accept"]
    /\ UNCHANGED <<connVars, obj, main, dials, inHand, peers, faults, gaveUp>>

\* Mutant of KillOld: the old thread is left running.
KillOldNot(n) == Register(n) /\ UNCHANGED polling

\* The thread of an earlier connection with the same node is killed and joined.
KillOld(n) ==
    /\ Register(n)
    /\ polling' = polling \ {threads[n][IdOf(Remote(Accepted(inHand[n])))]}

-----------------------------------------------------------------------------
(* The end of a node *)

\* A destructor: is_running_ = false.
Stop(n) ==
    /\ n \in MayStop
    /\ main[n] = "idle"
    /\ main' = [main EXCEPT ![n] = "joining"]
    /\ UNCHANGED <<connVars, obj, dials, listener, inHand, peers, threads, polling, faults, gaveUp>>

\* Mutant of ListenerEnds: the listening socket has no timeout.
ListenerEndsBlocked(n) ==
    /\ listener[n] = "accept"
    /\ backlog[n] # <<>>
    /\ main[n] = "joining"
    /\ listener' = [listener EXCEPT ![n] = "gone"]
    /\ UNCHANGED <<connVars, obj, main, dials, inHand, peers, threads, polling, faults, gaveUp>>

\* accept returns at least every three seconds.
ListenerEnds(n) ==
    /\ listener[n] = "accept"
    /\ main[n] = "joining"
    /\ listener' = [listener EXCEPT ![n] = "gone"]
    /\ UNCHANGED <<connVars, obj, main, dials, inHand, peers, threads, polling, faults, gaveUp>>

\* The listener is joined; the buffers and the connections are freed.
DeletePeers(n) ==
    /\ main[n] = "joining"
    /\ listener[n] = "gone"
    /\ main' = [main EXCEPT ![n] = "deleted"]
    /\ obj' = [e \in Ends |-> IF \E i \in Ids : peers[n][i] = e THEN "deleted" ELSE obj[e]]
    /\ peers' = [peers EXCEPT ![n] = [i \in Ids |-> Null]]
    /\ UNCHANGED <<connVars, dials, listener, inHand, threads, polling, faults, gaveUp>>

\* Mutant of KillPollers: the polling threads are not joined.
KillPollersNot(n) ==
    /\ main[n] = "deleted"
    /\ main' = [main EXCEPT ![n] = "gone"]
    /\ UNCHANGED <<connVars, obj, dials, listener, inHand, peers, threads, polling, faults, gaveUp>>

\* The polling threads are killed and joined, and the program ends.
KillPollers(n) ==
    /\ main[n] = "deleted"
    /\ polling' = polling \ {threads[n][i] : i \in Ids}
    /\ threads' = [threads EXCEPT ![n] = [i \in Ids |-> Null]]
    /\ main' = [main EXCEPT ![n] = "gone"]
    /\ UNCHANGED <<connVars, obj, dials, listener, inHand, peers, faults, gaveUp>>

\* The process of a client dies, and the program is started again.
Restart(n) ==
    /\ n \in MayRestart
    /\ main[n] # "start"
    /\ faults < MaxFaults
    /\ faults' = faults + 1
    /\ main' = [main EXCEPT ![n] = "start"]
    /\ listener' = [listener EXCEPT ![n] = "none"]
    /\ inHand' = [inHand EXCEPT ![n] = Null]
    /\ backlog' = [backlog EXCEPT ![n] = <<>>]
    /\ obj' = [e \in Ends |-> IF Owner(e) = n /\ obj[e] # "none" THEN "deleted" ELSE obj[e]]
    /\ peers' = [peers EXCEPT ![n] = [i \in Ids |-> Null]]
    /\ threads' = [threads EXCEPT ![n] = [i \in Ids |-> Null]]
    /\ polling' = {e \in polling : Owner(e) # n}
    /\ UNCHANGED <<dest, wrote, dials, gaveUp>>
-----------------------------------------------------------------------------
Next ==
    \/ \E n \in Clients :
         \/ \E id \in Ids, r \in Nodes : Dial(n, id, r)
         \/ StartAlone(n) \/ DialFails(n) \/ EnterDialed(n) \/ Restart(n)
    \/ \E n \in Nodes :
         \/ Listen(n) \/ Accept(n) \/ AcceptFails(n) \/ EnterAccepted(n) \/ Spawn(n) \/ KillOld(n)
         \/ Stop(n) \/ ListenerEnds(n) \/ DeletePeers(n) \/ KillPollers(n)
    \/ \E e \in Ends : SwapIds(e) \/ SwapMeta(e)

Spec == Init /\ [][Next]_vars

\* Every thread goes on when it can, and a read from a live node ends after three
\* seconds.  Nobody has to dial another client, to stop or to die.
DialStep(n) ==
    LET e == Dialed(Current(n)) IN
    \/ Dial(n, 0, Server) \/ StartAlone(n)
    \/ /\ main[n] = "handshake"
       /\ SwapIds(e) \/ SwapMeta(e) \/ EnterDialed(n) \/ (~WaitsForDead(e) /\ DialFails(n))
MainStep(n) == (n \in Clients /\ DialStep(n)) \/ DeletePeers(n) \/ KillPollers(n)
ListenStep(n) ==
    LET e == Accepted(inHand[n]) IN
    \/ Listen(n) \/ Accept(n) \/ Spawn(n) \/ KillOld(n) \/ ListenerEnds(n)
    \/ /\ listener[n] = "handshake"
       /\ SwapIds(e) \/ SwapMeta(e) \/ EnterAccepted(n) \/ (~WaitsForDead(e) /\ AcceptFails(n))

Fairness == \A n \in Nodes : WF_vars(MainStep(n)) /\ WF_vars(ListenStep(n))

FairSpec == Spec /\ Fairness

-----------------------------------------------------------------------------
TypeOK ==
    /\ dest \in [Conns -> Nodes \union {Null}]
    /\ backlog \in [Nodes -> Seq(Conns)]
    /\ wrote \in [Ends -> 0..2]
    /\ obj \in [Ends -> {"none", "id", "meta", "ready", "deleted"}]
    /\ main \in [Nodes -> {"start", "handshake", "idle", "joining", "deleted", "gone"}]
    /\ dials \in [Clients -> Nat]
    /\ listener \in [Nodes -> {"none", "starting", "accept", "handshake", "spawn", "kill", "gone"}]
    /\ inHand \in [Nodes -> Conns \union {Null}]
    /\ peers \in [Nodes -> [Ids -> Ends \union {Null}]]
    /\ threads \in [Nodes -> [Ids -> Ends \union {Null}]]
    /\ polling \subseteq Ends
    /\ faults \in 0..MaxFaults
    /\ gaveUp \subseteq Ends

\* Two nodes have dialed each other: neither saw the other's connection in time.
Crossed(n, m) ==
    \E c, d \in Conns : Dialer(c) = n /\ dest[c] = m /\ Dialer(d) = m /\ dest[d] = n

\* The listener of n is replacing the connection with m.
Replacing(n, m) ==
    listener[n] \in {"spawn", "kill"} /\ IdOf(Dialer(inHand[n])) = IdOf(m)

\* An entry of peers is a connection that is ready and not deleted, it is with the
\* node of that id, whomever the caller of ConnectClient asked for, and no two
\* entries of a node share a buffer (GetPeerAddr).
PeersGood ==
    \A n \in Nodes, i \in Ids :
      peers[n][i] # Null =>
        /\ obj[peers[n][i]] = "ready"
        /\ Owner(peers[n][i]) = n
        /\ IdOf(Remote(peers[n][i])) = i
        /\ \A j \in Ids \ {i} :
             (peers[n][j] # Null /\ i <= MAX_CLIENT_NUM /\ j <= MAX_CLIENT_NUM) =>
               /\ Buffers(IdOf(n), i) \subseteq Region
               /\ Buffers(IdOf(n), i) \cap Buffers(IdOf(n), j) = {}

\* When a polling thread works on a deleted connection, its node is just replacing
\* that connection or deleting all, or the two nodes had dialed each other.
PollersUseLive ==
    \A e \in polling :
      obj[e] = "deleted" =>
        \/ Replacing(Owner(e), Remote(e))
        \/ main[Owner(e)] = "deleted"
        \/ Crossed(Owner(e), Remote(e))

\* Between two accepts a node has one polling thread per accepted peer: the one it
\* will join, working on the connection that peers has.
OnePoller ==
    \A n \in Nodes :
      listener[n] \in {"accept", "handshake", "gone"} =>
        /\ {e \in polling : Owner(e) = n} = {threads[n][i] : i \in Ids} \ {Null}
        /\ \A i \in Ids :
             (threads[n][i] # Null /\ main[n] # "deleted") =>
               \/ peers[n][i] = threads[n][i]
               \/ Crossed(n, Remote(threads[n][i]))

\* A node whose destructor returned has neither its listener nor a polling thread
\* left.  (The transfer workers, which ~RdmaSocket detaches, are not in this module.)
NothingRunsOn ==
    \A n \in Nodes :
      main[n] = "gone" => listener[n] = "gone" /\ \A e \in polling : Owner(e) # n

\* Dialer(c) has reached the same node with a later connection.
DialedAgain(c) == \E k \in (c[2] + 1)..dials[Dialer(c)] : dest[<<Dialer(c), k>>] = dest[c]

\* A client that has a connection it dialed can rely on the other end, unless that
\* node gave up, stopped or died, the two dialed each other, or the client has
\* dialed that node again.  Clients that are not in conf.xml share an id, and
\* displace each other.
BothEndsLive ==
    \A n \in Clients, i \in Ids :
      LET e == peers[n][i] IN
      (e # Null /\ e[2] = "dial") =>
        \/ obj[Other(e)] # "deleted"
        \/ Other(e) \in gaveUp
        \/ IdOf(n) = Unlisted
        \/ Remote(e) \in MayStop \union MayRestart
        \/ Crossed(n, Remote(e))
        \/ DialedAgain(e[1])

\* No dial and no accept goes on for ever, unless it waits for a node that died.
HandshakesEnd ==
    /\ \A n \in Clients :
         []<>(main[n] # "handshake" \/ WaitsForDead(Dialed(Current(n))))
    /\ \A n \in Nodes :
         []<>(listener[n] \notin {"handshake", "spawn", "kill"} \/ Stuck(n))

\* A connection that a client dialed and keeps gets a polling thread at its other
\* end, with the exceptions of BothEndsLive.
DialedGetsServed ==
    \A c \in Conns :
      []<>(\/ \A i \in Ids : peers[Dialer(c)][i] # Dialed(c)
           \/ Accepted(c) \in polling \union gaveUp
           \/ dest[c] \in MayStop \union MayRestart
           \/ Crossed(Dialer(c), dest[c])
           \/ DialedAgain(c))

\* A destructor returns, unless the listener waits for a node that died.
StopReturns ==
    \A n \in MayStop : []<>(main[n] \notin {"joining", "deleted"} \/ Stuck(n))
====
