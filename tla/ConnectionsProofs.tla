---- MODULE ConnectionsProofs ----
(***************************************************************************)
(* Proofs about Connections, for any table of nodes, any set of clients,   *)
(* any calls of ConnectClient between listed clients, any number of        *)
(* dials, faults and restarts.                                             *)
(***************************************************************************)
EXTENDS Connections, TLAPS

-----------------------------------------------------------------------------
(* The table of nodes and the buffers *)

\* getIDbyIP and getIPbyID are inverse on the listed nodes, and getIDbyIP gives two
\* addresses the same id only when neither is listed.
THEOREM LookupsInverse ==
    /\ \A id \in DOMAIN id2ip_ : getIDbyIP(getIPbyID(id)) = id
    /\ \A ip, jp : getIDbyIP(ip) = getIDbyIP(jp) => ip = jp \/ getIDbyIP(ip) = Unlisted
    /\ \A ip : getIDbyIP(ip) \in NodeIds \ {0}
<1>1. \A id \in DOMAIN id2ip_ : getIDbyIP(getIPbyID(id)) = id
  BY ConfigurationAssumption DEF getIDbyIP, getIPbyID, Accepts
<1>2. ASSUME NEW ip
      PROVE  \/ getIDbyIP(ip) = Unlisted
             \/ getIDbyIP(ip) \in DOMAIN id2ip_ /\ id2ip_[getIDbyIP(ip)] = ip
  BY DEF getIDbyIP
<1>3. \A ip : getIDbyIP(ip) \in NodeIds \ {0}
  <2>1. Unlisted \in NodeIds \ {0}
    BY DEF NodeIds, Unlisted
  <2> QED
    BY <1>2, <2>1, ConfigurationAssumption DEF Accepts
<1>4. \A ip, jp : getIDbyIP(ip) = getIDbyIP(jp) => ip = jp \/ getIDbyIP(ip) = Unlisted
  BY <1>2
<1> QED
  BY <1>1, <1>3, <1>4

\* The buffers for another node lie in the registered region, and those for two
\* other nodes do not overlap.
THEOREM SlotsDisjoint ==
    ASSUME NEW me \in NodeIds, NEW i \in 0..MAX_CLIENT_NUM, NEW j \in 0..MAX_CLIENT_NUM,
           i # me, j # me, i # j
    PROVE  Buffers(me, i) \subseteq Region /\ Buffers(me, i) \cap Buffers(me, j) = {}
<1>1. ASSUME NEW k \in 0..MAX_CLIENT_NUM, k # me
      PROVE  /\ GetPeerAddr(me, k) = IF k < me THEN 2 * k ELSE 2 * (k - 1)
             /\ GetPeerAddr(me, k) \in 0..(2 * MAX_CLIENT_NUM)
  BY <1>1, SlotsAssumption DEF GetPeerAddr, NodeIds
<1>2. me \in Nat
  BY DEF NodeIds
<1> DEFINE a == GetPeerAddr(me, i)
           b == GetPeerAddr(me, j)
<1>3. /\ a \in 0..(2 * MAX_CLIENT_NUM) /\ b \in 0..(2 * MAX_CLIENT_NUM)
      /\ a = IF i < me THEN 2 * i ELSE 2 * (i - 1)
      /\ b = IF j < me THEN 2 * j ELSE 2 * (j - 1)
  BY <1>1
<1> HIDE DEF a, b
<1>4. a # b /\ a # b + 1 /\ b # a + 1
  BY <1>2, <1>3, SlotsAssumption
<1>5. {a, a + 1} \subseteq Region
  BY <1>3, SlotsAssumption DEF Region
<1> QED
  BY <1>3, <1>4, <1>5 DEF Buffers, a, b

LEMMA NodeIdsNat == NodeIds \subseteq Nat /\ Unlisted \in Nat
BY DEF NodeIds, Unlisted

LEMMA IdFacts ==
    /\ \A n \in Nodes : IdOf(n) \in Ids /\ IdOf(n) \in NodeIds
    /\ \A m, n \in Nodes : IdOf(m) = IdOf(n) => m = n \/ IdOf(n) = Unlisted
    /\ IdOf(Server) = 0 /\ Unlisted # 0
    /\ \A n \in Clients : IdOf(n) # 0
<1>1. \A n \in Nodes : IdOf(n) \in Ids
  BY DEF Ids
<1>2. \A n \in Clients : IdOf(n) = getIDbyIP(Ip[n])
  BY ConnectionsAssumption DEF IdOf
<1>3. IdOf(Server) = 0 /\ Unlisted # 0
  BY DEF IdOf, Unlisted
<1>4. \A n \in Clients : IdOf(n) \in NodeIds \ {0}
  BY <1>2, LookupsInverse
<1>5. \A n \in Nodes : IdOf(n) \in NodeIds
  <2>1. 0 \in NodeIds
    BY DEF NodeIds
  <2> QED
    BY <1>3, <1>4, <2>1 DEF Nodes
<1>6. ASSUME NEW m \in Nodes, NEW n \in Nodes, IdOf(m) = IdOf(n)
      PROVE  m = n \/ IdOf(n) = Unlisted
  <2>1. CASE m \in Clients /\ n \in Clients
    BY <1>2, <1>6, <2>1, LookupsInverse, ConnectionsAssumption
  <2> QED
    BY <1>3, <1>4, <1>6, <2>1 DEF Nodes
<1> QED
  BY <1>1, <1>3, <1>4, <1>5, <1>6

LEMMA ConnFacts ==
    /\ \A n \in Clients : \A k \in 1..MaxDials[n] : <<n, k>> \in Conns
    /\ \A c \in Conns : /\ c = <<Dialer(c), c[2]>> /\ Dialer(c) \in Clients
                       /\ c[2] \in 1..MaxDials[Dialer(c)]
BY DEF Conns, Dialer

LEMMA EndFacts ==
    /\ \A c \in Conns : /\ Dialed(c) \in Ends /\ Accepted(c) \in Ends
                       /\ Dialed(c)[1] = c /\ Accepted(c)[1] = c
                       /\ Dialed(c)[2] = "dial" /\ Accepted(c)[2] = "accept"
    /\ \A e \in Ends : /\ e[1] \in Conns /\ e[2] \in Sides
                      /\ e = IF e[2] = "dial" THEN Dialed(e[1]) ELSE Accepted(e[1])
    /\ \A c : Other(Dialed(c)) = Accepted(c) /\ Other(Accepted(c)) = Dialed(c)
    /\ \A e \in Ends : Other(e) \in Ends
BY DEF Ends, Sides, Dialed, Accepted, Other

\* Who owns the ends of a connection.
LEMMA OwnerFacts ==
    \A c \in Conns :
      /\ Owner(Dialed(c)) = Dialer(c) /\ Remote(Dialed(c)) = dest[c]
      /\ Owner(Accepted(c)) = dest[c] /\ Remote(Accepted(c)) = Dialer(c)
BY EndFacts DEF Owner, Remote

-----------------------------------------------------------------------------
(* The inductive invariant *)

\* A connection exists from the moment its client dials.
ConnsOK ==
    \A c \in Conns :
      IF c[2] > dials[Dialer(c)]
      THEN dest[c] = Null /\ obj[Dialed(c)] = "none" /\ obj[Accepted(c)] = "none"
      ELSE dest[c] \in Nodes /\ dest[c] # Dialer(c) /\ IdOf(dest[c]) # Unlisted

\* A backlog holds connections to its node, each once, that are not accepted yet.
BacklogOK ==
    \A n \in Nodes : \A k \in 1..Len(backlog[n]) :
      /\ dest[backlog[n][k]] = n
      /\ obj[Accepted(backlog[n][k])] = "none"
      /\ \A j \in 1..Len(backlog[n]) : backlog[n][j] = backlog[n][k] => j = k

\* The main thread dials only in a client; it deletes when the listener has ended,
\* and returns when all threads are joined.
MainOK ==
    \A n \in Nodes :
      /\ n \in Clients => dials[n] \in 0..MaxDials[n]
      /\ main[n] \in {"start", "handshake"} => n \in Clients
      /\ main[n] = "handshake" =>
           dials[n] > 0 /\ \A i \in Ids : peers[n][i] # Dialed(Current(n))
      /\ main[n] \in {"deleted", "gone"} => listener[n] = "gone"
      /\ main[n] = "gone" => \A i \in Ids : threads[n][i] = Null

\* The listener works on a connection to its node, and starts one thread for it.
ListenerOK ==
    \A n \in Nodes :
      LET c == inHand[n] IN
      listener[n] \in {"handshake", "spawn", "kill"} =>
        /\ c \in Conns /\ dest[c] = n
        /\ obj[Accepted(c)] # "none"
        /\ listener[n] \in {"spawn", "kill"} => obj[Accepted(c)] \in {"ready", "deleted"}
        /\ listener[n] \in {"handshake", "spawn"} => Accepted(c) \notin polling
        /\ listener[n] = "handshake" => \A i \in Ids : peers[n][i] # Accepted(c)
        /\ listener[n] = "kill" => \A i \in Ids : threads[n][i] # Accepted(c)

\* A thread in the map polls a connection that was accepted from the node of its id.
ThreadsOK ==
    \A n \in Nodes, i \in Ids :
      LET e == threads[n][i] IN
      e # Null => e[2] = "accept" /\ dest[e[1]] = n /\ IdOf(Dialer(e[1])) = i

\* The threads of a node are those in its map and the one it is about to put there.
PollingOK ==
    /\ \A n \in Nodes :
         {e \in polling : Owner(e) = n} =
           ({threads[n][i] : i \in Ids} \ {Null})
             \union (IF listener[n] = "kill" THEN {Accepted(inHand[n])} ELSE {})
    /\ \A e \in polling : dest[e[1]] # Null /\ obj[e] \in {"ready", "deleted"}

\* A thread in the map polls the connection that peers has, unless the listener is
\* replacing it, or both nodes dialed.
SameOK ==
    \A n \in Nodes, i \in Ids :
      LET e == threads[n][i] IN
      (e # Null /\ main[n] # "deleted") =>
        \/ peers[n][i] = e
        \/ Crossed(n, Dialer(e[1]))
        \/ listener[n] \in {"spawn", "kill"} /\ IdOf(Dialer(inHand[n])) = i

\* So does the thread that it is about to start or to put there.
NextOK ==
    \A n \in Nodes :
      LET c == inHand[n] IN
      listener[n] \in {"spawn", "kill"} =>
        peers[n][IdOf(Dialer(c))] = Accepted(c) \/ Crossed(n, Dialer(c))

\* What an entry of peers is: PeersGood without the buffers, and what keeps it so.
EntriesOK ==
    \A n \in Nodes, i \in Ids :
      LET e == peers[n][i] IN
      e # Null =>
        /\ obj[e] = "ready"
        /\ dest[e[1]] # Null
        /\ Owner(e) = n /\ IdOf(Remote(e)) = i

IndInv ==
    /\ TypeOK /\ ConnsOK /\ BacklogOK /\ MainOK /\ ListenerOK
    /\ EntriesOK /\ ThreadsOK /\ PollingOK /\ SameOK /\ NextOK

-----------------------------------------------------------------------------
(* What the actions that change little preserve *)

\* Objects go on from "none", and no further than to "deleted".
Onward ==
    \A e \in Ends :
      /\ obj[e] = "none" <=> obj'[e] = "none"
      /\ obj[e] \in {"ready", "deleted"} => obj'[e] \in {"ready", "deleted"}

LEMMA ConnsKept ==
    ASSUME ConnsOK, Onward, UNCHANGED <<dest, dials>>
    PROVE  ConnsOK'
BY EndFacts DEF ConnsOK, Onward

LEMMA BacklogKept ==
    ASSUME TypeOK, BacklogOK, Onward, UNCHANGED <<dest, backlog>>
    PROVE  BacklogOK'
<1>1. \A n \in Nodes : \A k \in 1..Len(backlog[n]) : backlog[n][k] \in Conns
  BY DEF TypeOK
<1> QED
  BY <1>1, EndFacts DEF BacklogOK, Onward

LEMMA ListenerKept ==
    ASSUME ListenerOK, Onward, UNCHANGED <<dest, inHand, threads>>, polling' \subseteq polling,
           \A n \in Nodes : listener'[n] \in {"handshake", "spawn", "kill"} =>
                             listener'[n] = listener[n],
           \A n \in Nodes, i \in Ids :
             \/ peers'[n][i] = peers[n][i]
             \/ \A c \in Conns : peers'[n][i] # Accepted(c)
    PROVE  ListenerOK'
BY EndFacts DEF ListenerOK, Onward

LEMMA ThreadsKept ==
    ASSUME ThreadsOK, UNCHANGED <<dest, threads>>
    PROVE  ThreadsOK'
BY DEF ThreadsOK

LEMMA PollingKept ==
    ASSUME PollingOK, Onward, UNCHANGED <<dest, inHand, threads, polling>>, polling \subseteq Ends,
           \A n \in Nodes : listener'[n] = "kill" <=> listener[n] = "kill"
    PROVE  PollingOK'
BY DEF PollingOK, Onward, Owner

LEMMA SameKept ==
    ASSUME SameOK, NextOK, UNCHANGED <<dest, inHand, peers, threads>>,
           \A n \in Nodes : listener[n] \in {"spawn", "kill"} <=> listener'[n] \in {"spawn", "kill"},
           \A n \in Nodes : main[n] = "deleted" => main'[n] = "deleted"
    PROVE  SameOK' /\ NextOK'
<1>1. \A n, m : Crossed(n, m) <=> Crossed(n, m)'
  BY DEF Crossed
<1>2. SameOK'
  BY <1>1 DEF SameOK
<1>3. NextOK'
  BY <1>1 DEF NextOK
<1> QED
  BY <1>2, <1>3

LEMMA MainKept ==
    ASSUME MainOK, UNCHANGED <<dials, peers, threads>>,
           \A n \in Nodes : main'[n] \in {main[n], "idle", "joining"},
           \A n \in Nodes : listener[n] = "gone" => listener'[n] = "gone"
    PROVE  MainOK'
BY DEF MainOK, Current

LEMMA EntriesKept ==
    ASSUME EntriesOK, UNCHANGED <<dest, peers>>,
           \A n \in Nodes, i \in Ids :
             LET e == peers[n][i] IN (e # Null /\ obj[e] = "ready") => obj'[e] = "ready"
    PROVE  EntriesOK'
BY DEF EntriesOK, Owner, Remote


-----------------------------------------------------------------------------
(* Each action preserves the invariant *)

\* The thread that runs is in the middle of a connection of its own.
LEMMA CurrentFacts ==
    ASSUME IndInv, NEW n \in Nodes
    PROVE  /\ main[n] = "handshake" =>
                /\ n \in Clients /\ Current(n) \in Conns /\ Dialer(Current(n)) = n
                /\ Dialed(Current(n)) \in Ends
                /\ dest[Current(n)] \in Nodes \ {n} /\ IdOf(dest[Current(n)]) # Unlisted
           /\ listener[n] \in {"handshake", "spawn", "kill"} =>
                /\ inHand[n] \in Conns /\ Accepted(inHand[n]) \in Ends
                /\ dest[inHand[n]] = n /\ Dialer(inHand[n]) \in Nodes \ {n}
<1>1. ASSUME main[n] = "handshake"
      PROVE  /\ n \in Clients /\ Current(n) \in Conns /\ Dialer(Current(n)) = n
             /\ Current(n)[2] = dials[n]
  <2>1. n \in Clients /\ dials[n] \in 1..MaxDials[n]
    BY <1>1, ConnectionsAssumption DEF IndInv, MainOK
  <2> QED
    BY <2>1, ConnFacts DEF Current, Dialer
<1>2. ASSUME main[n] = "handshake"
      PROVE  dest[Current(n)] \in Nodes \ {n} /\ IdOf(dest[Current(n)]) # Unlisted
  <2>1. ~(Current(n)[2] > dials[Dialer(Current(n))])
    BY <1>1, <1>2 DEF IndInv, TypeOK
  <2> QED
    BY <1>1, <1>2, <2>1 DEF IndInv, ConnsOK
<1>3. ASSUME listener[n] \in {"handshake", "spawn", "kill"}
      PROVE  inHand[n] \in Conns /\ dest[inHand[n]] = n
  BY <1>3 DEF IndInv, ListenerOK
<1>4. ASSUME listener[n] \in {"handshake", "spawn", "kill"}
      PROVE  Dialer(inHand[n]) \in Nodes \ {n}
  <2>1. dest[inHand[n]] # Null
    BY <1>3, <1>4, ConnectionsAssumption
  <2> QED
    BY <1>3, <1>4, <2>1, ConnFacts DEF IndInv, ConnsOK, Nodes
<1> QED
  BY <1>1, <1>2, <1>3, <1>4, EndFacts

LEMMA BacklogFacts ==
    ASSUME IndInv
    PROVE  \A n \in Nodes : \A k \in 1..Len(backlog[n]) :
             backlog[n][k] \in Conns /\ dest[backlog[n][k]] = n /\ n # Null
<1> SUFFICES ASSUME NEW n \in Nodes, NEW k \in 1..Len(backlog[n])
             PROVE  backlog[n][k] \in Conns /\ dest[backlog[n][k]] = n /\ n # Null
  OBVIOUS
<1>1. backlog[n] \in Seq(Conns)
  BY DEF IndInv, TypeOK
<1>2. backlog[n][k] \in Conns
  BY <1>1
<1> QED
  BY <1>2, ConnectionsAssumption DEF IndInv, BacklogOK

LEMMA IndInit == Init => IndInv
<1> SUFFICES ASSUME Init PROVE IndInv
  OBVIOUS
<1> USE DEF Init
<1>1. TypeOK
  BY ConnectionsAssumption DEF TypeOK, Nodes
<1>2. ConnsOK
  BY ConnFacts, EndFacts DEF ConnsOK
<1>3. BacklogOK
  BY DEF BacklogOK
<1>4. MainOK
  BY ConnectionsAssumption DEF MainOK, Nodes
<1>5. ListenerOK /\ NextOK
  BY DEF ListenerOK, NextOK
<1>6. EntriesOK /\ ThreadsOK /\ SameOK
  BY DEF EntriesOK, ThreadsOK, SameOK
<1>7. PollingOK
  BY DEF PollingOK
<1> QED
  BY <1>1, <1>2, <1>3, <1>4, <1>5, <1>6, <1>7 DEF IndInv

\* A handshake goes on: only one object changes.
LEMMA SwapInd ==
    ASSUME IndInv, NEW e \in Ends, SwapIds(e) \/ SwapMeta(e)
    PROVE  IndInv'
<1> USE DEF SwapIds, SwapMeta, connVars, nodeVars
<1>1. TypeOK'
  <2>1. obj' \in [Ends -> {"none", "id", "meta", "ready", "deleted"}]
    BY DEF IndInv, TypeOK
  <2>2. wrote' \in [Ends -> 0..2]
    <3>1. CASE SwapIds(e)
      BY <3>1 DEF IndInv, TypeOK
    <3>2. CASE SwapMeta(e)
      BY <3>2 DEF IndInv, TypeOK
    <3> QED
      BY <3>1, <3>2
  <2> QED
    BY <2>1, <2>2 DEF IndInv, TypeOK
<1>2. Onward
  BY DEF IndInv, TypeOK, Onward
<1>3. ConnsOK' /\ BacklogOK' /\ ListenerOK' /\ ThreadsOK'
  BY <1>2, ConnsKept, BacklogKept, ListenerKept, ThreadsKept DEF IndInv
<1>4. PollingOK' /\ SameOK' /\ NextOK'
  BY <1>2, PollingKept, SameKept DEF IndInv, TypeOK
<1>5. EntriesOK'
  BY EntriesKept DEF IndInv, TypeOK
<1>6. MainOK'
  BY DEF IndInv, MainOK, Current
<1> QED
  BY <1>1, <1>3, <1>4, <1>5, <1>6 DEF IndInv


\* The objects of a failed handshake or of replaced connections are deleted.
LEMMA FailsInd ==
    ASSUME IndInv, NEW n \in Nodes, (n \in Clients /\ DialFails(n)) \/ AcceptFails(n)
    PROVE  IndInv'
<1>1. PICK e \in Ends :
        /\ Failed(e)
        /\ main' = main \/ main' = [main EXCEPT ![n] = "idle"]
        /\ main' # main => main[n] = "handshake"
        /\ \/ listener' = listener
           \/ listener[n] = "none" /\ listener' = [listener EXCEPT ![n] = "starting"]
           \/ listener[n] = "handshake" /\ listener' = [listener EXCEPT ![n] = "accept"]
  <2>1. CASE n \in Clients /\ DialFails(n)
    <3>1. Dialed(Current(n)) \in Ends
      BY <2>1, CurrentFacts DEF DialFails
    <3>2. \/ listener' = listener
          \/ listener[n] = "none" /\ listener' = [listener EXCEPT ![n] = "starting"]
      BY <2>1 DEF DialFails, EndOfStart, IndInv, TypeOK
    <3> QED
      BY <2>1, <3>1, <3>2 DEF DialFails
  <2>2. CASE AcceptFails(n)
    <3>1. Accepted(inHand[n]) \in Ends
      BY <2>2, CurrentFacts DEF AcceptFails
    <3> QED
      BY <2>2, <3>1 DEF AcceptFails
  <2> QED
    BY <2>1, <2>2
<1>2. /\ obj[e] \in {"id", "meta"} /\ obj' = [obj EXCEPT ![e] = "deleted"]
      /\ gaveUp' = gaveUp \union {e} /\ faults' \in 0..MaxFaults
      /\ UNCHANGED <<dest, backlog, wrote, dials, inHand, peers, threads, polling>>
  <2>1. faults' \in 0..MaxFaults
    BY <1>1, ConnectionsAssumption DEF Failed, IndInv, TypeOK
  <2> QED
    BY <1>1, <2>1 DEF Failed, Unanswered, connVars
<1>3. TypeOK'
  <2>1. obj' \in [Ends -> {"none", "id", "meta", "ready", "deleted"}]
    BY <1>2 DEF IndInv, TypeOK
  <2>2. /\ main' \in [Nodes -> {"start", "handshake", "idle", "joining", "deleted", "gone"}]
        /\ listener' \in [Nodes -> {"none", "starting", "accept", "handshake", "spawn", "kill", "gone"}]
    BY <1>1 DEF IndInv, TypeOK
  <2> QED
    BY <1>2, <2>1, <2>2 DEF IndInv, TypeOK
<1>4. Onward
  BY <1>2 DEF IndInv, TypeOK, Onward
<1>5. \A m \in Nodes :
        /\ listener'[m] \in {"handshake", "spawn", "kill"} => listener'[m] = listener[m]
        /\ listener'[m] = "kill" <=> listener[m] = "kill"
        /\ listener[m] \in {"spawn", "kill"} <=> listener'[m] \in {"spawn", "kill"}
        /\ main[m] = "deleted" => main'[m] = "deleted"
        /\ main'[m] \in {main[m], "idle"}
        /\ listener[m] = "gone" => listener'[m] = "gone"
  BY <1>1 DEF IndInv, TypeOK
<1>6. ConnsOK' /\ BacklogOK' /\ ThreadsOK'
  BY <1>2, <1>4, ConnsKept, BacklogKept, ThreadsKept DEF IndInv
<1>7. ListenerOK' /\ PollingOK' /\ SameOK' /\ NextOK'
  BY <1>2, <1>4, <1>5, ListenerKept, PollingKept, SameKept DEF IndInv, TypeOK
<1>8. EntriesOK'
  <2>1. \A m \in Nodes, i \in Ids :
          LET f == peers[m][i] IN (f # Null /\ obj[f] = "ready") => obj'[f] = "ready"
    BY <1>2 DEF IndInv, TypeOK
  <2> QED
    BY <1>2, <2>1, EntriesKept DEF IndInv
<1>9. MainOK'
  BY <1>2, <1>5, MainKept DEF IndInv
<1> QED
  BY <1>3, <1>6, <1>7, <1>8, <1>9 DEF IndInv


\* A thread goes on without touching the connections.
LEMMA QuietInd ==
    ASSUME IndInv, NEW n \in Nodes,
           (n \in Clients /\ StartAlone(n)) \/ Listen(n) \/ Stop(n) \/ ListenerEnds(n)
    PROVE  IndInv'
<1>1. UNCHANGED <<dest, backlog, wrote, obj, dials, inHand, peers, threads, polling, faults, gaveUp>>
  BY DEF StartAlone, Listen, Stop, ListenerEnds, connVars
<1>2. /\ main' \in [Nodes -> {"start", "handshake", "idle", "joining", "deleted", "gone"}]
      /\ listener' \in [Nodes -> {"none", "starting", "accept", "handshake", "spawn", "kill", "gone"}]
  BY DEF StartAlone, EndOfStart, Listen, Stop, ListenerEnds, IndInv, TypeOK
<1>3. \A m \in Nodes :
        /\ listener'[m] \in {"handshake", "spawn", "kill"} => listener'[m] = listener[m]
        /\ listener'[m] = "kill" <=> listener[m] = "kill"
        /\ listener[m] \in {"spawn", "kill"} <=> listener'[m] \in {"spawn", "kill"}
        /\ listener[m] = "gone" => listener'[m] = "gone"
        /\ main[m] = "deleted" => main'[m] = "deleted"
        /\ main'[m] \in {main[m], "idle", "joining"}
  <2>1. CASE n \in Clients /\ StartAlone(n)
    BY <2>1 DEF StartAlone, EndOfStart, IndInv, TypeOK
  <2>2. CASE Listen(n) \/ Stop(n) \/ ListenerEnds(n)
    BY <2>2 DEF Listen, Stop, ListenerEnds, IndInv, TypeOK
  <2> QED
    BY <2>1, <2>2
<1>4. TypeOK'
  BY <1>1, <1>2 DEF IndInv, TypeOK
<1>5. Onward
  BY <1>1 DEF Onward
<1>6. ConnsOK' /\ BacklogOK' /\ ThreadsOK' /\ EntriesOK'
  BY <1>1, <1>5, ConnsKept, BacklogKept, ThreadsKept, EntriesKept DEF IndInv
<1>7. ListenerOK' /\ PollingOK' /\ SameOK' /\ NextOK' /\ MainOK'
  BY <1>1, <1>3, <1>5, ListenerKept, PollingKept, SameKept, MainKept DEF IndInv, TypeOK
<1> QED
  BY <1>4, <1>6, <1>7 DEF IndInv


\* A client dials: SocketConnect reaches another, listed node.
LEMMA ReachedFacts ==
    ASSUME NEW n \in Clients, NEW id \in Ids, NEW r \in Nodes, Reaches(n, id, r),
           id = 0 \/ <<n, id>> \in Targets
    PROVE  r # n /\ IdOf(r) # Unlisted
<1>1. CASE r = Server
  BY <1>1, IdFacts, ConnectionsAssumption
<1>2. CASE r # Server
  <2>1. r \in Clients /\ <<n, id>> \in Targets /\ Ip[r] = getIPbyID(id)
    <3>1. 0 # id
      BY <1>2 DEF Reaches
    <3> QED
      BY <1>2, <3>1 DEF Reaches, Nodes
  <2>2. id \in DOMAIN id2ip_ /\ id # IdOf(n)
    BY <2>1, ConnectionsAssumption
  <2>3. IdOf(r) = id
    BY <1>2, <2>1, <2>2, LookupsInverse DEF IdOf
  <2> QED
    BY <2>2, <2>3, ConfigurationAssumption
<1> QED
  BY <1>1, <1>2

LEMMA DialInd ==
    ASSUME IndInv, NEW n \in Clients, NEW id \in Ids, NEW r \in Nodes, Dial(n, id, r)
    PROVE  IndInv'
<1> DEFINE c == <<n, dials[n] + 1>>
<1>1. c \in Conns /\ Dialer(c) = n /\ c[2] = dials[n] + 1 /\ dials[n] \in Nat
  <2>1. dials[n] \in Nat /\ dials[n] + 1 \in 1..MaxDials[n]
    <3>1. dials[n] \in Nat /\ MaxDials[n] \in Nat
      BY ConnectionsAssumption DEF IndInv, TypeOK
    <3>2. dials[n] < MaxDials[n]
      BY DEF Dial
    <3> QED
      BY <3>1, <3>2
  <2> QED
    BY <2>1, ConnFacts DEF Dialer
<1>2. dest[c] = Null /\ obj[Dialed(c)] = "none" /\ obj[Accepted(c)] = "none"
  BY <1>1 DEF IndInv, ConnsOK
<1>3. r # n /\ IdOf(r) # Unlisted
  BY ReachedFacts DEF Dial
<1>4. /\ dest' = [dest EXCEPT ![c] = r]
      /\ backlog' = [backlog EXCEPT ![r] = Append(@, c)]
      /\ wrote' = [wrote EXCEPT ![Dialed(c)] = 1]
      /\ obj' = [obj EXCEPT ![Dialed(c)] = "id"]
      /\ main' = [main EXCEPT ![n] = "handshake"]
      /\ dials' = [dials EXCEPT ![n] = @ + 1]
      /\ main[n] \in {"start", "idle"}
      /\ UNCHANGED <<listener, inHand, peers, threads, polling, faults, gaveUp>>
  BY DEF Dial
<1> HIDE DEF c
<1>5. /\ \A d \in Conns : d # c => dest'[d] = dest[d]
      /\ dest'[c] = r
      /\ \A d \in Conns : dest[d] # Null => d # c /\ dest'[d] = dest[d]
  BY <1>1, <1>2, <1>4 DEF IndInv, TypeOK
<1>6. /\ \A e \in Ends : e # Dialed(c) => obj'[e] = obj[e]
      /\ \A e \in Ends : obj[e] # "none" => obj'[e] = obj[e]
      /\ obj'[Dialed(c)] = "id"
      /\ \A d \in Conns : obj'[Accepted(d)] = obj[Accepted(d)]
  BY <1>1, <1>2, <1>4, EndFacts DEF IndInv, TypeOK
<1>7. \A m, k \in Nodes : Crossed(m, k) => Crossed(m, k)'
  BY <1>5, ConnectionsAssumption DEF Crossed
<1>8. \A e \in Ends : dest[e[1]] # Null => Owner(e)' = Owner(e) /\ Remote(e)' = Remote(e)
  <2>1. \A e \in Ends : e[1] \in Conns /\ Other(e)[1] = e[1]
    BY EndFacts DEF Other
  <2> QED
    BY <1>5, <2>1 DEF Owner, Remote
<1>9. TypeOK'
  <2>1. /\ dest' \in [Conns -> Nodes \union {Null}]
        /\ obj' \in [Ends -> {"none", "id", "meta", "ready", "deleted"}]
        /\ main' \in [Nodes -> {"start", "handshake", "idle", "joining", "deleted", "gone"}]
    BY <1>4 DEF IndInv, TypeOK
  <2>2. wrote' \in [Ends -> 0..2]
    <3>1. wrote \in [Ends -> 0..2] /\ 1 \in 0..2
      BY DEF IndInv, TypeOK
    <3> QED
      BY <1>4, <3>1
  <2>4. dials' \in [Clients -> Nat]
    BY <1>1, <1>4 DEF IndInv, TypeOK
  <2>3. backlog' \in [Nodes -> Seq(Conns)]
    BY <1>1, <1>4 DEF IndInv, TypeOK
  <2> QED
    BY <1>4, <2>1, <2>2, <2>3, <2>4 DEF IndInv, TypeOK
<1>10. \A m \in Clients : dials'[m] = IF m = n THEN dials[n] + 1 ELSE dials[m]
  BY <1>4 DEF IndInv, TypeOK
<1>11. ConnsOK'
  <2> SUFFICES ASSUME NEW d \in Conns
               PROVE  IF d[2] > dials'[Dialer(d)]
                      THEN dest'[d] = Null /\ obj'[Dialed(d)] = "none" /\ obj'[Accepted(d)] = "none"
                      ELSE dest'[d] \in Nodes /\ dest'[d] # Dialer(d) /\ IdOf(dest'[d]) # Unlisted
    BY DEF ConnsOK
  <2>1. CASE d = c
    BY <1>1, <1>3, <1>5, <1>10, <2>1
  <2>2. CASE d # c
    <3>1. d[2] > dials'[Dialer(d)] <=> d[2] > dials[Dialer(d)]
      <4>1. CASE Dialer(d) = n
        <5>1. d[2] # dials[n] + 1 /\ d[2] \in Nat
          BY <2>2, <4>1, ConnFacts, ConnectionsAssumption DEF c
        <5> QED
          BY <1>1, <1>10, <4>1, <5>1
      <4>2. CASE Dialer(d) # n
        BY <1>10, <4>2, ConnFacts
      <4> QED
        BY <4>1, <4>2
    <3>2. Dialed(d) # Dialed(c) /\ Dialed(d) \in Ends /\ Accepted(d) \in Ends
      BY <1>1, <2>2, EndFacts
    <3> QED
      BY <1>5, <1>6, <2>2, <3>1, <3>2 DEF IndInv, ConnsOK
  <2> QED
    BY <2>1, <2>2
<1>12. BacklogOK'
  <2>1. \A m \in Nodes \ {r} : backlog'[m] = backlog[m]
    BY <1>4 DEF IndInv, TypeOK
  <2>2. /\ Len(backlog'[r]) = Len(backlog[r]) + 1 /\ Len(backlog[r]) \in Nat
        /\ backlog'[r][Len(backlog[r]) + 1] = c
        /\ \A k \in 1..Len(backlog[r]) : backlog'[r][k] = backlog[r][k]
    BY <1>1, <1>4 DEF IndInv, TypeOK
  <2>3. \A m \in Nodes : \A k \in 1..Len(backlog[m]) :
          /\ backlog[m][k] \in Conns /\ dest[backlog[m][k]] = m
          /\ backlog[m][k] # c /\ dest'[backlog[m][k]] = m
          /\ obj'[Accepted(backlog[m][k])] = "none"
    <3>1. \A m \in Nodes : \A k \in 1..Len(backlog[m]) :
            backlog[m][k] \in Conns /\ dest[backlog[m][k]] = m /\ m # Null
      BY BacklogFacts
    <3> QED
      BY <1>5, <1>6, <3>1 DEF IndInv, BacklogOK
  <2>4. \A m \in Nodes : \A j, k \in 1..Len(backlog[m]) : backlog[m][j] = backlog[m][k] => j = k
    BY DEF IndInv, BacklogOK
  <2>5. \A m \in Nodes \ {r} : \A k \in 1..Len(backlog'[m]) :
          /\ dest'[backlog'[m][k]] = m
          /\ obj'[Accepted(backlog'[m][k])] = "none"
          /\ \A j \in 1..Len(backlog'[m]) : backlog'[m][j] = backlog'[m][k] => j = k
    BY <2>1, <2>3, <2>4
  <2>6. \A k \in 1..Len(backlog'[r]) :
          /\ dest'[backlog'[r][k]] = r
          /\ obj'[Accepted(backlog'[r][k])] = "none"
          /\ \A j \in 1..Len(backlog'[r]) : backlog'[r][j] = backlog'[r][k] => j = k
    <3>1. \A k \in 1..Len(backlog'[r]) : k \in 1..Len(backlog[r]) \/ k = Len(backlog[r]) + 1
      BY <2>2
    <3>2. dest'[c] = r /\ obj'[Accepted(c)] = "none"
      BY <1>1, <1>2, <1>5, <1>6
    <3>3. ASSUME NEW k \in 1..Len(backlog'[r])
          PROVE  dest'[backlog'[r][k]] = r /\ obj'[Accepted(backlog'[r][k])] = "none"
      <4>1. CASE k \in 1..Len(backlog[r])
        <5>1. backlog'[r][k] = backlog[r][k]
          BY <2>2, <4>1
        <5> QED
          BY <2>3, <4>1, <5>1
      <4>2. CASE k = Len(backlog[r]) + 1
        BY <2>2, <3>2, <4>2
      <4> QED
        BY <3>1, <4>1, <4>2
    <3>4. ASSUME NEW k \in 1..Len(backlog'[r]), NEW j \in 1..Len(backlog'[r]),
                 backlog'[r][j] = backlog'[r][k]
          PROVE  j = k
      <4>1. CASE k \in 1..Len(backlog[r]) /\ j \in 1..Len(backlog[r])
        <5>1. backlog'[r][k] = backlog[r][k] /\ backlog'[r][j] = backlog[r][j]
          BY <2>2, <4>1
        <5> QED
          BY <2>4, <3>4, <4>1, <5>1
      <4>2. \A i \in 1..Len(backlog[r]) : backlog'[r][i] # backlog'[r][Len(backlog[r]) + 1]
        <5> SUFFICES ASSUME NEW i \in 1..Len(backlog[r])
                     PROVE  backlog'[r][i] # backlog'[r][Len(backlog[r]) + 1]
          OBVIOUS
        <5>1. backlog'[r][i] = backlog[r][i] /\ backlog[r][i] # c
          BY <1>1, <2>2, <2>3
        <5> QED
          BY <2>2, <5>1
      <4> QED
        BY <3>1, <3>4, <4>1, <4>2
    <3> QED
      BY <3>3, <3>4
  <2> QED
    BY <2>5, <2>6 DEF BacklogOK
<1>13. MainOK'
  <2>1. \A i \in Ids : peers[n][i] # Dialed(Current(n)')
    <3>1. Current(n)' = c
      BY <1>10 DEF Current, c
    <3> QED
      BY <1>1, <1>2, <3>1, EndFacts, ConnectionsAssumption DEF IndInv, EntriesOK, Nodes
  <2>2. \A m \in Nodes \ {n} : main'[m] = main[m] /\ (m \in Clients => dials'[m] = dials[m])
    BY <1>4, <1>10 DEF IndInv, TypeOK
  <2>3. main'[n] = "handshake" /\ dials'[n] \in 0..MaxDials[n] /\ dials'[n] > 0
    <3>1. dials[n] + 1 \in 1..MaxDials[n]
      BY <1>1, ConnFacts
    <3> QED
      BY <1>1, <1>4, <1>10, <3>1 DEF IndInv, TypeOK, Nodes
  <2>4. \A m \in Nodes \ {n} : main[m] = "handshake" => Current(m)' = Current(m)
    BY <2>2 DEF Current, IndInv, MainOK
  <2> QED
    BY <1>4, <2>1, <2>2, <2>3, <2>4 DEF IndInv, MainOK
<1>14. ListenerOK'
  <2>1. \A m \in Nodes : listener[m] \in {"handshake", "spawn", "kill"} =>
          /\ inHand[m] \in Conns /\ dest'[inHand[m]] = m
          /\ obj'[Accepted(inHand[m])] = obj[Accepted(inHand[m])]
    BY <1>5, <1>6, CurrentFacts, ConnectionsAssumption
  <2> QED
    BY <1>4, <2>1 DEF IndInv, ListenerOK
<1>15. EntriesOK'
  BY <1>4, <1>5, <1>6, <1>8, EndFacts DEF IndInv, TypeOK, EntriesOK
<1>16. ThreadsOK'
  BY <1>4, <1>5, EndFacts, ConnectionsAssumption DEF IndInv, TypeOK, ThreadsOK
<1>17. PollingOK'
  <2>1. \A e \in polling : e \in Ends /\ dest[e[1]] # Null /\ obj[e] \in {"ready", "deleted"}
    BY DEF IndInv, TypeOK, PollingOK
  <2>2. \A e \in polling : dest'[e[1]] # Null /\ obj'[e] \in {"ready", "deleted"} /\ Owner(e)' = Owner(e)
    BY <1>5, <1>6, <1>8, <2>1, EndFacts
  <2> QED
    BY <1>4, <2>2 DEF IndInv, PollingOK
<1>18. SameOK' /\ NextOK'
  <2>1. \A m \in Nodes : main'[m] # "deleted" => main[m] # "deleted"
    BY <1>4 DEF IndInv, TypeOK
  <2>2. \A m \in Nodes, i \in Ids : threads[m][i] # Null => Dialer(threads[m][i][1]) \in Nodes
    BY ConnFacts, EndFacts DEF IndInv, TypeOK, Nodes
  <2>3. SameOK'
    BY <1>4, <1>7, <2>1, <2>2 DEF IndInv, SameOK
  <2>4. NextOK'
    BY <1>4, <1>7, CurrentFacts DEF IndInv, NextOK
  <2> QED
    BY <2>3, <2>4
<1> QED
  BY <1>9, <1>11, <1>12, <1>13, <1>14, <1>15, <1>16, <1>17, <1>18 DEF IndInv


\* The listener takes the first connection of its backlog.
LEMMA AcceptInd ==
    ASSUME IndInv, NEW n \in Nodes, Accept(n)
    PROVE  IndInv'
<1> DEFINE c == Head(backlog[n])
<1>1. /\ backlog[n] \in Seq(Conns) /\ Len(backlog[n]) \in Nat /\ Len(backlog[n]) > 0
      /\ c = backlog[n][1] /\ c \in Conns
      /\ Len(Tail(backlog[n])) = Len(backlog[n]) - 1
      /\ \A k \in 1..(Len(backlog[n]) - 1) : Tail(backlog[n])[k] = backlog[n][k + 1]
  BY DEF Accept, IndInv, TypeOK
<1>2. /\ backlog' = [backlog EXCEPT ![n] = Tail(@)]
      /\ inHand' = [inHand EXCEPT ![n] = c]
      /\ wrote' = [wrote EXCEPT ![Accepted(c)] = 1]
      /\ obj' = [obj EXCEPT ![Accepted(c)] = "id"]
      /\ listener[n] = "accept"
      /\ listener' = [listener EXCEPT ![n] = "handshake"]
      /\ UNCHANGED <<dest, main, dials, peers, threads, polling, faults, gaveUp>>
  BY DEF Accept
<1>3. dest[c] = n /\ obj[Accepted(c)] = "none"
  BY <1>1 DEF IndInv, BacklogOK
<1> HIDE DEF c
<1>4. /\ \A e \in Ends : e # Accepted(c) => obj'[e] = obj[e]
      /\ \A e \in Ends : obj[e] # "none" => obj'[e] = obj[e]
      /\ obj'[Accepted(c)] = "id"
      /\ \A d \in Conns : d # c => obj'[Accepted(d)] = obj[Accepted(d)] /\ Accepted(d) # Accepted(c)
      /\ \A d \in Conns : obj'[Dialed(d)] = obj[Dialed(d)]
  <2>1. /\ Accepted(c) \in Ends
        /\ \A d \in Conns : /\ Dialed(d) \in Ends /\ Dialed(d) # Accepted(c)
                           /\ Accepted(d) \in Ends /\ (d # c => Accepted(d) # Accepted(c))
    BY <1>1, EndFacts
  <2>2. /\ \A e \in Ends : e # Accepted(c) => obj'[e] = obj[e]
        /\ obj'[Accepted(c)] = "id"
    BY <1>2, <2>1 DEF IndInv, TypeOK
  <2> QED
    BY <1>3, <2>1, <2>2
<1>5. \A m \in Nodes :
        /\ m # n => listener'[m] = listener[m] /\ inHand'[m] = inHand[m] /\ backlog'[m] = backlog[m]
        /\ listener'[n] = "handshake" /\ inHand'[n] = c /\ backlog'[n] = Tail(backlog[n])
  BY <1>1, <1>2 DEF IndInv, TypeOK
<1>6. TypeOK'
  <2>1. /\ obj' \in [Ends -> {"none", "id", "meta", "ready", "deleted"}]
        /\ listener' \in [Nodes -> {"none", "starting", "accept", "handshake", "spawn", "kill", "gone"}]
        /\ inHand' \in [Nodes -> Conns \union {Null}]
    BY <1>1, <1>2 DEF IndInv, TypeOK
  <2>2. wrote' \in [Ends -> 0..2]
    <3>1. wrote \in [Ends -> 0..2] /\ 1 \in 0..2
      BY DEF IndInv, TypeOK
    <3> QED
      BY <1>2, <3>1
  <2>3. backlog' \in [Nodes -> Seq(Conns)]
    <3>1. backlog \in [Nodes -> Seq(Conns)] /\ Tail(backlog[n]) \in Seq(Conns)
      BY <1>1 DEF IndInv, TypeOK
    <3> QED
      BY <1>2, <3>1
  <2> QED
    BY <1>2, <2>1, <2>2, <2>3 DEF IndInv, TypeOK
<1>7. ConnsOK'
  <2>1. \A d \in Conns : dest[d] = Null => d # c
    BY <1>3, ConnectionsAssumption
  <2> QED
    BY <1>2, <1>4, <2>1 DEF IndInv, ConnsOK
<1>8. BacklogOK'
  <2>1. \A m \in Nodes \ {n} : \A k \in 1..Len(backlog[m]) :
          backlog[m][k] \in Conns /\ backlog[m][k] # c
    BY <1>3, BacklogFacts
  <2>2. \A k \in 2..Len(backlog[n]) : backlog[n][k] \in Conns /\ backlog[n][k] # c
    <3>1. \A k \in 2..Len(backlog[n]) : k \in 1..Len(backlog[n]) /\ k # 1
      BY <1>1
    <3>2. 1 \in 1..Len(backlog[n])
      BY <1>1
    <3> QED
      BY <1>1, <3>1, <3>2, BacklogFacts DEF IndInv, BacklogOK
  <2>3. \A m \in Nodes \ {n} : \A k \in 1..Len(backlog'[m]) :
          /\ dest'[backlog'[m][k]] = m
          /\ obj'[Accepted(backlog'[m][k])] = "none"
          /\ \A j \in 1..Len(backlog'[m]) : backlog'[m][j] = backlog'[m][k] => j = k
    BY <1>2, <1>4, <1>5, <2>1 DEF IndInv, BacklogOK
  <2>4. \A k \in 1..Len(backlog'[n]) :
          k + 1 \in 2..Len(backlog[n]) /\ k + 1 \in 1..Len(backlog[n]) /\ backlog'[n][k] = backlog[n][k + 1]
    <3>1. backlog'[n] = Tail(backlog[n])
      BY <1>5
    <3>2. \A k \in 1..(Len(backlog[n]) - 1) : k + 1 \in 2..Len(backlog[n]) /\ k + 1 \in 1..Len(backlog[n])
      BY <1>1
    <3> QED
      BY <1>1, <3>1, <3>2
  <2>5. \A k \in 1..Len(backlog'[n]) :
          /\ dest'[backlog'[n][k]] = n
          /\ obj'[Accepted(backlog'[n][k])] = "none"
    BY <1>2, <1>4, <2>2, <2>4 DEF IndInv, BacklogOK
  <2>6. \A j, k \in 1..Len(backlog'[n]) : backlog'[n][j] = backlog'[n][k] => j = k
    <3> SUFFICES ASSUME NEW j \in 1..Len(backlog'[n]), NEW k \in 1..Len(backlog'[n]),
                        backlog'[n][j] = backlog'[n][k]
                 PROVE  j = k
      OBVIOUS
    <3>1. j + 1 = k + 1
      BY <2>4, SMTT(30) DEF IndInv, BacklogOK
    <3>2. j \in Int /\ k \in Int
      OBVIOUS
    <3> QED
      BY <3>1, <3>2
  <2> QED
    BY <2>3, <2>5, <2>6 DEF BacklogOK
<1>9. MainOK'
  <2>1. \A m \in Nodes : listener[m] = "gone" => listener'[m] = "gone"
    BY <1>2, <1>5
  <2> QED
    BY <1>2, <2>1, MainKept DEF IndInv, TypeOK
<1>10. ListenerOK'
  <2>1. Accepted(c) \notin polling /\ \A i \in Ids : peers[n][i] # Accepted(c)
    BY <1>1, <1>3, EndFacts, ConnectionsAssumption DEF IndInv, PollingOK, EntriesOK
  <2>2. \A m \in Nodes \ {n} : listener[m] \in {"handshake", "spawn", "kill"} =>
          inHand[m] \in Conns /\ inHand[m] # c
    BY <1>3, CurrentFacts
  <2>3. \A m \in Nodes \ {n} : listener[m] \in {"handshake", "spawn", "kill"} =>
          obj'[Accepted(inHand[m])] = obj[Accepted(inHand[m])]
    BY <1>4, <2>2
  <2> QED
    BY <1>1, <1>2, <1>3, <1>4, <1>5, <2>1, <2>3 DEF IndInv, ListenerOK
<1>11. EntriesOK'
  BY <1>2, <1>4, EntriesKept, ConnectionsAssumption DEF IndInv, TypeOK, EntriesOK
<1>12. ThreadsOK'
  BY <1>2, ThreadsKept DEF IndInv
<1>13. PollingOK'
  <2>1. \A e \in polling : e \in Ends /\ obj[e] # "none"
    BY DEF IndInv, TypeOK, PollingOK
  <2> QED
    BY <1>2, <1>4, <1>5, <2>1 DEF IndInv, PollingOK, Owner
<1>14. SameOK' /\ NextOK'
  <2>1. \A m, k : Crossed(m, k)' <=> Crossed(m, k)
    BY <1>2 DEF Crossed
  <2> QED
    BY <1>2, <1>5, <2>1 DEF IndInv, SameOK, NextOK
<1> QED
  BY <1>6, <1>7, <1>8, <1>9, <1>10, <1>11, <1>12, <1>13, <1>14 DEF IndInv


\* The object e of node n is put into peers[n][id], and the one there is deleted.
LEMMA EnterFacts ==
    ASSUME IndInv, NEW n \in Nodes, NEW e \in Ends, NEW id \in Ids, Enter(n, id, e),
           dest[e[1]] # Null, Owner(e) = n, Remote(e) \in Nodes, id = IdOf(Remote(e)),
           obj[e] = "ready", \A i \in Ids : peers[n][i] # e, UNCHANGED dest
    PROVE  /\ peers' \in [Nodes -> [Ids -> Ends \union {Null}]]
           /\ \A m \in Nodes, i \in Ids : peers'[m][i] = IF m = n /\ i = id THEN e ELSE peers[m][i]
           /\ obj' \in [Ends -> {"none", "id", "meta", "ready", "deleted"}]
           /\ obj'[e] = "ready"
           /\ Onward
           /\ EntriesOK'
<1>1. peers' = [peers EXCEPT ![n][id] = e]
  BY DEF Enter
<1>2. \A m \in Nodes, i \in Ids : peers'[m][i] = IF m = n /\ i = id THEN e ELSE peers[m][i]
  BY <1>1 DEF IndInv, TypeOK
<1>3. peers' \in [Nodes -> [Ids -> Ends \union {Null}]]
  BY <1>1 DEF IndInv, TypeOK
<1>4. /\ obj' \in [Ends -> {"none", "id", "meta", "ready", "deleted"}]
      /\ \A f \in Ends : obj'[f] = IF f = peers[n][id] THEN "deleted" ELSE obj[f]
      /\ peers[n][id] # Null => peers[n][id] \in Ends /\ obj[peers[n][id]] = "ready"
  <2>1. CASE peers[n][id] = Null
    <3>1. obj' = obj
      BY <2>1 DEF Enter
    <3>2. \A f \in Ends : f # Null
      BY ConnectionsAssumption
    <3> QED
      BY <2>1, <3>1, <3>2 DEF IndInv, TypeOK
  <2>2. CASE peers[n][id] # Null
    <3>1. obj' = [obj EXCEPT ![peers[n][id]] = "deleted"]
      BY <2>2 DEF Enter
    <3>2. peers[n][id] \in Ends
      BY <2>2 DEF IndInv, TypeOK
    <3> QED
      BY <2>2, <3>1, <3>2 DEF IndInv, TypeOK, EntriesOK
  <2> QED
    BY <2>1, <2>2
<1>5. obj'[e] = "ready"
  BY <1>4
<1>6. Onward
  BY <1>4, ConnectionsAssumption DEF Onward
<1>7. \A f : Owner(f)' = Owner(f) /\ Remote(f)' = Remote(f)
  BY DEF Owner, Remote
<1>8. EntriesOK'
  <2> SUFFICES ASSUME NEW m \in Nodes, NEW i \in Ids, peers'[m][i] # Null
               PROVE  LET f == peers'[m][i] IN
                      /\ obj'[f] = "ready" /\ dest[f[1]] # Null
                      /\ Owner(f) = m /\ IdOf(Remote(f)) = i
    BY <1>7 DEF EntriesOK
  <2>1. CASE m = n /\ i = id
    BY <1>2, <1>5, <2>1
  <2>2. CASE ~(m = n /\ i = id)
    <3>1. /\ peers'[m][i] = peers[m][i] /\ peers[m][i] # Null
          /\ Owner(peers[m][i]) = m /\ IdOf(Remote(peers[m][i])) = i
          /\ obj[peers[m][i]] = "ready" /\ dest[peers[m][i][1]] # Null
      BY <1>2, <2>2 DEF IndInv, EntriesOK
    <3>2. peers[m][i] # peers[n][id]
      BY <2>2, <3>1 DEF IndInv, EntriesOK
    <3>3. peers[m][i] \in Ends
      BY <3>1 DEF IndInv, TypeOK
    <3> QED
      BY <1>4, <3>1, <3>2, <3>3
  <2> QED
    BY <2>1, <2>2
<1> QED
  BY <1>2, <1>3, <1>4, <1>5, <1>6, <1>8


\* The main thread has connected: the entry it replaces was accepted meanwhile.
LEMMA EnterDialedInd ==
    ASSUME IndInv, NEW n \in Clients, EnterDialed(n)
    PROVE  IndInv'
<1> DEFINE c == Current(n)
           e == Dialed(c)
           id == IdOf(dest[c])
<1>1. /\ c \in Conns /\ e \in Ends /\ e[1] = c /\ e[2] = "dial" /\ Dialer(c) = n
      /\ dest[c] \in Nodes /\ IdOf(dest[c]) # Unlisted
      /\ Owner(e) = n /\ Remote(e) = dest[c] /\ n \in Nodes
  BY CurrentFacts, EndFacts, OwnerFacts DEF EnterDialed, Nodes
<1>2. /\ main[n] = "handshake" /\ obj[e] = "ready" /\ Enter(n, id, e)
      /\ main' = [main EXCEPT ![n] = "idle"]
      /\ listener' = [listener EXCEPT ![n] = IF @ = "none" THEN "starting" ELSE @]
      /\ UNCHANGED <<dest, backlog, wrote, dials, inHand, threads, polling, faults, gaveUp>>
  BY <1>1 DEF EnterDialed, EndOfStart, connVars
<1>3. id \in Ids /\ dest[c] # Null
  BY <1>1, IdFacts, ConnectionsAssumption
<1>4. \A i \in Ids : peers[n][i] # e
  BY <1>1, <1>2 DEF IndInv, MainOK
<1> HIDE DEF c, e, id
<1>5. id = IdOf(Remote(e)) /\ dest[e[1]] # Null
  BY <1>1, <1>3 DEF id
<1>6. /\ peers' \in [Nodes -> [Ids -> Ends \union {Null}]]
      /\ \A m \in Nodes, i \in Ids : peers'[m][i] = IF m = n /\ i = id THEN e ELSE peers[m][i]
      /\ obj' \in [Ends -> {"none", "id", "meta", "ready", "deleted"}]
      /\ Onward
      /\ EntriesOK'
  BY <1>1, <1>2, <1>3, <1>4, <1>5, EnterFacts
<1>7. \A m \in Nodes :
        /\ main'[m] = IF m = n THEN "idle" ELSE main[m]
        /\ \/ listener'[m] = listener[m]
           \/ listener[m] = "none" /\ listener'[m] = "starting"
  BY <1>1, <1>2 DEF IndInv, TypeOK
<1>8. TypeOK'
  <2>1. /\ main' \in [Nodes -> {"start", "handshake", "idle", "joining", "deleted", "gone"}]
        /\ listener' \in [Nodes -> {"none", "starting", "accept", "handshake", "spawn", "kill", "gone"}]
    BY <1>2 DEF IndInv, TypeOK
  <2> QED
    BY <1>2, <1>6, <2>1 DEF IndInv, TypeOK
<1>9. ConnsOK' /\ BacklogOK' /\ ThreadsOK'
  BY <1>2, <1>6, ConnsKept, BacklogKept, ThreadsKept DEF IndInv
<1>10. ListenerOK'
  <2>1. \A m \in Nodes, i \in Ids :
          peers'[m][i] = peers[m][i] \/ \A d \in Conns : peers'[m][i] # Accepted(d)
    BY <1>1, <1>6, EndFacts
  <2>2. \A m \in Nodes : listener'[m] \in {"handshake", "spawn", "kill"} => listener'[m] = listener[m]
    BY <1>7
  <2> QED
    BY <1>2, <1>6, <2>1, <2>2, ListenerKept DEF IndInv
<1>11. PollingOK'
  <2>1. \A m \in Nodes : listener'[m] = "kill" <=> listener[m] = "kill"
    BY <1>7
  <2> QED
    BY <1>2, <1>6, <2>1, PollingKept DEF IndInv, TypeOK
<1>12. MainOK'
  <2>1. \A m \in Nodes : m # n => \A i \in Ids : peers'[m][i] = peers[m][i]
    BY <1>6
  <2>2. \A m \in Nodes : Current(m)' = Current(m)
    BY <1>2 DEF Current
  <2>3. \A m \in Nodes : listener[m] = "gone" => listener'[m] = "gone"
    BY <1>7
  <2> QED
    BY <1>2, <1>7, <2>1, <2>2, <2>3 DEF IndInv, MainOK
<1>13. ASSUME NEW m \in Nodes, IdOf(m) = id
       PROVE  m = dest[c]
  BY <1>1, <1>13, IdFacts DEF id
<1>14. \A d \in Conns : (dest[d] = n /\ Dialer(d) = dest[c]) => Crossed(n, Dialer(d))'
  BY <1>1, <1>2 DEF Crossed
<1>15. \A m, k : Crossed(m, k)' <=> Crossed(m, k)
  BY <1>2 DEF Crossed
<1>16. SameOK'
  <2> SUFFICES ASSUME NEW m \in Nodes, NEW i \in Ids, threads[m][i] # Null, main'[m] # "deleted"
               PROVE  \/ peers'[m][i] = threads[m][i]
                      \/ Crossed(m, Dialer(threads[m][i][1]))'
                      \/ listener'[m] \in {"spawn", "kill"} /\ IdOf(Dialer(inHand[m])) = i
    BY <1>2 DEF SameOK
  <2>1. CASE m = n /\ i = id
    <3>1. /\ threads[m][i] \in Ends /\ dest[threads[m][i][1]] = n
          /\ IdOf(Dialer(threads[m][i][1])) = id
      BY <2>1 DEF IndInv, TypeOK, ThreadsOK
    <3>2. threads[m][i][1] \in Conns /\ Dialer(threads[m][i][1]) \in Nodes
      BY <3>1, EndFacts, ConnFacts DEF Nodes
    <3>3. Dialer(threads[m][i][1]) = dest[c]
      BY <1>13, <3>1, <3>2
    <3> QED
      BY <1>2, <1>14, <2>1, <3>1, <3>2, <3>3
  <2>2. CASE ~(m = n /\ i = id)
    <3>1. peers'[m][i] = peers[m][i]
      BY <1>6, <2>2
    <3>2. main[m] # "deleted"
      BY <1>2, <1>7
    <3> QED
      BY <1>2, <1>7, <1>15, <3>1, <3>2 DEF IndInv, SameOK
  <2> QED
    BY <2>1, <2>2
<1>17. NextOK'
  <2> SUFFICES ASSUME NEW m \in Nodes, listener'[m] \in {"spawn", "kill"}
               PROVE  \/ peers'[m][IdOf(Dialer(inHand[m]))] = Accepted(inHand[m])
                      \/ Crossed(m, Dialer(inHand[m]))'
    BY <1>2 DEF NextOK
  <2>1. listener[m] \in {"spawn", "kill"}
    BY <1>7
  <2>2. inHand[m] \in Conns /\ dest[inHand[m]] = m /\ Dialer(inHand[m]) \in Nodes
    BY <2>1, CurrentFacts
  <2>3. IdOf(Dialer(inHand[m])) \in Ids
    BY <2>2, IdFacts
  <2>4. CASE m = n /\ IdOf(Dialer(inHand[m])) = id
    BY <1>2, <1>13, <1>14, <2>2, <2>4
  <2>5. CASE ~(m = n /\ IdOf(Dialer(inHand[m])) = id)
    <3>1. peers'[m][IdOf(Dialer(inHand[m]))] = peers[m][IdOf(Dialer(inHand[m]))]
      BY <1>6, <2>3, <2>5
    <3> QED
      BY <1>2, <1>15, <2>1, <3>1 DEF IndInv, NextOK
  <2> QED
    BY <2>4, <2>5
<1> QED
  BY <1>6, <1>8, <1>9, <1>10, <1>11, <1>12, <1>16, <1>17 DEF IndInv


\* The threads in a map run.
LEMMA ThreadsPoll ==
    ASSUME IndInv, NEW n \in Nodes, NEW i \in Ids, threads[n][i] # Null
    PROVE  threads[n][i] \in polling /\ Owner(threads[n][i]) = n
<1>1. threads[n][i] \in {threads[n][j] : j \in Ids} \ {Null}
  OBVIOUS
<1>2. threads[n][i] \in {e \in polling : Owner(e) = n}
  BY <1>1 DEF IndInv, PollingOK
<1> QED
  BY <1>2

\* What the listener has in hand while it works on it.
LEMMA InHandFacts ==
    ASSUME IndInv, NEW n \in Nodes, listener[n] \in {"handshake", "spawn", "kill"}
    PROVE  LET c == inHand[n]
               e == Accepted(c)
           IN  /\ c \in Conns /\ e \in Ends /\ e[1] = c /\ e[2] = "accept" /\ dest[c] = n
               /\ dest[c] # Null /\ Owner(e) = n /\ Remote(e) = Dialer(c) /\ Dialer(c) \in Nodes
               /\ IdOf(Dialer(c)) \in Ids
               /\ \A m \in Nodes \ {n} :
                    listener[m] \in {"handshake", "spawn", "kill"} =>
                      inHand[m] # c /\ Accepted(inHand[m]) # e
<1>1. /\ inHand[n] \in Conns /\ Accepted(inHand[n]) \in Ends
      /\ dest[inHand[n]] = n /\ Dialer(inHand[n]) \in Nodes
  BY CurrentFacts
<1>2. \A m \in Nodes \ {n} : listener[m] \in {"handshake", "spawn", "kill"} =>
        inHand[m] # inHand[n] /\ inHand[m] \in Conns
  BY <1>1, CurrentFacts
<1>3. n # Null
  BY ConnectionsAssumption
<1> QED
  BY <1>1, <1>2, <1>3, EndFacts, OwnerFacts, IdFacts

\* The listener has connected: it goes on to start the polling thread.
LEMMA EnterAcceptedInd ==
    ASSUME IndInv, NEW n \in Nodes, EnterAccepted(n)
    PROVE  IndInv'
<1> DEFINE c == inHand[n]
           e == Accepted(c)
           id == IdOf(Dialer(c))
<1>1. /\ c \in Conns /\ e \in Ends /\ e[1] = c /\ e[2] = "accept" /\ dest[c] = n /\ dest[c] # Null
      /\ Owner(e) = n /\ Remote(e) = Dialer(c) /\ Dialer(c) \in Nodes /\ id \in Ids
  BY InHandFacts DEF EnterAccepted
<1>2. /\ listener[n] = "handshake" /\ obj[e] = "ready" /\ Enter(n, id, e)
      /\ listener' = [listener EXCEPT ![n] = "spawn"]
      /\ UNCHANGED <<dest, backlog, wrote, main, dials, inHand, threads, polling, faults, gaveUp>>
  BY <1>1 DEF EnterAccepted, connVars
<1>3. e \notin polling /\ \A i \in Ids : peers[n][i] # e
  BY <1>2 DEF IndInv, ListenerOK
<1>4. \A m \in Nodes : listener'[m] = IF m = n THEN "spawn" ELSE listener[m]
  BY <1>2 DEF IndInv, TypeOK
<1> HIDE DEF c, e, id
<1>5. id = IdOf(Remote(e)) /\ dest[e[1]] # Null
  BY <1>1 DEF id
<1>6. /\ peers' \in [Nodes -> [Ids -> Ends \union {Null}]]
      /\ \A m \in Nodes, i \in Ids : peers'[m][i] = IF m = n /\ i = id THEN e ELSE peers[m][i]
      /\ obj' \in [Ends -> {"none", "id", "meta", "ready", "deleted"}]
      /\ obj'[e] = "ready"
      /\ Onward
      /\ EntriesOK'
  BY <1>1, <1>2, <1>3, <1>5, EnterFacts
<1>7. TypeOK'
  <2>1. listener' \in [Nodes -> {"none", "starting", "accept", "handshake", "spawn", "kill", "gone"}]
    BY <1>2 DEF IndInv, TypeOK
  <2> QED
    BY <1>2, <1>6, <2>1 DEF IndInv, TypeOK
<1>8. ConnsOK' /\ BacklogOK' /\ ThreadsOK'
  BY <1>2, <1>6, ConnsKept, BacklogKept, ThreadsKept DEF IndInv
<1>9. ListenerOK'
  <2> SUFFICES ASSUME NEW m \in Nodes, listener'[m] \in {"handshake", "spawn", "kill"}
               PROVE  LET d == inHand[m] IN
                      /\ d \in Conns /\ dest[d] = m
                      /\ obj'[Accepted(d)] # "none"
                      /\ listener'[m] \in {"spawn", "kill"} => obj'[Accepted(d)] \in {"ready", "deleted"}
                      /\ listener'[m] \in {"handshake", "spawn"} => Accepted(d) \notin polling
                      /\ listener'[m] = "handshake" => \A i \in Ids : peers'[m][i] # Accepted(d)
                      /\ listener'[m] = "kill" => \A i \in Ids : threads[m][i] # Accepted(d)
    BY <1>2 DEF ListenerOK
  <2>1. CASE m = n
    BY <1>1, <1>3, <1>4, <1>6, <2>1 DEF c, e
  <2>2. CASE m # n
    <3>1. listener'[m] = listener[m] /\ \A i \in Ids : peers'[m][i] = peers[m][i]
      BY <1>4, <1>6, <2>2
    <3>2. inHand[m] \in Conns /\ Accepted(inHand[m]) \in Ends
      BY <3>1, CurrentFacts
    <3> QED
      BY <1>6, <3>1, <3>2 DEF IndInv, ListenerOK, Onward
  <2> QED
    BY <2>1, <2>2
<1>10. PollingOK'
  <2>1. \A m \in Nodes : listener'[m] = "kill" <=> listener[m] = "kill"
    BY <1>2, <1>4
  <2> QED
    BY <1>2, <1>6, <2>1, PollingKept DEF IndInv, TypeOK
<1>11. MainOK'
  <2>1. \A m \in Nodes : m # n => \A i \in Ids : peers'[m][i] = peers[m][i]
    BY <1>6
  <2>2. \A m \in Nodes : main[m] = "handshake" => e # Dialed(Current(m)) /\ Current(m)' = Current(m)
    BY <1>1, <1>2, CurrentFacts, EndFacts DEF Current
  <2>3. \A m \in Nodes : listener[m] = "gone" => listener'[m] = "gone"
    BY <1>2, <1>4
  <2>4. \A m \in Nodes : main[m] = "handshake" => \A i \in Ids : peers'[m][i] # Dialed(Current(m))
    BY <1>6, <2>2 DEF IndInv, MainOK
  <2> QED
    BY <1>2, <2>2, <2>3, <2>4 DEF IndInv, MainOK
<1>12. \A m, k : Crossed(m, k)' <=> Crossed(m, k)
  BY <1>2 DEF Crossed
<1>13. SameOK'
  <2> SUFFICES ASSUME NEW m \in Nodes, NEW i \in Ids, threads[m][i] # Null, main[m] # "deleted"
               PROVE  \/ peers'[m][i] = threads[m][i]
                      \/ Crossed(m, Dialer(threads[m][i][1]))'
                      \/ listener'[m] \in {"spawn", "kill"} /\ IdOf(Dialer(inHand[m])) = i
    BY <1>2 DEF SameOK
  <2>1. CASE m = n /\ i = id
    BY <1>4, <2>1 DEF id, c
  <2>2. CASE ~(m = n /\ i = id)
    <3>1. peers'[m][i] = peers[m][i]
      BY <1>6, <2>2
    <3>2. listener[m] \in {"spawn", "kill"} => listener'[m] \in {"spawn", "kill"}
      BY <1>4
    <3> QED
      BY <1>2, <1>12, <3>1, <3>2 DEF IndInv, SameOK
  <2> QED
    BY <2>1, <2>2
<1>14. NextOK'
  <2> SUFFICES ASSUME NEW m \in Nodes, listener'[m] \in {"spawn", "kill"}
               PROVE  \/ peers'[m][IdOf(Dialer(inHand[m]))] = Accepted(inHand[m])
                      \/ Crossed(m, Dialer(inHand[m]))'
    BY <1>2 DEF NextOK
  <2>1. CASE m = n
    BY <1>1, <1>6, <2>1 DEF id, c, e
  <2>2. CASE m # n
    <3>1. listener[m] \in {"spawn", "kill"}
      BY <1>4, <2>2
    <3>2. IdOf(Dialer(inHand[m])) \in Ids
      BY <3>1, InHandFacts
    <3>3. peers'[m][IdOf(Dialer(inHand[m]))] = peers[m][IdOf(Dialer(inHand[m]))]
      BY <1>6, <2>2, <3>2
    <3> QED
      BY <1>2, <1>12, <3>1, <3>3 DEF IndInv, NextOK
  <2> QED
    BY <2>1, <2>2
<1> QED
  BY <1>6, <1>7, <1>8, <1>9, <1>10, <1>11, <1>13, <1>14 DEF IndInv

\* A polling thread is started, and kept in the map when the map has none.
LEMMA SpawnInd ==
    ASSUME IndInv, NEW n \in Nodes, Spawn(n)
    PROVE  IndInv'
<1> DEFINE c == inHand[n]
           e == Accepted(c)
           id == IdOf(Dialer(c))
<1>1. /\ c \in Conns /\ e \in Ends /\ e[1] = c /\ e[2] = "accept" /\ dest[c] = n /\ dest[c] # Null
      /\ Owner(e) = n /\ Remote(e) = Dialer(c) /\ Dialer(c) \in Nodes /\ id \in Ids
      /\ \A m \in Nodes \ {n} :
           listener[m] \in {"handshake", "spawn", "kill"} => Accepted(inHand[m]) # e
  BY InHandFacts DEF Spawn
<1>2. /\ listener[n] = "spawn" /\ polling' = polling \union {e}
      /\ \/ /\ threads[n][id] = Null
            /\ threads' = [threads EXCEPT ![n][id] = e]
            /\ listener' = [listener EXCEPT ![n] = "accept"]
         \/ /\ threads' = threads
            /\ listener' = [listener EXCEPT ![n] = "kill"]
      /\ UNCHANGED <<dest, backlog, wrote, obj, main, dials, inHand, peers, faults, gaveUp>>
  BY <1>1 DEF Spawn, connVars
<1>3. e \notin polling /\ obj[e] \in {"ready", "deleted"}
  BY <1>2 DEF IndInv, ListenerOK
<1>4. /\ \A m \in Nodes \ {n} : listener'[m] = listener[m] /\ threads'[m] = threads[m]
      /\ \A i \in Ids \ {id} : threads'[n][i] = threads[n][i]
      /\ \/ threads[n][id] = Null /\ threads'[n][id] = e /\ listener'[n] = "accept"
         \/ threads'[n][id] = threads[n][id] /\ listener'[n] = "kill"
  BY <1>1, <1>2 DEF IndInv, TypeOK
<1>5. \A i \in Ids : threads[n][i] # e
  BY <1>1, <1>3, ThreadsPoll, ConnectionsAssumption
<1> HIDE DEF c, e, id
<1>6. TypeOK'
  <2>1. listener' \in [Nodes -> {"none", "starting", "accept", "handshake", "spawn", "kill", "gone"}]
    BY <1>2 DEF IndInv, TypeOK
  <2>2. threads' \in [Nodes -> [Ids -> Ends \union {Null}]]
    <3>1. threads \in [Nodes -> [Ids -> Ends \union {Null}]]
      BY DEF IndInv, TypeOK
    <3>2. [threads EXCEPT ![n][id] = e] \in [Nodes -> [Ids -> Ends \union {Null}]]
      BY <1>1, <3>1
    <3> QED
      BY <1>2, <3>1, <3>2
  <2> QED
    BY <1>1, <1>2, <2>1, <2>2 DEF IndInv, TypeOK
<1>7. Onward
  BY <1>2 DEF Onward
<1>8. ConnsOK' /\ BacklogOK' /\ EntriesOK'
  BY <1>2, <1>7, ConnsKept, BacklogKept, EntriesKept DEF IndInv
<1>9. MainOK'
  BY <1>2, <1>4 DEF IndInv, MainOK, Current
<1>10. ListenerOK'
  <2>1. \A m \in Nodes \ {n} : listener[m] \in {"handshake", "spawn"} => Accepted(inHand[m]) \notin polling'
    BY <1>1, <1>2 DEF IndInv, ListenerOK
  <2>2. listener'[n] = "kill" => \A i \in Ids : threads'[n][i] # e
    BY <1>4, <1>5
  <2> QED
    BY <1>1, <1>2, <1>3, <1>4, <2>1, <2>2 DEF IndInv, ListenerOK, c, e
<1>11. ThreadsOK'
  BY <1>1, <1>2, <1>4 DEF IndInv, ThreadsOK, id
<1>12. PollingOK'
  <2>1. \A f : Owner(f)' = Owner(f)
    BY <1>2 DEF Owner
  <2>2. \A m \in Nodes \ {n} : {f \in polling' : Owner(f)' = m} = {f \in polling : Owner(f) = m}
    BY <1>1, <1>2, <2>1
  <2>3. {f \in polling' : Owner(f)' = n} = {f \in polling : Owner(f) = n} \union {e}
    BY <1>1, <1>2, <2>1
  <2>4. {f \in polling : Owner(f) = n} = {threads[n][i] : i \in Ids} \ {Null}
    BY <1>2 DEF IndInv, PollingOK
  <2>5. {f \in polling' : Owner(f)' = n} =
          ({threads'[n][i] : i \in Ids} \ {Null})
            \union (IF listener'[n] = "kill" THEN {Accepted(inHand'[n])} ELSE {})
    <3>1. e # Null
      BY <1>1, ConnectionsAssumption
    <3>2. CASE threads[n][id] = Null /\ threads'[n][id] = e /\ listener'[n] = "accept"
      <4>1. {threads'[n][i] : i \in Ids} \ {Null} = ({threads[n][i] : i \in Ids} \ {Null}) \union {e}
        BY <1>1, <1>4, <3>1, <3>2
      <4> QED
        BY <2>3, <2>4, <3>2, <4>1
    <3>3. CASE threads'[n][id] = threads[n][id] /\ listener'[n] = "kill"
      <4>1. {threads'[n][i] : i \in Ids} = {threads[n][i] : i \in Ids}
        BY <1>4, <3>3
      <4>2. Accepted(inHand'[n]) = e
        BY <1>2 DEF c, e
      <4> QED
        BY <2>3, <2>4, <3>3, <4>1, <4>2
    <3> QED
      BY <1>4, <3>2, <3>3
  <2>6. \A f \in polling' : dest'[f[1]] # Null /\ obj'[f] \in {"ready", "deleted"}
    BY <1>1, <1>2, <1>3 DEF IndInv, PollingOK
  <2> QED
    BY <1>2, <1>4, <2>2, <2>5, <2>6 DEF IndInv, PollingOK
<1>13. \A m, k : Crossed(m, k)' <=> Crossed(m, k)
  BY <1>2 DEF Crossed
<1>14. SameOK'
  <2> SUFFICES ASSUME NEW m \in Nodes, NEW i \in Ids, threads'[m][i] # Null, main[m] # "deleted"
               PROVE  \/ peers[m][i] = threads'[m][i]
                      \/ Crossed(m, Dialer(threads[m][i][1]))'
                      \/ listener'[m] \in {"spawn", "kill"} /\ IdOf(Dialer(inHand[m])) = i
    BY <1>2 DEF SameOK
  <2>1. CASE m # n
    BY <1>2, <1>4, <1>13, <2>1 DEF IndInv, SameOK
  <2>2. CASE m = n /\ i # id
    BY <1>2, <1>4, <1>13, <2>2 DEF IndInv, SameOK, id, c
  <2>3. CASE m = n /\ i = id
    <3>1. CASE threads'[n][id] = e
      <4>1. peers[n][id] = e \/ Crossed(n, Dialer(c))
        BY <1>2 DEF IndInv, NextOK, id, c, e
      <4> QED
        BY <1>1, <1>2, <1>13, <2>3, <3>1, <4>1
    <3>2. CASE listener'[n] = "kill"
      BY <2>3, <3>2 DEF id, c
    <3> QED
      BY <1>4, <3>1, <3>2
  <2> QED
    BY <2>1, <2>2, <2>3
<1>15. NextOK'
  BY <1>2, <1>4, <1>13 DEF IndInv, NextOK
<1> QED
  BY <1>6, <1>8, <1>9, <1>10, <1>11, <1>12, <1>14, <1>15 DEF IndInv


\* The old thread is joined, and the new one takes its place in the map.
LEMMA KillOldInd ==
    ASSUME IndInv, NEW n \in Nodes, KillOld(n)
    PROVE  IndInv'
<1> DEFINE c == inHand[n]
           e == Accepted(c)
           id == IdOf(Dialer(c))
           old == threads[n][id]
<1>1. /\ c \in Conns /\ e \in Ends /\ e[1] = c /\ e[2] = "accept" /\ dest[c] = n /\ dest[c] # Null
      /\ Owner(e) = n /\ Remote(e) = Dialer(c) /\ Dialer(c) \in Nodes /\ id \in Ids
  BY InHandFacts DEF KillOld, Register
<1>2. /\ listener[n] = "kill" /\ polling' = polling \ {old}
      /\ threads' = [threads EXCEPT ![n][id] = e]
      /\ listener' = [listener EXCEPT ![n] = "accept"]
      /\ UNCHANGED <<dest, backlog, wrote, obj, main, dials, inHand, peers, faults, gaveUp>>
  BY <1>1 DEF KillOld, Register, connVars
<1>3. \A i \in Ids : threads[n][i] # e
  BY <1>2 DEF IndInv, ListenerOK
<1>4. /\ \A m \in Nodes \ {n} : listener'[m] = listener[m] /\ threads'[m] = threads[m]
      /\ \A i \in Ids : threads'[n][i] = IF i = id THEN e ELSE threads[n][i]
      /\ listener'[n] = "accept"
  BY <1>1, <1>2 DEF IndInv, TypeOK
<1>5. \A i \in Ids \ {id} : threads[n][i] # Null => threads[n][i] # old
  BY <1>1 DEF IndInv, ThreadsOK
<1> HIDE DEF c, e, id, old
<1>6. TypeOK'
  <2>1. listener' \in [Nodes -> {"none", "starting", "accept", "handshake", "spawn", "kill", "gone"}]
    BY <1>2 DEF IndInv, TypeOK
  <2>2. threads' \in [Nodes -> [Ids -> Ends \union {Null}]]
    <3>1. threads \in [Nodes -> [Ids -> Ends \union {Null}]]
      BY DEF IndInv, TypeOK
    <3> QED
      BY <1>1, <1>2, <3>1
  <2> QED
    BY <1>2, <2>1, <2>2 DEF IndInv, TypeOK
<1>7. Onward
  BY <1>2 DEF Onward
<1>8. ConnsOK' /\ BacklogOK' /\ EntriesOK'
  BY <1>2, <1>7, ConnsKept, BacklogKept, EntriesKept DEF IndInv
<1>9. MainOK'
  BY <1>2, <1>4 DEF IndInv, MainOK, Current
<1>10. ListenerOK'
  BY <1>2, <1>4 DEF IndInv, ListenerOK
<1>11. ThreadsOK'
  BY <1>1, <1>2, <1>4 DEF IndInv, ThreadsOK, id
<1>12. PollingOK'
  <2>1. \A f : Owner(f)' = Owner(f)
    BY <1>2 DEF Owner
  <2>2. old # Null => Owner(old) = n
    BY <1>1, ThreadsPoll DEF old
  <2>3. \A m \in Nodes \ {n} : {f \in polling' : Owner(f)' = m} = {f \in polling : Owner(f) = m}
    BY <1>2, <2>1, <2>2, ConnectionsAssumption DEF IndInv, TypeOK
  <2>4. {f \in polling' : Owner(f)' = n} = {f \in polling : Owner(f) = n} \ {old}
    BY <1>2, <2>1
  <2>5. {f \in polling : Owner(f) = n} = ({threads[n][i] : i \in Ids} \ {Null}) \union {e}
    BY <1>2 DEF IndInv, PollingOK, c, e
  <2>6. {threads'[n][i] : i \in Ids} \ {Null} =
          (({threads[n][i] : i \in Ids} \ {Null}) \union {e}) \ {old}
    <3>1. e # Null /\ e # old
      BY <1>1, <1>3, ConnectionsAssumption DEF old
    <3>2. old = threads[n][id]
      BY DEF old
    <3> QED
      BY <1>1, <1>4, <1>5, <3>1, <3>2
  <2>7. \A f \in polling' : dest'[f[1]] # Null /\ obj'[f] \in {"ready", "deleted"}
    BY <1>2 DEF IndInv, PollingOK
  <2>8. {f \in polling' : Owner(f)' = n} = {threads'[n][i] : i \in Ids} \ {Null}
    BY <2>4, <2>5, <2>6
  <2> QED
    BY <1>2, <1>4, <2>3, <2>7, <2>8 DEF IndInv, PollingOK
<1>13. \A m, k : Crossed(m, k)' <=> Crossed(m, k)
  BY <1>2 DEF Crossed
<1>14. SameOK'
  <2> SUFFICES ASSUME NEW m \in Nodes, NEW i \in Ids, threads'[m][i] # Null, main[m] # "deleted"
               PROVE  \/ peers[m][i] = threads'[m][i]
                      \/ Crossed(m, Dialer(threads[m][i][1]))'
                      \/ listener'[m] \in {"spawn", "kill"} /\ IdOf(Dialer(inHand[m])) = i
    BY <1>2 DEF SameOK
  <2>1. CASE m # n
    BY <1>2, <1>4, <1>13, <2>1 DEF IndInv, SameOK
  <2>2. CASE m = n /\ i # id
    BY <1>2, <1>4, <1>13, <2>2 DEF IndInv, SameOK, id, c
  <2>3. CASE m = n /\ i = id
    <3>1. peers[n][id] = e \/ Crossed(n, Dialer(c))
      BY <1>2 DEF IndInv, NextOK, id, c, e
    <3> QED
      BY <1>1, <1>2, <1>4, <1>13, <2>3, <3>1
  <2> QED
    BY <2>1, <2>2, <2>3
<1>15. NextOK'
  BY <1>2, <1>4, <1>13 DEF IndInv, NextOK
<1> QED
  BY <1>6, <1>8, <1>9, <1>10, <1>11, <1>12, <1>14, <1>15 DEF IndInv

\* The connections of a node that stops are deleted.
LEMMA DeletePeersInd ==
    ASSUME IndInv, NEW n \in Nodes, DeletePeers(n)
    PROVE  IndInv'
<1>1. /\ main[n] = "joining" /\ listener[n] = "gone"
      /\ main' = [main EXCEPT ![n] = "deleted"]
      /\ obj' = [e \in Ends |-> IF \E i \in Ids : peers[n][i] = e THEN "deleted" ELSE obj[e]]
      /\ peers' = [peers EXCEPT ![n] = [i \in Ids |-> Null]]
      /\ UNCHANGED <<dest, backlog, wrote, dials, listener, inHand, threads, polling, faults, gaveUp>>
  BY DEF DeletePeers, connVars
<1>2. /\ \A m \in Nodes : main'[m] = IF m = n THEN "deleted" ELSE main[m]
      /\ \A m \in Nodes, i \in Ids : peers'[m][i] = IF m = n THEN Null ELSE peers[m][i]
      /\ \A e \in Ends : obj'[e] = IF \E i \in Ids : peers[n][i] = e THEN "deleted" ELSE obj[e]
  BY <1>1 DEF IndInv, TypeOK
<1>3. TypeOK'
  <2>1. main' \in [Nodes -> {"start", "handshake", "idle", "joining", "deleted", "gone"}]
    BY <1>1 DEF IndInv, TypeOK
  <2>2. peers' \in [Nodes -> [Ids -> Ends \union {Null}]]
    BY <1>1 DEF IndInv, TypeOK
  <2>3. obj' \in [Ends -> {"none", "id", "meta", "ready", "deleted"}]
    BY <1>1 DEF IndInv, TypeOK
  <2> QED
    BY <1>1, <2>1, <2>2, <2>3 DEF IndInv, TypeOK
<1>4. \A e \in Ends : (\E i \in Ids : peers[n][i] = e) => obj[e] = "ready" /\ Owner(e) = n
  BY ConnectionsAssumption DEF IndInv, EntriesOK
<1>5. Onward
  BY <1>2, <1>4 DEF Onward
<1>6. ConnsOK' /\ BacklogOK' /\ ThreadsOK'
  BY <1>1, <1>5, ConnsKept, BacklogKept, ThreadsKept DEF IndInv
<1>7. ListenerOK'
  <2>1. \A m \in Nodes, i \in Ids :
          peers'[m][i] = peers[m][i] \/ \A c \in Conns : peers'[m][i] # Accepted(c)
    BY <1>2, EndFacts, ConnectionsAssumption
  <2> QED
    BY <1>1, <1>5, <2>1, ListenerKept DEF IndInv
<1>8. PollingOK'
  BY <1>1, <1>5, PollingKept DEF IndInv, TypeOK
<1>9. MainOK'
  <2>1. \A m \in Nodes : main'[m] = "handshake" => m # n /\ main[m] = "handshake"
    BY <1>2
  <2>2. \A m \in Nodes : Current(m)' = Current(m)
    BY <1>1 DEF Current
  <2> QED
    BY <1>1, <1>2, <2>1, <2>2 DEF IndInv, MainOK
<1>10. EntriesOK'
  <2>1. \A f : Owner(f)' = Owner(f) /\ Remote(f)' = Remote(f)
    BY <1>1 DEF Owner, Remote
  <2> SUFFICES ASSUME NEW m \in Nodes, NEW i \in Ids, peers'[m][i] # Null
               PROVE  LET f == peers'[m][i] IN
                      /\ obj'[f] = "ready" /\ dest[f[1]] # Null
                      /\ Owner(f) = m /\ IdOf(Remote(f)) = i
    BY <1>1, <2>1 DEF EntriesOK
  <2>2. m # n /\ peers'[m][i] = peers[m][i]
    BY <1>2
  <2>3. peers[m][i] \in Ends /\ Owner(peers[m][i]) = m
    BY <2>2 DEF IndInv, TypeOK, EntriesOK
  <2> QED
    BY <1>2, <1>4, <2>2, <2>3 DEF IndInv, EntriesOK
<1>11. \A m, k : Crossed(m, k)' <=> Crossed(m, k)
  BY <1>1 DEF Crossed
<1>12. SameOK'
  BY <1>1, <1>2, <1>11 DEF IndInv, SameOK
<1>13. NextOK'
  <2>1. \A m \in Nodes : listener[m] \in {"spawn", "kill"} => m # n /\ IdOf(Dialer(inHand[m])) \in Ids
    BY <1>1, InHandFacts
  <2> QED
    BY <1>1, <1>2, <1>11, <2>1 DEF IndInv, NextOK
<1> QED
  BY <1>3, <1>6, <1>7, <1>8, <1>9, <1>10, <1>12, <1>13 DEF IndInv


\* The polling threads of a node that stops are joined.
LEMMA KillPollersInd ==
    ASSUME IndInv, NEW n \in Nodes, KillPollers(n)
    PROVE  IndInv'
<1>1. /\ main[n] = "deleted" /\ main' = [main EXCEPT ![n] = "gone"]
      /\ polling' = polling \ {threads[n][i] : i \in Ids}
      /\ threads' = [threads EXCEPT ![n] = [i \in Ids |-> Null]]
      /\ UNCHANGED <<dest, backlog, wrote, obj, dials, listener, inHand, peers, faults, gaveUp>>
  BY DEF KillPollers, connVars
<1>2. /\ \A m \in Nodes : main'[m] = IF m = n THEN "gone" ELSE main[m]
      /\ \A m \in Nodes \ {n} : threads'[m] = threads[m]
      /\ \A i \in Ids : threads'[n][i] = Null
      /\ listener[n] = "gone"
  BY <1>1 DEF IndInv, TypeOK, MainOK
<1>3. TypeOK'
  <2>1. main' \in [Nodes -> {"start", "handshake", "idle", "joining", "deleted", "gone"}]
    BY <1>1 DEF IndInv, TypeOK
  <2>2. threads' \in [Nodes -> [Ids -> Ends \union {Null}]]
    BY <1>1 DEF IndInv, TypeOK
  <2> QED
    BY <1>1, <2>1, <2>2 DEF IndInv, TypeOK
<1>4. Onward
  BY <1>1 DEF Onward
<1>5. ConnsOK' /\ BacklogOK' /\ EntriesOK'
  BY <1>1, <1>4, ConnsKept, BacklogKept, EntriesKept DEF IndInv
<1>6. MainOK'
  <2>1. \A m \in Nodes : Current(m)' = Current(m)
    BY <1>1 DEF Current
  <2> QED
    BY <1>1, <1>2, <2>1 DEF IndInv, MainOK
<1>7. ListenerOK'
  BY <1>1, <1>2 DEF IndInv, ListenerOK
<1>8. ThreadsOK'
  BY <1>1, <1>2 DEF IndInv, ThreadsOK
<1>9. PollingOK'
  <2>1. \A f : Owner(f)' = Owner(f)
    BY <1>1 DEF Owner
  <2>2. \A m \in Nodes \ {n} : {f \in polling' : Owner(f)' = m} = {f \in polling : Owner(f) = m}
    <3>1. \A f \in polling, i \in Ids : f = threads[n][i] => Owner(f) = n
      BY ThreadsPoll, ConnectionsAssumption DEF IndInv, TypeOK
    <3> QED
      BY <1>1, <2>1, <3>1
  <2>3. {f \in polling' : Owner(f)' = n} = {}
    <3>1. {f \in polling : Owner(f) = n} = {threads[n][i] : i \in Ids} \ {Null}
      BY <1>2 DEF IndInv, PollingOK
    <3> QED
      BY <1>1, <2>1, <3>1
  <2>4. {threads'[n][i] : i \in Ids} \ {Null} = {}
    BY <1>2
  <2>5. \A f \in polling' : dest'[f[1]] # Null /\ obj'[f] \in {"ready", "deleted"}
    BY <1>1 DEF IndInv, PollingOK
  <2> QED
    BY <1>1, <1>2, <2>2, <2>3, <2>4, <2>5 DEF IndInv, PollingOK
<1>10. \A m, k : Crossed(m, k)' <=> Crossed(m, k)
  BY <1>1 DEF Crossed
<1>11. SameOK' /\ NextOK'
  BY <1>1, <1>2, <1>10 DEF IndInv, SameOK, NextOK
<1> QED
  BY <1>3, <1>5, <1>6, <1>7, <1>8, <1>9, <1>11 DEF IndInv

\* A client dies with all its objects and threads.
LEMMA RestartInd ==
    ASSUME IndInv, NEW n \in Clients, Restart(n)
    PROVE  IndInv'
<1>1. /\ faults' \in 0..MaxFaults
      /\ main' = [main EXCEPT ![n] = "start"]
      /\ listener' = [listener EXCEPT ![n] = "none"]
      /\ inHand' = [inHand EXCEPT ![n] = Null]
      /\ backlog' = [backlog EXCEPT ![n] = <<>>]
      /\ obj' = [e \in Ends |-> IF Owner(e) = n /\ obj[e] # "none" THEN "deleted" ELSE obj[e]]
      /\ peers' = [peers EXCEPT ![n] = [i \in Ids |-> Null]]
      /\ threads' = [threads EXCEPT ![n] = [i \in Ids |-> Null]]
      /\ polling' = {e \in polling : Owner(e) # n}
      /\ UNCHANGED <<dest, wrote, dials, gaveUp>>
  <2>1. faults' \in 0..MaxFaults
    BY ConnectionsAssumption DEF Restart, IndInv, TypeOK
  <2> QED
    BY <2>1 DEF Restart
<1>2. /\ n \in Nodes
      /\ main'[n] = "start" /\ listener'[n] = "none" /\ backlog'[n] = <<>>
      /\ \A i \in Ids : peers'[n][i] = Null /\ threads'[n][i] = Null
      /\ \A m \in Nodes \ {n} :
           /\ main'[m] = main[m] /\ listener'[m] = listener[m] /\ inHand'[m] = inHand[m]
           /\ backlog'[m] = backlog[m] /\ peers'[m] = peers[m] /\ threads'[m] = threads[m]
      /\ \A e \in Ends : obj'[e] = IF Owner(e) = n /\ obj[e] # "none" THEN "deleted" ELSE obj[e]
  BY <1>1 DEF IndInv, TypeOK, Nodes
<1>3. TypeOK'
  <2>1. /\ main' \in [Nodes -> {"start", "handshake", "idle", "joining", "deleted", "gone"}]
        /\ listener' \in [Nodes -> {"none", "starting", "accept", "handshake", "spawn", "kill", "gone"}]
        /\ inHand' \in [Nodes -> Conns \union {Null}]
    BY <1>1 DEF IndInv, TypeOK
  <2>2. peers' \in [Nodes -> [Ids -> Ends \union {Null}]] /\ threads' \in [Nodes -> [Ids -> Ends \union {Null}]]
    BY <1>1 DEF IndInv, TypeOK
  <2>3. obj' \in [Ends -> {"none", "id", "meta", "ready", "deleted"}]
    BY <1>1 DEF IndInv, TypeOK
  <2>4. backlog' \in [Nodes -> Seq(Conns)]
    <3>1. backlog \in [Nodes -> Seq(Conns)] /\ <<>> \in Seq(Conns)
      BY DEF IndInv, TypeOK
    <3> QED
      BY <1>1, <3>1
  <2>5. polling' \subseteq Ends
    BY <1>1 DEF IndInv, TypeOK
  <2> QED
    BY <1>1, <2>1, <2>2, <2>3, <2>4, <2>5 DEF IndInv, TypeOK
<1>4. \A e \in Ends : obj[e] = "none" => obj'[e] = "none"
  BY <1>2
<1>5. \A f : Owner(f)' = Owner(f) /\ Remote(f)' = Remote(f)
  BY <1>1 DEF Owner, Remote
<1>6. ConnsOK'
  BY <1>1, <1>4, EndFacts DEF IndInv, ConnsOK
<1>7. BacklogOK'
  <2>1. \A m \in Nodes \ {n} : \A k \in 1..Len(backlog[m]) : Accepted(backlog[m][k]) \in Ends
    BY BacklogFacts, EndFacts
  <2> QED
    BY <1>1, <1>2, <1>4, <2>1 DEF IndInv, BacklogOK
<1>8. MainOK'
  <2>1. \A m \in Nodes : Current(m)' = Current(m)
    BY <1>1 DEF Current
  <2>2. \A m \in Nodes : m \in Clients => dials'[m] \in 0..MaxDials[m]
    BY <1>1 DEF IndInv, MainOK
  <2>3. dials' = dials
    BY <1>1
  <2>4. \A m \in Nodes \ {n} :
          /\ main'[m] = main[m] /\ listener'[m] = listener[m]
          /\ peers'[m] = peers[m] /\ threads'[m] = threads[m]
    BY <1>2
  <2> QED
    BY <1>2, <2>1, <2>2, <2>3, <2>4 DEF IndInv, MainOK
<1>9. ListenerOK'
  <2> SUFFICES ASSUME NEW m \in Nodes, listener'[m] \in {"handshake", "spawn", "kill"}
               PROVE  LET d == inHand'[m] IN
                      /\ d \in Conns /\ dest'[d] = m
                      /\ obj'[Accepted(d)] # "none"
                      /\ listener'[m] \in {"spawn", "kill"} => obj'[Accepted(d)] \in {"ready", "deleted"}
                      /\ listener'[m] \in {"handshake", "spawn"} => Accepted(d) \notin polling'
                      /\ listener'[m] = "handshake" => \A i \in Ids : peers'[m][i] # Accepted(d)
                      /\ listener'[m] = "kill" => \A i \in Ids : threads'[m][i] # Accepted(d)
    BY DEF ListenerOK
  <2>1. /\ m # n /\ listener'[m] = listener[m] /\ inHand'[m] = inHand[m]
        /\ peers'[m] = peers[m] /\ threads'[m] = threads[m]
    BY <1>2
  <2>2. Accepted(inHand[m]) \in Ends
    BY <2>1, InHandFacts
  <2>3. obj'[Accepted(inHand[m])] = IF Owner(Accepted(inHand[m])) = n /\ obj[Accepted(inHand[m])] # "none"
                                    THEN "deleted" ELSE obj[Accepted(inHand[m])]
    BY <1>2, <2>2
  <2> QED
    BY <1>1, <2>1, <2>3 DEF IndInv, ListenerOK
<1>10. EntriesOK'
  <2> SUFFICES ASSUME NEW m \in Nodes, NEW i \in Ids, peers'[m][i] # Null
               PROVE  LET f == peers'[m][i] IN
                      /\ obj'[f] = "ready" /\ dest[f[1]] # Null
                      /\ Owner(f) = m /\ IdOf(Remote(f)) = i
    BY <1>1, <1>5 DEF EntriesOK
  <2>1. m # n /\ peers'[m][i] = peers[m][i]
    BY <1>2
  <2>2. peers[m][i] \in Ends /\ Owner(peers[m][i]) = m
    BY <2>1 DEF IndInv, TypeOK, EntriesOK
  <2> QED
    BY <1>2, <2>1, <2>2 DEF IndInv, EntriesOK
<1>11. ThreadsOK'
  BY <1>1, <1>2 DEF IndInv, ThreadsOK
<1>12. PollingOK'
  <2>1. \A m \in Nodes \ {n} : {f \in polling' : Owner(f)' = m} = {f \in polling : Owner(f) = m}
    BY <1>1, <1>5
  <2>2. {f \in polling' : Owner(f)' = n} = {}
    BY <1>1, <1>5
  <2>3. {threads'[n][i] : i \in Ids} \ {Null} = {}
    BY <1>2
  <2>4. \A f \in polling' : f \in Ends /\ dest'[f[1]] # Null /\ obj[f] \in {"ready", "deleted"}
    BY <1>1 DEF IndInv, TypeOK, PollingOK
  <2>5. \A f \in polling' : obj'[f] \in {"ready", "deleted"}
    BY <1>2, <2>4
  <2> QED
    BY <1>1, <1>2, <2>1, <2>2, <2>3, <2>4, <2>5 DEF IndInv, PollingOK
<1>13. \A m, k : Crossed(m, k)' <=> Crossed(m, k)
  BY <1>1 DEF Crossed
<1>14. SameOK'
  <2> SUFFICES ASSUME NEW m \in Nodes, NEW i \in Ids, threads'[m][i] # Null, main'[m] # "deleted"
               PROVE  \/ peers'[m][i] = threads'[m][i]
                      \/ Crossed(m, Dialer(threads[m][i][1]))'
                      \/ listener'[m] \in {"spawn", "kill"} /\ IdOf(Dialer(inHand'[m])) = i
    BY DEF SameOK
  <2>1. m # n
    BY <1>2
  <2> QED
    BY <1>2, <1>13, <2>1 DEF IndInv, SameOK
<1>15. NextOK'
  <2> SUFFICES ASSUME NEW m \in Nodes, listener'[m] \in {"spawn", "kill"}
               PROVE  \/ peers'[m][IdOf(Dialer(inHand'[m]))] = Accepted(inHand'[m])
                      \/ Crossed(m, Dialer(inHand[m]))'
    BY DEF NextOK
  <2>1. m # n
    BY <1>2
  <2> QED
    BY <1>2, <1>13, <2>1 DEF IndInv, NextOK
<1> QED
  BY <1>3, <1>6, <1>7, <1>8, <1>9, <1>10, <1>11, <1>12, <1>14, <1>15 DEF IndInv

-----------------------------------------------------------------------------
(* The theorems *)

LEMMA IndStep ==
    ASSUME IndInv, [Next]_vars
    PROVE  IndInv'
<1>1. CASE UNCHANGED vars
  BY <1>1 DEF vars, connVars, nodeVars, IndInv, TypeOK, ConnsOK, BacklogOK, MainOK, ListenerOK,
     EntriesOK, ThreadsOK, PollingOK, SameOK, NextOK, Current, Owner, Remote, Crossed
<1>2. ASSUME NEW n \in Clients,
             \/ \E id \in Ids, r \in Nodes : Dial(n, id, r)
             \/ StartAlone(n) \/ DialFails(n) \/ EnterDialed(n) \/ Restart(n)
      PROVE  IndInv'
  <2>1. n \in Nodes
    BY DEF Nodes
  <2> QED
    BY <1>2, <2>1, DialInd, QuietInd, FailsInd, EnterDialedInd, RestartInd
<1>3. ASSUME NEW n \in Nodes,
             \/ Listen(n) \/ Accept(n) \/ AcceptFails(n) \/ EnterAccepted(n) \/ Spawn(n) \/ KillOld(n)
             \/ Stop(n) \/ ListenerEnds(n) \/ DeletePeers(n) \/ KillPollers(n)
      PROVE  IndInv'
  BY <1>3, QuietInd, AcceptInd, FailsInd, EnterAcceptedInd, SpawnInd, KillOldInd, DeletePeersInd,
     KillPollersInd
<1>4. ASSUME NEW e \in Ends, SwapIds(e) \/ SwapMeta(e)
      PROVE  IndInv'
  BY <1>4, SwapInd
<1> QED
  BY <1>1, <1>2, <1>3, <1>4 DEF Next

\* The inductive invariant holds in every state of the connections.
THEOREM ConnectionsInd == Spec => []IndInv
<1>1. Init => IndInv
  BY IndInit
<1>2. IndInv /\ [Next]_vars => IndInv'
  BY IndStep
<1> QED
  BY <1>1, <1>2, PTL DEF Spec

\* Every variable keeps its type.
THEOREM ConnectionsTypeOK == Spec => []TypeOK
<1>1. IndInv => TypeOK
  BY DEF IndInv
<1> QED
  BY <1>1, ConnectionsInd, PTL DEF Spec

\* Entries of peers are live connections with the node of their id, in buffers of
\* their own (EnterDialed, EnterAccepted, GetPeerAddr).
THEOREM EntriesGood == Spec => []PeersGood
<1>1. IndInv => PeersGood
  <2> SUFFICES ASSUME IndInv, NEW n \in Nodes, NEW i \in Ids, peers[n][i] # Null
               PROVE  /\ obj[peers[n][i]] = "ready"
                      /\ Owner(peers[n][i]) = n
                      /\ IdOf(Remote(peers[n][i])) = i
                      /\ \A j \in Ids \ {i} :
                           (peers[n][j] # Null /\ i <= MAX_CLIENT_NUM /\ j <= MAX_CLIENT_NUM) =>
                             /\ Buffers(IdOf(n), i) \subseteq Region
                             /\ Buffers(IdOf(n), i) \cap Buffers(IdOf(n), j) = {}
    BY DEF PeersGood
  <2>1. obj[peers[n][i]] = "ready" /\ Owner(peers[n][i]) = n /\ IdOf(Remote(peers[n][i])) = i
    BY DEF IndInv, EntriesOK
  <2>2. ASSUME NEW j \in Ids, peers[n][j] # Null, j <= MAX_CLIENT_NUM
        PROVE  j \in 0..MAX_CLIENT_NUM /\ j # IdOf(n)
    <3>1. PICK f \in Ends : f = peers[n][j] /\ dest[f[1]] # Null /\ Owner(f) = n /\ IdOf(Remote(f)) = j
      BY <2>2 DEF IndInv, TypeOK, EntriesOK
    <3>2. Remote(f) \in Nodes \ {n}
      <4>1. f[1] \in Conns /\ (f = Dialed(f[1]) \/ f = Accepted(f[1]))
        BY EndFacts
      <4>2. dest[f[1]] \in Nodes /\ Dialer(f[1]) \in Nodes /\ dest[f[1]] # Dialer(f[1])
        BY <3>1, <4>1, ConnFacts DEF IndInv, ConnsOK, Nodes
      <4> QED
        BY <3>1, <4>1, <4>2, OwnerFacts
    <3>3. j \in NodeIds /\ j \in Nat
      BY <3>1, <3>2, IdFacts, NodeIdsNat
    <3>4. j # Unlisted /\ j \in 0..MAX_CLIENT_NUM
      BY <2>2, <3>3, NodeIdsNat, SlotsAssumption, ConnectionsAssumption
    <3>5. j # IdOf(n)
      BY <3>1, <3>2, <3>4, IdFacts
    <3> QED
      BY <3>4, <3>5
  <2>3. IdOf(n) \in NodeIds
    BY IdFacts
  <2> QED
    BY <2>1, <2>2, <2>3, SlotsDisjoint
<1> QED
  BY <1>1, ConnectionsInd, PTL DEF Spec

\* A polling thread works on a deleted connection only while the connection is being
\* replaced or everything is deleted, or when both nodes dialed.
THEOREM PollersLive == Spec => []PollersUseLive
<1>1. IndInv => PollersUseLive
  <2> SUFFICES ASSUME IndInv, NEW e \in polling, obj[e] = "deleted"
               PROVE  \/ Replacing(Owner(e), Remote(e))
                      \/ main[Owner(e)] = "deleted"
                      \/ Crossed(Owner(e), Remote(e))
    BY DEF PollersUseLive
  <2>1. e \in Ends /\ dest[e[1]] # Null
    BY DEF IndInv, TypeOK, PollingOK
  <2>2. Owner(e) \in Nodes
    BY <2>1, EndFacts, ConnFacts, OwnerFacts DEF IndInv, ConnsOK, Nodes
  <2> DEFINE n == Owner(e)
  <2>3. e \in ({threads[n][i] : i \in Ids} \ {Null})
                 \union (IF listener[n] = "kill" THEN {Accepted(inHand[n])} ELSE {})
    BY <2>2 DEF IndInv, PollingOK
  <2>4. CASE listener[n] = "kill" /\ e = Accepted(inHand[n])
    <3>1. Remote(e) = Dialer(inHand[n])
      BY <2>2, <2>4, InHandFacts
    <3> QED
      BY <2>4, <3>1 DEF Replacing
  <2>5. ASSUME NEW i \in Ids, e = threads[n][i], e # Null
        PROVE  Replacing(n, Remote(e)) \/ main[n] = "deleted" \/ Crossed(n, Remote(e))
    <3>1. e[2] = "accept" /\ IdOf(Dialer(e[1])) = i
      BY <2>2, <2>5 DEF IndInv, ThreadsOK
    <3>2. Remote(e) = Dialer(e[1])
      BY <2>1, <3>1, EndFacts, OwnerFacts
    <3>3. peers[n][i] # e
      BY <2>2, <2>5 DEF IndInv, EntriesOK
    <3> QED
      BY <2>2, <2>5, <3>1, <3>2, <3>3 DEF IndInv, SameOK, Replacing
  <2> QED
    BY <2>3, <2>4, <2>5
<1> QED
  BY <1>1, ConnectionsInd, PTL DEF Spec

\* Between two accepts a node has the polling threads of its map, each on the
\* connection that peers has.
THEOREM PollersMatch == Spec => []OnePoller
<1>1. IndInv => OnePoller
  <2> SUFFICES ASSUME IndInv, NEW n \in Nodes, listener[n] \in {"accept", "handshake", "gone"}
               PROVE  /\ {e \in polling : Owner(e) = n} = {threads[n][i] : i \in Ids} \ {Null}
                      /\ \A i \in Ids :
                           (threads[n][i] # Null /\ main[n] # "deleted") =>
                             \/ peers[n][i] = threads[n][i]
                             \/ Crossed(n, Remote(threads[n][i]))
    BY DEF OnePoller
  <2>1. {e \in polling : Owner(e) = n} = {threads[n][i] : i \in Ids} \ {Null}
    BY DEF IndInv, PollingOK
  <2>2. ASSUME NEW i \in Ids, threads[n][i] # Null, main[n] # "deleted"
        PROVE  peers[n][i] = threads[n][i] \/ Crossed(n, Remote(threads[n][i]))
    <3>1. threads[n][i] \in Ends /\ threads[n][i][2] = "accept"
      BY <2>2 DEF IndInv, TypeOK, ThreadsOK
    <3>2. Remote(threads[n][i]) = Dialer(threads[n][i][1])
      BY <3>1, EndFacts, OwnerFacts
    <3> QED
      BY <2>2, <3>2 DEF IndInv, SameOK
  <2> QED
    BY <2>1, <2>2
<1> QED
  BY <1>1, ConnectionsInd, PTL DEF Spec

\* When the destructor of a node returns, its listener and its polling threads have ended.
THEOREM AllThreadsJoined == Spec => []NothingRunsOn
<1>1. IndInv => NothingRunsOn
  <2> SUFFICES ASSUME IndInv, NEW n \in Nodes, main[n] = "gone"
               PROVE  listener[n] = "gone" /\ \A e \in polling : Owner(e) # n
    BY DEF NothingRunsOn
  <2>1. listener[n] = "gone" /\ \A i \in Ids : threads[n][i] = Null
    BY DEF IndInv, MainOK
  <2>2. {e \in polling : Owner(e) = n} = {threads[n][i] : i \in Ids} \ {Null}
    BY <2>1 DEF IndInv, PollingOK
  <2> QED
    BY <2>1, <2>2
<1> QED
  BY <1>1, ConnectionsInd, PTL DEF Spec

-----------------------------------------------------------------------------
(* The other end of a connection that was dialed *)

\* Why an accepting end may be deleted although its client relies on it.
Excused(c) ==
    \/ Accepted(c) \in gaveUp
    \/ IdOf(Dialer(c)) = Unlisted
    \/ dest[c] \in MayStop \union MayRestart
    \/ Crossed(Dialer(c), dest[c])
    \/ DialedAgain(c)

\* A node accepts the connections of one client in the order they were dialed: those
\* it has accepted come before those that wait, and before them the one in its hand
\* is the latest.
SameWay(c, d) == Dialer(c) = Dialer(d) /\ dest[c] = dest[d]
AcceptedYet(c) == obj[Accepted(c)] # "none"
QueueInOrder ==
    \A n \in Nodes : \A j, k \in 1..Len(backlog[n]) :
      (j < k /\ Dialer(backlog[n][j]) = Dialer(backlog[n][k])) =>
        backlog[n][j][2] < backlog[n][k][2]
WaitingIsLater ==
    \A n \in Nodes : \A k \in 1..Len(backlog[n]) : \A d \in Conns :
      (AcceptedYet(d) /\ SameWay(d, backlog[n][k])) => d[2] < backlog[n][k][2]
InHandIsLatest ==
    \A n \in Nodes : listener[n] = "handshake" =>
      \A d \in Conns : (AcceptedYet(d) /\ SameWay(d, inHand[n])) => d[2] <= inHand[n][2]
StoppedMay ==
    \A n \in Nodes : main[n] \in {"joining", "deleted", "gone"} => n \in MayStop
DeletedExcused == \A c \in Conns : obj[Accepted(c)] = "deleted" => Excused(c)

OrderInv == QueueInOrder /\ WaitingIsLater /\ InHandIsLatest /\ StoppedMay /\ DeletedExcused

\* Steps that neither dial nor accept.
LEMMA OrderFrame ==
    ASSUME IndInv, OrderInv, UNCHANGED <<dest, dials, backlog, inHand>>, gaveUp \subseteq gaveUp',
           \A c \in Conns : AcceptedYet(c)' <=> AcceptedYet(c),
           \A c \in Conns : obj'[Accepted(c)] = "deleted" => obj[Accepted(c)] = "deleted" \/ Excused(c)',
           \A n \in Nodes : listener'[n] = "handshake" => listener[n] = "handshake",
           \A n \in Nodes : main'[n] \in {"joining", "deleted", "gone"} =>
                             main[n] \in {"joining", "deleted", "gone"} \/ n \in MayStop
    PROVE  OrderInv'
<1>1. QueueInOrder'
  BY DEF OrderInv, QueueInOrder
<1>2. WaitingIsLater'
  BY BacklogFacts DEF OrderInv, WaitingIsLater, SameWay
<1>3. InHandIsLatest'
  BY DEF OrderInv, InHandIsLatest, SameWay
<1>4. StoppedMay'
  BY DEF OrderInv, StoppedMay
<1>5. DeletedExcused'
  <2>1. ASSUME NEW c \in Conns, Excused(c) PROVE Excused(c)'
    <3>1. Crossed(Dialer(c), dest[c])' <=> Crossed(Dialer(c), dest[c])
      BY DEF Crossed
    <3>2. DialedAgain(c)' <=> DialedAgain(c)
      BY DEF DialedAgain
    <3> QED
      BY <2>1, <3>1, <3>2 DEF Excused
  <2> QED
    BY <2>1 DEF OrderInv, DeletedExcused
<1> QED
  BY <1>1, <1>2, <1>3, <1>4, <1>5 DEF OrderInv

\* Enter deletes what it finds.
LEMMA EnterOrder ==
    ASSUME IndInv, NEW n \in Nodes, NEW i \in Ids, NEW e \in Ends, Enter(n, i, e), obj[e] # "none",
           NEW c \in Conns
    PROVE  /\ (AcceptedYet(c)' <=> AcceptedYet(c))
           /\ (obj'[Accepted(c)] = "deleted" =>
                 (\/ obj[Accepted(c)] = "deleted"
                  \/ peers[n][i] = Accepted(c) /\ dest[c] = n /\ IdOf(Dialer(c)) = i))
<1>1. obj \in [Ends -> {"none", "id", "meta", "ready", "deleted"}]
  BY DEF IndInv, TypeOK
<1>2. CASE peers[n][i] = Null
  BY <1>2 DEF Enter, AcceptedYet
<1>3. CASE peers[n][i] # Null
  <2>1. peers[n][i] \in Ends /\ obj[peers[n][i]] = "ready"
        /\ Owner(peers[n][i]) = n /\ IdOf(Remote(peers[n][i])) = i
    BY <1>3 DEF IndInv, TypeOK, EntriesOK
  <2>2. obj' = [obj EXCEPT ![peers[n][i]] = "deleted"]
    BY <1>3 DEF Enter
  <2>3. Accepted(c) \in Ends
    BY EndFacts
  <2> QED
    BY <1>1, <2>1, <2>2, <2>3, OwnerFacts DEF AcceptedYet
<1> QED
  BY <1>2, <1>3

LEMMA EnterDialedOrder ==
    ASSUME IndInv, OrderInv, NEW n \in Clients, EnterDialed(n)
    PROVE  OrderInv'
<1> DEFINE d == Current(n)
           e == Dialed(d)
<1>0. n \in Nodes /\ main[n] = "handshake" /\ obj[e] = "ready"
  BY DEF EnterDialed, Nodes
<1>1. d \in Conns /\ Dialer(d) = n /\ e \in Ends /\ dest[d] \in Nodes /\ IdOf(dest[d]) # Unlisted
  BY <1>0, CurrentFacts
<1>2. Remote(e) = dest[d] /\ IdOf(dest[d]) \in Ids /\ Enter(n, IdOf(dest[d]), e)
  BY <1>1, OwnerFacts DEF EnterDialed, Ids
<1>3. UNCHANGED <<dest, dials, backlog, inHand, gaveUp>>
  BY DEF EnterDialed, connVars
<1>4. ASSUME NEW c \in Conns, peers[n][IdOf(dest[d])] = Accepted(c), dest[c] = n,
             IdOf(Dialer(c)) = IdOf(dest[d])
      PROVE  Excused(c)'
  <2>1. Dialer(c) \in Nodes
    BY ConnFacts DEF Nodes
  <2>2. Dialer(c) = dest[d]
    BY <1>1, <1>4, <2>1, IdFacts
  <2>3. Crossed(Dialer(c), dest[c])'
    BY <1>1, <1>3, <1>4, <2>2 DEF Crossed
  <2> QED
    BY <1>3, <2>3 DEF Excused
<1>5. \A c \in Conns : /\ (AcceptedYet(c)' <=> AcceptedYet(c))
                        /\ (obj'[Accepted(c)] = "deleted" => obj[Accepted(c)] = "deleted" \/ Excused(c)')
  BY <1>0, <1>1, <1>2, <1>4, EnterOrder
<1>6. \A m \in Nodes : /\ (listener'[m] = "handshake" => listener[m] = "handshake")
                        /\ (main'[m] \in {"joining", "deleted", "gone"} =>
                             main[m] \in {"joining", "deleted", "gone"})
  BY <1>0 DEF EnterDialed, EndOfStart, IndInv, TypeOK
<1> QED
  BY <1>3, <1>5, <1>6, OrderFrame

LEMMA EnterAcceptedOrder ==
    ASSUME IndInv, OrderInv, NEW n \in Nodes, EnterAccepted(n)
    PROVE  OrderInv'
<1> DEFINE d == inHand[n]
           e == Accepted(d)
<1>0. listener[n] = "handshake" /\ obj[e] = "ready"
  BY DEF EnterAccepted
<1>1. d \in Conns /\ e \in Ends /\ dest[d] = n /\ Dialer(d) \in Nodes
  BY <1>0, CurrentFacts
<1>2. Remote(e) = Dialer(d) /\ IdOf(Dialer(d)) \in Ids /\ Enter(n, IdOf(Dialer(d)), e)
  BY <1>1, OwnerFacts DEF EnterAccepted, Ids
<1>3. UNCHANGED <<dest, dials, backlog, inHand, gaveUp>>
  BY DEF EnterAccepted, connVars
<1>4. ASSUME NEW c \in Conns, peers[n][IdOf(Dialer(d))] = Accepted(c), dest[c] = n,
             IdOf(Dialer(c)) = IdOf(Dialer(d))
      PROVE  Excused(c)'
  <2>1. Dialer(c) \in Nodes
    BY ConnFacts DEF Nodes
  <2>2. CASE IdOf(Dialer(c)) = Unlisted
    BY <2>2 DEF Excused
  <2>3. CASE IdOf(Dialer(c)) # Unlisted
    <3>1. Dialer(c) = Dialer(d)
      BY <1>1, <1>4, <2>1, <2>3, IdFacts
    <3>2. c # d
      BY <1>0, <1>2, <1>4 DEF IndInv, ListenerOK
    <3>3. c[2] < d[2]
      <4>1. peers[n][IdOf(Dialer(d))] # Null
        BY <1>4, EndFacts, ConnectionsAssumption
      <4>2. AcceptedYet(c)
        BY <1>2, <1>4, <4>1 DEF IndInv, EntriesOK, AcceptedYet
      <4>3. c[2] <= d[2]
        BY <1>0, <1>1, <1>4, <3>1, <4>2 DEF OrderInv, InHandIsLatest, SameWay
      <4>4. c[2] # d[2]
        BY <3>1, <3>2, <1>1, ConnFacts
      <4>5. c[2] \in Int /\ d[2] \in Int
        BY <1>1, ConnFacts
      <4> QED
        BY <4>3, <4>4, <4>5
    <3>4. d[2] <= dials[Dialer(d)]
      <4>1. dest[d] # Null
        BY <1>1, ConnectionsAssumption
      <4>2. d[2] \in Int /\ dials[Dialer(d)] \in Int
        BY <1>1, ConnFacts DEF IndInv, TypeOK
      <4> QED
        BY <1>1, <4>1, <4>2 DEF IndInv, ConnsOK
    <3>5. c[2] \in Int /\ d[2] \in Int /\ dials[Dialer(d)] \in Int
      BY <1>1, ConnFacts DEF IndInv, TypeOK
    <3>6. d[2] \in (c[2] + 1)..dials[Dialer(c)]
      BY <3>1, <3>3, <3>4, <3>5
    <3>7. dest[<<Dialer(c), d[2]>>] = dest[c]
      BY <1>1, <1>4, <3>1, ConnFacts
    <3>8. DialedAgain(c)
      BY <3>6, <3>7 DEF DialedAgain
    <3>9. DialedAgain(c)'
      BY <1>3, <3>8 DEF DialedAgain
    <3> QED
      BY <3>9 DEF Excused
  <2> QED
    BY <2>2, <2>3
<1>5. \A c \in Conns : /\ (AcceptedYet(c)' <=> AcceptedYet(c))
                        /\ (obj'[Accepted(c)] = "deleted" => obj[Accepted(c)] = "deleted" \/ Excused(c)')
  BY <1>0, <1>1, <1>2, <1>4, EnterOrder
<1>6. \A m \in Nodes : /\ (listener'[m] = "handshake" => listener[m] = "handshake")
                        /\ main'[m] = main[m]
  BY <1>0 DEF EnterAccepted, IndInv, TypeOK
<1> QED
  BY <1>3, <1>5, <1>6, OrderFrame

\* Steps that delete no accepting end but one that gave up, or of a node that stops.
LEMMA QuietOrder ==
    ASSUME IndInv, OrderInv,
           \/ \E n \in Clients : StartAlone(n) \/ DialFails(n)
           \/ \E n \in Nodes :
                \/ Listen(n) \/ AcceptFails(n) \/ Spawn(n) \/ KillOld(n)
                \/ Stop(n) \/ ListenerEnds(n) \/ DeletePeers(n) \/ KillPollers(n)
           \/ \E e \in Ends : SwapIds(e) \/ SwapMeta(e)
           \/ UNCHANGED vars
    PROVE  OrderInv'
<1> USE DEF connVars, nodeVars
<1>0. TypeOK /\ \A c \in Conns : Accepted(c) \in Ends
  BY EndFacts DEF IndInv
<1>1. UNCHANGED <<dest, dials, backlog, inHand>>
  BY DEF StartAlone, DialFails, Failed, Listen, AcceptFails, Spawn, KillOld, Register, Stop, ListenerEnds,
         DeletePeers, KillPollers, SwapIds, SwapMeta, vars
<1>2. gaveUp \subseteq gaveUp'
  BY DEF StartAlone, DialFails, Failed, Listen, AcceptFails, Spawn, KillOld, Register, Stop, ListenerEnds,
         DeletePeers, KillPollers, SwapIds, SwapMeta, vars
<1>3. \A m \in Nodes : listener'[m] = "handshake" => listener[m] = "handshake"
  <2>1. CASE \E n \in Nodes : Spawn(n)
    BY <1>0, <2>1 DEF Spawn, TypeOK
  <2>2. CASE \E n \in Nodes : KillOld(n)
    BY <1>0, <2>2 DEF KillOld, Register, TypeOK
  <2> QED
    BY <1>0, <2>1, <2>2 DEF StartAlone, DialFails, Failed, EndOfStart, Listen, AcceptFails, Stop, ListenerEnds,
       DeletePeers, KillPollers, SwapIds, SwapMeta, vars, TypeOK
<1>4. \A m \in Nodes : main'[m] \in {"joining", "deleted", "gone"} =>
                         main[m] \in {"joining", "deleted", "gone"} \/ m \in MayStop
  <2>1. CASE \E n \in Clients : StartAlone(n) \/ DialFails(n)
    BY <1>0, <2>1 DEF StartAlone, DialFails, TypeOK, Nodes
  <2>2. CASE \E n \in Nodes : Stop(n) \/ DeletePeers(n) \/ KillPollers(n)
    BY <1>0, <2>2 DEF Stop, DeletePeers, KillPollers, TypeOK
  <2> QED
    BY <2>1, <2>2 DEF Listen, AcceptFails, Spawn, KillOld, Register, ListenerEnds, SwapIds, SwapMeta, vars
<1>5. ASSUME NEW c \in Conns
      PROVE  /\ (AcceptedYet(c)' <=> AcceptedYet(c))
             /\ (obj'[Accepted(c)] = "deleted" => obj[Accepted(c)] = "deleted" \/ Excused(c)')
  <2>1. CASE \E e \in Ends : SwapIds(e) \/ SwapMeta(e)
    BY <1>0, <2>1 DEF SwapIds, SwapMeta, TypeOK, AcceptedYet
  <2>2. CASE \E n \in Nodes : DeletePeers(n)
    <3>1. PICK n \in Nodes : DeletePeers(n)
      BY <2>2
    <3>2. n \in MayStop
      BY <3>1 DEF OrderInv, StoppedMay, DeletePeers
    <3>3. CASE \E i \in Ids : peers[n][i] = Accepted(c)
      <4>1. PICK i \in Ids : peers[n][i] = Accepted(c)
        BY <3>3
      <4>2. peers[n][i] # Null
        BY <1>0, <4>1, ConnectionsAssumption
      <4>3. obj[Accepted(c)] = "ready" /\ Owner(Accepted(c)) = n
        BY <4>1, <4>2 DEF IndInv, EntriesOK
      <4>4. dest[c] = n /\ obj'[Accepted(c)] = "deleted"
        BY <1>0, <3>1, <3>3, <4>3, OwnerFacts DEF DeletePeers
      <4> QED
        BY <1>1, <3>2, <4>3, <4>4 DEF Excused, AcceptedYet
    <3>4. CASE ~\E i \in Ids : peers[n][i] = Accepted(c)
      <4>1. obj'[Accepted(c)] = obj[Accepted(c)]
        BY <1>0, <3>1, <3>4 DEF DeletePeers
      <4> QED
        BY <4>1 DEF AcceptedYet
    <3> QED
      BY <3>3, <3>4
  <2>3. CASE \E e \in Ends : Failed(e)
    <3>1. PICK e \in Ends : Failed(e)
      BY <2>3
    <3>2. obj[e] \in {"id", "meta"} /\ obj' = [obj EXCEPT ![e] = "deleted"] /\ e \in gaveUp'
      BY <3>1 DEF Failed, Unanswered
    <3> QED
      BY <1>0, <3>2 DEF TypeOK, AcceptedYet, Excused
  <2>4. CASE UNCHANGED obj
    BY <2>4 DEF AcceptedYet
  <2>5. (\E n \in Clients : DialFails(n)) => \E e \in Ends : Failed(e)
    BY CurrentFacts DEF DialFails, Nodes
  <2>6. (\E n \in Nodes : AcceptFails(n)) => \E e \in Ends : Failed(e)
    BY CurrentFacts DEF AcceptFails
  <2> QED
    BY <2>1, <2>2, <2>3, <2>4, <2>5, <2>6 DEF StartAlone, Listen, Spawn, KillOld, Register, Stop,
       ListenerEnds, KillPollers, vars
<1> QED
  BY <1>1, <1>2, <1>3, <1>4, <1>5, OrderFrame

LEMMA AcceptOrder ==
    ASSUME IndInv, OrderInv, NEW n \in Nodes, Accept(n)
    PROVE  OrderInv'
<1> DEFINE q == backlog[n]
           c == q[1]
<1>0. TypeOK /\ q \in Seq(Conns) /\ q # <<>>
  BY DEF IndInv, TypeOK, Accept
<1>1. /\ Len(q) \in Nat /\ 1 \in 1..Len(q) /\ Head(q) = c /\ c \in Conns
      /\ Len(Tail(q)) = Len(q) - 1
      /\ \A k \in 1..Len(Tail(q)) : k + 1 \in 1..Len(q) /\ Tail(q)[k] = q[k + 1]
  BY <1>0
<1>2. /\ listener[n] = "accept" /\ UNCHANGED <<dest, main, dials, gaveUp>>
      /\ backlog' = [backlog EXCEPT ![n] = Tail(q)]
      /\ inHand' = [inHand EXCEPT ![n] = c]
      /\ obj' = [obj EXCEPT ![Accepted(c)] = "id"]
      /\ listener' = [listener EXCEPT ![n] = "handshake"]
  BY <1>1 DEF Accept
<1>3. dest[c] = n /\ obj[Accepted(c)] = "none"
  BY <1>1 DEF IndInv, BacklogOK
<1>4. \A d \in Conns : Accepted(d) \in Ends /\ (Accepted(d) = Accepted(c) => d = c)
  BY <1>1, EndFacts
<1>5. \A d \in Conns : AcceptedYet(d)' <=> (AcceptedYet(d) \/ d = c)
  <2> SUFFICES ASSUME NEW d \in Conns PROVE AcceptedYet(d)' <=> (AcceptedYet(d) \/ d = c)
    OBVIOUS
  <2>1. obj'[Accepted(d)] = IF d = c THEN "id" ELSE obj[Accepted(d)]
    BY <1>0, <1>2, <1>4 DEF TypeOK
  <2> QED
    BY <2>1 DEF AcceptedYet
<1>6. \A m \in Nodes : \A k \in 1..Len(backlog'[m]) :
        IF m = n THEN k + 1 \in 1..Len(backlog[m]) /\ backlog'[m][k] = backlog[m][k + 1]
                 ELSE backlog'[m] = backlog[m]
  BY <1>0, <1>1, <1>2 DEF TypeOK
<1>7. QueueInOrder'
  <2> SUFFICES ASSUME NEW m \in Nodes, NEW j \in 1..Len(backlog'[m]), NEW k \in 1..Len(backlog'[m]),
                      j < k, Dialer(backlog'[m][j]) = Dialer(backlog'[m][k])
               PROVE  backlog'[m][j][2] < backlog'[m][k][2]
    BY DEF QueueInOrder
  <2>1. CASE m = n
    <3>1. /\ j + 1 \in 1..Len(q) /\ k + 1 \in 1..Len(q) /\ j + 1 < k + 1
          /\ backlog'[m][j] = q[j + 1] /\ backlog'[m][k] = q[k + 1]
      BY <1>6, <2>1
    <3> QED
      BY <3>1 DEF OrderInv, QueueInOrder
  <2>2. CASE m # n
    BY <1>6, <2>2 DEF OrderInv, QueueInOrder
  <2> QED
    BY <2>1, <2>2
<1>8. WaitingIsLater'
  <2> SUFFICES ASSUME NEW m \in Nodes, NEW k \in 1..Len(backlog'[m]), NEW d \in Conns,
                      AcceptedYet(d)', SameWay(d, backlog'[m][k])
               PROVE  d[2] < backlog'[m][k][2]
    BY <1>2 DEF WaitingIsLater, SameWay
  <2>1. CASE m = n
    <3>1. k + 1 \in 1..Len(q) /\ backlog'[m][k] = q[k + 1] /\ 1 < k + 1
      BY <1>6, <2>1
    <3>2. CASE d = c
      BY <1>1, <3>1, <3>2 DEF OrderInv, QueueInOrder, SameWay
    <3>3. CASE d # c
      BY <1>5, <3>1, <3>3 DEF OrderInv, WaitingIsLater
    <3> QED
      BY <3>2, <3>3
  <2>2. CASE m # n
    <3>1. k \in 1..Len(backlog[m]) /\ backlog'[m][k] = backlog[m][k]
      BY <1>6, <2>2
    <3>2. dest[backlog[m][k]] = m
      BY <3>1 DEF IndInv, BacklogOK
    <3>3. d # c
      BY <1>3, <2>2, <3>1, <3>2 DEF SameWay
    <3> QED
      BY <1>5, <3>1, <3>3 DEF OrderInv, WaitingIsLater
  <2> QED
    BY <2>1, <2>2
<1>9. InHandIsLatest'
  <2> SUFFICES ASSUME NEW m \in Nodes, listener'[m] = "handshake", NEW d \in Conns,
                      AcceptedYet(d)', SameWay(d, inHand'[m])
               PROVE  d[2] <= inHand'[m][2]
    BY <1>2 DEF InHandIsLatest, SameWay
  <2>c. c[2] \in Int /\ d[2] \in Int
    BY <1>1, ConnFacts
  <2>1. CASE m = n
    <3>1. inHand'[m] = c
      BY <1>0, <1>2, <2>1 DEF TypeOK
    <3>2. CASE d = c
      BY <2>c, <3>1, <3>2
    <3>3. CASE d # c
      <4>1. d[2] < c[2]
        BY <1>1, <1>5, <3>1, <3>3 DEF OrderInv, WaitingIsLater
      <4> QED
        BY <2>c, <3>1, <4>1
    <3> QED
      BY <3>2, <3>3
  <2>2. CASE m # n
    <3>1. inHand'[m] = inHand[m] /\ listener[m] = "handshake"
      BY <1>0, <1>2, <2>2 DEF TypeOK
    <3>2. dest[inHand[m]] = m
      BY <3>1, CurrentFacts
    <3>3. d # c
      BY <1>3, <2>2, <3>1, <3>2 DEF SameWay
    <3> QED
      BY <1>5, <3>1, <3>3 DEF OrderInv, InHandIsLatest
  <2> QED
    BY <2>1, <2>2
<1>10. StoppedMay'
  BY <1>2 DEF OrderInv, StoppedMay
<1>11. DeletedExcused'
  <2> SUFFICES ASSUME NEW d \in Conns, obj'[Accepted(d)] = "deleted" PROVE Excused(d)'
    BY DEF DeletedExcused
  <2>1. obj[Accepted(d)] = "deleted"
    BY <1>0, <1>2, <1>4 DEF TypeOK
  <2>2. Excused(d)
    BY <2>1 DEF OrderInv, DeletedExcused
  <2>3. /\ (Crossed(Dialer(d), dest[d])' <=> Crossed(Dialer(d), dest[d]))
        /\ (DialedAgain(d)' <=> DialedAgain(d))
    BY <1>2 DEF Crossed, DialedAgain
  <2> QED
    BY <1>2, <2>2, <2>3 DEF Excused
<1> QED
  BY <1>7, <1>8, <1>9, <1>10, <1>11 DEF OrderInv

LEMMA DialOrder ==
    ASSUME IndInv, OrderInv, NEW n \in Clients, NEW id \in Ids, NEW r \in Nodes, Dial(n, id, r)
    PROVE  OrderInv'
<1> DEFINE c == <<n, dials[n] + 1>>
           q == backlog[r]
<1>0. TypeOK /\ q \in Seq(Conns) /\ Len(q) \in Nat
  BY DEF IndInv, TypeOK
<1>1. /\ UNCHANGED <<listener, inHand, gaveUp>> /\ dials[n] < MaxDials[n]
      /\ dials' = [dials EXCEPT ![n] = @ + 1] /\ dest' = [dest EXCEPT ![c] = r]
      /\ backlog' = [backlog EXCEPT ![r] = Append(q, c)]
      /\ obj' = [obj EXCEPT ![Dialed(c)] = "id"] /\ main' = [main EXCEPT ![n] = "handshake"]
  BY DEF Dial
<1>2. c \in Conns /\ Dialer(c) = n /\ c[2] = dials[n] + 1 /\ dials[n] \in Nat
  <2>1. dials[n] \in Nat /\ MaxDials[n] \in Nat
    BY <1>0, ConnectionsAssumption DEF TypeOK
  <2>2. dials[n] + 1 \in 1..MaxDials[n]
    BY <1>1, <2>1
  <2> QED
    BY <2>1, <2>2, ConnFacts DEF Dialer
<1>3. dest[c] = Null /\ obj[Accepted(c)] = "none"
  BY <1>2 DEF IndInv, ConnsOK
<1>4. \A d \in Conns : (AcceptedYet(d)' <=> AcceptedYet(d)) /\ obj'[Accepted(d)] = obj[Accepted(d)]
  <2> SUFFICES ASSUME NEW d \in Conns PROVE obj'[Accepted(d)] = obj[Accepted(d)]
    BY DEF AcceptedYet
  <2>1. Accepted(d) # Dialed(c) /\ Accepted(d) \in Ends
    BY <1>2, EndFacts
  <2> QED
    BY <1>0, <1>1, <2>1 DEF TypeOK
<1>5. \A d \in Conns : d # c => dest'[d] = dest[d]
  BY <1>0, <1>1 DEF TypeOK
<1>6. dest'[c] = r
  BY <1>0, <1>1, <1>2 DEF TypeOK
<1>7. \A d \in Conns : AcceptedYet(d) => d # c
  BY <1>3 DEF AcceptedYet
\* Whatever n dialed before has a smaller number.
<1>8. \A d \in Conns : dest[d] # Null /\ Dialer(d) = n => d[2] < c[2]
  <2> SUFFICES ASSUME NEW d \in Conns, dest[d] # Null, Dialer(d) = n PROVE d[2] < c[2]
    OBVIOUS
  <2>1. d[2] \in Int /\ ~(d[2] > dials[n])
    BY ConnFacts DEF IndInv, ConnsOK
  <2> QED
    BY <1>2, <2>1
<1>n. Null \notin Nodes
  BY ConnectionsAssumption
<1>9. \A m \in Nodes : \A k \in 1..Len(backlog'[m]) :
        \/ k \in 1..Len(backlog[m]) /\ backlog'[m][k] = backlog[m][k]
             /\ backlog[m][k] \in Conns /\ backlog[m][k] # c /\ dest[backlog[m][k]] = m
        \/ m = r /\ k = Len(q) + 1 /\ backlog'[m][k] = c
  <2> SUFFICES ASSUME NEW m \in Nodes, NEW k \in 1..Len(backlog'[m])
               PROVE  \/ k \in 1..Len(backlog[m]) /\ backlog'[m][k] = backlog[m][k]
                           /\ backlog[m][k] \in Conns /\ backlog[m][k] # c /\ dest[backlog[m][k]] = m
                      \/ m = r /\ k = Len(q) + 1 /\ backlog'[m][k] = c
    OBVIOUS
  <2>1. \/ k \in 1..Len(backlog[m]) /\ backlog'[m][k] = backlog[m][k]
        \/ m = r /\ k = Len(q) + 1 /\ backlog'[m][k] = c
    <3>1. CASE m = r
      <4>1. backlog'[m] = Append(q, c)
        BY <1>0, <1>1, <3>1 DEF TypeOK
      <4> QED
        BY <1>0, <1>2, <3>1, <4>1
    <3>2. CASE m # r
      <4>1. backlog'[m] = backlog[m]
        BY <1>0, <1>1, <3>2 DEF TypeOK
      <4> QED
        BY <4>1
    <3> QED
      BY <3>1, <3>2
  <2>2. CASE k \in 1..Len(backlog[m]) /\ backlog'[m][k] = backlog[m][k]
    BY <1>3, <1>n, <2>2, BacklogFacts
  <2> QED
    BY <2>1, <2>2
<1> HIDE DEF c, q
<1>10. QueueInOrder'
  <2> SUFFICES ASSUME NEW m \in Nodes, NEW j \in 1..Len(backlog'[m]), NEW k \in 1..Len(backlog'[m]),
                      j < k, Dialer(backlog'[m][j]) = Dialer(backlog'[m][k])
               PROVE  backlog'[m][j][2] < backlog'[m][k][2]
    BY DEF QueueInOrder
  <2>1. CASE k \in 1..Len(backlog[m]) /\ backlog'[m][k] = backlog[m][k]
    <3>1. Len(backlog[m]) \in Nat
      BY <1>0 DEF TypeOK
    <3>2. j \in 1..Len(backlog[m])
      BY <2>1, <3>1
    <3>3. j # Len(q) + 1 \/ m # r
      BY <3>2, <1>0 DEF q
    <3>4. backlog'[m][j] = backlog[m][j]
      BY <1>9, <3>3
    <3> QED
      BY <2>1, <3>2, <3>4 DEF OrderInv, QueueInOrder
  <2>2. CASE m = r /\ k = Len(q) + 1 /\ backlog'[m][k] = c
    <3>1. backlog'[m][j] \in Conns /\ dest[backlog'[m][j]] = m
      BY <1>0, <1>9, <2>2
    <3> QED
      BY <1>2, <1>8, <1>n, <2>2, <3>1
  <2> QED
    BY <1>9, <2>1, <2>2
<1>11. WaitingIsLater'
  <2> SUFFICES ASSUME NEW m \in Nodes, NEW k \in 1..Len(backlog'[m]), NEW d \in Conns,
                      AcceptedYet(d)', Dialer(d) = Dialer(backlog'[m][k]),
                      dest'[d] = dest'[backlog'[m][k]]
               PROVE  d[2] < backlog'[m][k][2]
    BY DEF WaitingIsLater, SameWay
  <2>0. AcceptedYet(d) /\ d # c /\ dest'[d] = dest[d]
    BY <1>4, <1>5, <1>7
  <2>1. CASE k \in 1..Len(backlog[m]) /\ backlog'[m][k] = backlog[m][k]
             /\ backlog[m][k] \in Conns /\ backlog[m][k] # c
    <3>1. dest'[backlog[m][k]] = dest[backlog[m][k]]
      BY <1>5, <2>1
    <3>2. SameWay(d, backlog[m][k])
      BY <2>0, <2>1, <3>1 DEF SameWay
    <3> QED
      BY <2>0, <2>1, <3>2 DEF OrderInv, WaitingIsLater
  <2>2. CASE m = r /\ backlog'[m][k] = c
    <3>1. dest[d] = r /\ Dialer(d) = n
      BY <1>2, <1>6, <2>0, <2>2
    <3> QED
      BY <1>8, <1>n, <2>2, <3>1
  <2> QED
    BY <1>9, <2>1, <2>2
<1>12. InHandIsLatest'
  <2> SUFFICES ASSUME NEW m \in Nodes, listener[m] = "handshake", NEW d \in Conns,
                      AcceptedYet(d), SameWay(d, inHand[m])'
               PROVE  d[2] <= inHand[m][2]
    BY <1>1, <1>4 DEF InHandIsLatest
  <2>1. inHand[m] \in Conns /\ dest[inHand[m]] = m
    BY CurrentFacts
  <2>2. inHand[m] # c /\ d # c
    BY <1>3, <1>7, <1>n, <2>1
  <2>3. SameWay(d, inHand[m])
    BY <1>1, <1>5, <2>1, <2>2 DEF SameWay
  <2> QED
    BY <2>3 DEF OrderInv, InHandIsLatest
<1>13. StoppedMay'
  BY <1>0, <1>1 DEF OrderInv, StoppedMay, TypeOK
<1>14. DeletedExcused'
  <2> SUFFICES ASSUME NEW d \in Conns, obj[Accepted(d)] = "deleted" PROVE Excused(d)'
    BY <1>4 DEF DeletedExcused
  <2>1. AcceptedYet(d) /\ d # c /\ dest'[d] = dest[d] /\ Excused(d)
    BY <1>5, <1>7 DEF AcceptedYet, OrderInv, DeletedExcused
  <2>2. dest[d] \in Nodes /\ Dialer(d) \in Clients
    BY <2>1, ConnFacts, EndFacts DEF IndInv, ConnsOK, AcceptedYet
  <2>3. Crossed(Dialer(d), dest[d]) => Crossed(Dialer(d), dest[d])'
    <3> SUFFICES ASSUME Crossed(Dialer(d), dest[d]) PROVE Crossed(Dialer(d), dest[d])'
      OBVIOUS
    <3>1. PICK a \in Conns, b \in Conns : Dialer(a) = Dialer(d) /\ dest[a] = dest[d]
                                          /\ Dialer(b) = dest[d] /\ dest[b] = Dialer(d)
      BY DEF Crossed
    <3>2. a # c /\ b # c
      BY <1>3, <1>n, <2>2, <3>1 DEF Nodes
    <3> QED
      BY <1>5, <2>1, <3>1, <3>2 DEF Crossed
  <2>4. DialedAgain(d) => DialedAgain(d)'
    <3> SUFFICES ASSUME DialedAgain(d) PROVE DialedAgain(d)'
      OBVIOUS
    <3>1. PICK k \in (d[2] + 1)..dials[Dialer(d)] : dest[<<Dialer(d), k>>] = dest[d]
      BY DEF DialedAgain
    <3>2. dials[Dialer(d)] \in Nat /\ dials'[Dialer(d)] \in {dials[Dialer(d)], dials[Dialer(d)] + 1}
          /\ d[2] \in Nat
      BY <1>0, <1>1, <2>2, ConnFacts DEF TypeOK
    <3>3. k \in (d[2] + 1)..dials'[Dialer(d)]
      BY <3>2
    <3>4. <<Dialer(d), k>> # c
      BY <1>2, <3>2 DEF c
    <3>5. dest'[<<Dialer(d), k>>] = dest[<<Dialer(d), k>>]
      BY <1>0, <1>1, <3>4 DEF TypeOK
    <3> QED
      BY <2>1, <3>1, <3>3, <3>5 DEF DialedAgain
  <2> QED
    BY <1>1, <2>1, <2>3, <2>4 DEF Excused
<1> QED
  BY <1>10, <1>11, <1>12, <1>13, <1>14 DEF OrderInv

LEMMA RestartOrder ==
    ASSUME IndInv, OrderInv, NEW n \in Clients, Restart(n)
    PROVE  OrderInv'
<1>0. TypeOK /\ n \in Nodes /\ n \in MayRestart
  BY DEF IndInv, Nodes, Restart
<1>1. /\ UNCHANGED <<dest, dials, gaveUp>>
      /\ main' = [main EXCEPT ![n] = "start"] /\ listener' = [listener EXCEPT ![n] = "none"]
      /\ inHand' = [inHand EXCEPT ![n] = Null] /\ backlog' = [backlog EXCEPT ![n] = <<>>]
      /\ obj' = [e \in Ends |-> IF Owner(e) = n /\ obj[e] # "none" THEN "deleted" ELSE obj[e]]
  BY DEF Restart
<1>2. \A m \in Nodes : \A k \in 1..Len(backlog'[m]) : m # n /\ backlog'[m] = backlog[m]
  BY <1>0, <1>1 DEF TypeOK
<1>3. \A c \in Conns : /\ (AcceptedYet(c)' <=> AcceptedYet(c))
                         /\ (obj'[Accepted(c)] = "deleted" => obj[Accepted(c)] = "deleted" \/ dest[c] = n)
  BY <1>1, EndFacts, OwnerFacts DEF AcceptedYet
<1>4. QueueInOrder'
  BY <1>2 DEF OrderInv, QueueInOrder
<1>5. WaitingIsLater'
  <2>1. \A c, d : SameWay(c, d)' <=> SameWay(c, d)
    BY <1>1 DEF SameWay
  <2> QED
    BY <1>2, <1>3, <2>1 DEF OrderInv, WaitingIsLater
<1>6. InHandIsLatest'
  <2>1. \A c, d : SameWay(c, d)' <=> SameWay(c, d)
    BY <1>1 DEF SameWay
  <2>2. \A m \in Nodes : listener'[m] = "handshake" => listener[m] = "handshake" /\ inHand'[m] = inHand[m]
    BY <1>0, <1>1 DEF TypeOK
  <2> QED
    BY <1>1, <1>3, <2>1, <2>2 DEF OrderInv, InHandIsLatest, SameWay
<1>7. StoppedMay'
  BY <1>0, <1>1 DEF OrderInv, StoppedMay, TypeOK
<1>8. DeletedExcused'
  <2> SUFFICES ASSUME NEW c \in Conns, obj'[Accepted(c)] = "deleted" PROVE Excused(c)'
    BY DEF DeletedExcused
  <2>1. CASE dest[c] = n
    BY <1>0, <1>1, <2>1 DEF Excused
  <2>2. CASE obj[Accepted(c)] = "deleted"
    <3>1. Excused(c)
      BY <2>2 DEF OrderInv, DeletedExcused
    <3>2. /\ (Crossed(Dialer(c), dest[c])' <=> Crossed(Dialer(c), dest[c]))
          /\ (DialedAgain(c)' <=> DialedAgain(c))
      BY <1>1 DEF Crossed, DialedAgain
    <3> QED
      BY <1>1, <3>1, <3>2 DEF Excused
  <2> QED
    BY <1>3, <2>1, <2>2
<1> QED
  BY <1>4, <1>5, <1>6, <1>7, <1>8 DEF OrderInv

LEMMA OrderInit == Init => OrderInv
<1> SUFFICES ASSUME Init PROVE OrderInv
  OBVIOUS
<1>1. QueueInOrder /\ WaitingIsLater
  BY DEF Init, QueueInOrder, WaitingIsLater
<1>2. InHandIsLatest /\ StoppedMay
  BY DEF Init, InHandIsLatest, StoppedMay
<1>3. DeletedExcused
  BY EndFacts DEF Init, DeletedExcused
<1> QED
  BY <1>1, <1>2, <1>3 DEF OrderInv

\* The connections of a client with a node are accepted in the order in which they
\* were dialed, and an accepting end is deleted only for one of the reasons that
\* BothEndsLive names.
THEOREM AcceptsInOrder == Spec => []OrderInv
<1>1. Init => OrderInv
  BY OrderInit
<1>2. IndInv /\ OrderInv /\ [Next]_vars => OrderInv'
  BY DialOrder, AcceptOrder, RestartOrder, EnterDialedOrder, EnterAcceptedOrder, QuietOrder DEF Next
<1> QED
  BY <1>1, <1>2, ConnectionsInd, PTL DEF Spec

\* A client that dialed a listed node and is listed itself keeps a live other end,
\* unless that node gave up, may stop or die, the two dialed each other, or the
\* client has dialed it again.
THEOREM DialedEndsLive == Spec => []BothEndsLive
<1>1. IndInv /\ OrderInv => BothEndsLive
  <2> SUFFICES ASSUME IndInv, OrderInv, NEW n \in Clients, NEW i \in Ids,
                      peers[n][i] # Null, peers[n][i][2] = "dial", obj[Other(peers[n][i])] = "deleted"
               PROVE  LET e == peers[n][i] IN
                      \/ Other(e) \in gaveUp
                      \/ IdOf(n) = Unlisted
                      \/ Remote(e) \in MayStop \union MayRestart
                      \/ Crossed(n, Remote(e))
                      \/ DialedAgain(e[1])
    BY DEF BothEndsLive
  <2> DEFINE e == peers[n][i]
             c == e[1]
  <2>1. e \in Ends /\ Owner(e) = n
    BY DEF IndInv, TypeOK, EntriesOK, Nodes
  <2>2. c \in Conns /\ e = Dialed(c) /\ Other(e) = Accepted(c)
    BY <2>1, EndFacts
  <2>3. Dialer(c) = n /\ Remote(e) = dest[c]
    BY <2>1, <2>2, OwnerFacts
  <2>4. Excused(c)
    BY <2>2 DEF OrderInv, DeletedExcused
  <2> QED
    BY <2>2, <2>3, <2>4 DEF Excused
<1> QED
  BY <1>1, AcceptsInOrder, ConnectionsInd, PTL
====
