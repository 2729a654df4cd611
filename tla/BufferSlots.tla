---- MODULE BufferSlots ----
(***************************************************************************)
(* How a node lays out its registered memory: two buffers of FOURMB for    *)
(* each other node, to send from and to receive into.  Addresses are       *)
(* counted in FOURMB from the begin of the region.                         *)
(***************************************************************************)
EXTENDS Integers

CONSTANT MAX_CLIENT_NUM

ASSUME SlotsAssumption == MAX_CLIENT_NUM \in Nat

Nowhere == -1               \* the address 0, outside of the region

\* buf_size_ = (MAX_CLIENT_NUM + 1) * FOURMB * 2
Region == 0..(2 * (MAX_CLIENT_NUM + 1) - 1)

\* Mutant of GetPeerAddr: the gap that a node's own id leaves is not closed for
\* the node in front of it either.
GetPeerAddrOffByOne(me, id) ==
    IF id <= me THEN 2 * id
    ELSE IF id <= MAX_CLIENT_NUM + 1 THEN 2 * (id - 2)
    ELSE Nowhere

\* Where node me puts the buffers for node id.
GetPeerAddr(me, id) ==
    IF id < me THEN 2 * id
    ELSE IF id <= MAX_CLIENT_NUM THEN 2 * (id - 1)
    ELSE Nowhere

\* The send buffer and, FOURMB behind it, the receive buffer.
Buffers(me, id) == {GetPeerAddr(me, id), GetPeerAddr(me, id) + 1}
====
