---- MODULE OneWrite ----
(***************************************************************************)
(* What RemoteWrite promises below 1 MB: it is one RDMA write.  The cells  *)
(* arrive in the order of their addresses, each as it was when RemoteWrite *)
(* was called; it returns when all have arrived, and nothing else in the   *)
(* peer's buffer changes.                                                  *)
(***************************************************************************)
EXTENDS Integers

CONSTANTS Mb, Sizes, MaxTransfers, Blank

VARIABLES
    target,     \* the peer's receive buffer
    transfers,  \* calls of RemoteWrite so far
    size,       \* cells of the current one
    busy,       \* it has not returned
    arrived     \* how many of its cells are at the peer

vars == <<target, transfers, size, busy, arrived>>

Init ==
    /\ target = [o \in 0..(4 * Mb - 1) |-> Blank]
    /\ transfers = 0
    /\ size = 0
    /\ busy = FALSE
    /\ arrived = 0

Begin ==
    /\ ~busy
    /\ transfers < MaxTransfers
    /\ transfers' = transfers + 1
    /\ size' \in {n \in Sizes : n < Mb}
    /\ busy' = TRUE
    /\ arrived' = 0
    /\ UNCHANGED target

Arrive ==
    /\ busy
    /\ arrived < size
    /\ target' = [target EXCEPT ![arrived] = <<transfers, arrived>>]
    /\ arrived' = arrived + 1
    /\ UNCHANGED <<transfers, size, busy>>

Return ==
    /\ busy
    /\ arrived = size
    /\ busy' = FALSE
    /\ UNCHANGED <<target, transfers, size, arrived>>

Next == Begin \/ Arrive \/ Return

====
