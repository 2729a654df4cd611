---- MODULE MCRemoteData ----
(* Instances of RemoteData for TLC. *)
EXTENDS RemoteData

CONSTANTS r1, r2

\* One node reads again and again, another reads and then writes.
MCReadWrite ==
    [r \in Requesters |-> IF r = r1 THEN <<"get", "get", "get">> ELSE <<"get", "write">>]
\* One node reads before another transfer, of another object perhaps.
MCReadReadWrite == [r \in Requesters |-> <<"get", "get", "write">>]
\* One node writes twice.
MCTwoWrites == [r \in Requesters |-> <<"write", "write">>]
====
