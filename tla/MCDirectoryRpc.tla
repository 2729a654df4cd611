---- MODULE MCDirectoryRpc ----
(* Instances of DirectoryRpc for TLC: two nodes with one thread each,
   or one node with two threads. *)
EXTENDS DirectoryRpc

CONSTANTS n1, n2, t1, t2

MCNodeOf == [t \in Threads |-> IF t = t1 THEN n1 ELSE n2]
\* The main thread of a node and one of its polling threads, whose handlers of
\* CREATEREMOTEPOOL, OPENREMOTEPOOL and CLOSEREMOTEPOOL call the server as well.
MCSharedNodeOf == [t \in Threads |-> n1]
====
