---- MODULE MCConnections ----
(* An instance of Connections for TLC: conf.xml of the repository, where client 1
   runs on the machine of the server. *)
EXTENDS Connections, TLC

CONSTANTS a, b, ip101, ip102

MCid2ip == 1 :> ip102 @@ 2 :> ip101
MCIp == [n \in Nodes |-> IF n = b THEN ip101 ELSE ip102]
MCTargets == {<<a, 2>>, <<b, 1>>}
MCMaxDials == [n \in Clients |-> 2]
====
