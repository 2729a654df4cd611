---- MODULE Configuration ----
(***************************************************************************)
(* The table of nodes that every process reads from conf.xml when it       *)
(* starts.  Nothing changes it afterwards: addClient is called only for a  *)
(* node that knows it is not in the table, and none does, since my_node_id_ *)
(* is compared with -1 after it was cut to 16 bits.                        *)
(***************************************************************************)
EXTENDS Integers

CONSTANTS
    id2ip_,         \* the <client> entries: a function from ids to addresses
    server_ip_      \* the <server> entry

NodeIds == 0..65535         \* uint16_t; 0 is the server
Unlisted == 65535           \* what getIDbyIP returns for -1

\* What the constructor accepts.
Accepts(table) ==
    /\ DOMAIN table # {}
    /\ DOMAIN table \subseteq NodeIds \ {0}
    /\ \A i, j \in DOMAIN table : table[i] = table[j] => i = j

ASSUME ConfigurationAssumption == Accepts(id2ip_) /\ Unlisted \notin DOMAIN id2ip_

\* Asked only for ids of the table.
getIPbyID(id) == id2ip_[id]

\* ip2id_ is filled with the same entries.
getIDbyIP(ip) ==
    IF \E id \in DOMAIN id2ip_ : id2ip_[id] = ip
    THEN CHOOSE id \in DOMAIN id2ip_ : id2ip_[id] = ip
    ELSE Unlisted
====
