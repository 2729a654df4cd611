---- MODULE PoolData ----
(***************************************************************************)
(* What the remote data calls promise, without requests, markers, buffers  *)
(* and completions.  A get reads every word of its object once, while it   *)
(* runs, and returns what it read; nobody promises that the words are of   *)
(* one moment.  A write stores every word of its image once, perhaps after *)
(* it has returned.  A requester that has written asks for nothing more:   *)
(* the code promises it nothing then.  The owner of the pool writes what   *)
(* it likes.                                                               *)
(***************************************************************************)
EXTENDS Integers

CONSTANTS Requesters, Objects, Words, Size, Zero, Null

VARIABLES
    mem,        \* mem[o]: the words of object o
    call,       \* call[r]: the last call of r, or Null
    busy,       \* busy[r]: it has not returned
    got,        \* got[r]: the words a get has read
    todo,       \* todo[r]: the words a write has still to store
    result      \* result[r]: what the last get returned, or Null

vars == <<mem, call, busy, got, todo, result>>

Nothing == [i \in {} |-> Zero]
Gets == [kind : {"get"}, obj : Objects, image : {Null}]
Writes == [kind : {"write"}, obj : Objects, image : [1..Size -> Words]]

Init ==
    /\ mem = [o \in Objects |-> [i \in 1..Size |-> Zero]]
    /\ call = [r \in Requesters |-> Null]
    /\ busy = [r \in Requesters |-> FALSE]
    /\ got = [r \in Requesters |-> Nothing]
    /\ todo = [r \in Requesters |-> {}]
    /\ result = [r \in Requesters |-> Null]

LocalWrite ==
    /\ \E o \in Objects, i \in 1..Size, w \in Words : mem' = [mem EXCEPT ![o][i] = w]
    /\ UNCHANGED <<call, busy, got, todo, result>>

Begin(r) ==
    /\ ~busy[r]
    /\ call[r] # Null => call[r].kind = "get"
    /\ \E c \in Gets \union Writes :
         /\ call' = [call EXCEPT ![r] = c]
         /\ todo' = [todo EXCEPT ![r] = IF c.kind = "get" THEN {} ELSE 1..Size]
    /\ busy' = [busy EXCEPT ![r] = TRUE]
    /\ result' = [result EXCEPT ![r] = Null]
    /\ UNCHANGED <<mem, got>>

ReadWord(r) ==
    /\ busy[r]
    /\ call[r].kind = "get"
    /\ \E i \in (1..Size) \ DOMAIN got[r] :
         got' = [got EXCEPT ![r] = [j \in DOMAIN got[r] \union {i} |->
                                      IF j = i THEN mem[call[r].obj][i] ELSE got[r][j]]]
    /\ UNCHANGED <<mem, call, busy, todo, result>>

ReturnGet(r) ==
    /\ busy[r]
    /\ call[r].kind = "get"
    /\ DOMAIN got[r] = 1..Size
    /\ busy' = [busy EXCEPT ![r] = FALSE]
    /\ got' = [got EXCEPT ![r] = Nothing]
    /\ result' = [result EXCEPT ![r] = got[r]]
    /\ UNCHANGED <<mem, call, todo>>

StoreWord(r) ==
    /\ \E i \in todo[r] :
         /\ mem' = [mem EXCEPT ![call[r].obj][i] = call[r].image[i]]
         /\ todo' = [todo EXCEPT ![r] = @ \ {i}]
    /\ UNCHANGED <<call, busy, got, result>>

ReturnWrite(r) ==
    /\ busy[r]
    /\ call[r].kind = "write"
    /\ busy' = [busy EXCEPT ![r] = FALSE]
    /\ UNCHANGED <<mem, call, got, todo, result>>

Next ==
    \/ LocalWrite
    \/ \E r \in Requesters :
         Begin(r) \/ ReadWord(r) \/ ReturnGet(r) \/ StoreWord(r) \/ ReturnWrite(r)

Spec == Init /\ [][Next]_vars

====
