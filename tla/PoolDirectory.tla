---- MODULE PoolDirectory ----
(***************************************************************************)
(* What the pool directory of the server promises its callers, without     *)
(* the network: every call takes effect at most once, atomically, at some  *)
(* moment between its start and its return, and returns the outcome of     *)
(* that very effect.                                                       *)
(***************************************************************************)
CONSTANTS Threads, Pools, Infos, Null

VARIABLES
    directory,  \* directory[p]: where pool p is registered, or Null
    pending,    \* pending[t]: the call of thread t, or Null
    outcome,    \* outcome[t]: what the call of t did, or Null before it took effect
    answer      \* answer[t]: what the last call of t returned, or Null

vars == <<directory, pending, outcome, answer>>

Kinds == {"CREATEPOOL", "DELETEPOOL", "FINDPOOL"}
Calls == [type : Kinds, pool : Pools, info : Infos \union {Null}]

Init ==
    /\ directory = [p \in Pools |-> Null]
    /\ pending = [t \in Threads |-> Null]
    /\ outcome = [t \in Threads |-> Null]
    /\ answer = [t \in Threads |-> Null]

Begin(t) ==
    /\ pending[t] = Null
    /\ \E c \in Calls : pending' = [pending EXCEPT ![t] = c]
    /\ UNCHANGED <<directory, outcome, answer>>

\* A registration is accepted only if the pool has none.
Create(t) ==
    LET c == pending[t] IN
    /\ c.type = "CREATEPOOL"
    /\ directory' = [directory EXCEPT ![c.pool] = IF @ = Null THEN c.info ELSE @]
    /\ outcome' = [outcome EXCEPT ![t] =
                     [ok |-> directory[c.pool] = Null, info |-> Null]]

Delete(t) ==
    LET c == pending[t] IN
    /\ c.type = "DELETEPOOL"
    /\ directory' = [directory EXCEPT ![c.pool] = Null]
    /\ outcome' = [outcome EXCEPT ![t] =
                     [ok |-> directory[c.pool] # Null, info |-> Null]]

Find(t) ==
    LET c == pending[t] IN
    /\ c.type = "FINDPOOL"
    /\ outcome' = [outcome EXCEPT ![t] =
                     [ok |-> directory[c.pool] # Null, info |-> directory[c.pool]]]
    /\ UNCHANGED directory

TakeEffect(t) ==
    /\ pending[t] # Null
    /\ outcome[t] = Null
    /\ Create(t) \/ Delete(t) \/ Find(t)
    /\ UNCHANGED <<pending, answer>>

Return(t) ==
    /\ outcome[t] # Null
    /\ answer' = [answer EXCEPT ![t] = outcome[t]]
    /\ pending' = [pending EXCEPT ![t] = Null]
    /\ outcome' = [outcome EXCEPT ![t] = Null]
    /\ UNCHANGED directory

Next == \E t \in Threads : Begin(t) \/ TakeEffect(t) \/ Return(t)

Spec == Init /\ [][Next]_vars

====
