---------------------------- MODULE RankingsMemo ----------------------------
(***************************************************************************)
(* What rankings.Manager promises its callers: for each process and each   *)
(* key a cell that is written at most once, with entries or with "no such  *)
(* ranking", and is forgotten only when the process restarts.  A call      *)
(* answers with the cell, or with an error that leaves the cell alone.     *)
(***************************************************************************)
CONSTANTS
    Procs,      \* server processes
    Callers,    \* goroutines
    Home,       \* the process of a goroutine
    Keys,       \* cache keys
    Snapshots,  \* ranking entries
    None        \* absent

VARIABLES
    memo,    \* the cell of a process and key
    key,     \* the key a caller asked for last
    result   \* the answer it got

vars == <<memo, key, result>>

Unset   == [status |-> "none", entries |-> None]
Unknown == [status |-> "unknown", entries |-> None]
Failed  == [status |-> "error", entries |-> None]
Known   == [status : {"ok"}, entries : Snapshots]

Init ==
    /\ memo = [p \in Procs |-> [k \in Keys |-> Unset]]
    /\ key = [c \in Callers |-> None]
    /\ result = [c \in Callers |-> Unset]

Cell(c) == memo[Home[c]][key[c]]

Ask(c, k) ==
    /\ key' = [key EXCEPT ![c] = k]
    /\ result' = [result EXCEPT ![c] = Unset]
    /\ UNCHANGED memo

\* A request that is refused before it names a key.
Refuse(c) ==
    /\ key' = [key EXCEPT ![c] = None]
    /\ result' = [result EXCEPT ![c] = Failed]
    /\ UNCHANGED memo

Waiting(c) == key[c] # None /\ result[c] = Unset

\* Served from the cell.
Answer(c) ==
    /\ Waiting(c)
    /\ Cell(c) # Unset
    /\ result' = [result EXCEPT ![c] = Cell(c)]
    /\ UNCHANGED <<memo, key>>

\* The call that writes the cell.
Resolve(c, v) ==
    /\ Waiting(c)
    /\ Cell(c) = Unset
    /\ memo' = [memo EXCEPT ![Home[c]][key[c]] = v]
    /\ result' = [result EXCEPT ![c] = v]
    /\ UNCHANGED key

\* A failure is not remembered.
Fail(c) ==
    /\ Waiting(c)
    /\ Cell(c) = Unset
    /\ result' = [result EXCEPT ![c] = Failed]
    /\ UNCHANGED <<memo, key>>

Restart(p) ==
    /\ memo' = [memo EXCEPT ![p] = [k \in Keys |-> Unset]]
    /\ key' = [c \in Callers |-> IF Home[c] = p THEN None ELSE key[c]]
    /\ result' = [c \in Callers |-> IF Home[c] = p THEN Unset ELSE result[c]]

Next ==
    \/ \E c \in Callers :
        \/ \E k \in Keys : Ask(c, k)
        \/ \E v \in Known \cup {Unknown} : Resolve(c, v)
        \/ Refuse(c) \/ Answer(c) \/ Fail(c)
    \/ \E p \in Procs : Restart(p)

Spec == Init /\ [][Next]_vars
=============================================================================
