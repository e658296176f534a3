------------------------------- MODULE Leases -------------------------------
(***************************************************************************)
(* What a connection pool promises: a connection is lent to one goroutine  *)
(* at a time, and only the goroutine it is lent to gives it back.          *)
(***************************************************************************)
CONSTANTS
    Conns,   \* the connections of the pool
    Procs,   \* the goroutines that use it
    None     \* no goroutine

VARIABLE holder   \* the goroutine each connection is lent to

Init == holder = [c \in Conns |-> None]

Lend(p, c) ==
    /\ holder[c] = None
    /\ holder' = [holder EXCEPT ![c] = p]

GiveBack(p, c) ==
    /\ holder[c] = p
    /\ holder' = [holder EXCEPT ![c] = None]

Next == \E p \in Procs, c \in Conns : Lend(p, c) \/ GiveBack(p, c)

Spec == Init /\ [][Next]_holder
=============================================================================
