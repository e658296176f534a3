-------------------------- MODULE RequestService --------------------------
(***************************************************************************)
(* What TGChannel.SendRequest promises its callers, whatever the network   *)
(* does: each request is read by the server at most once, and only while   *)
(* its caller waits; its call ends once, and ends well only if the server  *)
(* has read the request.                                                   *)
(***************************************************************************)
CONSTANT Request

VARIABLES
    status,     \* "unused", "open", and then what SendRequest returned
    received    \* the requests the server has read

vars == <<status, received>>

Init == status = [r \in Request |-> "unused"] /\ received = {}

Submit(r) ==
    /\ status[r] = "unused"
    /\ status' = [status EXCEPT ![r] = "open"]
    /\ UNCHANGED received

Receive(r) ==
    /\ status[r] = "open" /\ r \notin received
    /\ received' = received \cup {r}
    /\ UNCHANGED status

Finish(r, res) ==
    /\ status[r] = "open"
    /\ res = "ok" => r \in received
    /\ status' = [status EXCEPT ![r] = res]
    /\ UNCHANGED received

Next == \E r \in Request :
    Submit(r) \/ Receive(r) \/ \E res \in {"ok", "error"} : Finish(r, res)

Spec == Init /\ [][Next]_vars
=============================================================================
