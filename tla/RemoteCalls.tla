----------------------------- MODULE RemoteCalls -----------------------------
(***************************************************************************)
(* What RPCClient::call promises to the proxy classes of lib/remote.hpp,   *)
(* with no connection, no thread and no server in sight: a call is refused *)
(* before it has any effect, or it begins; a call that has begun is        *)
(* executed on the server at most once; it returns true only after it was  *)
(* executed, and it may fail at any moment, executed or not (the caller    *)
(* cannot tell).  A call that has failed locally may still be executed     *)
(* afterwards: its frames may already be on their way.                     *)
(*                                                                         *)
(* An element of Calls is one invocation of call(), not one function.      *)
(***************************************************************************)
CONSTANT Calls

VARIABLES outcome,    \* what the caller of each call has seen so far
          executed    \* the calls whose registered function has run

vars == <<outcome, executed>>

Outcome == {"none", "pending", "ok", "failed", "refused"}

Init == /\ outcome = [k \in Calls |-> "none"]
        /\ executed = {}

Begin(k) == /\ outcome[k] = "none"
            /\ outcome' = [outcome EXCEPT ![k] = "pending"]
            /\ UNCHANGED executed

Refuse(k) == /\ outcome[k] = "none"
             /\ outcome' = [outcome EXCEPT ![k] = "refused"]
             /\ UNCHANGED executed

\* At most once, and never before the call began.
Execute(k) == /\ outcome[k] \in {"pending", "failed"}
              /\ k \notin executed
              /\ executed' = executed \cup {k}
              /\ UNCHANGED outcome

Return(k) == /\ outcome[k] = "pending"
             /\ k \in executed
             /\ outcome' = [outcome EXCEPT ![k] = "ok"]
             /\ UNCHANGED executed

Fail(k) == /\ outcome[k] = "pending"
           /\ outcome' = [outcome EXCEPT ![k] = "failed"]
           /\ UNCHANGED executed

Next == \E k \in Calls : Begin(k) \/ Refuse(k) \/ Execute(k) \/ Return(k) \/ Fail(k)

Spec == Init /\ [][Next]_vars
=============================================================================
