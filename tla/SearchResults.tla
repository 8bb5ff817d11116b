----------------------------- MODULE SearchResults -----------------------------
(***************************************************************************)
(* What one search task promises its user: a new search looks everywhere,  *)
(* a continued one only among what the search before it has left, and the  *)
(* results of a search are the addresses found in its scope.               *)
(***************************************************************************)
CONSTANT Addrs

VARIABLES scope,     \* where the current search looks
          shown      \* the results so far

vars == <<scope, shown>>

Init == scope = {} /\ shown = {}

Begin == shown' = {} /\ scope' = Addrs

Continue == scope' = shown /\ shown' = {}

Found(a) == shown' = shown \cup {a} /\ UNCHANGED scope

Clear == shown' = {} /\ UNCHANGED scope

\* The task is deleted.
Delete == scope' = {} /\ shown' = {}

Next == Begin \/ Continue \/ Clear \/ Delete \/ \E a \in scope \ shown : Found(a)

Spec == Init /\ [][Next]_vars
=============================================================================
