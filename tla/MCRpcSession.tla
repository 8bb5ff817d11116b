---------------------------- MODULE MCRpcSession ----------------------------
(***************************************************************************)
(* RpcSession for TLC.                                                     *)
(***************************************************************************)
EXTENDS RpcSession_inv, TLC

\* Sound for the safety runs: no definition tells clients, threads or the
\* registered calls apart.
Symmetry == Permutations(Clients) \cup Permutations(Threads) \cup Permutations(Registered)
=============================================================================
