--------------------------- MODULE MCRemoteObjects ---------------------------
(* RemoteObjects on three proxies: a list and a memory of one client, which has *)
(* a search thread, and one of another client.                                  *)
EXTENDS RemoteObjects, TLC

CONSTANTS c1, c2, u1, s1, u2, p1, p2, p3

MCOf == u1 :> c1 @@ s1 :> c1 @@ u2 :> c2
MCUI == c1 :> u1 @@ c2 :> u2
MCOwner == p1 :> c1 @@ p2 :> c1 @@ p3 :> c2

Symmetry == Permutations(Addrs)
=============================================================================
