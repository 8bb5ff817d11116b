------------------------------ MODULE MCLinuxProc ------------------------------
(* Constants for the run of LinuxProc: three numbers, each used twice. *)
EXTENDS LinuxProc

rxp == [rwx |-> {"READ", "EXECUTE"}, private |-> TRUE]
rws == [rwx |-> {"READ", "WRITE"}, private |-> FALSE]
MCKinds == {rxp, rws}
\* 00:00 or 08:01, fd:00 and 00:a1.
none == <<0, 0>>
dm0  == <<15, 0>>
anon == <<0, 10>>
MCLayouts ==
    {{[start |-> 1, end |-> 2, kind |-> rxp, device |-> none], [start |-> 2, end |-> 4, kind |-> rws, device |-> none]},
     {[start |-> 2, end |-> 4, kind |-> rws, device |-> none]},
     {[start |-> 0, end |-> 3, kind |-> rws, device |-> none]},
     {[start |-> 0, end |-> 1, kind |-> rxp, device |-> none], [start |-> 1, end |-> 3, kind |-> rws, device |-> dm0]},
     {[start |-> 0, end |-> 1, kind |-> rxp, device |-> anon], [start |-> 2, end |-> 4, kind |-> rws, device |-> none]}}
=============================================================================
