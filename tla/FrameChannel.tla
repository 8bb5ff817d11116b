----------------------------- MODULE FrameChannel -----------------------------
(***************************************************************************)
(* What one direction of a tunnel promises to RPCClient and RPCServer: the *)
(* frames recv() returns with OK are those given to send(), whole and in   *)
(* order, and nothing is returned after the receiver's end was closed.     *)
(* Frames may be lost, but then every later one is too.                    *)
(***************************************************************************)
EXTENDS Naturals, Sequences

CONSTANT Frames

VARIABLES given,     \* the frames handed to send()
          taken,     \* the frames recv() returned with OK
          shut       \* the receiver's end is closed

vars == <<given, taken, shut>>

Init == given = <<>> /\ taken = <<>> /\ shut = FALSE

Give(f) == /\ given' = Append(given, f)
           /\ UNCHANGED <<taken, shut>>

Take == /\ ~shut
        /\ Len(taken) < Len(given)
        /\ taken' = Append(taken, given[Len(taken) + 1])
        /\ UNCHANGED <<given, shut>>

Shut == /\ shut' = TRUE
        /\ UNCHANGED <<given, taken>>

Next == (\E f \in Frames : Give(f)) \/ Take \/ Shut

Spec == Init /\ [][Next]_vars
=============================================================================
