----------------------------- MODULE MCMemoryEditor -----------------------------
(* Constants for the runs of MemoryEditor: ints of 4 bits, three addresses. *)
EXTENDS MemoryEditor

MCTypeSize == [u8 |-> 1, u32 |-> 2, cstr |-> 1]
=============================================================================
