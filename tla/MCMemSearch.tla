------------------------------ MODULE MCMemSearch ------------------------------
(* Constants for the run of MemSearch: bits for bytes, six addresses. *)
EXTENDS MemSearch

MCSize == [u8 |-> 1, u32 |-> 2, s32 |-> 2, u64 |-> 4, s64 |-> 4, int |-> 2, long |-> 4]
MCMemories ==
    {[a \in 0..5 |-> IF a \in h THEN Hole ELSE b[a]] :
        b \in [0..5 -> {0, 1}], h \in {{}, {2}, {4, 5}}}
MCLayouts ==
    {<<[start |-> 0, size |-> 6]>>,
     <<[start |-> 1, size |-> 3], [start |-> 4, size |-> 0], [start |-> 4, size |-> 2]>>}
MCRanges == {<<0, 15>>, <<1, 5>>}
MCNumbs == UNION {[t : {t}, hex : BOOLEAN, v : Held(t)] : t \in Numbers}
MCPatterns ==
    [tokens : {<<1, Wild, 0>>, <<1>>, <<1, Bad, 0>>, <<0, Empty, 1>>}, spaced : BOOLEAN]
MCStrings == {<<1, 1>>, <<>>}
MCSearched ==
    [kind : {"number"},
     is : {[t |-> "u8", hex |-> TRUE, v |-> 1], [t |-> "u8", hex |-> FALSE, v |-> 0],
           [t |-> "u32", hex |-> FALSE, v |-> 2],
           [t |-> "s32", hex |-> FALSE, v |-> -1], [t |-> "s64", hex |-> FALSE, v |-> 3]}]
    \union [kind : {"aob"}, is : [tokens : {<<1, Wild, 0>>}, spaced : BOOLEAN]
                               \union [tokens : {<<0, Empty, 1>>, <<1, Bad, 0>>}, spaced : {TRUE}]]
    \union [kind : {"cstr"}, is : {<<1, 1>>}]
=============================================================================
