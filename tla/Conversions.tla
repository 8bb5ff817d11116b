------------------------------ MODULE Conversions ------------------------------
(***************************************************************************)
(* lib/base.cpp: numbers and byte patterns from and to text.               *)
(*                                                                         *)
(* A byte has Radix values, `decimal' is base DecBase and `hex' is base    *)
(* HexBase (256, 10 and 16 in the code), so that every value of every type *)
(* can be enumerated.  Size gives the bytes of the integer types and of    *)
(* the C type "int".  A text is its sign, its digits, and whether it       *)
(* begins with "0x"; padding is left out, as sscanf skips it.  The two     *)
(* floating types use the same functions with %f and %lf and enough digits *)
(* to come back (19, 26); their texts are not modelled.                    *)
(***************************************************************************)
EXTENDS Integers, Sequences, SequencesExt

CONSTANTS Radix, DecBase, HexBase, Size,
    Wild, Bad, Empty    \* tokens of a byte pattern other than bytes, see below

Numbers  == DOMAIN Size \ {"int", "long"}
Signed   == {"s8", "s16", "s32", "s64"}

ASSUME ConversionsAssumption ==
    /\ Radix \in Nat \ {0, 1} /\ DecBase \in Nat \ {0, 1}
    /\ HexBase \in Nat /\ HexBase > DecBase
    /\ {"u8", "u32", "s32", "u64", "s64", "int", "long"} \subseteq DOMAIN Size
    /\ \A t \in DOMAIN Size :
          /\ Size[t] \in Nat \ {0} /\ Size[t] <= Size["long"]
          /\ t \notin Signed \cup {"u64", "long"} => Size[t] < Size["long"]
    /\ Size["int"] < Size["s64"]
    /\ {Wild, Bad, Empty} \cap 0..(Radix - 1) = {} /\ Wild \notin {Bad, Empty}

-----------------------------------------------------------------------------
(* Numbers and sequences. *)

Power(b, n) ==
    LET p[k \in Nat] == IF k = 0 THEN 1 ELSE b * p[k - 1]
    IN  p[n]

\* The elements of a finite set of numbers, in order, and those of a sequence at some
\* of its places.
Ascending(S) == [k \in 1..Cardinality(S) |-> CHOOSE x \in S : Cardinality({y \in S : y < x}) = k - 1]
Picked(seq, places) == [k \in 1..Cardinality(places) |-> seq[Ascending(places)[k]]]

-----------------------------------------------------------------------------
(* Numbers. *)

Values(t) == Power(Radix, Size[t])       \* how many values t has
Held(t) ==
    IF t \in Signed THEN (-(Values(t) \div 2))..(Values(t) \div 2 - 1) ELSE 0..(Values(t) - 1)

\* The bytes of v, lowest first, and back.
Bytes(v, n) == [i \in 1..n |-> (v \div Power(Radix, i - 1)) % Radix]
Unsigned(raw) ==
    LET u[n \in 0..Len(raw)] == IF n = 0 THEN 0 ELSE u[n - 1] + raw[n] * Power(Radix, n - 1)
    IN  u[Len(raw)]
Value(raw, t) ==
    LET u == Unsigned(raw)
    IN  IF t \in Signed /\ u >= Values(t) \div 2 THEN u - Values(t) ELSE u

Digits(v, base) ==
    LET d[n \in Nat] == IF n < base THEN <<n>> ELSE Append(d[n \div base], n % base)
    IN  d[v]
Magnitude(digits, base) ==
    LET m[k \in 0..Len(digits)] == IF k = 0 THEN 0 ELSE m[k - 1] * base + digits[k]
    IN  m[Len(digits)]
Base(hex) == IF hex THEN HexBase ELSE DecBase
Within(x, lo, hi) == IF x < lo THEN lo ELSE IF x > hi THEN hi ELSE x

-----------------------------------------------------------------------------
\* raw_to_str_expr: signed numbers have their sign before a magnitude, in hex too.
raw_to_str_expr(raw, hex, t) ==
    LET v == Value(raw, t)
    IN  [neg |-> v < 0, prefix |-> FALSE, digits |-> Digits(IF v < 0 THEN -v ELSE v, Base(hex))]

\* The digits sscanf takes: as many as are digits of the base, and of "0x" in
\* decimal the 0.
Numeral(text, hex) ==
    LET ends == {k \in DOMAIN text.digits : text.digits[k] >= Base(hex)}
    IN  IF text.prefix /\ ~hex THEN <<0>>
        ELSE IF ends = {} THEN text.digits
        ELSE SubSeq(text.digits, 1, Min(ends) - 1)

\* Mutant: a u32 is parsed with the format of u8.
StoredByte(t) == IF t = "s64" THEN "int" ELSE IF t = "u32" THEN "u8" ELSE t

\* The type each format of MemoryViewDisplayDataTypeParseFormat writes: 8 bytes
\* of a u64 ("%ld"), but 4 of an s64 ("%d", "%x").
Stored(t) == IF t = "s64" THEN "int" ELSE t

\* str_expr_to_raw: strtol and strtoul stop at the ends of "long", the store
\* keeps the low bytes, and what it does not write stays 0.  No bytes when there
\* is no number.
str_expr_to_raw(text, hex, t) ==
    LET num  == Numeral(text, hex)
        mag  == Magnitude(num, Base(hex))
        long == Values("long")
        val  == IF hex THEN (IF mag >= long THEN long - 1 ELSE IF text.neg THEN -mag ELSE mag)
                       ELSE Within(IF text.neg THEN -mag ELSE mag, -(long \div 2), long \div 2 - 1)
    IN  IF num = <<>> THEN <<>> ELSE Bytes(val % Values(Stored(t)), Size[t])

\* A value in a row of the search window (show_memory_search): the text may be
\* shown in hex, and is read in hex only if it begins with 0x.
RowText(raw, show_hex, t) == raw_to_str_expr(raw, show_hex, t)
\* Mutant: a row is read in hex.
RowParseHex(text, t) == str_expr_to_raw(text, TRUE, t)
RowParse(text, t) == str_expr_to_raw(text, text.prefix, t)

-----------------------------------------------------------------------------
(* Byte patterns.  A token is the text between two spaces: a byte (one or   *)
(* two digits), Wild ("?" or "??"), Empty (two spaces), or Bad (more than    *)
(* two signs, or no digit).  A pattern is its tokens and whether a space    *)
(* ends it.                                                                 *)

\* encode_aob_pattern: a token is handled when the space after it is seen, so
\* that the last one is handled only if a space follows.
Handled(p) == IF p.spaced \/ p.tokens = <<>> THEN p.tokens ELSE Front(p.tokens)
Invalid(p) == \E i \in DOMAIN Handled(p) : Handled(p)[i] = Bad
\* Mutant: two spaces make a byte.
EncodeAll(p) == IF Invalid(p) THEN <<>> ELSE Handled(p)
encode_aob_pattern(p) ==
    IF Invalid(p) THEN <<>>
    ELSE Picked(Handled(p), {i \in DOMAIN Handled(p) : Handled(p)[i] # Empty})
=============================================================================
