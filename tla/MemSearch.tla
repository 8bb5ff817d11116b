------------------------------- MODULE MemSearch -------------------------------
(***************************************************************************)
(* SearchMemory (lib/mem_utils.hpp) over RemoteMemory (lib/remote.hpp):    *)
(* begin_search looks for a typed value in the regions of a process, and   *)
(* continue_search looks again at what it found.                           *)
(*                                                                         *)
(* ram is the process's memory, with Hole where it cannot be read; it      *)
(* changes between two searches.  A read of a region is one action, and so *)
(* is the scan of what was read: what the threads around it do to the      *)
(* results is the subject of SearchTask.  uint64_t and size_t are taken    *)
(* modulo Space.                                                           *)
(***************************************************************************)
EXTENDS Conversions

CONSTANTS
    Space,       \* 2^64
    Hole,        \* the content of an address that cannot be read
    Memories,    \* the contents a process may have, [addresses -> bytes and Hole]
    Layouts,     \* what regions() may return: sequences of [start, size]
    Ranges,      \* search_start and search_end
    Numbs,       \* numbers the user types: [t, hex, v]
    Patterns,    \* byte patterns the user types: [tokens, spaced]
    Strings,     \* strings the user types: sequences of bytes
    Searched     \* those of them that searches are run with

\* What the user may type.
Texts == [kind : {"number"}, is : Numbs] \union [kind : {"aob"}, is : Patterns]
             \union [kind : {"cstr"}, is : Strings]

ASSUME MemSearchAssumption ==
    /\ Space \in Nat \ {0}
    /\ \A m \in Memories : m \in [DOMAIN m -> 0..(Radix - 1) \cup {Hole}]
    /\ \A m, n \in Memories : DOMAIN m = DOMAIN n /\ DOMAIN m \subseteq 0..(Space - 1)
    /\ \A l \in Layouts :
          /\ l \in Seq([start : 0..(Space - 1), size : 0..(Space - 1)])
          /\ \A i \in DOMAIN l : l[i].start + l[i].size < Space
          /\ \A i, j \in DOMAIN l : i < j => l[i].start + l[i].size <= l[j].start
    /\ \A n \in Numbs : /\ n = [t |-> n.t, hex |-> n.hex, v |-> n.v]
                         /\ n.t \in Numbers /\ n.hex \in BOOLEAN /\ n.v \in Held(n.t)
    /\ Patterns \subseteq [tokens : Seq(0..(Radix - 1) \cup {Wild, Bad, Empty}), spaced : BOOLEAN]
    \* Of a pattern without a space at its end, something is after the last one.
    /\ \A p \in Patterns : p.tokens # <<>> /\ ~p.spaced => Last(p.tokens) # Empty
    /\ Strings \subseteq Seq(0..(Radix - 1))
    /\ Ranges \subseteq (0..(Space - 1)) \X (0..(Space - 1)) /\ Searched \subseteq Texts

VARIABLES
    ram, regions, range,      \* the process searched and the range asked for
    ok,                       \* RemoteMemory.ok
    typed, pattern,           \* the text in the window, and what Pattern made of it
    pc,                       \* "typing", "typed", "regions", "addresses", "done", "fault"
    todo,                     \* regions or addresses the loop has yet to visit
    before, results,          \* search_in_addresses, and the addresses found
    stay_running

vars == <<ram, regions, range, ok, typed, pattern, pc, todo, before, results, stay_running>>
process == <<ram, regions, range>>

\* The text of a number is what raw_to_str_expr shows for it, with "0x" in hex.
NumberText(n) ==
    [raw_to_str_expr(Bytes(n.v % Values(n.t), Size[n.t]), n.hex, n.t) EXCEPT !.prefix = n.hex]

\* search_hex: the text begins with 0x, so not if it has a sign before that.
search_hex(text) == text.prefix /\ ~text.neg

\* Pattern's constructor; a pattern without bytes is not valid.
PatternOf(x) ==
    CASE x.kind = "number" -> LET text == NumberText(x.is)
                              IN  str_expr_to_raw(text, search_hex(text), x.is.t)
      [] x.kind = "aob"    -> encode_aob_pattern(x.is)
      [] x.kind = "cstr"   -> x.is

\* data_type_size: patterns and strings may begin anywhere.
Alignment(x) == IF x.kind = "number" THEN Size[x.is.t] ELSE 1

\* Pattern::is_match, on the bytes from position i (0 is the first).
is_match(pat, bytes, i) == \A k \in DOMAIN pat : pat[k] \in {Wild, bytes[i + k]}

\* MemoryImp_LinuxUserMode::read stops at the first page it cannot read;
\* RemoteMemory::read has the size of what came back as its result, so none for
\* an error of either.
Readable(addr, n) ==
    Max({k \in 0..n : \A a \in addr..(addr + k - 1) : a \in DOMAIN ram /\ ram[a] # Hole})
read(addr, n) == IF ok THEN [k \in 1..Readable(addr, n) |-> ram[addr + k - 1]] ELSE <<>>

-----------------------------------------------------------------------------
Init ==
    /\ ram \in Memories /\ regions = <<>> /\ range = <<0, 0>>
    /\ ok = TRUE /\ typed = <<>> /\ pattern = <<>>
    /\ pc = "typing" /\ todo = <<>> /\ before = <<>> /\ results = <<>>
    /\ stay_running = TRUE

Type ==
    /\ pc = "typing"
    /\ \E x \in Texts : typed' = x /\ pattern' = PatternOf(x)
    /\ pc' = "typed"
    /\ UNCHANGED <<process, ok, todo, before, results, stay_running>>

begin_search ==
    /\ pc = "typed" /\ typed \in Searched
    /\ \E l \in Layouts : regions' = l /\ todo' = l
    /\ range' \in Ranges
    /\ pc' = IF pattern = <<>> THEN "done" ELSE "regions"
    /\ UNCHANGED <<ram, ok, typed, pattern, before, results, stay_running>>

InRange(g) == g.start >= range[1] /\ ((g.start + g.size) % Space) <= range[2]

\* MemoryViewRange::update is false for a view of no bytes.
Scanned(g) == InRange(g) /\ g.size # 0

\* Mutant: the scan begins at the region.
OffsetNone(start, align) == 0
\* The first position of an aligned address in a region.
Offset(start, align) == IF start % align = 0 THEN 0 ELSE align - (start % align)

\* data.size() - pattern_size, in size_t.
\* Mutant: the scan goes one position too far.
LimitLate(n, size) == (n - size + 1) % Space
Limit(n, size) == (n - size) % Space

SkipRegion ==
    /\ pc = "regions" /\ todo # <<>> /\ stay_running
    /\ ~Scanned(Head(todo))
    /\ todo' = Tail(todo)
    /\ UNCHANGED <<process, ok, typed, pattern, pc, before, results, stay_running>>

\* A region is read and scanned.  The user may stop the scan after n hits.
ScanRegion ==
    /\ pc = "regions" /\ todo # <<>> /\ stay_running
    /\ Scanned(Head(todo))
    /\ LET g     == Head(todo)
           data  == read(g.start, g.size)
           align == Alignment(typed)
           first == Offset(g.start, align)
           last  == Limit(Len(data), Len(pattern))
           hits  == {i \in first..last : (i - first) % align = 0 /\ is_match(pattern, data, i)}
           found == Ascending({g.start + i : i \in hits})
       IN  IF last + Len(pattern) > Len(data) /\ first <= last
           THEN pc' = "fault" /\ UNCHANGED <<results, stay_running>>
           ELSE /\ \E n \in 0..Len(found) :
                      /\ results' = results \o SubSeq(found, 1, n)
                      /\ stay_running' = (n = Len(found))
                /\ UNCHANGED pc
    /\ todo' = Tail(todo)
    /\ UNCHANGED <<process, ok, typed, pattern, before>>

Finish ==
    /\ pc \in {"regions", "addresses"}
    /\ todo = <<>> \/ ~stay_running
    /\ pc' = "done"
    /\ UNCHANGED <<process, ok, typed, pattern, todo, before, results, stay_running>>

SameType(x, y) == x.kind = y.kind /\ (x.kind = "number" => x.is.t = y.is.t)

\* The process ran on, and one address may have changed; the user may have typed
\* another value of the type.  The results are moved into search_in_addresses and
\* cleared before the pattern is looked at.
continue_search ==
    /\ pc = "done" /\ results # <<>> /\ before = <<>>
    /\ \E m \in Memories :
          /\ Cardinality({a \in DOMAIN m : m[a] # ram[a]}) <= 1
          /\ ram' = m
    /\ \E x \in Searched : SameType(x, typed) /\ typed' = x /\ pattern' = PatternOf(x)
    /\ before' = results /\ todo' = results /\ results' = <<>>
    /\ stay_running' = TRUE
    /\ pc' = IF pattern' = <<>> THEN "done" ELSE "addresses"
    /\ UNCHANGED <<regions, range, ok>>

\* Mutant: an address that could be read in part is compared.
WholeMatchAny(addr) ==
    LET data == read(addr, Len(pattern))
    IN  data # <<>> /\ \A k \in DOMAIN data : pattern[k] \in {Wild, data[k]}

WholeMatch(addr) ==
    LET data == read(addr, Len(pattern))
    IN  Len(data) = Len(pattern) /\ is_match(pattern, data, 0)

VisitAddress ==
    /\ pc = "addresses" /\ todo # <<>> /\ stay_running
    /\ results' = IF WholeMatch(Head(todo)) THEN Append(results, Head(todo)) ELSE results
    /\ todo' = Tail(todo)
    /\ UNCHANGED <<process, ok, typed, pattern, pc, before, stay_running>>

\* The user stops the search, and the connection is lost.
Stop ==
    /\ pc \in {"regions", "addresses"} /\ stay_running
    /\ stay_running' = FALSE
    /\ UNCHANGED <<process, ok, typed, pattern, pc, todo, before, results>>

Lose ==
    /\ pc \in {"regions", "addresses"} /\ ok
    /\ ok' = FALSE
    /\ UNCHANGED <<process, typed, pattern, pc, todo, before, results, stay_running>>

Next ==
    \/ Type \/ begin_search \/ SkipRegion \/ ScanRegion \/ Finish
    \/ continue_search \/ VisitAddress \/ Stop \/ Lose

Spec == Init /\ [][Next]_vars

-----------------------------------------------------------------------------
TypeOK ==
    /\ ram \in Memories /\ ok \in BOOLEAN /\ stay_running \in BOOLEAN
    /\ typed \in Texts \union {<<>>}
    /\ ToSet(pattern) \subseteq 0..(Radix - 1) \union {Wild}
    /\ pc \in {"typing", "typed", "regions", "addresses", "done", "fault"}
    /\ ToSet(results) \union ToSet(before) \subseteq DOMAIN ram

\* What the user means: the bytes of the number, every token, the string.
Meaning(x) ==
    CASE x.kind = "number" -> Bytes(x.is.v % Values(x.is.t), Size[x.is.t])
      [] x.kind = "aob"    -> IF Bad \in ToSet(x.is.tokens) THEN <<>>
                              ELSE Picked(x.is.tokens, {i \in DOMAIN x.is.tokens : x.is.tokens[i] # Empty})
      [] x.kind = "cstr"   -> x.is

\* The numbers that are stored whole: not those of an s64 outside the four bytes that
\* "%d" writes, nor of a u64 beyond the greatest long in decimal.
Parsed(n) ==
    /\ n.t = "s64" => n.v \in 0..(Values("int") - 1)
    /\ n.t = "u64" /\ ~n.hex => n.v < Values("long") \div 2

\* The texts the code takes for what they say: of those numbers, the ones that are
\* not negative in hex, and patterns whose last token is followed by a space.
Plain(x) ==
    CASE x.kind = "number" -> Parsed(x.is) /\ (x.is.hex => x.is.v >= 0)
      [] x.kind = "aob"    -> x.is.spaced
      [] x.kind = "cstr"   -> TRUE

\* What is searched for is what was typed exactly for the texts above, and never for
\* the others: an s64 below 0 or from 2^32, a u64 from 2^63 in decimal, a number below 0
\* in hex, and a pattern not ended by a space (unless it stands for no bytes at all).
PatternIsTyped ==
    pc # "typing" =>
        IF Plain(typed) THEN pattern = Meaning(typed)
                        ELSE Meaning(typed) = <<>> \/ pattern # Meaning(typed)

\* What a cell of the editor, and a row of the results in decimal, make of the text
\* they show for a number, when the user confirms it as it is (273-275, 648-653).
CellReadBack(x) == str_expr_to_raw(raw_to_str_expr(Meaning(x), x.is.hex, x.is.t), x.is.hex, x.is.t)
RowReadBack(x) == RowParse(RowText(Meaning(x), FALSE, x.is.t), x.is.t)

\* A number that is shown is read back as itself exactly if it is one of those stored
\* whole: not an s64 below 0 or from 2^32, nor a u64 from 2^63 in decimal, whose text
\* writes another number where it is confirmed.  (A row in hex is read in decimal.)
ShownReadBack ==
    pc = "typed" /\ typed.kind = "number" =>
        /\ CellReadBack(typed) = Meaning(typed) <=> Parsed(typed.is)
        /\ ~typed.is.hex => (RowReadBack(typed) = Meaning(typed) <=> Parsed(typed.is))

\* Where a value is in what can be read of the regions that lie in the range.
Occurrences(pat, align) ==
    {a \in DOMAIN ram :
        /\ pat # <<>> /\ a % align = 0
        /\ \A k \in DOMAIN pat : a + k - 1 \in DOMAIN ram /\ pat[k] \in {Wild, ram[a + k - 1]}
        /\ \E g \in ToSet(regions) :
              /\ range[1] <= g.start /\ g.start + g.size <= range[2]
              /\ g.start <= a /\ a + Len(pat) <= g.start + Readable(g.start, g.size)}

\* A search reports nothing else than the occurrences of what was typed, none
\* twice; and all of them, unless it was stopped or lost its connection.
FindsTyped ==
    before = <<>> /\ pc \in {"regions", "done"} /\ Plain(typed) =>
        LET all == Occurrences(Meaning(typed), Alignment(typed))
        IN  /\ ToSet(results) \subseteq all /\ IsInjective(results)
            /\ pc = "done" /\ ok /\ stay_running => all \subseteq ToSet(results)

\* A continued search keeps the results that match now, in their order, and no others;
\* all of them, unless it was stopped, lost its connection, or was given no pattern.
KeepsMatching ==
    before # <<>> /\ pc \in {"addresses", "done"} =>
        LET Now(a) == \A k \in DOMAIN pattern :
                         a + k - 1 \in DOMAIN ram /\ ram[a + k - 1] # Hole
                         /\ pattern[k] \in {Wild, ram[a + k - 1]}
            kept == Picked(before, {i \in DOMAIN before : Now(before[i])})
        IN  /\ ToSet(results) \subseteq ToSet(kept)
            /\ pc = "done" /\ ok /\ stay_running /\ pattern # <<>> => results = kept

\* The scan leaves what was read only when a region gave fewer bytes than the
\* pattern has: data.size() - pattern_size (173) is then a number near 2^64.
OverreadOnlyShort ==
    pc = "fault" => \/ ~ok
                    \/ \E g \in ToSet(regions) :
                          Scanned(g) /\ Readable(g.start, g.size) < Len(pattern)
=============================================================================
