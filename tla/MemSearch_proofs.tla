---------------------------- MODULE MemSearch_proofs ----------------------------
(***************************************************************************)
(* What a search finds and keeps, for every value of the constants: every  *)
(* base and size of the types, every memory, every layout of the regions   *)
(* and every number, pattern and string.                                   *)
(*                                                                         *)
(* The model computes with recursive functions (powers, bytes, digits) and *)
(* with the elements of a set in order.  The first three parts prove what  *)
(* these are, from the well-foundedness of the order of the numbers; the   *)
(* next two, what the conversions return; the rest, the invariant of the   *)
(* search.                                                                 *)
(***************************************************************************)
EXTENDS MemSearch, FiniteSetTheorems, WellFoundedInduction, TLAPS

-----------------------------------------------------------------------------
(* Induction and recursion over the numbers. *)

\* The order of the numbers, as the library has it.
LEMMA NatOrder == OpToRel(<, Nat) = {ss \in Nat \X Nat : ss[1] < ss[2]}
  BY DEF OpToRel

\* A set of numbers has a least.
LEMMA Least == ASSUME NEW T, T \subseteq Nat, T # {} PROVE \E x \in T : \A y \in T : x <= y
<1> DEFINE R == {ss \in Nat \X Nat : ss[1] < ss[2]}
<1>1. IsWellFoundedOn(R, Nat)
  BY NatOrder, NatLessThanWellFounded
<1>2. ASSUME NEW x \in Nat, NEW y \in Nat, y < x PROVE <<y, x>> \in R
  BY <1>2
<1> HIDE DEF R
<1>3. PICK x \in T : \A y \in T : <<y, x>> \notin R
  BY <1>1, WFMin, Zenon
<1>4. ASSUME NEW y \in T PROVE x <= y
  <2>1. x \in Nat /\ y \in Nat OBVIOUS
  <2>2. ~(y < x) BY <1>2, <1>3, <2>1, Zenon
  <2> QED BY <2>1, <2>2
<1> QED BY <1>4

\* What holds of 0, and of n + 1 where it holds of n, holds of every number.
LEMMA Induction == ASSUME NEW S, 0 \in S, \A n \in Nat : n \in S => n + 1 \in S PROVE Nat \subseteq S
<1> SUFFICES ASSUME Nat \ S # {} PROVE FALSE OBVIOUS
<1>1. PICK x \in Nat \ S : \A y \in Nat \ S : x <= y
  BY Least
<1>2. x - 1 \in Nat /\ x - 1 \in S
  BY <1>1
<1> QED BY <1>1, <1>2

\* A recurrence over the numbers: at those of L the value is given, elsewhere it is
\* made from that of a lesser number; and a function that solves it.
Recurrence(V, L, leaf, down, step) ==
    /\ leaf \in [Nat -> V] /\ down \in [Nat -> Nat] /\ step \in [Nat -> [V -> V]]
    /\ \A n \in Nat \ L : down[n] < n
Solves(f, V, L, leaf, down, step) ==
    /\ f \in [Nat -> V]
    /\ \A n \in Nat : /\ n \in L => f[n] = leaf[n]
                      /\ n \notin L => f[n] = step[n][f[down[n]]]

\* Every recurrence has one.
LEMMA Recursion ==
    ASSUME NEW V, NEW L, NEW leaf, NEW down, NEW step, Recurrence(V, L, leaf, down, step)
    PROVE  \E f : Solves(f, V, L, leaf, down, step)
<1>r. /\ leaf \in [Nat -> V] /\ down \in [Nat -> Nat] /\ step \in [Nat -> [V -> V]]
      /\ \A n \in Nat \ L : down[n] < n
  BY DEF Recurrence
<1> DEFINE Rec(g, n) == g[n] = IF n \in L THEN leaf[n] ELSE step[n][g[down[n]]]
           Upto(m) == {g \in [0..m -> V] : \A n \in 0..m : Rec(g, n)}
<1>0. ASSUME NEW m, NEW g PROVE g \in Upto(m) <=> g \in [0..m -> V] /\ \A n \in 0..m : Rec(g, n)
  OBVIOUS
<1>a. ASSUME NEW n \in Nat, NEW g, NEW h, g[down[n]] = h[down[n]] \/ n \in L, Rec(g, n), Rec(h, n)
      PROVE  g[n] = h[n]
  BY <1>a
<1>b. ASSUME NEW n \in Nat, NEW g, NEW h, g[down[n]] = h[down[n]] \/ n \in L, g[n] = h[n], Rec(g, n)
      PROVE  Rec(h, n)
  BY <1>b
<1>c. ASSUME NEW n \in Nat, NEW g, g[down[n]] \in V \/ n \in L
      PROVE  \E v \in V : \A h : h[n] = v /\ (h[down[n]] = g[down[n]] \/ n \in L) => Rec(h, n)
  <2>1. CASE n \in L
    <3>1. \A h : h[n] = leaf[n] => Rec(h, n) BY <2>1
    <3> QED BY <1>r, <3>1
  <2>2. CASE n \notin L
    <3>1. \A h : h[n] = step[n][g[down[n]]] /\ h[down[n]] = g[down[n]] => Rec(h, n) BY <2>2
    <3>2. step[n][g[down[n]]] \in V BY <1>c, <1>r, <2>2
    <3> QED BY <2>2, <3>1, <3>2
  <2> QED BY <2>1, <2>2
<1>d. ASSUME NEW n \in Nat, n \notin L PROVE down[n] \in Nat /\ down[n] < n
  BY <1>d, <1>r
<1> HIDE DEF Rec, Upto
<1>1. ASSUME NEW m \in Nat, NEW k \in Nat, NEW g \in Upto(m), NEW h \in Upto(k), NEW n \in Nat, n <= m, n <= k
      PROVE  g[n] = h[n]
  <2> DEFINE D == {i \in 0..n : g[i] # h[i]}
  <2>0. SUFFICES ASSUME D # {} PROVE FALSE OBVIOUS
  <2>1. PICK i \in D : \A j \in D : i <= j
    <3>1. D \subseteq Nat OBVIOUS
    <3> HIDE DEF D
    <3> QED BY <2>0, <3>1, Least
  <2>2. i \in 0..n /\ g[i] # h[i] OBVIOUS
  <2>3. i \in 0..m /\ i \in 0..k BY <1>1, <2>2
  <2>4. Rec(g, i) /\ Rec(h, i)
    BY <1>0, <2>3
  <2>5. CASE i \in L
    BY <1>a, <2>2, <2>4, <2>5
  <2>6. CASE i \notin L
    <3>1. down[i] \in 0..n /\ down[i] < i
      BY <1>d, <2>2, <2>6
    <3>2. g[down[i]] = h[down[i]]
      BY <2>1, <3>1
    <3> QED BY <1>a, <2>2, <2>4, <3>2
  <2> QED BY <2>5, <2>6
<1>2. \A m \in Nat : Upto(m) # {}
  <2> DEFINE S == {m \in Nat : Upto(m) # {}}
  <2>1. 0 \in S
    <3>1. 0 \in L
      <4>1. 0 \in Nat \ L => down[0] < 0 /\ down[0] \in Nat BY <1>r
      <4> QED BY <4>1
    <3>2. PICK v \in V : \A h : h[0] = v => Rec(h, 0) BY <1>c, <3>1
    <3> DEFINE g == [n \in 0..0 |-> v]
    <3>3. g \in [0..0 -> V] /\ g[0] = v OBVIOUS
    <3> HIDE DEF g
    <3>4. \A n \in 0..0 : Rec(g, n)
      <4>1. Rec(g, 0) BY <3>2, <3>3, Zenon
      <4>2. \A n \in 0..0 : n = 0 OBVIOUS
      <4> QED BY <4>1, <4>2, Zenon
    <3>5. g \in Upto(0) BY <1>0, <3>3, <3>4, Zenon
    <3> QED BY <3>5
  <2>2. ASSUME NEW m \in Nat, m \in S PROVE m + 1 \in S
    <3>1. PICK g : g \in Upto(m) BY <2>2
    <3>2. g \in [0..m -> V] /\ \A n \in 0..m : Rec(g, n) BY <1>0, <3>1
    <3>3. m + 1 \in L \/ g[down[m + 1]] \in V BY <1>d, <3>2
    <3>x. m + 1 \in Nat OBVIOUS
    <3>4. PICK v \in V : \A h : h[m + 1] = v /\ (h[down[m + 1]] = g[down[m + 1]] \/ m + 1 \in L) => Rec(h, m + 1)
      BY <1>c, <3>3, <3>x, Zenon
    <3> DEFINE h == [n \in 0..(m + 1) |-> IF n = m + 1 THEN v ELSE g[n]]
    <3>5. h \in [0..(m + 1) -> V] /\ h[m + 1] = v /\ \A n \in 0..m : h[n] = g[n] BY <3>2
    <3> HIDE DEF h
    <3>6. ASSUME NEW n \in 0..(m + 1) PROVE Rec(h, n)
      <4>1. n \notin L => down[n] \in 0..m
        BY <1>d
      <4>2. h[down[n]] = g[down[n]] \/ n \in L BY <3>5, <4>1
      <4>3. CASE n = m + 1 BY <3>4, <3>5, <4>2, <4>3
      <4>4. CASE n \in 0..m
        <5>1. n \in Nat /\ Rec(g, n) /\ g[n] = h[n] BY <3>2, <3>5, <4>4
        <5>2. g[down[n]] = h[down[n]] \/ n \in L BY <4>2
        <5> QED BY <1>b, <5>1, <5>2, Zenon
      <4> QED BY <4>3, <4>4
    <3>7. h \in Upto(m + 1) BY <1>0, <3>5, <3>6
    <3> QED BY <3>7
  <2> QED
    <3> HIDE DEF S
    <3>1. Nat \subseteq S BY <2>1, <2>2, Induction
    <3> QED BY <3>1 DEF S
<1> DEFINE Some(n) == CHOOSE g : g \in Upto(n)
           f == [n \in Nat |-> Some(n)[n]]
<1>3. ASSUME NEW n \in Nat PROVE Some(n) \in Upto(n)
  BY <1>2
<1> HIDE DEF Some
<1>4. ASSUME NEW n \in Nat, NEW k \in 0..n, NEW g \in Upto(n) PROVE f[k] = g[k] /\ f[k] \in V
  <2>1. Some(k) \in Upto(k) BY <1>3
  <2>2. Some(k)[k] = g[k] BY <1>1, <2>1
  <2>3. g[k] \in V BY <1>0
  <2> QED BY <2>2, <2>3
<1>5. f \in [Nat -> V]
  <2>1. ASSUME NEW n \in Nat PROVE f[n] \in V BY <1>3, <1>4
  <2> QED BY <2>1
<1> HIDE DEF f
<1>6. ASSUME NEW n \in Nat PROVE Rec(f, n)
  <2>1. PICK g : g \in Upto(n) BY <1>2
  <2>2. Rec(g, n) BY <1>0, <2>1
  <2>3. n \notin L => down[n] \in 0..n BY <1>d
  <2>4. g[down[n]] = f[down[n]] \/ n \in L BY <1>4, <2>1, <2>3
  <2>5. g[n] = f[n] BY <1>4, <2>1
  <2> QED BY <1>b, <2>2, <2>4, <2>5, Zenon
<1> QED BY <1>5, <1>6 DEF Rec, Solves

\* The same on the numbers up to one: each value is made from the one before.
Accumulates(f, V, m, first, step) ==
    /\ f \in [0..m -> V]
    /\ f[0] = first
    /\ \A n \in 1..m : f[n] = step[n][f[n - 1]]

\* There is a function that does.
LEMMA RecursionUpto ==
    ASSUME NEW V, NEW m \in Nat, NEW first \in V, NEW step, step \in [1..m -> [V -> V]]
    PROVE  \E f : Accumulates(f, V, m, first, step)
  <1> DEFINE L == {n \in Nat : n = 0 \/ n > m}
             leaf == [n \in Nat |-> first]
             down == [n \in Nat |-> IF n = 0 THEN 0 ELSE n - 1]
             next == [n \in Nat |-> IF n \in L THEN [v \in V |-> v] ELSE step[n]]
  <1>1. leaf \in [Nat -> V] /\ down \in [Nat -> Nat] OBVIOUS
  <1>2. \A n \in Nat \ L : down[n] < n /\ down[n] = n - 1 OBVIOUS
  <1>3. next \in [Nat -> [V -> V]] OBVIOUS
  <1>4. \A n \in Nat : leaf[n] = first OBVIOUS
  <1>5. \A n \in Nat \ L : next[n] = step[n] OBVIOUS
  <1>6. \A n \in 0..m : n \in Nat /\ (n \in L <=> n = 0) OBVIOUS
  <1> HIDE DEF L, leaf, down, next
  <1>7. PICK f : Solves(f, V, L, leaf, down, next)
    <2>1. Recurrence(V, L, leaf, down, next) BY <1>1, <1>2, <1>3 DEF Recurrence
    <2> QED BY <2>1, Recursion, Zenon
  <1> DEFINE g == [n \in 0..m |-> f[n]]
  <1>8. g \in [0..m -> V] /\ \A n \in 0..m : g[n] = f[n] BY <1>7 DEF Solves
  <1> HIDE DEF g
  <1>9. g[0] = first
    <2>1. 0 \in 0..m /\ 0 \in L /\ 0 \in Nat BY <1>6
    <2> QED BY <1>4, <1>7, <1>8, <2>1 DEF Solves
  <1>10. ASSUME NEW n \in 1..m PROVE g[n] = step[n][g[n - 1]]
    <2>1. n \in Nat \ L /\ n - 1 \in 0..m /\ n \in 0..m BY <1>6
    <2>2. f[n] = step[n][f[n - 1]] BY <1>2, <1>5, <1>7, <2>1 DEF Solves
    <2> QED BY <1>8, <2>1, <2>2
  <1>11. Accumulates(g, V, m, first, step) BY <1>8, <1>9, <1>10 DEF Accumulates
  <1> QED BY <1>11

\* A set of numbers up to one has a greatest.
LEMMA MaxFacts ==
    ASSUME NEW n \in Nat, NEW S \in SUBSET (0..n), S # {}
    PROVE  Max(S) \in S /\ \A x \in S : Max(S) >= x
  <1> DEFINE T == {n - x : x \in S}
  <1>0. \A x \in S : n - x \in T /\ n - x \in Nat OBVIOUS
  <1>1. T \subseteq Nat /\ T # {} BY <1>0
  <1>2. PICK t \in T : \A y \in T : t <= y
    <2> HIDE DEF T
    <2> QED BY <1>1, Least
  <1>3. PICK x \in S : t = n - x OBVIOUS
  <1>4. \A y \in S : x >= y
    <2>1. ASSUME NEW y \in S PROVE x >= y
      <3>1. n - y \in T OBVIOUS
      <3>2. n - x <= n - y BY <1>2, <1>3, <3>1
      <3> QED BY <3>2
    <2> QED BY <2>1
  <1> HIDE DEF T
  <1>5. \E z \in S : \A y \in S : z >= y BY <1>4
  <1> QED BY <1>5 DEF Max

-----------------------------------------------------------------------------
(* The elements of a finite set of numbers, in order. *)

Rank(S, x) == Cardinality({y \in S : y < x})

\* The rank of an element is the number of the lesser ones.
LEMMA RankFacts ==
    ASSUME NEW S \in SUBSET Int, IsFiniteSet(S)
    PROVE  /\ Cardinality(S) \in Nat
           /\ \A x \in Int : Rank(S, x) \in Nat /\ Rank(S, x) <= Cardinality(S)
           /\ \A x \in S : Rank(S, x) \in 0..(Cardinality(S) - 1)
           /\ \A x \in S, y \in Int : x < y => Rank(S, x) < Rank(S, y)
  <1>1. Cardinality(S) \in Nat BY FS_CardinalityType
  <1>2. ASSUME NEW x \in Int
        PROVE  /\ IsFiniteSet({y \in S : y < x})
               /\ Rank(S, x) \in Nat /\ Rank(S, x) <= Cardinality(S)
    <2> DEFINE B == {y \in S : y < x}
    <2>1. B \in SUBSET S OBVIOUS
    <2> HIDE DEF B
    <2>2. IsFiniteSet(B) /\ Cardinality(B) <= Cardinality(S) BY <2>1, FS_Subset
    <2>3. Cardinality(B) \in Nat BY <2>2, FS_CardinalityType
    <2> QED BY <2>2, <2>3 DEF B, Rank
  <1>3. ASSUME NEW x \in S, NEW y \in Int, x < y PROVE Rank(S, x) < Rank(S, y)
    <2> DEFINE B == {z \in S : z < x}
               C == {z \in S : z < y}
    <2>0. (\A z \in S : z < x => z < y) /\ ~(x < x) BY <1>3
    <2>1. B \in SUBSET C /\ x \in C /\ x \notin B BY <1>3, <2>0
    <2>2. IsFiniteSet(C) BY <1>2
    <2>3. Rank(S, x) = Cardinality(B) /\ Rank(S, y) = Cardinality(C) BY DEF Rank
    <2>4. Rank(S, x) \in Nat /\ Rank(S, y) \in Nat BY <1>2
    <2> HIDE DEF B, C
    <2>5. Cardinality(B) <= Cardinality(C) /\ (Cardinality(C) = Cardinality(B) => C = B)
      BY <2>1, <2>2, FS_Subset
    <2> QED BY <2>1, <2>3, <2>4, <2>5
  <1>4. ASSUME NEW x \in S PROVE Rank(S, x) \in 0..(Cardinality(S) - 1)
    <2> DEFINE B == {z \in S : z < x}
    <2>1. B \in SUBSET S /\ x \in S /\ x \notin B OBVIOUS
    <2>2. Rank(S, x) = Cardinality(B) BY DEF Rank
    <2>3. Rank(S, x) \in Nat BY <1>2
    <2> HIDE DEF B
    <2>4. Cardinality(B) <= Cardinality(S) /\ (Cardinality(S) = Cardinality(B) => S = B)
      BY <2>1, FS_Subset
    <2> QED BY <1>1, <2>1, <2>2, <2>3, <2>4
  <1> QED BY <1>1, <1>2, <1>3, <1>4

\* No two elements have the same rank, so every rank below the number of elements is
\* that of one.
LEMMA Ranks ==
    ASSUME NEW S \in SUBSET Int, IsFiniteSet(S)
    PROVE  /\ \A x, y \in S : Rank(S, x) = Rank(S, y) => x = y
           /\ \A k \in 0..(Cardinality(S) - 1) : \E x \in S : Rank(S, x) = k
  <1>1. \A x, y \in S : Rank(S, x) = Rank(S, y) => x = y
    <2> SUFFICES ASSUME NEW x \in S, NEW y \in S, Rank(S, x) = Rank(S, y), x # y PROVE FALSE
      OBVIOUS
    <2>1. Rank(S, x) \in Nat /\ Rank(S, y) \in Nat BY RankFacts
    <2>2. CASE x < y BY <2>1, <2>2, RankFacts
    <2>3. CASE y < x BY <2>1, <2>3, RankFacts
    <2> QED BY <2>2, <2>3
  <1> DEFINE T == 0..(Cardinality(S) - 1)
             r == [x \in S |-> Rank(S, x)]
  <1>2. Cardinality(S) \in Nat BY RankFacts
  <1>3. IsFiniteSet(T) /\ Cardinality(T) = Cardinality(S)
    <2>1. 0 \in Int /\ Cardinality(S) - 1 \in Int BY <1>2
    <2>2. IsFiniteSet(T) /\ Cardinality(T) = IF 0 > Cardinality(S) - 1 THEN 0 ELSE Cardinality(S) - 1 - 0 + 1
      BY <2>1, FS_Interval
    <2> QED BY <1>2, <2>2
  <1>4. r \in [S -> T] BY RankFacts
  <1>5. r \in Injection(S, T)
    <2>1. IsInjective(r) BY <1>1 DEF IsInjective
    <2> QED BY <1>4, <2>1 DEF Injection
  <1>6. r \in Surjection(S, T)
    <2> HIDE DEF T, r
    <2> QED BY <1>3, <1>5, FS_Injection
  <1>7. \A k \in T : \E x \in S : r[x] = k BY <1>6 DEF Surjection
  <1> QED BY <1>1, <1>7

\* Ascending enumerates the set, each element once.
LEMMA AscendingFacts ==
    ASSUME NEW S \in SUBSET Int, IsFiniteSet(S)
    PROVE  /\ Cardinality(S) \in Nat
           /\ Ascending(S) \in [1..Cardinality(S) -> S] /\ Ascending(S) \in Seq(S)
           /\ Len(Ascending(S)) = Cardinality(S)
           /\ \A k \in 1..Cardinality(S) : Rank(S, Ascending(S)[k]) = k - 1
           /\ \A x \in S : \E k \in 1..Cardinality(S) : Ascending(S)[k] = x
           /\ \A j, k \in 1..Cardinality(S) : j < k => Ascending(S)[j] < Ascending(S)[k]
  <1> DEFINE c == Cardinality(S)
             a == Ascending(S)
  <1>1. c \in Nat BY RankFacts
  <1>2. a = [k \in 1..c |-> CHOOSE x \in S : Rank(S, x) = k - 1] BY DEF Ascending, Rank
  <1> HIDE DEF a
  <1>3. ASSUME NEW k \in 1..c PROVE a[k] \in S /\ Rank(S, a[k]) = k - 1
    <2>1. k - 1 \in 0..(c - 1) BY <1>1
    <2>2. \E x \in S : Rank(S, x) = k - 1 BY <2>1, Ranks
    <2>3. a[k] = CHOOSE x \in S : Rank(S, x) = k - 1 BY <1>2
    <2> QED BY <2>2, <2>3
  <1> HIDE DEF c
  <1>r. \A x, y \in S : Rank(S, x) = Rank(S, y) => x = y BY Ranks
  <1>4. a \in [1..c -> S] BY <1>2, <1>3
  <1>5. a \in Seq(S) /\ Len(a) = c BY <1>1, <1>4
  <1>6. ASSUME NEW x \in S PROVE \E k \in 1..c : a[k] = x
    <2>1. Rank(S, x) \in 0..(c - 1) BY RankFacts DEF c
    <2>2. Rank(S, x) + 1 \in 1..c BY <1>1, <2>1
    <2>3. Rank(S, a[Rank(S, x) + 1]) = Rank(S, x) BY <1>3, <2>1, <2>2
    <2>4. a[Rank(S, x) + 1] = x BY <1>3, <1>r, <2>2, <2>3, Zenon
    <2> QED BY <2>2, <2>4
  <1>7. ASSUME NEW j \in 1..c, NEW k \in 1..c, j < k PROVE a[j] < a[k]
    <2>0. a[j] \in Int /\ a[k] \in Int BY <1>3
    <2>1. a[j] \in S /\ a[k] \in S /\ Rank(S, a[j]) = j - 1 /\ Rank(S, a[k]) = k - 1 BY <1>3
    <2>2. CASE a[k] < a[j]
      <3>1. Rank(S, a[k]) < Rank(S, a[j]) BY <2>1, <2>2, RankFacts
      <3> QED BY <1>1, <1>7, <2>1, <3>1
    <2>3. CASE a[k] = a[j] BY <1>1, <1>7, <2>1, <2>3
    <2> QED BY <2>0, <2>2, <2>3
  <1> QED BY <1>1, <1>3, <1>4, <1>5, <1>6, <1>7 DEF a, c

\* A greater element comes last.
LEMMA AscendingAppend ==
    ASSUME NEW S \in SUBSET Int, IsFiniteSet(S), NEW x \in Int, \A y \in S : y < x
    PROVE  /\ Cardinality(S \cup {x}) = Cardinality(S) + 1
           /\ Ascending(S \cup {x})[Cardinality(S) + 1] = x
           /\ \A k \in 1..Cardinality(S) : Ascending(S \cup {x})[k] = Ascending(S)[k]
  <1> DEFINE T == S \cup {x}
             c == Cardinality(S)
  <1>1. x \notin S /\ T \in SUBSET Int /\ x \in T /\ S \subseteq T OBVIOUS
  <1>2. IsFiniteSet(T) /\ Cardinality(T) = c + 1 BY <1>1, FS_AddElement
  <1>3. \A y \in S : Rank(T, y) = Rank(S, y)
    <2> SUFFICES ASSUME NEW y \in S PROVE Rank(T, y) = Rank(S, y) OBVIOUS
    <2>1. {z \in T : z < y} = {z \in S : z < y} OBVIOUS
    <2> QED BY <2>1, Zenon DEF Rank
  <1>4. Rank(T, x) = c
    <2>1. {z \in T : z < x} = S
      <3>1. \A z \in T : z < x <=> z \in S OBVIOUS
      <3> QED BY <1>1, <3>1
    <2> QED BY <2>1, Zenon DEF Rank
  <1>5. c \in Nat BY RankFacts
  <1> HIDE DEF T
  <1>r. \A y, z \in T : Rank(T, y) = Rank(T, z) => y = z BY <1>1, <1>2, Ranks
  <1>6. ASSUME NEW k \in 1..(c + 1) PROVE Ascending(T)[k] \in T /\ Rank(T, Ascending(T)[k]) = k - 1
    BY <1>1, <1>2, AscendingFacts
  <1>7. Ascending(T)[c + 1] = x
    <2>1. c + 1 \in 1..(c + 1) BY <1>5
    <2>2. Ascending(T)[c + 1] \in T /\ Rank(T, Ascending(T)[c + 1]) = c BY <1>5, <1>6, <2>1
    <2> QED BY <1>1, <1>4, <1>r, <2>2, Zenon
  <1>8. ASSUME NEW k \in 1..c PROVE Ascending(T)[k] = Ascending(S)[k]
    <2>1. Ascending(S)[k] \in S /\ Rank(S, Ascending(S)[k]) = k - 1 BY AscendingFacts
    <2>2. k \in 1..(c + 1) BY <1>5
    <2>3. Ascending(T)[k] \in T /\ Rank(T, Ascending(T)[k]) = k - 1 BY <1>6, <2>2
    <2>4. Rank(T, Ascending(S)[k]) = k - 1 BY <1>3, <2>1
    <2> QED BY <1>1, <1>r, <2>1, <2>3, <2>4
  <1> QED BY <1>2, <1>7, <1>8 DEF T

\* The elements at some places of a sequence.
LEMMA PickedFacts ==
    ASSUME NEW V, NEW s \in Seq(V), NEW P \in SUBSET (1..Len(s))
    PROVE  /\ Picked(s, P) \in Seq(V) /\ IsFiniteSet(P) /\ Len(Picked(s, P)) = Cardinality(P)
           /\ ToSet(Picked(s, P)) = {s[i] : i \in P}
           /\ P = {} => Picked(s, P) = <<>>
           /\ \A i \in 1..Len(s) : (\A j \in P : j < i) => Picked(s, P \cup {i}) = Append(Picked(s, P), s[i])
  <1>0. Len(s) \in Nat /\ P \in SUBSET Int OBVIOUS
  <1>1. IsFiniteSet(P)
    <2>1. IsFiniteSet(1..Len(s)) BY <1>0, FS_Interval
    <2> QED BY <2>1, FS_Subset
  <1> DEFINE c == Cardinality(P)
             a == Ascending(P)
             p == Picked(s, P)
  <1>2. c \in Nat /\ a \in [1..c -> P] /\ \A x \in P : \E k \in 1..c : a[k] = x
    BY <1>0, <1>1, AscendingFacts
  <1>3. p = [k \in 1..c |-> s[a[k]]] BY DEF Picked
  <1> HIDE DEF c, a, p
  <1>4. p \in [1..c -> V]
    <2>0. \A i \in 1..Len(s) : s[i] \in V OBVIOUS
    <2>1. \A k \in 1..c : a[k] \in 1..Len(s) /\ s[a[k]] \in V BY <1>2, <2>0
    <2> QED BY <1>3, <2>1
  <1>5. p \in Seq(V) /\ Len(p) = c BY <1>2, <1>4
  <1>6. ToSet(p) = {s[i] : i \in P} BY <1>2, <1>3, <1>5 DEF ToSet
  <1>7. P = {} => p = <<>>
    <2>1. P = {} => c = 0 BY FS_EmptySet DEF c
    <2> QED BY <1>5, <2>1
  <1>8. ASSUME NEW i \in 1..Len(s), \A j \in P : j < i PROVE Picked(s, P \cup {i}) = Append(p, s[i])
    <2> DEFINE b == Ascending(P \cup {i})
    <2>1. Cardinality(P \cup {i}) = c + 1 /\ b[c + 1] = i /\ \A k \in 1..c : b[k] = a[k]
      <3>1. i \in Int BY <1>0
      <3> QED BY <1>0, <1>1, <1>8, <3>1, AscendingAppend DEF c, a
    <2>2. Picked(s, P \cup {i}) = [k \in 1..(c + 1) |-> s[b[k]]] BY <2>1 DEF Picked
    <2> HIDE DEF b
    <2>3. \A k \in 1..(c + 1) : s[b[k]] = IF k = c + 1 THEN s[i] ELSE p[k] BY <1>2, <1>3, <2>1
    <2>4. Append(p, s[i]) = [k \in 1..(c + 1) |-> IF k = c + 1 THEN s[i] ELSE p[k]]
      BY <1>5
    <2> QED BY <2>2, <2>3, <2>4
  <1> QED BY <1>1, <1>5, <1>6, <1>7, <1>8 DEF p, c

\* Induction up to a number.
LEMMA UptoInduction ==
    ASSUME NEW m \in Nat, NEW S, 0 \in S, \A n \in 1..m : n - 1 \in S => n \in S
    PROVE  0..m \subseteq S
  <1> DEFINE T == {n \in Nat : n <= m => n \in S}
  <1>1. 0 \in T OBVIOUS
  <1>2. ASSUME NEW n \in Nat, n \in T PROVE n + 1 \in T
    <2>1. ASSUME n + 1 <= m PROVE n + 1 \in S
      <3>1. n + 1 \in 1..m /\ (n + 1) - 1 = n /\ n \in S BY <1>2, <2>1
      <3> QED BY <3>1
    <2> QED BY <2>1
  <1>3. Nat \subseteq T
    <2> HIDE DEF T
    <2> QED BY <1>1, <1>2, Induction
  <1> QED BY <1>3

-----------------------------------------------------------------------------
(* Arithmetic. *)

\* Quotient and remainder are what they are defined by.
LEMMA Division ==
    ASSUME NEW a \in Int, NEW b \in Nat \ {0}
    PROVE  a \div b \in Int /\ a % b \in 0..(b - 1) /\ a = b * (a \div b) + (a % b)
  OBVIOUS

\* The quotient and the remainder are the only numbers with that property.
LEMMA Remainder ==
    ASSUME NEW b \in Nat \ {0}, NEW q \in Int, NEW r \in 0..(b - 1)
    PROVE  (b * q + r) % b = r /\ (b * q + r) \div b = q
  <1> DEFINE a == b * q + r
             p == a \div b
             s == a % b
  <1>0. b * q \in Int OBVIOUS
  <1>1. a \in Int BY <1>0
  <1>2. p \in Int /\ s \in 0..(b - 1) /\ a = b * p + s
    <2> HIDE DEF a
    <2> QED BY <1>1, Division
  <1>3. b * q + r = b * p + s BY <1>2
  <1> HIDE DEF a, p, s
  <1>4. b * (q - p) = s - r
    <2>1. b * (q - p) = b * q - b * p BY <1>2
    <2>2. b * p \in Int BY <1>2
    <2> QED BY <1>0, <1>2, <1>3, <2>1, <2>2
  <1>5. q = p
    <2> DEFINE d == q - p
    <2>1. d \in Int BY <1>2
    <2>2. b * d = s - r /\ s - r < b /\ -b < s - r BY <1>2, <1>4
    <2> HIDE DEF d
    <2>3. ASSUME d >= 1 PROVE FALSE
      <3>1. b * d >= b BY <2>1, <2>3
      <3> QED BY <1>2, <2>2, <3>1
    <2>4. ASSUME d <= -1 PROVE FALSE
      <3>1. b * d <= -b BY <2>1, <2>4
      <3> QED BY <1>2, <2>2, <3>1
    <2>5. d = 0 BY <2>1, <2>3, <2>4
    <2> QED BY <1>2, <2>5 DEF d
  <1>6. s = r
    <2>1. b * q = b * p BY <1>5
    <2> QED BY <1>0, <1>2, <1>3, <2>1
  <1> QED BY <1>5, <1>6 DEF a, p, s

\* A remainder that is small is the number itself.
LEMMA SmallRemainder ==
    ASSUME NEW b \in Nat \ {0}, NEW v \in Int
    PROVE  /\ v \in 0..(b - 1) => v % b = v
           /\ v \in (-b)..(-1) => v % b = v + b
  <1>1. ASSUME v \in 0..(b - 1) PROVE v % b = v
    <2>1. b * 0 + v = v OBVIOUS
    <2> QED BY <1>1, <2>1, Remainder
  <1>2. ASSUME v \in (-b)..(-1) PROVE v % b = v + b
    <2>1. v + b \in 0..(b - 1) /\ -1 \in Int BY <1>2
    <2>2. b * (-1) + (v + b) = v OBVIOUS
    <2>3. (b * (-1) + (v + b)) % b = v + b BY <2>1, Remainder
    <2> QED BY <2>2, <2>3
  <1> QED BY <1>1, <1>2

\* The remainder by a product.
LEMMA ProductRemainder ==
    ASSUME NEW p \in Nat \ {0}, NEW b \in Nat \ {0}, NEW v \in Nat
    PROVE  v % (b * p) = (v % p) + ((v \div p) % b) * p
  <1> DEFINE q == v \div p
             r == v % p
             s == q \div b
             t == q % b
  <1>1. q \in Int /\ r \in 0..(p - 1) /\ v = p * q + r BY Division
  <1>2. s \in Int /\ t \in 0..(b - 1) /\ q = b * s + t
    <2> HIDE DEF q
    <2> QED BY <1>1, Division
  <1> HIDE DEF q, r, s, t
  <1> DEFINE x == r + t * p
             m == b * p
  <1>3. m \in Nat \ {0} OBVIOUS
  <1>4. x \in 0..(m - 1)
    <2>1. t * p \in Nat BY <1>2
    <2>2. t * p <= (b - 1) * p BY <1>2
    <2>3. (b - 1) * p = b * p - p OBVIOUS
    <2>4. b * p \in Nat OBVIOUS
    <2> QED BY <1>1, <2>1, <2>2, <2>3, <2>4
  <1>5. v = m * s + x
    <2>1. p * q = p * (b * s) + p * t
      <3>1. b * s \in Int BY <1>2
      <3> QED BY <1>2, <3>1
    <2>2. p * (b * s) = (b * p) * s BY <1>2
    <2>3. p * t = t * p /\ t * p \in Int BY <1>2
    <2>4. (b * p) * s \in Int BY <1>2
    <2> QED BY <1>1, <2>1, <2>2, <2>3, <2>4
  <1> HIDE DEF m, x
  <1>6. v % m = x BY <1>2, <1>3, <1>4, <1>5, Remainder
  <1> QED BY <1>6 DEF m, x, t, r, q

\* What Power computes.
LEMMA PowerFacts ==
    ASSUME NEW b \in Nat \ {0}
    PROVE  /\ Power(b, 0) = 1
           /\ \A k \in Nat : Power(b, k) \in Nat \ {0} /\ Power(b, k + 1) = b * Power(b, k)
  <1> DEFINE E(f) == f = [k \in Nat |-> IF k = 0 THEN 1 ELSE b * f[k - 1]]
             p == CHOOSE f : E(f)
             V == Nat \ {0}
             leaf == [n \in Nat |-> 1]
             down == [n \in Nat |-> IF n = 0 THEN 0 ELSE n - 1]
             step == [n \in Nat |-> [v \in V |-> b * v]]
  <1>1. \E f : E(f)
    <2>1. leaf \in [Nat -> V] /\ down \in [Nat -> Nat] /\ \A n \in Nat \ {0} : down[n] < n OBVIOUS
    <2>2. step \in [Nat -> [V -> V]]
      <3>1. \A v \in V : b * v \in V OBVIOUS
      <3> QED BY <3>1
    <2>3. Recurrence(V, {0}, leaf, down, step) BY <2>1, <2>2 DEF Recurrence
    <2>4. PICK f : Solves(f, V, {0}, leaf, down, step)
      <3> HIDE DEF V, leaf, down, step
      <3> QED BY <2>3, Recursion, Zenon
    <2>5. f \in [Nat -> V] /\ f[0] = 1 BY <2>4 DEF Solves
    <2>6. ASSUME NEW n \in Nat \ {0} PROVE f[n] = b * f[n - 1]
      <3>1. n \in Nat /\ n \notin {0} OBVIOUS
      <3>2. f[n] = step[n][f[down[n]]] BY <2>4, <3>1, Zenon DEF Solves
      <3>3. down[n] = n - 1 /\ n - 1 \in Nat OBVIOUS
      <3>4. f[n - 1] \in V BY <2>5, <3>3
      <3>5. step[n][f[n - 1]] = b * f[n - 1] BY <3>4
      <3> QED BY <3>2, <3>3, <3>5
    <2>7. E(f) BY <2>5, <2>6
    <2> QED BY <2>7
  <1>2. E(p)
    <2> HIDE DEF E
    <2> QED BY <1>1
  <1>3. \A n \in Nat : Power(b, n) = p[n] BY DEF Power
  <1> HIDE DEF p
  <1>4. p[0] = 1 BY <1>2
  <1>5. ASSUME NEW k \in Nat PROVE p[k + 1] = b * p[k]
    <2>1. k + 1 \in Nat /\ k + 1 # 0 /\ (k + 1) - 1 = k OBVIOUS
    <2>2. p[k + 1] = IF k + 1 = 0 THEN 1 ELSE b * p[(k + 1) - 1] BY <1>2, <2>1
    <2> QED BY <2>1, <2>2
  <1> HIDE DEF E
  <1>6. \A k \in Nat : p[k] \in Nat \ {0}
    <2> DEFINE S == {k \in Nat : p[k] \in Nat \ {0}}
    <2>1. 0 \in S BY <1>4
    <2>2. ASSUME NEW k \in Nat, k \in S PROVE k + 1 \in S
      <3>1. b * p[k] \in Nat \ {0} BY <2>2
      <3> QED BY <1>5, <3>1
    <2>3. Nat \subseteq S
      <3> HIDE DEF S
      <3> QED BY <2>1, <2>2, Induction
    <2> QED BY <2>3
  <1> QED BY <1>3, <1>4, <1>5, <1>6

\* Powers grow.
LEMMA PowerGrows ==
    ASSUME NEW b \in Nat \ {0}, NEW j \in Nat, NEW k \in Nat
    PROVE  /\ j <= k => Power(b, j) <= Power(b, k)
           /\ j < k => b * Power(b, j) <= Power(b, k)
  <1> DEFINE S == {n \in Nat : Power(b, j) <= Power(b, j + n)}
  <1>1. 0 \in S
    <2>1. j + 0 = j /\ Power(b, j) \in Nat BY PowerFacts
    <2> QED BY <2>1
  <1>2. ASSUME NEW n \in Nat, n \in S PROVE n + 1 \in S
    <2>1. j + n \in Nat /\ j + (n + 1) = (j + n) + 1 OBVIOUS
    <2>2. Power(b, (j + n) + 1) = b * Power(b, j + n) /\ Power(b, j + n) \in Nat \ {0} /\ Power(b, j) \in Nat
      BY <2>1, PowerFacts
    <2>3. b * Power(b, j + n) >= Power(b, j + n) /\ b * Power(b, j + n) \in Nat BY <2>2
    <2> QED BY <1>2, <2>1, <2>2, <2>3
  <1>3. \A n \in Nat : Power(b, j) <= Power(b, j + n)
    <2>1. Nat \subseteq S
      <3> HIDE DEF S
      <3> QED BY <1>1, <1>2, Induction
    <2> QED BY <2>1
  <1>4. ASSUME j <= k PROVE Power(b, j) <= Power(b, k)
    <2>1. k - j \in Nat /\ j + (k - j) = k BY <1>4
    <2> QED BY <1>3, <2>1
  <1>5. ASSUME j < k PROVE b * Power(b, j) <= Power(b, k)
    <2>1. k - 1 \in Nat /\ (k - 1) + 1 = k /\ j + (k - 1 - j) = k - 1 /\ k - 1 - j \in Nat BY <1>5
    <2>2. Power(b, j) <= Power(b, k - 1) BY <1>3, <2>1
    <2>3. Power(b, k) = b * Power(b, k - 1) /\ Power(b, k - 1) \in Nat /\ Power(b, j) \in Nat
      BY <2>1, PowerFacts
    <2> QED BY <2>2, <2>3
  <1> QED BY <1>4, <1>5

-----------------------------------------------------------------------------
(* Numbers from and to bytes and digits. *)

\* The bytes of a number, lowest first, make it: u has what the first ones make.
SumOfBytes(u, raw) ==
    /\ u \in [0..Len(raw) -> Nat]
    /\ u[0] = 0
    /\ \A n \in 1..Len(raw) : u[n] = u[n - 1] + raw[n] * Power(Radix, n - 1)

\* Unsigned is what such a sum ends with.
LEMMA UnsignedFacts ==
    ASSUME NEW raw, raw \in Seq(Nat)
    PROVE  \E u : SumOfBytes(u, raw) /\ Unsigned(raw) = u[Len(raw)]
  <1> DEFINE m == Len(raw)
             E(f) == f = [n \in 0..m |-> IF n = 0 THEN 0 ELSE f[n - 1] + raw[n] * Power(Radix, n - 1)]
             u == CHOOSE f : E(f)
             step == [n \in 1..m |-> [x \in Nat |-> x + raw[n] * Power(Radix, n - 1)]]
  <1>0. m \in Nat /\ \A n \in 1..m : raw[n] * Power(Radix, n - 1) \in Nat
    <2>1. m \in Nat OBVIOUS
    <2>2. ASSUME NEW n \in 1..m PROVE raw[n] * Power(Radix, n - 1) \in Nat
      <3>1. raw[n] \in Nat /\ n - 1 \in Nat /\ Radix \in Nat \ {0} BY ConversionsAssumption
      <3>2. Power(Radix, n - 1) \in Nat BY <3>1, PowerFacts
      <3> QED BY <3>1, <3>2
    <2> QED BY <2>1, <2>2
  <1>m. \A n \in 1..m : n \in 0..m /\ n - 1 \in 0..m /\ n # 0 BY <1>0
  <1>1. PICK f : Accumulates(f, Nat, m, 0, step)
    <2>1. step \in [1..m -> [Nat -> Nat]] BY <1>0
    <2>2. 0 \in Nat OBVIOUS
    <2> HIDE DEF step, m
    <2> QED BY <1>0, <2>1, <2>2, RecursionUpto, Zenon
  <1>2. f \in [0..m -> Nat] /\ f[0] = 0 /\ \A n \in 1..m : f[n] = f[n - 1] + raw[n] * Power(Radix, n - 1)
    <2>1. f \in [0..m -> Nat] /\ f[0] = 0 /\ \A n \in 1..m : f[n] = step[n][f[n - 1]]
      BY <1>1 DEF Accumulates
    <2>2. \A n \in 1..m : f[n - 1] \in Nat BY <1>m, <2>1
    <2>3. \A n \in 1..m : step[n][f[n - 1]] = f[n - 1] + raw[n] * Power(Radix, n - 1) BY <2>2
    <2> QED BY <2>1, <2>3
  <1>3. E(f)
    <2>1. \A n \in 0..m : n # 0 => n \in 1..m BY <1>0
    <2> HIDE DEF m
    <2> QED BY <1>2, <2>1
  <1>4. E(u)
    <2> HIDE DEF E
    <2> QED BY <1>3
  <1>5. Unsigned(raw) = u[m] BY DEF Unsigned
  <1> HIDE DEF u
  <1>6. u[0] = 0 /\ \A n \in 1..m : u[n] = u[n - 1] + raw[n] * Power(Radix, n - 1)
    <2>1. 0 \in 0..m BY <1>0
    <2> HIDE DEF m
    <2> QED BY <1>4, <1>m, <2>1
  <1>7. 0..m \subseteq {n \in 0..m : u[n] = f[n]}
    <2> DEFINE S == {n \in 0..m : u[n] = f[n]}
    <2>1. 0 \in S BY <1>0, <1>2, <1>6
    <2>2. ASSUME NEW n \in 1..m, n - 1 \in S PROVE n \in S
      <3>1. u[n - 1] = f[n - 1] BY <2>2
      <3> QED BY <1>2, <1>6, <1>m, <3>1
    <2> HIDE DEF S
    <2>3. 0..m \subseteq S BY <1>0, <2>1, <2>2, UptoInduction
    <2> QED BY <2>3 DEF S
  <1>8. SumOfBytes(f, raw) BY <1>2 DEF SumOfBytes
  <1>9. u[m] = f[m] BY <1>0, <1>7
  <1> QED BY <1>5, <1>8, <1>9

\* The digits of a number, highest first, make it.
SumOfDigits(u, s, b) ==
    /\ u \in [0..Len(s) -> Nat]
    /\ u[0] = 0
    /\ \A n \in 1..Len(s) : u[n] = u[n - 1] * b + s[n]

\* Magnitude is what such a sum ends with.
LEMMA MagnitudeFacts ==
    ASSUME NEW s, s \in Seq(Nat), NEW b \in Nat
    PROVE  \E u : SumOfDigits(u, s, b) /\ Magnitude(s, b) = u[Len(s)]
  <1> DEFINE m == Len(s)
             E(f) == f = [n \in 0..m |-> IF n = 0 THEN 0 ELSE f[n - 1] * b + s[n]]
             u == CHOOSE f : E(f)
             step == [n \in 1..m |-> [x \in Nat |-> x * b + s[n]]]
  <1>0. m \in Nat /\ \A n \in 1..m : s[n] \in Nat OBVIOUS
  <1>m. \A n \in 1..m : n \in 0..m /\ n - 1 \in 0..m /\ n # 0 BY <1>0
  <1>1. PICK f : Accumulates(f, Nat, m, 0, step)
    <2>1. step \in [1..m -> [Nat -> Nat]]
      <3>1. \A n \in 1..m, x \in Nat : x * b + s[n] \in Nat BY <1>0
      <3> QED BY <3>1
    <2>2. 0 \in Nat OBVIOUS
    <2> HIDE DEF step, m
    <2> QED BY <1>0, <2>1, <2>2, RecursionUpto, Zenon
  <1>2. f \in [0..m -> Nat] /\ f[0] = 0 /\ \A n \in 1..m : f[n] = f[n - 1] * b + s[n]
    <2>1. f \in [0..m -> Nat] /\ f[0] = 0 /\ \A n \in 1..m : f[n] = step[n][f[n - 1]]
      BY <1>1 DEF Accumulates
    <2>2. \A n \in 1..m : f[n - 1] \in Nat BY <1>m, <2>1
    <2>3. \A n \in 1..m : step[n][f[n - 1]] = f[n - 1] * b + s[n] BY <2>2
    <2> QED BY <2>1, <2>3
  <1>3. E(f)
    <2>1. \A n \in 0..m : n # 0 => n \in 1..m BY <1>0
    <2> HIDE DEF m
    <2> QED BY <1>2, <2>1
  <1>4. E(u)
    <2> HIDE DEF E
    <2> QED BY <1>3
  <1>5. Magnitude(s, b) = u[m] BY DEF Magnitude
  <1> HIDE DEF u
  <1>6. u[0] = 0 /\ \A n \in 1..m : u[n] = u[n - 1] * b + s[n]
    <2>1. 0 \in 0..m BY <1>0
    <2> HIDE DEF m
    <2> QED BY <1>4, <1>m, <2>1
  <1>7. 0..m \subseteq {n \in 0..m : u[n] = f[n]}
    <2> DEFINE S == {n \in 0..m : u[n] = f[n]}
    <2>1. 0 \in S BY <1>0, <1>2, <1>6
    <2>2. ASSUME NEW n \in 1..m, n - 1 \in S PROVE n \in S
      <3>1. u[n - 1] = f[n - 1] BY <2>2
      <3> QED BY <1>2, <1>6, <1>m, <3>1
    <2> HIDE DEF S
    <2>3. 0..m \subseteq S BY <1>0, <2>1, <2>2, UptoInduction
    <2> QED BY <2>3 DEF S
  <1>8. SumOfDigits(f, s, b) BY <1>2 DEF SumOfDigits
  <1>9. u[m] = f[m] BY <1>0, <1>7
  <1> QED BY <1>5, <1>8, <1>9

\* One more digit.
LEMMA MagnitudeAppend ==
    ASSUME NEW s, s \in Seq(Nat), NEW x \in Nat, NEW b \in Nat
    PROVE  /\ Magnitude(s, b) \in Nat
           /\ Magnitude(Append(s, x), b) = Magnitude(s, b) * b + x
  <1> DEFINE t == Append(s, x)
             m == Len(s)
  <1>1. m \in Nat /\ t \in Seq(Nat) /\ Len(t) = m + 1 /\ t[m + 1] = x /\ \A n \in 1..m : t[n] = s[n]
    OBVIOUS
  <1>m. \A n \in 1..m : n \in 0..m /\ n - 1 \in 0..m /\ n \in 1..(m + 1) BY <1>1
  <1>p. PICK f : SumOfDigits(f, s, b) /\ Magnitude(s, b) = f[m]
    <2> HIDE DEF m
    <2> QED BY MagnitudeFacts, Zenon DEF m
  <1>q. PICK g : SumOfDigits(g, t, b) /\ Magnitude(t, b) = g[Len(t)]
    <2> HIDE DEF t
    <2> QED BY <1>1, MagnitudeFacts, Zenon
  <1>2. f \in [0..m -> Nat] /\ f[0] = 0 /\ \A n \in 1..m : f[n] = f[n - 1] * b + s[n]
    BY <1>p DEF SumOfDigits
  <1> HIDE DEF t, m
  <1>3. g[0] = 0 /\ Magnitude(t, b) = g[m + 1] /\ \A n \in 1..(m + 1) : g[n] = g[n - 1] * b + t[n]
    BY <1>1, <1>q DEF SumOfDigits
  <1>4. 0..m \subseteq {n \in 0..m : g[n] = f[n]}
    <2> DEFINE S == {n \in 0..m : g[n] = f[n]}
    <2>1. 0 \in S BY <1>1, <1>2, <1>3
    <2>2. ASSUME NEW n \in 1..m, n - 1 \in S PROVE n \in S
      <3>1. g[n - 1] = f[n - 1] /\ t[n] = s[n] BY <1>1, <2>2
      <3>2. f[n] = f[n - 1] * b + s[n] /\ g[n] = g[n - 1] * b + t[n] BY <1>2, <1>3, <1>m
      <3>3. g[n] = f[n] BY <3>1, <3>2
      <3> QED BY <1>m, <3>3
    <2> HIDE DEF S
    <2>3. 0..m \subseteq S BY <1>1, <2>1, <2>2, UptoInduction
    <2> QED BY <2>3 DEF S
  <1>5. g[m] = f[m] BY <1>1, <1>4
  <1>6. m + 1 \in 1..(m + 1) /\ (m + 1) - 1 = m BY <1>1
  <1>7. g[m + 1] = g[m] * b + x BY <1>1, <1>3, <1>6
  <1>8. f[m] \in Nat BY <1>1, <1>2
  <1> QED BY <1>p, <1>3, <1>5, <1>7, <1>8 DEF t

\* The digits of a number, and the number they are of.
LEMMA DigitsFacts ==
    ASSUME NEW b \in Nat \ {0, 1}
    PROVE  \A v \in Nat : /\ Digits(v, b) \in Seq(0..(b - 1)) /\ Digits(v, b) # <<>>
                          /\ Magnitude(Digits(v, b), b) = v
  <1> DEFINE E(f) == f = [n \in Nat |-> IF n < b THEN <<n>> ELSE Append(f[n \div b], n % b)]
             d == CHOOSE f : E(f)
             V == Seq(Nat)
             L == 0..(b - 1)
             leaf == [n \in Nat |-> <<n>>]
             down == [n \in Nat |-> n \div b]
             step == [n \in Nat |-> [s \in V |-> Append(s, n % b)]]
  <1>0. \A n \in Nat : n \div b \in Nat /\ n % b \in 0..(b - 1) /\ (n >= b => n \div b < n)
    <2> SUFFICES ASSUME NEW n \in Nat
                 PROVE  n \div b \in Nat /\ n % b \in 0..(b - 1) /\ (n >= b => n \div b < n)
      OBVIOUS
    <2> DEFINE q == n \div b
               r == n % b
    <2>1. q \in Int /\ r \in 0..(b - 1) /\ n = b * q + r BY Division
    <2>2. q \in Nat OBVIOUS
    <2> HIDE DEF q, r
    <2>3. ASSUME n >= b PROVE q < n
      <3>1. CASE q = 0 BY <2>1, <2>3, <3>1
      <3>2. CASE q >= 1
        <4>1. b * q >= 2 * q BY <2>1, <3>2
        <4>2. b * q \in Int BY <2>1
        <4> QED BY <2>1, <3>2, <4>1, <4>2
      <3> QED BY <2>2, <3>1, <3>2
    <2> QED BY <2>1, <2>2, <2>3 DEF q, r
  <1>1. \E f : E(f)
    <2>1. leaf \in [Nat -> V] /\ down \in [Nat -> Nat] BY <1>0
    <2>2. step \in [Nat -> [V -> V]]
      <3>1. \A n \in Nat, s \in V : Append(s, n % b) \in V BY <1>0
      <3> QED BY <3>1
    <2>3. \A n \in Nat \ L : down[n] < n BY <1>0
    <2>4. Recurrence(V, L, leaf, down, step) BY <2>1, <2>2, <2>3 DEF Recurrence
    <2>5. PICK f : Solves(f, V, L, leaf, down, step)
      <3> HIDE DEF V, L, leaf, down, step
      <3> QED BY <2>4, Recursion, Zenon
    <2>6. f \in [Nat -> V] BY <2>5 DEF Solves
    <2>7. ASSUME NEW n \in Nat PROVE f[n] = IF n < b THEN <<n>> ELSE Append(f[n \div b], n % b)
      <3>1. CASE n < b
        <4>1. n \in L BY <3>1
        <4>2. f[n] = leaf[n] BY <2>5, <4>1, Zenon DEF Solves
        <4> QED BY <3>1, <4>2
      <3>2. CASE ~(n < b)
        <4>1. n \notin L BY <3>2
        <4>2. f[n] = step[n][f[down[n]]] BY <2>5, <4>1, Zenon DEF Solves
        <4>3. down[n] = n \div b /\ n \div b \in Nat BY <1>0
        <4>4. f[n \div b] \in V BY <2>6, <4>3
        <4>5. step[n][f[n \div b]] = Append(f[n \div b], n % b) BY <4>4
        <4> QED BY <3>2, <4>2, <4>3, <4>5
      <3> QED BY <3>1, <3>2
    <2>8. E(f) BY <2>6, <2>7
    <2> QED BY <2>8
  <1>2. E(d)
    <2> HIDE DEF E
    <2> QED BY <1>1
  <1>3. \A v \in Nat : Digits(v, b) = d[v] BY DEF Digits
  <1> HIDE DEF d
  <1>4. \A n \in Nat : d[n] = IF n < b THEN <<n>> ELSE Append(d[n \div b], n % b) BY <1>2
  <1> DEFINE Right(n) == d[n] \in Seq(0..(b - 1)) /\ d[n] # <<>> /\ Magnitude(d[n], b) = n
  <1>5. ASSUME NEW n \in Nat, n < b PROVE Right(n)
    <2>1. d[n] = <<n>> /\ n \in 0..(b - 1)
      <3>1. d[n] = IF n < b THEN <<n>> ELSE Append(d[n \div b], n % b) BY <1>4
      <3> HIDE DEF E
      <3> QED BY <1>5, <3>1
    <2>2. <<n>> = Append(<<>>, n) /\ <<>> \in Seq(Nat) /\ <<n>> \in Seq(0..(b - 1)) /\ <<n>> # <<>> BY <2>1
    <2>3. Magnitude(<<>>, b) = 0
      <3>1. <<>> \in Seq(Nat) /\ Len(<<>>) = 0 OBVIOUS
      <3>2. PICK f : SumOfDigits(f, <<>>, b) /\ Magnitude(<<>>, b) = f[Len(<<>>)]
        BY <3>1, MagnitudeFacts, Zenon
      <3> QED BY <3>1, <3>2 DEF SumOfDigits
    <2>4. Magnitude(Append(<<>>, n), b) = Magnitude(<<>>, b) * b + n BY <2>2, MagnitudeAppend
    <2>5. Magnitude(d[n], b) = n BY <2>1, <2>2, <2>3, <2>4
    <2> QED BY <2>1, <2>2, <2>5
  <1>6. ASSUME NEW n \in Nat, n >= b, Right(n \div b) PROVE Right(n)
    <2> DEFINE s == d[n \div b]
               r == n % b
    <2>1. s \in Seq(0..(b - 1)) /\ Magnitude(s, b) = n \div b BY <1>6
    <2>2. r \in 0..(b - 1) /\ d[n] = Append(s, r)
      <3>1. d[n] = IF n < b THEN <<n>> ELSE Append(s, r) BY <1>4
      <3>2. ~(n < b) BY <1>6
      <3> QED BY <1>0, <3>1, <3>2
    <2>3. s \in Seq(Nat) /\ r \in Nat BY <2>1, <2>2
    <2>4. n = b * (n \div b) + r /\ n \div b \in Nat BY <1>0, Division
    <2> HIDE DEF s, r
    <2>5. Append(s, r) \in Seq(0..(b - 1)) /\ Append(s, r) # <<>>
      <3>1. Append(s, r) \in Seq(0..(b - 1)) /\ Len(Append(s, r)) = Len(s) + 1 /\ Len(s) \in Nat BY <2>1, <2>2
      <3>2. Len(<<>>) = 0 OBVIOUS
      <3> QED BY <3>1, <3>2
    <2>6. Magnitude(Append(s, r), b) = Magnitude(s, b) * b + r BY <2>3, MagnitudeAppend
    <2>7. Magnitude(s, b) * b + r = n BY <2>1, <2>4
    <2> QED BY <2>2, <2>5, <2>6, <2>7
  <1> HIDE DEF Right, E
  <1>7. \A n \in Nat : Right(n)
    <2> DEFINE T == {n \in Nat : ~Right(n)}
    <2>1. SUFFICES ASSUME T # {} PROVE FALSE OBVIOUS
    <2>2. PICK n \in T : \A k \in T : n <= k
      <3>1. T \subseteq Nat OBVIOUS
      <3> HIDE DEF T
      <3> QED BY <2>1, <3>1, Least
    <2>3. n \in Nat /\ n >= b BY <1>5
    <2>4. n \div b \in Nat /\ n \div b < n BY <1>0, <2>3
    <2>5. Right(n \div b) BY <2>2, <2>4
    <2> QED BY <1>6, <2>3, <2>5
  <1> QED BY <1>3, <1>7 DEF Right

-----------------------------------------------------------------------------
(* What the conversions return. *)

\* Sequences are functions.
LEMMA IsSequence ==
    ASSUME NEW V, NEW n \in Nat, NEW f \in [1..n -> V] PROVE f \in Seq(V) /\ Len(f) = n
  OBVIOUS

\* The elements of a sequence.
LEMMA ElementOf ==
    ASSUME NEW V, NEW s \in Seq(V)
    PROVE  /\ DOMAIN s = 1..Len(s) /\ Len(s) \in Nat
           /\ \A k \in DOMAIN s : s[k] \in V
           /\ ToSet(s) \subseteq V
  BY DEF ToSet

\* The bytes of a number.
LEMMA BytesFacts ==
    ASSUME NEW v \in Int, NEW n \in Nat
    PROVE  /\ Bytes(v, n) \in Seq(0..(Radix - 1)) /\ Bytes(v, n) \in Seq(Nat)
           /\ Len(Bytes(v, n)) = n
           /\ \A i \in 1..n : Bytes(v, n)[i] = (v \div Power(Radix, i - 1)) % Radix
  <1>1. Radix \in Nat \ {0} BY ConversionsAssumption
  <1>2. ASSUME NEW i \in 1..n PROVE (v \div Power(Radix, i - 1)) % Radix \in 0..(Radix - 1)
    <2>1. i - 1 \in Nat OBVIOUS
    <2>2. Power(Radix, i - 1) \in Nat \ {0} BY <1>1, <2>1, PowerFacts
    <2>3. v \div Power(Radix, i - 1) \in Int BY <2>2, Division
    <2> QED BY <1>1, <2>3, Division
  <1> DEFINE f == [i \in 1..n |-> (v \div Power(Radix, i - 1)) % Radix]
  <1>3. f \in [1..n -> 0..(Radix - 1)] BY <1>2
  <1>4. Bytes(v, n) = f BY DEF Bytes
  <1>5. \A i \in 1..n : f[i] = (v \div Power(Radix, i - 1)) % Radix OBVIOUS
  <1> HIDE DEF f
  <1>6. 0..(Radix - 1) \subseteq Nat BY <1>1
  <1>7. f \in [1..n -> Nat] BY <1>3, <1>6
  <1>8. f \in Seq(0..(Radix - 1)) /\ Len(f) = n BY <1>3, IsSequence
  <1>9. f \in Seq(Nat) BY <1>7, IsSequence
  <1> QED BY <1>4, <1>5, <1>8, <1>9

\* They make its remainder by the number of values they have.
LEMMA UnsignedBytes ==
    ASSUME NEW v \in Nat, NEW n \in Nat
    PROVE  Unsigned(Bytes(v, n)) = v % Power(Radix, n)
  <1> DEFINE raw == Bytes(v, n)
  <1>1. raw \in Seq(Nat) /\ Len(raw) = n /\ \A i \in 1..n : raw[i] = (v \div Power(Radix, i - 1)) % Radix
    BY BytesFacts
  <1>2. PICK u : SumOfBytes(u, raw) /\ Unsigned(raw) = u[Len(raw)]
    <2> HIDE DEF raw
    <2> QED BY <1>1, UnsignedFacts, Zenon
  <1> HIDE DEF raw
  <1>3. u[0] = 0 /\ \A i \in 1..n : u[i] = u[i - 1] + raw[i] * Power(Radix, i - 1)
    BY <1>1, <1>2 DEF SumOfBytes
  <1>4. Radix \in Nat \ {0} BY ConversionsAssumption
  <1> DEFINE S == {i \in 0..n : u[i] = v % Power(Radix, i)}
  <1>5. 0 \in S
    <2>1. v % 1 = 0
      <3>1. 1 \in Nat \ {0} OBVIOUS
      <3>2. v % 1 \in 0..(1 - 1) BY <3>1, Division
      <3> QED BY <3>2
    <2>2. Power(Radix, 0) = 1 BY <1>4, PowerFacts
    <2> QED BY <1>3, <2>1, <2>2
  <1>6. ASSUME NEW i \in 1..n, i - 1 \in S PROVE i \in S
    <2> DEFINE p == Power(Radix, i - 1)
    <2>1. i - 1 \in Nat /\ (i - 1) + 1 = i /\ i \in 0..n OBVIOUS
    <2>2. p \in Nat \ {0} /\ Power(Radix, i) = Radix * p
      <3>1. Power(Radix, (i - 1) + 1) = Radix * Power(Radix, i - 1) /\ Power(Radix, i - 1) \in Nat \ {0}
        BY <1>4, <2>1, PowerFacts
      <3> QED BY <2>1, <3>1
    <2>3. u[i] = (v % p) + ((v \div p) % Radix) * p BY <1>1, <1>3, <1>6
    <2> HIDE DEF p
    <2>4. v % (Radix * p) = (v % p) + ((v \div p) % Radix) * p BY <1>4, <2>2, ProductRemainder
    <2> QED BY <2>1, <2>2, <2>3, <2>4
  <1> HIDE DEF S
  <1>7. 0..n \subseteq S BY <1>5, <1>6, UptoInduction
  <1>8. n \in S BY <1>7
  <1> QED BY <1>1, <1>2, <1>8 DEF S, raw

\* How many values the types have.
LEMMA SizeFacts ==
    ASSUME NEW t \in Numbers
    PROVE  /\ Size[t] \in Nat \ {0} /\ Values(t) \in Nat /\ Values(t) >= 2
           /\ Values("int") \in Nat /\ Values("int") >= 2 /\ Values("long") \in Nat
           /\ Values(t) <= Values("long")
           /\ t \notin Signed \cup {"u64"} => Values(t) <= Values("long") \div 2
  <1>1. Radix \in Nat /\ Radix >= 2 /\ Radix \in Nat \ {0} BY ConversionsAssumption
  <1>2. ASSUME NEW x \in DOMAIN Size
        PROVE  /\ Size[x] \in Nat \ {0} /\ Values(x) \in Nat /\ Values(x) >= 2
               /\ Values(x) <= Values("long")
               /\ x \notin Signed \cup {"u64", "long"} => Values(x) <= Values("long") \div 2
    <2>1. Size[x] \in Nat \ {0} /\ Size[x] <= Size["long"] /\ "long" \in DOMAIN Size BY ConversionsAssumption
    <2>2. Size[x] - 1 \in Nat /\ (Size[x] - 1) + 1 = Size[x] /\ Size[x] \in Nat BY <2>1
    <2>3. Size["long"] \in Nat BY <2>1, ConversionsAssumption
    <2>4. Values(x) = Radix * Power(Radix, Size[x] - 1) /\ Power(Radix, Size[x] - 1) \in Nat \ {0}
      BY <1>1, <2>2, PowerFacts DEF Values
    <2>5. Values(x) \in Nat /\ Values("long") \in Nat BY <1>1, <2>2, <2>3, PowerFacts DEF Values
    <2>6. Values(x) >= 2 BY <1>1, <2>4
    <2>7. Values(x) <= Values("long") BY <1>1, <2>1, <2>2, <2>3, PowerGrows DEF Values
    <2>8. ASSUME x \notin Signed \cup {"u64", "long"} PROVE Values(x) <= Values("long") \div 2
      <3>1. Size[x] < Size["long"] BY <2>8, ConversionsAssumption
      <3>2. Radix * Values(x) <= Values("long") BY <1>1, <2>2, <2>3, <3>1, PowerGrows DEF Values
      <3>3. 2 * Values(x) <= Radix * Values(x) BY <1>1, <2>5
      <3>4. Radix * Values(x) \in Nat BY <1>1, <2>5
      <3> QED BY <2>5, <3>2, <3>3, <3>4
    <2> QED BY <2>1, <2>5, <2>6, <2>7, <2>8
  <1>3. {"int", "long"} \subseteq DOMAIN Size BY ConversionsAssumption
  <1>4. t \in DOMAIN Size /\ t # "long" BY DEF Numbers
  <1> QED BY <1>2, <1>3, <1>4

\* The values of a type, and what is left of them modulo how many there are.
LEMMA HeldFacts ==
    ASSUME NEW t \in Numbers, NEW v \in Held(t)
    PROVE  /\ v \in Int
           /\ t \in Signed => v \in (-(Values(t) \div 2))..(Values(t) \div 2 - 1)
           /\ t \notin Signed => v \in 0..(Values(t) - 1)
           /\ v >= 0 => v % Values(t) = v
           /\ v < 0 => t \in Signed /\ v % Values(t) = v + Values(t)
           /\ v % Values(t) \in 0..(Values(t) - 1)
  <1>1. Values(t) \in Nat /\ Values(t) >= 2 BY SizeFacts
  <1>2. /\ v \in Int
        /\ t \in Signed => v \in (-(Values(t) \div 2))..(Values(t) \div 2 - 1)
        /\ t \notin Signed => v \in 0..(Values(t) - 1)
    BY <1>1 DEF Held
  <1>3. v >= 0 => v \in 0..(Values(t) - 1) BY <1>1, <1>2
  <1>4. v < 0 => t \in Signed /\ v \in (-Values(t))..(-1) BY <1>1, <1>2
  <1>5. Values(t) \in Nat \ {0} BY <1>1
  <1>6. /\ v \in 0..(Values(t) - 1) => v % Values(t) = v
        /\ v \in (-Values(t))..(-1) => v % Values(t) = v + Values(t)
    BY <1>2, <1>5, SmallRemainder
  <1>7. v % Values(t) \in 0..(Values(t) - 1) BY <1>2, <1>5, Division
  <1> QED BY <1>2, <1>3, <1>4, <1>6, <1>7

\* A value is what its bytes are read as.
LEMMA ValueOfBytes ==
    ASSUME NEW t \in Numbers, NEW v \in Held(t)
    PROVE  Value(Bytes(v % Values(t), Size[t]), t) = v
  <1> DEFINE w == v % Values(t)
             raw == Bytes(w, Size[t])
  <1>1. Values(t) \in Nat /\ Values(t) >= 2 /\ Size[t] \in Nat BY SizeFacts
  <1>2. w \in 0..(Values(t) - 1) BY HeldFacts
  <1>3. /\ v \in Int
        /\ t \in Signed => v \in (-(Values(t) \div 2))..(Values(t) \div 2 - 1)
        /\ v >= 0 => w = v
        /\ v < 0 => t \in Signed /\ w = v + Values(t)
    BY HeldFacts
  <1> HIDE DEF w
  <1>4. Unsigned(raw) = w
    <2>1. w \in Nat /\ Values(t) \in Nat \ {0} BY <1>1, <1>2
    <2>2. Unsigned(raw) = w % Values(t) BY <1>1, <2>1, UnsignedBytes DEF Values
    <2> QED BY <1>2, <2>1, <2>2, SmallRemainder
  <1> HIDE DEF raw
  <1>5. Value(raw, t) = IF t \in Signed /\ w >= Values(t) \div 2 THEN w - Values(t) ELSE w
    BY <1>4 DEF Value
  <1>6. CASE v >= 0 BY <1>1, <1>3, <1>5, <1>6 DEF raw, w
  <1>7. CASE v < 0
    <2>1. w >= Values(t) \div 2 BY <1>1, <1>3, <1>7
    <2> QED BY <1>1, <1>3, <1>5, <1>7, <2>1 DEF raw, w
  <1> QED BY <1>3, <1>6, <1>7

\* Digits of the base are all taken, where no "0x" stops them.
LEMMA NumeralFacts ==
    ASSUME NEW hex \in BOOLEAN, NEW text, text.digits \in Seq(0..(Base(hex) - 1)), text.prefix => hex
    PROVE  Numeral(text, hex) = text.digits
  <1> DEFINE ends == {k \in DOMAIN text.digits : text.digits[k] >= Base(hex)}
  <1>1. Base(hex) \in Nat BY ConversionsAssumption DEF Base
  <1>2. ends = {}
    <2>1. ASSUME NEW s \in Seq(0..(Base(hex) - 1)), NEW k \in DOMAIN s PROVE ~(s[k] >= Base(hex))
      <3>1. s[k] \in 0..(Base(hex) - 1) BY ElementOf
      <3> QED BY <1>1, <3>1
    <2>2. \A k \in DOMAIN text.digits : ~(text.digits[k] >= Base(hex)) BY <2>1, Zenon
    <2> QED BY <2>2, Zenon
  <1>3. ~(text.prefix /\ ~hex) OBVIOUS
  <1> QED BY <1>2, <1>3 DEF Numeral

\* The text of a number.
NumberOf(v, prefix, base) ==
    [neg |-> v < 0, prefix |-> prefix, digits |-> Digits(IF v < 0 THEN -v ELSE v, base)]

\* The number that is read from the text of a value: strtol stops a decimal u64 at the
\* greatest long.
ReadAs(v, hex, t) ==
    IF t = "u64" /\ ~hex /\ v >= Values("long") \div 2 THEN Values("long") \div 2 - 1 ELSE v

\* The text of a value gives the bytes that are stored of what is read.
LEMMA ReadValue ==
    ASSUME NEW t \in Numbers, NEW v \in Held(t), NEW hex \in BOOLEAN, NEW prefix \in BOOLEAN,
           prefix => hex
    PROVE  str_expr_to_raw(NumberOf(v, prefix, Base(hex)), hex, t)
              = Bytes(ReadAs(v, hex, t) % Values(Stored(t)), Size[t])
  <1> DEFINE text == NumberOf(v, prefix, Base(hex))
             a == IF v < 0 THEN -v ELSE v
             num == Numeral(text, hex)
             mag == Magnitude(num, Base(hex))
             long == Values("long")
             val == IF hex THEN (IF mag >= long THEN long - 1 ELSE IF text.neg THEN -mag ELSE mag)
                    ELSE Within(IF text.neg THEN -mag ELSE mag, -(long \div 2), long \div 2 - 1)
  <1>1. Base(hex) \in Nat \ {0, 1} BY ConversionsAssumption DEF Base
  <1>2. v \in Int /\ a \in Nat BY HeldFacts
  <1>3. text.digits = Digits(a, Base(hex)) /\ text.prefix = prefix /\ text.neg = (v < 0) BY DEF NumberOf
  <1>4. /\ Digits(a, Base(hex)) \in Seq(0..(Base(hex) - 1)) /\ Digits(a, Base(hex)) # <<>>
        /\ Magnitude(Digits(a, Base(hex)), Base(hex)) = a
    <2> HIDE DEF a
    <2> QED BY <1>1, <1>2, DigitsFacts
  <1> HIDE DEF text
  <1>5. num = Digits(a, Base(hex)) BY <1>3, <1>4, NumeralFacts
  <1>6. num # <<>> /\ mag = a BY <1>4, <1>5
  <1> HIDE DEF num, mag
  <1>v. (IF text.neg THEN -mag ELSE mag) = v
    <2>1. (IF v < 0 THEN -a ELSE a) = v BY <1>2
    <2> HIDE DEF a
    <2> QED BY <1>3, <1>6, <2>1, Zenon
  <1>7. /\ Values(t) \in Nat /\ Values(t) >= 2 /\ long \in Nat /\ Values(t) <= long
        /\ t \notin Signed \cup {"u64"} => Values(t) <= long \div 2
        /\ Values("int") \in Nat /\ Values("int") >= 2
    BY SizeFacts
  <1>8. /\ t \in Signed => v \in (-(Values(t) \div 2))..(Values(t) \div 2 - 1)
        /\ t \notin Signed => v \in 0..(Values(t) - 1)
        /\ v >= 0 => v % Values(t) = v
    BY HeldFacts
  <1>r. ReadAs(v, hex, t) = IF t = "u64" /\ ~hex /\ v >= long \div 2 THEN long \div 2 - 1 ELSE v
    BY DEF ReadAs
  <1> HIDE DEF long
  <1>9. val = ReadAs(v, hex, t)
    <2>1. CASE hex
      <3>1. a < long BY <1>2, <1>7, <1>8
      <3>2. ~(mag >= long) BY <1>2, <1>6, <1>7, <3>1
      <3> QED BY <1>r, <1>v, <2>1, <3>2, Zenon
    <2>2. CASE ~hex
      <3>1. val = Within(v, -(long \div 2), long \div 2 - 1) BY <1>v, <2>2, Zenon
      <3>2. CASE t = "u64" /\ v >= long \div 2
        <4>1. ~(v < -(long \div 2)) /\ v > long \div 2 - 1 BY <1>2, <1>7, <3>2
        <4> QED BY <1>r, <2>2, <3>1, <3>2, <4>1 DEF Within
      <3>3. CASE ~(t = "u64" /\ v >= long \div 2)
        <4>1. v >= -(long \div 2) /\ v <= long \div 2 - 1
          <5>1. CASE t \in Signed BY <1>2, <1>7, <1>8, <5>1
          <5>2. CASE t \notin Signed /\ t # "u64" BY <1>2, <1>7, <1>8, <5>2
          <5>3. CASE t = "u64"
            <6>1. t \notin Signed BY <5>3 DEF Signed
            <6> QED BY <1>2, <1>7, <1>8, <3>3, <5>3, <6>1
          <5> QED BY <5>1, <5>2, <5>3
        <4> QED BY <1>2, <1>7, <1>r, <3>1, <3>3, <4>1 DEF Within
      <3> QED BY <3>2, <3>3
    <2> QED BY <2>1, <2>2
  <1>10. str_expr_to_raw(text, hex, t) = Bytes(val % Values(Stored(t)), Size[t])
    BY <1>6 DEF str_expr_to_raw, num, mag, long
  <1> HIDE DEF val
  <1> QED BY <1>9, <1>10 DEF text

\* It is read back as the value, if the base is the same and the value is stored whole.
LEMMA ReadBack ==
    ASSUME NEW t \in Numbers, NEW v \in Held(t), NEW hex \in BOOLEAN, NEW prefix \in BOOLEAN,
           prefix => hex,
           t = "s64" => v \in 0..(Values("int") - 1),
           t = "u64" /\ ~hex => v < Values("long") \div 2
    PROVE  str_expr_to_raw(NumberOf(v, prefix, Base(hex)), hex, t) = Bytes(v % Values(t), Size[t])
  <1>1. str_expr_to_raw(NumberOf(v, prefix, Base(hex)), hex, t) = Bytes(ReadAs(v, hex, t) % Values(Stored(t)), Size[t])
    BY ReadValue
  <1>2. v \in Int /\ (v >= 0 => v % Values(t) = v) /\ Values("long") \in Nat BY HeldFacts, SizeFacts
  <1>3. ReadAs(v, hex, t) = v BY <1>2 DEF ReadAs
  <1>4. v % Values(Stored(t)) = v % Values(t)
    <2>1. CASE t # "s64" BY <2>1 DEF Stored
    <2>2. CASE t = "s64"
      <3>1. v \in 0..(Values("int") - 1) /\ Values("int") \in Nat \ {0} BY <2>2, SizeFacts
      <3>2. v % Values("int") = v BY <1>2, <3>1, SmallRemainder
      <3> QED BY <1>2, <2>2, <3>1, <3>2 DEF Stored
    <2> QED BY <2>1, <2>2
  <1> QED BY <1>1, <1>3, <1>4

\* Different values of a type have different bytes.
LEMMA BytesDiffer ==
    ASSUME NEW t \in Numbers, NEW x \in 0..(Values(t) - 1), NEW y \in 0..(Values(t) - 1), x # y
    PROVE  Bytes(x, Size[t]) # Bytes(y, Size[t])
  <1>1. Size[t] \in Nat /\ Values(t) \in Nat \ {0} /\ Values(t) = Power(Radix, Size[t]) BY SizeFacts DEF Values
  <1>2. x \in Nat /\ y \in Nat /\ x % Values(t) = x /\ y % Values(t) = y BY <1>1, SmallRemainder
  <1>3. Unsigned(Bytes(x, Size[t])) = x /\ Unsigned(Bytes(y, Size[t])) = y BY <1>1, <1>2, UnsignedBytes
  <1> QED BY <1>3

\* A value that is not stored whole is read back as another.
LEMMA ReadOther ==
    ASSUME NEW t \in Numbers, NEW v \in Held(t), NEW hex \in BOOLEAN, NEW prefix \in BOOLEAN,
           prefix => hex,
           \/ t = "s64" /\ v \notin 0..(Values("int") - 1)
           \/ t = "u64" /\ ~hex /\ ~(v < Values("long") \div 2)
    PROVE  str_expr_to_raw(NumberOf(v, prefix, Base(hex)), hex, t) # Bytes(v % Values(t), Size[t])
  <1> DEFINE x == ReadAs(v, hex, t) % Values(Stored(t))
             y == v % Values(t)
  <1>1. /\ v \in Int /\ y \in 0..(Values(t) - 1)
        /\ t \in Signed => v \in (-(Values(t) \div 2))..(Values(t) \div 2 - 1)
        /\ t \notin Signed => v \in 0..(Values(t) - 1)
        /\ v >= 0 => y = v
        /\ v < 0 => y = v + Values(t)
    BY HeldFacts
  <1>2. /\ Values(t) \in Nat \ {0} /\ Values("int") \in Nat \ {0} /\ Values("long") \in Nat
        /\ Values(t) <= Values("long") /\ Values(t) >= 2
    BY SizeFacts
  <1>3. x \in 0..(Values(t) - 1) /\ x # y
    <2>1. CASE t = "s64"
      <3>1. 2 * Values("int") <= Values(t)
        <4>1. Radix \in Nat /\ Radix >= 2 /\ Size["int"] \in Nat /\ Size["s64"] \in Nat /\ Size["int"] < Size["s64"]
          BY ConversionsAssumption
        <4>2. Radix * Values("int") <= Values("s64") BY <4>1, PowerGrows DEF Values
        <4>3. 2 * Values("int") <= Radix * Values("int") BY <1>2, <4>1
        <4>4. Radix * Values("int") \in Nat BY <1>2, <4>1
        <4> QED BY <1>2, <2>1, <4>2, <4>3, <4>4
      <3>2. x = v % Values("int") BY <2>1 DEF ReadAs, Stored
      <3>3. x \in 0..(Values("int") - 1) BY <1>1, <1>2, <3>2, Division
      <3>4. y >= Values("int")
        <4>1. t \in Signed /\ v \notin 0..(Values("int") - 1) BY <2>1 DEF Signed
        <4>2. CASE v >= 0 BY <1>1, <1>2, <4>1, <4>2
        <4>3. CASE v < 0
          <5>1. y = v + Values(t) /\ v >= -(Values(t) \div 2) BY <1>1, <4>1, <4>3
          <5> HIDE DEF y
          <5> QED BY <1>1, <1>2, <3>1, <5>1
        <4> QED BY <1>1, <4>2, <4>3
      <3> HIDE DEF x, y
      <3> QED BY <1>1, <1>2, <3>1, <3>3, <3>4
    <2>2. CASE t = "u64"
      <3>1. t \notin Signed /\ t # "s64" BY <2>2 DEF Signed
      <3>2. ~hex /\ v >= Values("long") \div 2 /\ v \in 0..(Values(t) - 1) BY <1>1, <1>2, <2>2, <3>1
      <3> DEFINE w == Values("long") \div 2 - 1
      <3>3. w \in 0..(Values(t) - 1) /\ w # v BY <1>2, <3>2
      <3>4. x = w % Values(t) BY <2>2, <3>1, <3>2 DEF ReadAs, Stored
      <3>5. x = w
        <4>1. w \in Int BY <1>2
        <4> HIDE DEF w
        <4> QED BY <1>2, <3>3, <3>4, <4>1, SmallRemainder
      <3>6. y = v BY <1>1, <3>2
      <3> HIDE DEF x, y, w
      <3> QED BY <3>3, <3>5, <3>6
    <2> QED BY <2>1, <2>2
  <1>4. str_expr_to_raw(NumberOf(v, prefix, Base(hex)), hex, t) = Bytes(x, Size[t]) BY ReadValue
  <1> HIDE DEF x, y
  <1>5. Bytes(x, Size[t]) # Bytes(y, Size[t]) BY <1>1, <1>3, BytesDiffer
  <1> QED BY <1>4, <1>5 DEF y

\* A number below 0 that is typed in hex is read in decimal, and is 0 up to the "x".
LEMMA ReadZero ==
    ASSUME NEW t \in Numbers, NEW v \in Held(t), v < 0
    PROVE  str_expr_to_raw(NumberOf(v, TRUE, HexBase), FALSE, t) # Bytes(v % Values(t), Size[t])
  <1> DEFINE text == NumberOf(v, TRUE, HexBase)
             long == Values("long")
             y == v % Values(t)
  <1>1. text.prefix = TRUE /\ text.neg \in BOOLEAN BY DEF NumberOf
  <1> HIDE DEF text
  <1>2. Numeral(text, FALSE) = <<0>> /\ Base(FALSE) = DecBase BY <1>1 DEF Numeral, Base
  <1>3. DecBase \in Nat BY ConversionsAssumption
  <1>4. Magnitude(<<0>>, DecBase) = 0
    <2>1. <<>> \in Seq(Nat) /\ 0 \in Nat /\ Append(<<>>, 0) = <<0>> OBVIOUS
    <2>2. Magnitude(<<>>, DecBase) \in Nat
          /\ Magnitude(Append(<<>>, 0), DecBase) = Magnitude(<<>>, DecBase) * DecBase + 0
      BY <1>3, <2>1, MagnitudeAppend
    <2>3. PICK u : SumOfDigits(u, <<>>, DecBase) /\ Magnitude(<<>>, DecBase) = u[Len(<<>>)]
      BY <1>3, <2>1, MagnitudeFacts
    <2>4. Magnitude(<<>>, DecBase) = 0 BY <2>3 DEF SumOfDigits
    <2> QED BY <1>3, <2>1, <2>2, <2>4
  <1>5. /\ Values(t) \in Nat \ {0} /\ Values(t) >= 2 /\ long \in Nat /\ long >= 2
        /\ Values("int") \in Nat \ {0}
    BY SizeFacts
  <1> HIDE DEF long
  <1> DEFINE m == Magnitude(<<0>>, DecBase)
  <1>6. Within(IF text.neg THEN -m ELSE m, -(long \div 2), long \div 2 - 1) = 0
    <2>1. m = 0 BY <1>4
    <2>2. m \in Int BY <2>1
    <2> HIDE DEF m
    <2>3. \A k \in Int : k >= 0 /\ k <= 0 => -k >= 0 /\ -k <= 0 OBVIOUS
    <2>4. -m \in Int /\ -m >= 0 /\ -m <= 0
      <3>1. m >= 0 /\ m <= 0 BY <2>1
      <3> QED BY <2>2, <2>3, <3>1
    <2>5. -m = 0
      <3> DEFINE k == -m
      <3>1. k \in Int /\ k >= 0 /\ k <= 0 BY <2>4
      <3> HIDE DEF k
      <3>2. k = 0 BY <3>1
      <3> QED BY <3>2 DEF k
    <2>6. (IF text.neg THEN -m ELSE m) = 0 BY <2>1, <2>5, Zenon
    <2>7. ~(0 < -(long \div 2)) /\ ~(0 > long \div 2 - 1) BY <1>5
    <2> QED BY <2>6, <2>7, Zenon DEF Within
  <1>7. str_expr_to_raw(text, FALSE, t) = Bytes(0 % Values(Stored(t)), Size[t])
    <2>1. <<0>> # <<>> OBVIOUS
    <2> QED BY <1>2, <1>6, <2>1, Zenon DEF str_expr_to_raw, long
  <1>8. 0 % Values(Stored(t)) = 0
    <2>1. Values(Stored(t)) \in Nat \ {0} BY <1>5 DEF Stored
    <2>2. 0 \in 0..(Values(Stored(t)) - 1) /\ 0 \in Int BY <2>1
    <2> QED BY <2>1, <2>2, SmallRemainder
  <1>9. y \in 0..(Values(t) - 1) /\ y # 0
    <2>1. v \in Int /\ y \in 0..(Values(t) - 1) /\ y = v + Values(t) /\ v >= -(Values(t) \div 2)
      BY <1>5, HeldFacts
    <2> HIDE DEF y
    <2> QED BY <1>5, <2>1
  <1>10. 0 \in 0..(Values(t) - 1) BY <1>5
  <1> HIDE DEF y
  <1>11. Bytes(0, Size[t]) # Bytes(y, Size[t]) BY <1>9, <1>10, BytesDiffer
  <1> QED BY <1>7, <1>8, <1>11 DEF text, y

-----------------------------------------------------------------------------
(* Sequences. *)

\* A sequence of elements of W.
LEMMA SequenceWithin ==
    ASSUME NEW V, NEW W, NEW s \in Seq(V), ToSet(s) \subseteq W PROVE s \in Seq(W)
  <1>1. DOMAIN s = 1..Len(s) /\ Len(s) \in Nat BY ElementOf
  <1>2. \A k \in 1..Len(s) : s[k] \in W BY <1>1, Zenon DEF ToSet
  <1>3. s \in [1..Len(s) -> W]
    <2>1. s = [k \in 1..Len(s) |-> s[k]] OBVIOUS
    <2> QED BY <1>2, <2>1
  <1> QED BY <1>1, <1>3, IsSequence

\* t is what is left of s.
Rest(t, s) ==
    /\ Len(t) <= Len(s)
    /\ \A k \in 1..Len(t) : t[k] = s[Len(s) - Len(t) + k]

\* The first of what is left, and what is left without it.
LEMMA RestFacts ==
    ASSUME NEW V, NEW s \in Seq(V), NEW t \in Seq(V), Rest(t, s), t # <<>>
    PROVE  /\ Len(s) - Len(t) + 1 \in 1..Len(s)
           /\ Head(t) = s[Len(s) - Len(t) + 1] /\ Head(t) \in V
           /\ Tail(t) \in Seq(V) /\ Len(Tail(t)) = Len(t) - 1 /\ Len(t) \in Nat /\ Len(s) \in Nat
           /\ Rest(Tail(t), s)
  <1>1. Len(s) \in Nat /\ Len(t) \in Nat /\ Len(t) >= 1 OBVIOUS
  <1>2. /\ Len(t) <= Len(s)
        /\ \A k \in 1..Len(t) : t[k] = s[Len(s) - Len(t) + k]
    BY DEF Rest
  <1>3. 1 \in 1..Len(t) BY <1>1
  <1>4. Head(t) = t[1] /\ t[1] \in V BY <1>1
  <1>5. Tail(t) \in Seq(V) /\ Len(Tail(t)) = Len(t) - 1 BY <1>1
  <1>6. ASSUME NEW k \in 1..(Len(t) - 1) PROVE Tail(t)[k] = s[Len(s) - (Len(t) - 1) + k]
    <2>1. Tail(t)[k] = t[k + 1] BY <1>1
    <2>2. k + 1 \in 1..Len(t) /\ Len(s) - Len(t) + (k + 1) = Len(s) - (Len(t) - 1) + k BY <1>1
    <2> QED BY <1>2, <2>1, <2>2
  <1>7. Rest(Tail(t), s) BY <1>1, <1>2, <1>5, <1>6 DEF Rest
  <1> QED BY <1>1, <1>2, <1>3, <1>4, <1>5, <1>7

\* All of a sequence is left of it.
LEMMA RestAll == ASSUME NEW V, NEW s \in Seq(V) PROVE Rest(s, s)
  BY DEF Rest

\* The beginning of one sequence after another.
LEMMA Joined ==
    ASSUME NEW V, NEW s \in Seq(V), NEW t \in Seq(V), NEW n \in 0..Len(t)
    PROVE  LET r == s \o SubSeq(t, 1, n)
           IN  /\ r \in Seq(V) /\ Len(r) = Len(s) + n /\ DOMAIN r = 1..(Len(s) + n)
               /\ Len(s) \in Nat /\ Len(t) \in Nat
               /\ \A k \in 1..Len(s) : r[k] = s[k]
               /\ \A k \in 1..n : r[Len(s) + k] = t[k]
  <1> DEFINE u == SubSeq(t, 1, n)
             r == s \o u
  <1>1. Len(s) \in Nat /\ Len(t) \in Nat OBVIOUS
  <1>2. u \in Seq(V) /\ Len(u) = n /\ \A k \in 1..n : u[k] = t[k] OBVIOUS
  <1> HIDE DEF u
  <1>3. r \in Seq(V) /\ Len(r) = Len(s) + n BY <1>1, <1>2
  <1>4. \A k \in 1..Len(s) : r[k] = s[k] BY <1>1, <1>2
  <1>5. \A k \in 1..n : r[Len(s) + k] = u[k] BY <1>1, <1>2
  <1> HIDE DEF r
  <1>6. DOMAIN r = 1..(Len(s) + n) BY <1>3
  <1> QED BY <1>1, <1>2, <1>3, <1>4, <1>5, <1>6 DEF r, u

-----------------------------------------------------------------------------
(* Patterns. *)

Byte == 0..(Radix - 1)

\* What a typed text is.
LEMMA TextFacts ==
    ASSUME NEW x \in Texts
    PROVE  /\ x.kind \in {"number", "aob", "cstr"}
           /\ x.kind = "number" => x.is \in Numbs
           /\ x.kind = "aob" => x.is \in Patterns
           /\ x.kind = "cstr" => x.is \in Strings
  <1>1. CASE x \in [kind : {"number"}, is : Numbs]
    <2>1. x.kind = "number" /\ x.is \in Numbs BY <1>1
    <2> QED BY <2>1
  <1>2. CASE x \in [kind : {"aob"}, is : Patterns]
    <2>1. x.kind = "aob" /\ x.is \in Patterns BY <1>2
    <2> QED BY <2>1
  <1>3. CASE x \in [kind : {"cstr"}, is : Strings]
    <2>1. x.kind = "cstr" /\ x.is \in Strings BY <1>3
    <2> QED BY <2>1
  <1> QED BY <1>1, <1>2, <1>3 DEF Texts

\* The text the window makes of a number.
LEMMA NumberTextFacts ==
    ASSUME NEW n \in Numbs
    PROVE  /\ n.t \in Numbers /\ n.hex \in BOOLEAN /\ n.v \in Held(n.t)
           /\ raw_to_str_expr(Bytes(n.v % Values(n.t), Size[n.t]), n.hex, n.t) = NumberOf(n.v, FALSE, Base(n.hex))
           /\ NumberText(n) = NumberOf(n.v, n.hex, Base(n.hex))
  <1>1. n.t \in Numbers /\ n.hex \in BOOLEAN /\ n.v \in Held(n.t) BY MemSearchAssumption
  <1>2. Value(Bytes(n.v % Values(n.t), Size[n.t]), n.t) = n.v BY <1>1, ValueOfBytes
  <1>3. raw_to_str_expr(Bytes(n.v % Values(n.t), Size[n.t]), n.hex, n.t) = NumberOf(n.v, FALSE, Base(n.hex))
    BY <1>2, Zenon DEF raw_to_str_expr, NumberOf
  <1>4. [NumberOf(n.v, FALSE, Base(n.hex)) EXCEPT !.prefix = n.hex] = NumberOf(n.v, n.hex, Base(n.hex))
    BY DEF NumberOf
  <1> QED BY <1>1, <1>3, <1>4, Zenon DEF NumberText

\* What a text of a number becomes: no bytes, or as many as its type has.
LEMMA ParsedIsBytes ==
    ASSUME NEW n \in Numbs, NEW hex \in BOOLEAN, hex => n.hex, ~hex /\ n.hex => NumberText(n).prefix
    PROVE  str_expr_to_raw(NumberText(n), hex, n.t) \in Seq(Byte)
  <1> DEFINE text == NumberText(n)
             num == Numeral(text, hex)
             mag == Magnitude(num, Base(hex))
             long == Values("long")
             val == IF hex THEN (IF mag >= long THEN long - 1 ELSE IF text.neg THEN -mag ELSE mag)
                    ELSE Within(IF text.neg THEN -mag ELSE mag, -(long \div 2), long \div 2 - 1)
  <1>1. /\ n.t \in Numbers /\ n.hex \in BOOLEAN /\ n.v \in Held(n.t)
        /\ text = NumberOf(n.v, n.hex, Base(n.hex))
    BY NumberTextFacts
  <1> DEFINE a == IF n.v < 0 THEN -n.v ELSE n.v
  <1>2. n.v \in Int /\ a \in Nat BY <1>1, HeldFacts
  <1>3. text.digits = Digits(a, Base(n.hex)) /\ text.prefix = n.hex BY <1>1 DEF NumberOf
  <1>4. Base(n.hex) \in Nat \ {0, 1} /\ Base(hex) \in Nat BY ConversionsAssumption DEF Base
  <1>5. text.digits \in Seq(0..(Base(n.hex) - 1))
    <2> HIDE DEF a
    <2> QED BY <1>2, <1>3, <1>4, DigitsFacts
  <1> HIDE DEF text
  <1>6. num \in Seq(Nat)
    <2>1. CASE n.hex /\ ~hex
      <3>1. num = <<0>> BY <1>3, <2>1 DEF Numeral
      <3> QED BY <3>1
    <2>2. CASE n.hex = hex
      <3>1. num = text.digits BY <1>3, <1>5, <2>2, NumeralFacts
      <3>2. 0..(Base(n.hex) - 1) \subseteq Nat BY <1>4
      <3>3. ToSet(text.digits) \subseteq Nat BY <1>5, <3>2, ElementOf
      <3> QED BY <1>5, <3>1, <3>3, SequenceWithin
    <2> QED BY <1>1, <2>1, <2>2
  <1> HIDE DEF num
  <1>7. mag \in Nat
    <2>1. Append(num, 0) \in Seq(Nat) /\ 0 \in Nat BY <1>6
    <2> QED BY <1>4, <1>6, <2>1, MagnitudeAppend
  <1>8. long \in Nat /\ Values(Stored(n.t)) \in Nat \ {0} /\ Size[n.t] \in Nat
    <2>1. Values("int") \in Nat /\ Values("int") >= 2 /\ Values(n.t) \in Nat /\ Values(n.t) >= 2
          /\ Values("long") \in Nat /\ Size[n.t] \in Nat
      BY <1>1, SizeFacts
    <2> QED BY <2>1 DEF Stored
  <1> HIDE DEF mag, long
  <1>9. val \in Int
    <2>1. (IF text.neg THEN -mag ELSE mag) \in Int BY <1>7
    <2>2. \A x, lo, hi \in Int : Within(x, lo, hi) \in Int BY DEF Within
    <2>3. long - 1 \in Int /\ -(long \div 2) \in Int /\ long \div 2 - 1 \in Int BY <1>8
    <2>4. Within(IF text.neg THEN -mag ELSE mag, -(long \div 2), long \div 2 - 1) \in Int BY <2>1, <2>2, <2>3
    <2> QED BY <2>1, <2>3, <2>4, Zenon
  <1>10. str_expr_to_raw(text, hex, n.t) = IF num = <<>> THEN <<>> ELSE Bytes(val % Values(Stored(n.t)), Size[n.t])
    BY DEF str_expr_to_raw, num, mag, long
  <1> HIDE DEF val
  <1>11. val % Values(Stored(n.t)) \in Int BY <1>8, <1>9, Division
  <1>12. Bytes(val % Values(Stored(n.t)), Size[n.t]) \in Seq(Byte) BY <1>8, <1>11, BytesFacts DEF Byte
  <1> QED BY <1>10, <1>12 DEF text

\* What a pattern of tokens becomes.
LEMMA EncodeFacts ==
    ASSUME NEW p \in Patterns
    PROVE  /\ encode_aob_pattern(p) \in Seq(Byte \cup {Wild})
           /\ p.spaced => encode_aob_pattern(p) =
                 IF Bad \in ToSet(p.tokens) THEN <<>>
                 ELSE Picked(p.tokens, {i \in DOMAIN p.tokens : p.tokens[i] # Empty})
  <1> DEFINE Token == 0..(Radix - 1) \cup {Wild, Bad, Empty}
             h == Handled(p)
             P == {i \in DOMAIN h : h[i] # Empty}
  <1>1. p.tokens \in Seq(Token) /\ p.spaced \in BOOLEAN BY MemSearchAssumption
  <1>2. h \in Seq(Token) /\ (p.spaced => h = p.tokens)
    <2>1. ASSUME NEW s \in Seq(Token), s # <<>> PROVE Front(s) \in Seq(Token)
      <3>1. Len(s) \in Nat /\ Len(s) >= 1 BY <2>1
      <3>2. Len(s) - 1 \in Nat /\ \A i \in 1..(Len(s) - 1) : i \in 1..Len(s) BY <3>1
      <3>3. SubSeq(s, 1, Len(s) - 1) \in Seq(Token) BY <3>1, <3>2
      <3> QED BY <3>3 DEF Front
    <2>2. CASE p.spaced \/ p.tokens = <<>> BY <1>1, <2>2 DEF Handled
    <2>3. CASE ~(p.spaced \/ p.tokens = <<>>) BY <1>1, <2>1, <2>3 DEF Handled
    <2> QED BY <2>2, <2>3
  <1> HIDE DEF h, Token
  <1>3. DOMAIN h = 1..Len(h) /\ ToSet(h) \subseteq Token BY <1>2, ElementOf
  <1>4. Invalid(p) <=> Bad \in ToSet(h) BY Zenon DEF Invalid, h, ToSet
  <1>5. encode_aob_pattern(p) = IF Bad \in ToSet(h) THEN <<>> ELSE Picked(h, P)
    BY <1>4, Zenon DEF encode_aob_pattern, h
  <1>6. ASSUME Bad \notin ToSet(h) PROVE Picked(h, P) \in Seq(Byte \cup {Wild})
    <2>1. P \in SUBSET (1..Len(h)) BY <1>3
    <2>2. \A i \in P : h[i] \in Byte \cup {Wild}
      <3>1. \A i \in P : h[i] \in Token /\ h[i] # Empty /\ h[i] # Bad BY <1>3, <1>6 DEF ToSet
      <3> QED BY <3>1 DEF Token, Byte
    <2> HIDE DEF P
    <2>3. Picked(h, P) \in Seq(Token) /\ ToSet(Picked(h, P)) = {h[i] : i \in P} BY <1>2, <2>1, PickedFacts
    <2>4. ToSet(Picked(h, P)) \subseteq Byte \cup {Wild} BY <2>2, <2>3
    <2> QED BY <2>3, <2>4, SequenceWithin
  <1>7. <<>> \in Seq(Byte \cup {Wild}) OBVIOUS
  <1>8. encode_aob_pattern(p) \in Seq(Byte \cup {Wild}) BY <1>5, <1>6, <1>7, Zenon
  <1>9. p.spaced => h = p.tokens BY <1>2
  <1> QED BY <1>5, <1>8, <1>9, Zenon

\* A pattern is bytes and wildcards.
LEMMA PatternOfFacts ==
    ASSUME NEW x \in Texts
    PROVE  PatternOf(x) \in Seq(Byte \cup {Wild})
  <1>0. ASSUME NEW s \in Seq(Byte) PROVE s \in Seq(Byte \cup {Wild})
    <2>1. ToSet(s) \subseteq Byte BY ElementOf
    <2>2. ToSet(s) \subseteq Byte \cup {Wild} BY <2>1
    <2> QED BY <2>2, SequenceWithin
  <1>1. CASE x.kind = "number"
    <2> DEFINE text == NumberText(x.is)
    <2>1. x.is \in Numbs BY <1>1, TextFacts
    <2>2. x.is.hex \in BOOLEAN /\ text.prefix = x.is.hex
      <3>1. x.is.hex \in BOOLEAN /\ text = NumberOf(x.is.v, x.is.hex, Base(x.is.hex))
        <4> DEFINE n == x.is
        <4>1. n \in Numbs BY <2>1
        <4> HIDE DEF n
        <4>2. n.hex \in BOOLEAN /\ NumberText(n) = NumberOf(n.v, n.hex, Base(n.hex)) BY <4>1, NumberTextFacts
        <4> QED BY <4>2 DEF n
      <3> QED BY <3>1 DEF NumberOf
    <2>3. search_hex(text) \in BOOLEAN /\ (search_hex(text) => x.is.hex) BY <2>2 DEF search_hex
    <2>4. ~search_hex(text) /\ x.is.hex => text.prefix BY <2>2
    <2>5. str_expr_to_raw(text, search_hex(text), x.is.t) \in Seq(Byte)
      BY <2>1, <2>3, <2>4, ParsedIsBytes
    <2>6. PatternOf(x) = str_expr_to_raw(text, search_hex(text), x.is.t) BY <1>1 DEF PatternOf
    <2> HIDE DEF text
    <2> QED BY <1>0, <2>5, <2>6
  <1>2. CASE x.kind = "aob"
    <2>1. x.is \in Patterns BY <1>2, TextFacts
    <2>2. PatternOf(x) = encode_aob_pattern(x.is) BY <1>2 DEF PatternOf
    <2> QED BY <2>1, <2>2, EncodeFacts
  <1>3. CASE x.kind = "cstr"
    <2>1. x.is \in Strings BY <1>3, TextFacts
    <2>2. PatternOf(x) = x.is BY <1>3 DEF PatternOf
    <2>3. x.is \in Seq(Byte) BY <2>1, MemSearchAssumption DEF Byte
    <2> QED BY <1>0, <2>2, <2>3
  <1> QED BY <1>1, <1>2, <1>3, TextFacts

\* A plain text becomes what it says.
LEMMA PlainFacts ==
    ASSUME NEW x \in Texts, Plain(x)
    PROVE  PatternOf(x) = Meaning(x)
  <1>1. CASE x.kind = "number"
    <2> DEFINE n == x.is
               text == NumberText(n)
    <2>1. n \in Numbs BY <1>1, TextFacts
    <2>2. /\ n.t \in Numbers /\ n.hex \in BOOLEAN /\ n.v \in Held(n.t)
          /\ text = NumberOf(n.v, n.hex, Base(n.hex))
      BY <2>1, NumberTextFacts
    <2>3. Parsed(n) /\ (n.hex => n.v >= 0) BY <1>1 DEF Plain
    <2>4. n.v \in Int BY <2>2, HeldFacts
    <2>5. search_hex(text) <=> n.hex
      <3>1. text.prefix = n.hex /\ text.neg = (n.v < 0) BY <2>2 DEF NumberOf
      <3>2. n.hex => ~(n.v < 0) BY <2>3, <2>4
      <3> QED BY <3>1, <3>2, Zenon DEF search_hex
    <2>6. search_hex(text) = n.hex
      <3>1. search_hex(text) \in BOOLEAN BY DEF search_hex
      <3> QED BY <2>2, <2>5, <3>1
    <2>7. PatternOf(x) = str_expr_to_raw(text, search_hex(text), n.t) BY <1>1 DEF PatternOf
    <2>8. Meaning(x) = Bytes(n.v % Values(n.t), Size[n.t]) BY <1>1 DEF Meaning
    <2> HIDE DEF n, text
    <2>9. str_expr_to_raw(NumberOf(n.v, n.hex, Base(n.hex)), n.hex, n.t) = Bytes(n.v % Values(n.t), Size[n.t])
      BY <2>2, <2>3, ReadBack DEF Parsed
    <2> QED BY <2>2, <2>6, <2>7, <2>8, <2>9
  <1>2. CASE x.kind = "aob"
    <2>1. x.is \in Patterns /\ x.is.spaced BY <1>2, TextFacts DEF Plain
    <2>2. PatternOf(x) = encode_aob_pattern(x.is) BY <1>2 DEF PatternOf
    <2>3. Meaning(x) = IF Bad \in ToSet(x.is.tokens) THEN <<>>
                       ELSE Picked(x.is.tokens, {i \in DOMAIN x.is.tokens : x.is.tokens[i] # Empty})
      BY <1>2 DEF Meaning
    <2> QED BY <2>1, <2>2, <2>3, EncodeFacts
  <1>3. CASE x.kind = "cstr" BY <1>3 DEF PatternOf, Meaning
  <1> QED BY <1>1, <1>2, <1>3, TextFacts

\* A token at the end of a pattern that no space follows is left out.
LEMMA EncodeCut ==
    ASSUME NEW p \in Patterns, ~p.spaced, Bad \notin ToSet(p.tokens), p.tokens # <<>>
    PROVE  encode_aob_pattern(p) # Picked(p.tokens, {i \in DOMAIN p.tokens : p.tokens[i] # Empty})
  <1> DEFINE Token == 0..(Radix - 1) \cup {Wild, Bad, Empty}
             s == p.tokens
             h == Front(s)
             n == Len(s)
             P == {i \in DOMAIN h : h[i] # Empty}
             Q == {i \in DOMAIN s : s[i] # Empty}
  <1>1. s \in Seq(Token) /\ Last(s) # Empty BY MemSearchAssumption
  <1>2. n \in Nat /\ n >= 1 /\ DOMAIN s = 1..n BY <1>1
  <1>3. h \in Seq(Token) /\ Len(h) = n - 1 /\ DOMAIN h = 1..(n - 1) /\ \A i \in 1..(n - 1) : h[i] = s[i]
    <2>1. n - 1 \in Nat /\ \A i \in 1..(n - 1) : i \in 1..n BY <1>2
    <2> HIDE DEF Token, s
    <2>2. SubSeq(s, 1, n - 1) \in Seq(Token) /\ Len(SubSeq(s, 1, n - 1)) = n - 1
          /\ \A i \in 1..(n - 1) : SubSeq(s, 1, n - 1)[i] = s[i]
      BY <1>1, <1>2, <2>1
    <2>3. h = SubSeq(s, 1, n - 1) BY DEF Front
    <2> QED BY <2>2, <2>3
  <1>4. s[n] # Empty BY <1>1 DEF Last
  <1>5. Handled(p) = h BY DEF Handled
  <1>6. Bad \notin ToSet(s) OBVIOUS
  <1> HIDE DEF Token, s, h, n
  <1>7. ~Invalid(p)
    <2>1. \A i \in DOMAIN h : h[i] # Bad
      <3>1. \A i \in 1..(n - 1) : i \in 1..n BY <1>2
      <3> QED BY <1>2, <1>3, <1>6, <3>1 DEF ToSet
    <2> QED BY <1>5, <2>1, Zenon DEF Invalid
  <1>8. encode_aob_pattern(p) = Picked(h, P) BY <1>5, <1>7, Zenon DEF encode_aob_pattern
  <1>9. Q = P \cup {n} /\ n \notin P
    <2>1. \A i : i \in 1..n <=> i \in 1..(n - 1) \/ i = n BY <1>2
    <2>2. n \notin 1..(n - 1) BY <1>2
    <2> QED BY <1>2, <1>3, <1>4, <2>1, <2>2
  <1>10. P \in SUBSET (1..Len(h)) /\ Q \in SUBSET (1..Len(s)) BY <1>2, <1>3 DEF n
  <1> HIDE DEF P, Q
  <1>11. IsFiniteSet(P) /\ Len(Picked(h, P)) = Cardinality(P) BY <1>3, <1>10, PickedFacts
  <1>12. Len(Picked(s, Q)) = Cardinality(Q) BY <1>1, <1>10, PickedFacts
  <1>13. Cardinality(Q) = Cardinality(P) + 1 /\ Cardinality(P) \in Nat
    BY <1>9, <1>11, FS_AddElement, FS_CardinalityType
  <1>14. Picked(h, P) # Picked(s, Q) BY <1>11, <1>12, <1>13
  <1> QED BY <1>8, <1>14 DEF s, Q

\* A text that is not plain does not become what it says.
LEMMA OtherFacts ==
    ASSUME NEW x \in Texts, ~Plain(x)
    PROVE  Meaning(x) = <<>> \/ PatternOf(x) # Meaning(x)
  <1>1. CASE x.kind = "number"
    <2> DEFINE n == x.is
               text == NumberText(n)
    <2>1. n \in Numbs BY <1>1, TextFacts
    <2>3. ~Parsed(n) \/ (n.hex /\ ~(n.v >= 0)) BY <1>1 DEF Plain
    <2>7. PatternOf(x) = str_expr_to_raw(text, search_hex(text), n.t) BY <1>1 DEF PatternOf
    <2>8. Meaning(x) = Bytes(n.v % Values(n.t), Size[n.t]) BY <1>1 DEF Meaning
    <2> HIDE DEF n
    <2>2. /\ n.t \in Numbers /\ n.hex \in BOOLEAN /\ n.v \in Held(n.t)
          /\ text = NumberOf(n.v, n.hex, Base(n.hex))
      BY <2>1, NumberTextFacts
    <2>4. n.v \in Int BY <2>2, HeldFacts
    <2>5. text.prefix = n.hex /\ text.neg = (n.v < 0) BY <2>2 DEF NumberOf
    <2> HIDE DEF text
    <2>6. CASE n.hex /\ n.v < 0
      <3>1. search_hex(text) = FALSE /\ n.hex = TRUE /\ Base(n.hex) = HexBase
        BY <2>2, <2>5, <2>6 DEF search_hex, Base
      <3>2. str_expr_to_raw(NumberOf(n.v, TRUE, HexBase), FALSE, n.t) # Bytes(n.v % Values(n.t), Size[n.t])
        BY <2>2, <2>6, ReadZero
      <3> QED BY <2>2, <2>7, <2>8, <3>1, <3>2, Zenon
    <2>9. CASE ~(n.hex /\ n.v < 0)
      <3>1. search_hex(text) = n.hex
        <4>1. search_hex(text) <=> n.hex BY <2>5, <2>9, Zenon DEF search_hex
        <4>2. search_hex(text) \in BOOLEAN BY DEF search_hex
        <4> QED BY <2>2, <4>1, <4>2
      <3>2. \/ n.t = "s64" /\ n.v \notin 0..(Values("int") - 1)
            \/ n.t = "u64" /\ ~n.hex /\ ~(n.v < Values("long") \div 2)
        <4>1. ~Parsed(n) BY <2>3, <2>4, <2>9
        <4> QED BY <4>1 DEF Parsed
      <3>3. str_expr_to_raw(NumberOf(n.v, n.hex, Base(n.hex)), n.hex, n.t) # Bytes(n.v % Values(n.t), Size[n.t])
        BY <2>2, <3>2, ReadOther
      <3> QED BY <2>2, <2>7, <2>8, <3>1, <3>3
    <2> QED BY <2>6, <2>9
  <1>2. CASE x.kind = "aob"
    <2> DEFINE p == x.is
    <2>1. p \in Patterns /\ ~p.spaced BY <1>2, TextFacts DEF Plain
    <2>2. PatternOf(x) = encode_aob_pattern(p) BY <1>2 DEF PatternOf
    <2>3. Meaning(x) = IF Bad \in ToSet(p.tokens) THEN <<>>
                       ELSE Picked(p.tokens, {i \in DOMAIN p.tokens : p.tokens[i] # Empty})
      BY <1>2 DEF Meaning
    <2> HIDE DEF p
    <2>4. CASE Bad \in ToSet(p.tokens) BY <2>3, <2>4
    <2>5. CASE p.tokens = <<>>
      <3>1. <<>> \in Seq({}) /\ {} \in SUBSET (1..Len(<<>>)) OBVIOUS
      <3>2. Picked(<<>>, {}) = <<>> BY <3>1, PickedFacts
      <3>3. {i \in DOMAIN <<>> : <<>>[i] # Empty} = {} OBVIOUS
      <3> QED BY <2>3, <2>5, <3>2, <3>3
    <2>6. CASE Bad \notin ToSet(p.tokens) /\ p.tokens # <<>> BY <2>1, <2>2, <2>3, <2>6, EncodeCut
    <2> QED BY <2>4, <2>5, <2>6
  <1>3. CASE x.kind = "cstr" BY <1>3 DEF Plain
  <1> QED BY <1>1, <1>2, <1>3, TextFacts

\* What is shown of a number is read back as it if the number is stored whole, and as
\* another if it is not.
LEMMA ShownFacts ==
    ASSUME NEW x \in Texts, x.kind = "number"
    PROVE  /\ CellReadBack(x) = Meaning(x) <=> Parsed(x.is)
           /\ ~x.is.hex => (RowReadBack(x) = Meaning(x) <=> Parsed(x.is))
  <1> DEFINE n == x.is
             text == NumberOf(n.v, FALSE, Base(n.hex))
  <1>1. n \in Numbs BY TextFacts
  <1>2. Meaning(x) = Bytes(n.v % Values(n.t), Size[n.t]) BY DEF Meaning
  <1>c. CellReadBack(x) = str_expr_to_raw(raw_to_str_expr(Meaning(x), n.hex, n.t), n.hex, n.t) BY DEF CellReadBack
  <1>d. RowReadBack(x) = RowParse(RowText(Meaning(x), FALSE, n.t), n.t) BY DEF RowReadBack
  <1> HIDE DEF n
  <1>3. /\ n.t \in Numbers /\ n.hex \in BOOLEAN /\ n.v \in Held(n.t)
        /\ raw_to_str_expr(Meaning(x), n.hex, n.t) = text
    BY <1>1, <1>2, NumberTextFacts
  <1>4. str_expr_to_raw(text, n.hex, n.t) = Meaning(x) <=> Parsed(n)
    <2>1. FALSE \in BOOLEAN OBVIOUS
    <2>2. ASSUME Parsed(n) PROVE str_expr_to_raw(text, n.hex, n.t) = Meaning(x)
      BY <1>2, <1>3, <2>1, <2>2, ReadBack DEF Parsed
    <2>3. ASSUME ~Parsed(n) PROVE str_expr_to_raw(text, n.hex, n.t) # Meaning(x)
      <3>1. \/ n.t = "s64" /\ n.v \notin 0..(Values("int") - 1)
            \/ n.t = "u64" /\ ~n.hex /\ ~(n.v < Values("long") \div 2)
        BY <2>3 DEF Parsed
      <3> QED BY <1>2, <1>3, <2>1, <3>1, ReadOther
    <2> QED BY <2>2, <2>3
  <1>5. ASSUME ~n.hex PROVE RowReadBack(x) = str_expr_to_raw(text, n.hex, n.t)
    <2>1. n.hex = FALSE BY <1>3, <1>5
    <2>2. RowText(Meaning(x), FALSE, n.t) = text BY <1>3, <2>1 DEF RowText
    <2>3. text.prefix = FALSE BY DEF NumberOf
    <2> HIDE DEF text
    <2> QED BY <1>d, <2>1, <2>2, <2>3 DEF RowParse
  <1> QED BY <1>3, <1>4, <1>5, <1>c DEF n

-----------------------------------------------------------------------------
(* The inductive invariant.  TypeInv says what the variables hold, and that the        *)
(* pattern is the one of the text; Stages what each stage of a search begins with;      *)
(* FoundInv and KeptInv what the two loops have done so far.                            *)

Region == [start : 0..(Space - 1), size : 0..(Space - 1)]

TypeInv ==
    /\ ram \in Memories /\ ok \in BOOLEAN /\ stay_running \in BOOLEAN
    /\ typed \in Texts \cup {<<>>}
    /\ pattern \in Seq(Byte \cup {Wild})
    /\ pc \in {"typing", "typed", "regions", "addresses", "done", "fault"}
    /\ results \in Seq(DOMAIN ram) /\ before \in Seq(DOMAIN ram)
    /\ pc # "typing" => typed \in Texts /\ pattern = PatternOf(typed)

Stages ==
    /\ pc \in {"typing", "typed"} => before = <<>> /\ results = <<>> /\ stay_running
    /\ pc \in {"regions", "fault"} => before = <<>>
    /\ pc \in {"regions", "addresses"} => pattern # <<>>
    /\ pc \in {"regions", "addresses", "done", "fault"} => regions \in Layouts /\ range \in Ranges
    /\ pc = "regions" => todo \in Seq(Region) /\ Rest(todo, regions)
    /\ pc = "addresses" => before # <<>> /\ todo \in Seq(DOMAIN ram) /\ Rest(todo, before)

\* The pattern is in the memory at a, whether or not its bytes can be read.
In(mem, pat, a) == \A k \in DOMAIN pat : a + k - 1 \in DOMAIN mem /\ pat[k] \in {Wild, mem[a + k - 1]}
\* How much of a memory can be read from an address.
ReadableIn(mem, addr, n) ==
    Max({k \in 0..n : \A a \in addr..(addr + k - 1) : a \in DOMAIN mem /\ mem[a] # Hole})
\* Where the pattern is in a region of the range.
OccursIn(mem, pat, align, rng, g) ==
    {a \in DOMAIN mem :
        /\ pat # <<>> /\ a % align = 0 /\ In(mem, pat, a)
        /\ rng[1] <= g.start /\ g.start + g.size <= rng[2]
        /\ g.start <= a /\ a + Len(pat) <= g.start + ReadableIn(mem, g.start, g.size)}
places == [j \in 1..Len(regions) |-> OccursIn(ram, pattern, Alignment(typed), range, regions[j])]

\* The results are places in the first n regions, in order; and all of them.
Sound(where, found, n) ==
    /\ \A k \in 1..Len(found) : \E j \in 1..n : found[k] \in where[j]
    /\ \A i, k \in 1..Len(found) : i < k => found[i] < found[k]
Complete(where, found, n) == \A j \in 1..n : where[j] \subseteq ToSet(found)

FoundInv ==
    /\ pc = "regions" =>
          /\ Sound(places, results, Len(regions) - Len(todo))
          /\ ok /\ stay_running => Complete(places, results, Len(regions) - Len(todo))
    /\ pc = "done" /\ before = <<>> =>
          /\ Sound(places, results, Len(regions))
          /\ ok /\ stay_running => Complete(places, results, Len(regions))

\* The pattern is in the memory at a and all of it can be read; the places among the
\* first n of the addresses searched where it is.
MatchesAt(mem, pat, a) ==
    \A k \in DOMAIN pat : /\ a + k - 1 \in DOMAIN mem /\ mem[a + k - 1] # Hole
                          /\ pat[k] \in {Wild, mem[a + k - 1]}
Kept(mem, pat, from, n) == {i \in 1..n : MatchesAt(mem, pat, from[i])}

KeptInv ==
    /\ pc = "addresses" =>
          /\ ToSet(results) \subseteq {before[i] : i \in Kept(ram, pattern, before, Len(before) - Len(todo))}
          /\ ok => results = Picked(before, Kept(ram, pattern, before, Len(before) - Len(todo)))
    /\ pc = "done" /\ before # <<>> =>
          /\ ToSet(results) \subseteq {before[i] : i \in Kept(ram, pattern, before, Len(before))}
          /\ ok /\ stay_running /\ pattern # <<>> =>
                results = Picked(before, Kept(ram, pattern, before, Len(before)))

IInv == TypeInv /\ Stages /\ FoundInv /\ KeptInv /\ OverreadOnlyShort

-----------------------------------------------------------------------------
(* Reading and scanning. *)

\* The regions lie in the address space, one after the other.
LEMMA LayoutFacts ==
    ASSUME NEW l \in Layouts
    PROVE  /\ l \in Seq(Region) /\ Len(l) \in Nat /\ DOMAIN l = 1..Len(l) /\ Space \in Nat \ {0}
           /\ \A i \in 1..Len(l) : /\ l[i] \in Region /\ l[i].start \in Nat /\ l[i].size \in Nat
                                   /\ l[i].start + l[i].size < Space
           /\ \A i, j \in 1..Len(l) : i < j => l[i].start + l[i].size <= l[j].start
  <1>0. Space \in Nat \ {0} BY MemSearchAssumption
  <1>1. /\ l \in Seq(Region)
        /\ \A i \in DOMAIN l : l[i].start + l[i].size < Space
        /\ \A i, j \in DOMAIN l : i < j => l[i].start + l[i].size <= l[j].start
    BY MemSearchAssumption, Zenon DEF Region
  <1>2. Len(l) \in Nat /\ DOMAIN l = 1..Len(l) /\ \A i \in 1..Len(l) : l[i] \in Region BY <1>1, ElementOf
  <1>3. \A g \in Region : g.start \in Nat /\ g.size \in Nat BY <1>0 DEF Region
  <1> QED BY <1>0, <1>1, <1>2, <1>3

\* The contents of a memory.
LEMMA MemoryFacts ==
    ASSUME NEW m \in Memories
    PROVE  /\ m \in [DOMAIN m -> Byte \cup {Hole}]
           /\ \A a \in DOMAIN m : a \in Nat
           /\ \A n \in Memories : DOMAIN n = DOMAIN m
  BY MemSearchAssumption DEF Byte

\* What can be read from an address is what lies before the first hole.
LEMMA ReadableFacts ==
    ASSUME NEW mem, NEW addr \in Nat, NEW n \in Nat
    PROVE  /\ ReadableIn(mem, addr, n) \in 0..n
           /\ \A a \in Nat : a >= addr /\ a < addr + ReadableIn(mem, addr, n) => a \in DOMAIN mem /\ mem[a] # Hole
           /\ (\A a \in Nat : a >= addr /\ a < addr + n => a \in DOMAIN mem /\ mem[a] # Hole)
                 => ReadableIn(mem, addr, n) = n
  <1> DEFINE S == {k \in 0..n : \A a \in addr..(addr + k - 1) : a \in DOMAIN mem /\ mem[a] # Hole}
  <1>1. S \in SUBSET (0..n) /\ 0 \in S OBVIOUS
  <1>2. Max(S) \in S /\ \A x \in S : Max(S) >= x
    <2> HIDE DEF S
    <2> QED BY <1>1, MaxFacts
  <1>3. ReadableIn(mem, addr, n) = Max(S) BY DEF ReadableIn
  <1> DEFINE r == Max(S)
  <1>4. r \in 0..n /\ \A a \in addr..(addr + r - 1) : a \in DOMAIN mem /\ mem[a] # Hole BY <1>2
  <1>5. ASSUME \A a \in Nat : a >= addr /\ a < addr + n => a \in DOMAIN mem /\ mem[a] # Hole PROVE r = n
    <2>1. n \in S BY <1>5
    <2> HIDE DEF S
    <2>2. r >= n BY <1>2, <2>1
    <2> QED BY <1>4, <2>2
  <1> HIDE DEF S
  <1> HIDE DEF r
  <1> QED BY <1>3, <1>4, <1>5 DEF r

\* What a read returns.
LEMMA ReadFacts ==
    ASSUME ok \in BOOLEAN, NEW addr \in Nat, NEW n \in Nat
    PROVE  /\ Len(read(addr, n)) = IF ok THEN ReadableIn(ram, addr, n) ELSE 0
           /\ ReadableIn(ram, addr, n) \in 0..n
           /\ Readable(addr, n) = ReadableIn(ram, addr, n)
           /\ \A k \in 1..Len(read(addr, n)) : read(addr, n)[k] = ram[addr + k - 1]
  <1>1. Readable(addr, n) = ReadableIn(ram, addr, n) BY Zenon DEF Readable, ReadableIn
  <1>2. ReadableIn(ram, addr, n) \in 0..n BY ReadableFacts
  <1> DEFINE r == ReadableIn(ram, addr, n)
             f == [k \in 1..r |-> ram[addr + k - 1]]
  <1>3. read(addr, n) = IF ok THEN f ELSE <<>> BY <1>1 DEF read
  <1> HIDE DEF r
  <1>4. r \in Nat BY <1>2 DEF r
  <1>5. Len(f) = r /\ \A k \in 1..r : f[k] = ram[addr + k - 1] BY <1>4
  <1> HIDE DEF f
  <1>6. Len(<<>>) = 0 OBVIOUS
  <1>7. CASE ok BY <1>1, <1>2, <1>3, <1>5, <1>7 DEF r
  <1>8. CASE ~ok
    <2>1. Len(read(addr, n)) = 0 BY <1>3, <1>6, <1>8
    <2> QED BY <1>1, <1>2, <1>8, <2>1
  <1> QED BY <1>7, <1>8

\* Addresses are aligned to a positive number.
LEMMA AlignmentFacts == ASSUME NEW x \in Texts PROVE Alignment(x) \in Nat \ {0}
  <1>1. ASSUME x.kind = "number" PROVE Size[x.is.t] \in Nat \ {0}
    <2> DEFINE n == x.is
    <2>1. n \in Numbs BY <1>1, TextFacts
    <2> HIDE DEF n
    <2>2. n.t \in Numbers BY <2>1, NumberTextFacts
    <2> QED BY <2>2, SizeFacts DEF n
  <1> QED BY <1>1 DEF Alignment

\* The positions the scan visits in a region are those of the aligned addresses.
LEMMA OffsetFacts ==
    ASSUME NEW start \in Nat, NEW align \in Nat \ {0}
    PROVE  /\ Offset(start, align) \in Nat
           /\ \A i \in Nat : (start + i) % align = 0 <=>
                 i >= Offset(start, align) /\ (i - Offset(start, align)) % align = 0
  <1> DEFINE q == start \div align
             r == start % align
             f == Offset(start, align)
  <1>1. q \in Int /\ r \in 0..(align - 1) /\ start = align * q + r BY Division
  <1>2. f = IF r = 0 THEN 0 ELSE align - r BY DEF Offset
  <1> HIDE DEF q, r, f
  <1>3. f \in Nat BY <1>1, <1>2
  <1>4. PICK p \in Int : start + f = align * p /\ start > align * p - align
    <2>1. CASE r = 0
      <3>1. start + f = align * q /\ start > align * q - align BY <1>1, <1>2, <2>1
      <3> QED BY <1>1, <3>1
    <2>2. CASE r # 0
      <3>1. align * (q + 1) = align * q + align BY <1>1
      <3>2. align * q \in Int BY <1>1
      <3>3. start + f = align * (q + 1) /\ start > align * (q + 1) - align
        BY <1>1, <1>2, <2>2, <3>1, <3>2
      <3>4. q + 1 \in Int BY <1>1
      <3> QED BY <3>3, <3>4, Zenon
    <2> QED BY <2>1, <2>2
  <1>5. ASSUME NEW i \in Nat, i >= f, (i - f) % align = 0 PROVE (start + i) % align = 0
    <2> DEFINE m == (i - f) \div align
    <2>1. m \in Int /\ i - f = align * m
      <3>1. i - f \in Int /\ (i - f) \div align \in Int /\ i - f = align * ((i - f) \div align) + ((i - f) % align)
        BY <1>3, Division
      <3>2. align * ((i - f) \div align) \in Int BY <3>1
      <3> QED BY <1>5, <3>1, <3>2
    <2> HIDE DEF m
    <2>2. align * (p + m) = align * p + align * m BY <1>4, <2>1
    <2>3. start + i = align * (p + m) + 0
      <3>1. align * p \in Int /\ align * m \in Int BY <1>4, <2>1
      <3> QED BY <1>3, <1>4, <2>1, <2>2, <3>1
    <2>4. p + m \in Int /\ 0 \in 0..(align - 1) BY <1>4, <2>1
    <2>5. (align * (p + m) + 0) % align = 0 BY <2>4, Remainder
    <2> QED BY <2>3, <2>5
  <1>6. ASSUME NEW i \in Nat, (start + i) % align = 0 PROVE i >= f /\ (i - f) % align = 0
    <2> DEFINE m == (start + i) \div align
    <2>1. m \in Int /\ start + i = align * m
      <3>1. start + i \in Int /\ (start + i) \div align \in Int
            /\ start + i = align * ((start + i) \div align) + ((start + i) % align)
        BY Division
      <3>2. align * ((start + i) \div align) \in Int BY <3>1
      <3> QED BY <1>6, <3>1, <3>2
    <2> HIDE DEF m
    <2>2. align * (m - p) = align * m - align * p BY <1>4, <2>1
    <2>3. align * p \in Int /\ align * m \in Int /\ align * (m - p) \in Int BY <1>4, <2>1
    <2>4. i - f = align * (m - p) + 0 BY <1>3, <1>4, <2>1, <2>2, <2>3
    <2>5. m - p \in Int /\ 0 \in 0..(align - 1) BY <1>4, <2>1
    <2>6. (i - f) % align = 0
      <3>1. (align * (m - p) + 0) % align = 0 BY <2>5, Remainder
      <3> QED BY <2>4, <3>1
    <2>7. i >= f
      <3>1. align * (m - p) > -align BY <1>3, <1>4, <2>1, <2>2, <2>3
      <3> DEFINE d == m - p
      <3>2. d \in Int /\ align * d > -align BY <2>5, <3>1
      <3>3. align * d = i - f BY <2>3, <2>4
      <3> HIDE DEF d
      <3>4. ASSUME d <= -1 PROVE FALSE
        <4>1. align * d <= -align BY <3>2, <3>4
        <4>2. align * d \in Int BY <3>2
        <4> QED BY <3>2, <4>1, <4>2
      <3>5. d >= 0 BY <3>2, <3>4
      <3>6. align * d >= 0 BY <3>2, <3>5
      <3> QED BY <1>3, <3>3, <3>6
    <2> QED BY <2>6, <2>7
  <1> QED BY <1>3, <1>5, <1>6 DEF f

\* What a scan of a region does, in terms of what was read of it.
Data(g) == read(g.start, g.size)
FirstOf(g) == Offset(g.start, Alignment(typed))
LastOf(g) == Limit(Len(Data(g)), Len(pattern))
Hits(g) ==
    {i \in FirstOf(g)..LastOf(g) : (i - FirstOf(g)) % Alignment(typed) = 0 /\ is_match(pattern, Data(g), i)}
Where(g) == {g.start + i : i \in Hits(g)}
Faults(g) == LastOf(g) + Len(pattern) > Len(Data(g)) /\ FirstOf(g) <= LastOf(g)

\* It leaves the data only if they are shorter than the pattern; otherwise it finds
\* only places of the pattern, and all of them if the region could be read.
LEMMA ScanFacts ==
    ASSUME TypeInv, typed \in Texts, pattern # <<>>, NEW g \in Region, g.start + g.size < Space, InRange(g),
           range \in Ranges
    PROVE  LET occ == OccursIn(ram, pattern, Alignment(typed), range, g)
           IN  /\ Faults(g) => ~ok \/ Readable(g.start, g.size) < Len(pattern)
               /\ ~Faults(g) => Where(g) \subseteq occ
               /\ ~Faults(g) /\ ok => occ \subseteq Where(g)
               /\ IsFiniteSet(Where(g)) /\ Where(g) \in SUBSET Nat
               /\ \A a \in occ : a \in Nat /\ g.start <= a /\ a < g.start + g.size
  <1> DEFINE al == Alignment(typed)
             s == g.start
             sz == g.size
             data == Data(g)
             n == Len(data)
             p == Len(pattern)
             f == FirstOf(g)
             l == LastOf(g)
             r == ReadableIn(ram, s, sz)
             occ == OccursIn(ram, pattern, al, range, g)
  <1>1. s \in Nat /\ sz \in Nat /\ s + sz < Space /\ Space \in Nat \ {0}
    <2>1. Space \in Nat \ {0} BY MemSearchAssumption
    <2> QED BY <2>1 DEF Region
  <1>2. al \in Nat \ {0} BY AlignmentFacts
  <1>3. ok \in BOOLEAN /\ ram \in Memories /\ pattern \in Seq(Byte \cup {Wild}) BY DEF TypeInv
  <1>4. p \in Nat /\ p >= 1 /\ DOMAIN pattern = 1..p BY <1>3
  <1>5. /\ n = IF ok THEN r ELSE 0
        /\ r \in 0..sz /\ Readable(s, sz) = r
        /\ \A k \in 1..n : data[k] = ram[s + k - 1]
    BY <1>1, <1>3, ReadFacts DEF Data
  <1>6. \A a \in Nat : a >= s /\ a < s + r => a \in DOMAIN ram BY <1>1, ReadableFacts
  <1>7. n \in Nat /\ n < Space /\ n <= r BY <1>1, <1>5
  <1>8. l \in Nat /\ (p <= n => l = n - p)
    <2>1. l = (n - p) % Space BY DEF LastOf, Limit
    <2>2. n - p \in Int /\ (p <= n => n - p \in 0..(Space - 1)) BY <1>1, <1>4, <1>7
    <2> HIDE DEF l, n, p
    <2>3. (n - p) % Space \in 0..(Space - 1) BY <1>1, <2>2, Division
    <2>4. p <= n => (n - p) % Space = n - p BY <1>1, <2>2, SmallRemainder
    <2> QED BY <1>1, <2>1, <2>3, <2>4
  <1>9. /\ f \in Nat
        /\ \A i \in Nat : (s + i) % al = 0 <=> i >= f /\ (i - f) % al = 0
    BY <1>1, <1>2, OffsetFacts DEF FirstOf
  <1>h. /\ \A i \in Hits(g) : i \in f..l /\ (i - f) % al = 0 /\ is_match(pattern, data, i)
        /\ \A i \in f..l : (i - f) % al = 0 /\ is_match(pattern, data, i) => i \in Hits(g)
    BY DEF Hits
  <1>m. \A i \in Nat : is_match(pattern, data, i) <=> \A k \in 1..p : pattern[k] \in {Wild, data[i + k]}
    BY <1>4 DEF is_match
  <1>w. Where(g) = {s + i : i \in Hits(g)} BY DEF Where
  <1>t. Faults(g) <=> l + p > n /\ f <= l BY DEF Faults
  <1>o. \A a : a \in occ <=> /\ a \in DOMAIN ram /\ pattern # <<>> /\ a % al = 0 /\ In(ram, pattern, a)
                             /\ range[1] <= g.start /\ g.start + g.size <= range[2]
                             /\ s <= a /\ a + p <= s + r
    BY DEF OccursIn
  <1>i. \A a : In(ram, pattern, a) <=> \A k \in 1..p : a + k - 1 \in DOMAIN ram /\ pattern[k] \in {Wild, ram[a + k - 1]}
    BY <1>4 DEF In
  <1>g. range[1] <= s /\ s + sz <= range[2]
    <2>1. range[1] \in Nat /\ range[2] \in Nat BY MemSearchAssumption
    <2>2. (s + sz) % Space = s + sz
      <3> DEFINE x == s + sz
      <3>1. x \in Int /\ x \in 0..(Space - 1) BY <1>1
      <3> HIDE DEF x
      <3>2. x % Space = x BY <1>1, <3>1, SmallRemainder
      <3> QED BY <3>2 DEF x
    <2>3. s >= range[1] /\ (s + sz) % Space <= range[2] BY DEF InRange
    <2> QED BY <1>1, <2>1, <2>2, <2>3
  <1>d. \A a \in DOMAIN ram : a \in Nat BY <1>3, MemoryFacts
  <1> HIDE DEF al, s, sz, data, n, p, f, l, r, occ
  <1>10. ASSUME Faults(g) PROVE ~ok \/ r < p
    <2>1. SUFFICES ASSUME ok, r >= p PROVE FALSE BY <1>1, <1>4, <1>5
    <2>2. n = r /\ p <= n BY <1>5, <2>1
    <2>3. l + p = n BY <1>4, <1>7, <1>8, <2>2
    <2> QED BY <1>10, <1>t, <1>7, <2>3
  <1>11. ASSUME ~Faults(g), NEW i \in Hits(g) PROVE s + i \in occ
    <2>1. i \in f..l /\ (i - f) % al = 0 /\ is_match(pattern, data, i) BY <1>h
    <2>2. i \in Nat /\ f <= i /\ i <= l BY <1>8, <1>9, <2>1
    <2>3. l + p <= n BY <1>4, <1>7, <1>8, <1>9, <1>11, <1>t, <2>2
    <2>4. i + p <= n BY <1>4, <1>7, <1>8, <2>2, <2>3
    <2>5. (s + i) % al = 0 BY <1>9, <2>1, <2>2
    <2>6. ASSUME NEW k \in 1..p PROVE (s + i) + k - 1 \in DOMAIN ram /\ pattern[k] \in {Wild, ram[(s + i) + k - 1]}
      <3>1. i + k \in 1..n BY <1>4, <1>7, <2>2, <2>4
      <3>2. data[i + k] = ram[s + (i + k) - 1] BY <1>5, <3>1
      <3>3. s + (i + k) - 1 = (s + i) + k - 1 BY <1>1, <1>4, <2>2
      <3>4. (s + i) + k - 1 \in Nat /\ (s + i) + k - 1 >= s /\ (s + i) + k - 1 < s + r
        BY <1>1, <1>4, <1>5, <1>7, <2>2, <3>1
      <3>5. pattern[k] \in {Wild, data[i + k]} BY <1>m, <2>1, <2>2
      <3> QED BY <1>6, <3>2, <3>3, <3>4, <3>5
    <2>7. In(ram, pattern, s + i) BY <1>i, <2>6
    <2>8. s + i \in DOMAIN ram
      <3>1. 1 \in 1..p /\ (s + i) + 1 - 1 = s + i BY <1>1, <1>4, <2>2
      <3> QED BY <2>6, <3>1
    <2>9. s <= s + i /\ (s + i) + p <= s + r BY <1>1, <1>4, <1>5, <1>7, <2>2, <2>4
    <2> QED BY <1>g, <1>o, <2>5, <2>7, <2>8, <2>9 DEF s, sz
  <1>12. ASSUME ~Faults(g), ok, NEW a \in occ PROVE a \in Where(g)
    <2> DEFINE i == a - s
    <2>1. /\ a \in DOMAIN ram /\ a % al = 0 /\ In(ram, pattern, a)
          /\ s <= a /\ a + p <= s + r
      BY <1>o
    <2>2. a \in Nat BY <1>d, <2>1
    <2>3. i \in Nat /\ s + i = a /\ i + p <= n BY <1>1, <1>4, <1>5, <1>12, <2>1, <2>2
    <2> HIDE DEF i
    <2>4. i >= f /\ (i - f) % al = 0 BY <1>9, <2>1, <2>3
    <2>5. l = n - p BY <1>4, <1>7, <1>8, <2>3
    <2>6. i \in f..l BY <1>4, <1>7, <1>8, <1>9, <2>3, <2>4, <2>5
    <2>7. ASSUME NEW k \in 1..p PROVE pattern[k] \in {Wild, data[i + k]}
      <3>1. i + k \in 1..n BY <1>4, <1>7, <2>3
      <3>2. data[i + k] = ram[s + (i + k) - 1] BY <1>5, <3>1
      <3>3. s + (i + k) - 1 = a + k - 1 BY <1>1, <1>4, <2>3
      <3>4. pattern[k] \in {Wild, ram[a + k - 1]} BY <1>i, <2>1
      <3> QED BY <3>2, <3>3, <3>4
    <2>8. i \in Hits(g) BY <1>h, <1>m, <2>3, <2>4, <2>6, <2>7
    <2> QED BY <1>w, <2>3, <2>8
  <1>13. IsFiniteSet(Where(g)) /\ Where(g) \in SUBSET Nat
    <2>1. \A i \in Hits(g) : i \in f..l /\ s + i \in s..(s + l) BY <1>1, <1>8, <1>9, <1>h
    <2>2. Where(g) \in SUBSET (s..(s + l)) BY <1>w, <2>1
    <2>3. s \in Int /\ s + l \in Int BY <1>1, <1>8
    <2>4. IsFiniteSet(s..(s + l)) BY <2>3, FS_Interval
    <2>5. IsFiniteSet(Where(g)) BY <2>2, <2>4, FS_Subset
    <2>6. s..(s + l) \subseteq Nat BY <1>1, <1>8
    <2> QED BY <2>2, <2>5, <2>6
  <1>14. ASSUME NEW a \in occ PROVE a \in Nat /\ s <= a /\ a < s + sz
    <2>1. a \in DOMAIN ram /\ s <= a /\ a + p <= s + r BY <1>o
    <2>2. a \in Nat BY <1>d, <2>1
    <2> QED BY <1>1, <1>4, <1>5, <2>1, <2>2
  <1>15. ~Faults(g) => Where(g) \subseteq occ BY <1>11, <1>w
  <1>16. ~Faults(g) /\ ok => occ \subseteq Where(g) BY <1>12
  <1>17. Faults(g) => ~ok \/ Readable(s, sz) < p BY <1>5, <1>10
  <1> QED BY <1>13, <1>14, <1>15, <1>16, <1>17 DEF s, sz, p, al, occ

-----------------------------------------------------------------------------
(* Every step keeps the invariant. *)

\* Init establishes it.
LEMMA InitIInv == Init => IInv
  <1> SUFFICES ASSUME Init PROVE IInv OBVIOUS
  <1>1. /\ ram \in Memories /\ ok = TRUE /\ stay_running = TRUE /\ typed = <<>> /\ pattern = <<>>
        /\ pc = "typing" /\ before = <<>> /\ results = <<>>
    BY DEF Init
  <1>2. \A V : <<>> \in Seq(V) OBVIOUS
  <1>3. TypeInv BY <1>1, <1>2 DEF TypeInv
  <1>4. Stages BY <1>1 DEF Stages
  <1>5. FoundInv /\ KeptInv /\ OverreadOnlyShort BY <1>1 DEF FoundInv, KeptInv, OverreadOnlyShort
  <1> QED BY <1>3, <1>4, <1>5 DEF IInv

\* What is left of a loop over the regions, in terms of the regions.
LEMMA NextRegion ==
    ASSUME Stages, pc = "regions", todo # <<>>
    PROVE  LET j == Len(regions) - Len(todo) + 1
               g == Head(todo)
           IN  /\ regions \in Layouts /\ range \in Ranges /\ pattern # <<>> /\ before = <<>>
               /\ j \in 1..Len(regions) /\ g = regions[j] /\ g \in Region /\ g.start + g.size < Space
               /\ Tail(todo) \in Seq(Region) /\ Rest(Tail(todo), regions)
               /\ Len(todo) \in Nat /\ Len(regions) \in Nat
               /\ Len(regions) - Len(Tail(todo)) = j
  <1>1. regions \in Layouts /\ range \in Ranges /\ pattern # <<>> /\ before = <<>>
        /\ todo \in Seq(Region) /\ Rest(todo, regions)
    BY DEF Stages
  <1>2. regions \in Seq(Region) /\ \A i \in 1..Len(regions) : regions[i].start + regions[i].size < Space
    BY <1>1, LayoutFacts
  <1>3. /\ Len(regions) - Len(todo) + 1 \in 1..Len(regions)
        /\ Head(todo) = regions[Len(regions) - Len(todo) + 1] /\ Head(todo) \in Region
        /\ Tail(todo) \in Seq(Region) /\ Len(Tail(todo)) = Len(todo) - 1 /\ Len(todo) \in Nat /\ Len(regions) \in Nat
        /\ Rest(Tail(todo), regions)
    BY <1>1, <1>2, RestFacts
  <1>4. Len(regions) - Len(Tail(todo)) = Len(regions) - Len(todo) + 1 BY <1>3
  <1> QED BY <1>1, <1>2, <1>3, <1>4

\* The two outcomes of a scan.
LEMMA ScanOutcome ==
    ASSUME ScanRegion
    PROVE  LET g == Head(todo)
               found == Ascending(Where(g))
           IN  /\ pc = "regions" /\ todo # <<>> /\ stay_running /\ Scanned(g) /\ todo' = Tail(todo)
               /\ UNCHANGED <<ram, regions, range, ok, typed, pattern, before>>
               /\ \/ Faults(g) /\ pc' = "fault" /\ UNCHANGED <<results, stay_running>>
                  \/ /\ ~Faults(g) /\ pc' = pc
                     /\ \E n \in 0..Len(found) : /\ results' = results \o SubSeq(found, 1, n)
                                                 /\ stay_running' = (n = Len(found))
  <1>1. /\ pc = "regions" /\ todo # <<>> /\ stay_running /\ Scanned(Head(todo)) /\ todo' = Tail(todo)
        /\ UNCHANGED <<ram, regions, range, ok, typed, pattern, before>>
    BY DEF ScanRegion, process
  <1>2. IF Faults(Head(todo))
        THEN pc' = "fault" /\ UNCHANGED <<results, stay_running>>
        ELSE /\ \E n \in 0..Len(Ascending(Where(Head(todo)))) :
                   /\ results' = results \o SubSeq(Ascending(Where(Head(todo))), 1, n)
                   /\ stay_running' = (n = Len(Ascending(Where(Head(todo)))))
             /\ UNCHANGED pc
    BY Zenon DEF ScanRegion, Faults, Where, Hits, FirstOf, LastOf, Data
  <1>3. CASE Faults(Head(todo)) BY <1>1, <1>2, <1>3, Zenon
  <1>4. CASE ~Faults(Head(todo)) BY <1>1, <1>2, <1>4, Zenon
  <1> QED BY <1>3, <1>4

\* What an unfaulty scan adds.
LEMMA ScanAdds ==
    ASSUME IInv, ScanRegion, ~Faults(Head(todo))
    PROVE  LET g == Head(todo)
               found == Ascending(Where(g))
           IN  /\ Where(g) \subseteq OccursIn(ram, pattern, Alignment(typed), range, g)
               /\ ok => OccursIn(ram, pattern, Alignment(typed), range, g) \subseteq Where(g)
               /\ IsFiniteSet(Where(g)) /\ Where(g) \in SUBSET Nat /\ Where(g) \subseteq DOMAIN ram
               /\ found \in Seq(DOMAIN ram) /\ Len(found) \in Nat
               /\ \A a \in Where(g) : g.start <= a
  <1> DEFINE g == Head(todo)
             occ == OccursIn(ram, pattern, Alignment(typed), range, g)
  <1>1. TypeInv /\ Stages BY DEF IInv
  <1>2. pc = "regions" /\ todo # <<>> /\ InRange(g) BY ScanOutcome DEF Scanned
  <1>3. g \in Region /\ g.start + g.size < Space /\ range \in Ranges /\ pattern # <<>> BY <1>1, <1>2, NextRegion
  <1>4. typed \in Texts BY <1>1, <1>2 DEF TypeInv
  <1> HIDE DEF g
  <1>5. /\ ~Faults(g) => Where(g) \subseteq occ
        /\ ~Faults(g) /\ ok => occ \subseteq Where(g)
        /\ IsFiniteSet(Where(g)) /\ Where(g) \in SUBSET Nat
        /\ \A a \in occ : a \in Nat /\ g.start <= a /\ a < g.start + g.size
    BY <1>1, <1>2, <1>3, <1>4, ScanFacts, Zenon
  <1>6. ~Faults(g) BY DEF g
  <1>7. occ \subseteq DOMAIN ram BY DEF OccursIn
  <1> HIDE DEF occ
  <1>8. Where(g) \subseteq DOMAIN ram BY <1>5, <1>6, <1>7
  <1>9. Where(g) \in SUBSET Int BY <1>5
  <1>10. Ascending(Where(g)) \in Seq(Where(g)) BY <1>5, <1>9, AscendingFacts
  <1>11. Len(Ascending(Where(g))) \in Nat /\ ToSet(Ascending(Where(g))) \subseteq DOMAIN ram
    BY <1>8, <1>10, ElementOf
  <1>12. Ascending(Where(g)) \in Seq(DOMAIN ram) BY <1>10, <1>11, SequenceWithin
  <1> QED BY <1>5, <1>6, <1>8, <1>11, <1>12 DEF g, occ

\* The variables keep their types: what a scan adds to the results are addresses.
LEMMA StepTypes == IInv /\ [Next]_vars => TypeInv'
  <1> SUFFICES ASSUME IInv, [Next]_vars PROVE TypeInv' OBVIOUS
  <1>0. TypeInv /\ Stages BY DEF IInv
  <1>1. CASE Type
    <2>1. PICK x \in Texts : typed' = x /\ pattern' = PatternOf(x) BY <1>1 DEF Type
    <2>2. PatternOf(x) \in Seq(Byte \cup {Wild}) BY PatternOfFacts
    <2>3. pc' = "typed" /\ UNCHANGED <<ram, ok, before, results, stay_running>> BY <1>1 DEF Type, process
    <2> QED BY <1>0, <2>1, <2>2, <2>3 DEF TypeInv
  <1>2. CASE begin_search
    <2>1. /\ pc = "typed" /\ pc' \in {"done", "regions"}
          /\ UNCHANGED <<ram, ok, typed, pattern, before, results, stay_running>>
      BY <1>2 DEF begin_search
    <2> QED BY <1>0, <2>1 DEF TypeInv
  <1>3. CASE SkipRegion BY <1>0, <1>3 DEF TypeInv, SkipRegion, process
  <1>4. CASE ScanRegion
    <2> DEFINE found == Ascending(Where(Head(todo)))
    <2>1. pc = "regions" /\ UNCHANGED <<ram, ok, typed, pattern, before>> BY <1>4, ScanOutcome
    <2>2. CASE Faults(Head(todo)) /\ pc' = "fault" /\ UNCHANGED <<results, stay_running>>
      BY <1>0, <2>1, <2>2 DEF TypeInv
    <2>3. ASSUME ~Faults(Head(todo)), pc' = pc, NEW n \in 0..Len(found),
                 results' = results \o SubSeq(found, 1, n), stay_running' = (n = Len(found))
          PROVE  TypeInv'
      <3>1. found \in Seq(DOMAIN ram) BY <1>4, <2>3, ScanAdds
      <3>2. results \in Seq(DOMAIN ram) BY <1>0 DEF TypeInv
      <3> HIDE DEF found
      <3>3. results' \in Seq(DOMAIN ram) BY <2>3, <3>1, <3>2, Joined
      <3>4. stay_running' \in BOOLEAN BY <2>3
      <3> QED BY <1>0, <2>1, <2>3, <3>3, <3>4 DEF TypeInv
    <2> QED BY <1>4, <2>2, <2>3, ScanOutcome
  <1>5. CASE Finish BY <1>0, <1>5 DEF TypeInv, Finish, process
  <1>6. CASE continue_search
    <2>1. PICK m \in Memories : ram' = m BY <1>6 DEF continue_search
    <2>2. PICK x \in Searched : typed' = x /\ pattern' = PatternOf(x) BY <1>6 DEF continue_search
    <2>3. /\ before' = results /\ results' = <<>> /\ stay_running' = TRUE /\ ok' = ok
          /\ pc' \in {"done", "addresses"}
      BY <1>6 DEF continue_search
    <2>4. x \in Texts BY MemSearchAssumption
    <2>5. PatternOf(x) \in Seq(Byte \cup {Wild}) BY <2>4, PatternOfFacts
    <2>6. ram \in Memories /\ DOMAIN ram' = DOMAIN ram BY <1>0, <2>1, MemoryFacts DEF TypeInv
    <2> QED BY <1>0, <2>1, <2>2, <2>3, <2>4, <2>5, <2>6 DEF TypeInv
  <1>7. CASE VisitAddress
    <2>1. /\ pc = "addresses" /\ todo # <<>> /\ results' \in {results, Append(results, Head(todo))}
          /\ UNCHANGED <<ram, ok, typed, pattern, pc, before, stay_running>>
      BY <1>7 DEF VisitAddress, process
    <2>2. todo \in Seq(DOMAIN ram) BY <1>0, <2>1 DEF Stages
    <2>3. Head(todo) \in DOMAIN ram BY <2>1, <2>2
    <2>4. results \in Seq(DOMAIN ram) BY <1>0 DEF TypeInv
    <2>5. results' \in Seq(DOMAIN ram) BY <2>1, <2>3, <2>4
    <2> QED BY <1>0, <2>1, <2>5 DEF TypeInv
  <1>8. CASE Stop BY <1>0, <1>8 DEF TypeInv, Stop, process
  <1>9. CASE Lose BY <1>0, <1>9 DEF TypeInv, Lose, process
  <1>10. CASE UNCHANGED vars BY <1>0, <1>10 DEF TypeInv, vars
  <1> QED BY <1>1, <1>2, <1>3, <1>4, <1>5, <1>6, <1>7, <1>8, <1>9, <1>10 DEF Next

\* Each stage begins as the one before it ends.
LEMMA StepStages == IInv /\ [Next]_vars => Stages'
  <1> SUFFICES ASSUME IInv, [Next]_vars PROVE Stages' OBVIOUS
  <1>0. TypeInv /\ Stages BY DEF IInv
  <1>1. CASE Type
    <2>1. pc = "typing" /\ pc' = "typed" /\ UNCHANGED <<before, results, stay_running>> BY <1>1 DEF Type
    <2> QED BY <1>0, <2>1 DEF Stages
  <1>2. CASE begin_search
    <2>1. PICK l \in Layouts : regions' = l /\ todo' = l BY <1>2 DEF begin_search
    <2>2. /\ pc = "typed" /\ pc' \in {"done", "regions"} /\ (pc' = "regions" => pattern # <<>>)
          /\ range' \in Ranges /\ UNCHANGED <<ram, pattern, before, results, stay_running>>
      BY <1>2 DEF begin_search
    <2>3. todo' \in Seq(Region) /\ Rest(todo', regions') BY <2>1, LayoutFacts, RestAll
    <2> QED BY <1>0, <2>1, <2>2, <2>3 DEF Stages
  <1>3. CASE SkipRegion
    <2>1. pc = "regions" /\ todo # <<>> /\ todo' = Tail(todo) /\ UNCHANGED <<regions, range, pattern, pc, before>>
      BY <1>3 DEF SkipRegion, process
    <2>2. todo' \in Seq(Region) /\ Rest(todo', regions') /\ regions \in Layouts /\ range \in Ranges
          /\ pattern # <<>> /\ before = <<>>
      BY <1>0, <2>1, NextRegion
    <2> QED BY <2>1, <2>2 DEF Stages
  <1>4. CASE ScanRegion
    <2>1. /\ pc = "regions" /\ todo # <<>> /\ todo' = Tail(todo) /\ pc' \in {"regions", "fault"}
          /\ UNCHANGED <<regions, range, pattern, before>>
      BY <1>4, ScanOutcome
    <2>2. todo' \in Seq(Region) /\ Rest(todo', regions') /\ regions \in Layouts /\ range \in Ranges
          /\ pattern # <<>> /\ before = <<>>
      BY <1>0, <2>1, NextRegion
    <2> QED BY <2>1, <2>2 DEF Stages
  <1>5. CASE Finish
    <2>1. pc \in {"regions", "addresses"} /\ pc' = "done" /\ UNCHANGED <<regions, range>>
      BY <1>5 DEF Finish, process
    <2> QED BY <1>0, <2>1 DEF Stages
  <1>6. CASE continue_search
    <2>1. /\ pc = "done" /\ results # <<>> /\ before' = results /\ todo' = results
          /\ pc' \in {"done", "addresses"} /\ (pc' = "addresses" => pattern' # <<>>)
          /\ UNCHANGED <<regions, range>>
      BY <1>6 DEF continue_search
    <2>2. TypeInv' BY StepTypes
    <2>3. todo' \in Seq(DOMAIN ram') /\ Rest(todo', before')
      <3>1. before' \in Seq(DOMAIN ram') BY <2>2 DEF TypeInv
      <3> QED BY <2>1, <3>1, RestAll
    <2> QED BY <1>0, <2>1, <2>3 DEF Stages
  <1>7. CASE VisitAddress
    <2>1. /\ pc = "addresses" /\ todo # <<>> /\ todo' = Tail(todo)
          /\ UNCHANGED <<ram, regions, range, pattern, pc, before>>
      BY <1>7 DEF VisitAddress, process
    <2>2. todo \in Seq(DOMAIN ram) /\ before \in Seq(DOMAIN ram) /\ Rest(todo, before)
      BY <1>0, <2>1 DEF TypeInv, Stages
    <2>3. Tail(todo) \in Seq(DOMAIN ram) /\ Rest(Tail(todo), before) BY <2>1, <2>2, RestFacts
    <2> QED BY <1>0, <2>1, <2>3 DEF Stages
  <1>8. CASE Stop BY <1>0, <1>8 DEF Stages, Stop, process
  <1>9. CASE Lose BY <1>0, <1>9 DEF Stages, Lose, process
  <1>10. CASE UNCHANGED vars BY <1>0, <1>10 DEF Stages, vars
  <1> QED BY <1>1, <1>2, <1>3, <1>4, <1>5, <1>6, <1>7, <1>8, <1>9, <1>10 DEF Next

\* The results of a scan come after those of the scans before it: an address is
\* reported once, though the region it is in may be one of many.
LEMMA SoundScan ==
    ASSUME NEW where, NEW found, found \in Seq(Nat), NEW n \in Nat, Sound(where, found, n),
           NEW S \in SUBSET Nat, IsFiniteSet(S), S \subseteq where[n + 1],
           \A j \in 1..n : \A a \in where[j] : \A b \in S : a < b,
           NEW m \in 0..Len(Ascending(S)), NEW r, r = found \o SubSeq(Ascending(S), 1, m)
    PROVE  /\ Sound(where, r, n + 1)
           /\ Complete(where, found, n) /\ where[n + 1] \subseteq S /\ m = Len(Ascending(S))
                 => Complete(where, r, n + 1)
  <1> DEFINE a == Ascending(S)
             c == Len(found)
  <1>0. S \in SUBSET Int OBVIOUS
  <1>1. /\ a \in Seq(S) /\ Cardinality(S) \in Nat /\ Len(a) = Cardinality(S)
        /\ \A x \in S : \E k \in 1..Cardinality(S) : a[k] = x
        /\ \A j, k \in 1..Cardinality(S) : j < k => a[j] < a[k]
    BY <1>0, AscendingFacts
  <1>2. a \in Seq(Nat) /\ \A k \in 1..Len(a) : a[k] \in S
    <2> HIDE DEF a
    <2>1. DOMAIN a = 1..Len(a) /\ \A k \in DOMAIN a : a[k] \in S BY <1>1, ElementOf
    <2>2. ToSet(a) \subseteq Nat BY <2>1 DEF ToSet
    <2> QED BY <1>1, <2>1, <2>2, SequenceWithin
  <1> HIDE DEF a
  <1>3. /\ r \in Seq(Nat) /\ Len(r) = c + m /\ DOMAIN r = 1..(c + m) /\ c \in Nat /\ Len(a) \in Nat
        /\ \A k \in 1..c : r[k] = found[k]
        /\ \A k \in 1..m : r[c + k] = a[k]
    <2>1. m \in 0..Len(a) /\ r = found \o SubSeq(a, 1, m) BY DEF a
    <2> QED BY <1>2, <2>1, Joined
  <1>4. /\ \A k \in 1..c : \E j \in 1..n : found[k] \in where[j]
        /\ \A i, k \in 1..c : i < k => found[i] < found[k]
    BY DEF Sound
  <1> HIDE DEF c
  <1>5. ASSUME NEW k \in 1..(c + m) PROVE k \in 1..c \/ (k - c \in 1..m /\ c + (k - c) = k)
    BY <1>3
  <1>6. ASSUME NEW k \in 1..(c + m) PROVE \E j \in 1..(n + 1) : r[k] \in where[j]
    <2>1. CASE k \in 1..c
      <3>1. PICK j \in 1..n : found[k] \in where[j] BY <1>4, <2>1
      <3>2. j \in 1..(n + 1) OBVIOUS
      <3> QED BY <1>3, <2>1, <3>1, <3>2
    <2>2. CASE k - c \in 1..m /\ c + (k - c) = k
      <3>1. r[k] = a[k - c] BY <1>3, <2>2
      <3>2. k - c \in 1..Len(a) BY <1>3, <2>2 DEF a
      <3>3. a[k - c] \in S BY <1>2, <3>2
      <3>4. n + 1 \in 1..(n + 1) OBVIOUS
      <3> QED BY <3>1, <3>3, <3>4
    <2> QED BY <1>5, <2>1, <2>2
  <1>7. ASSUME NEW i \in 1..(c + m), NEW k \in 1..(c + m), i < k PROVE r[i] < r[k]
    <2>1. CASE k \in 1..c
      <3>1. i \in 1..c BY <1>3, <1>7, <2>1
      <3> QED BY <1>3, <1>4, <1>7, <2>1, <3>1
    <2>2. CASE i \in 1..c /\ k - c \in 1..m /\ c + (k - c) = k
      <3>1. r[k] = a[k - c] /\ r[i] = found[i] BY <1>3, <2>2
      <3>2. k - c \in 1..Len(a) BY <1>3, <2>2 DEF a
      <3>3. a[k - c] \in S BY <1>2, <3>2
      <3>4. \E j \in 1..n : found[i] \in where[j] BY <1>4, <2>2
      <3> QED BY <3>1, <3>3, <3>4
    <2>3. CASE i - c \in 1..m /\ c + (i - c) = i /\ k - c \in 1..m /\ c + (k - c) = k
      <3>1. r[k] = a[k - c] /\ r[i] = a[i - c] BY <1>3, <2>3
      <3>2. k - c \in 1..Cardinality(S) /\ i - c \in 1..Cardinality(S) BY <1>1, <1>3, <2>3 DEF a
      <3>3. i - c < k - c BY <1>3, <1>7
      <3> QED BY <1>1, <3>1, <3>2, <3>3
    <2> QED BY <1>3, <1>5, <1>7, <2>1, <2>2, <2>3
  <1>8. Sound(where, r, n + 1) BY <1>3, <1>6, <1>7 DEF Sound
  <1>9. ASSUME Complete(where, found, n), where[n + 1] \subseteq S, m = Len(a) PROVE Complete(where, r, n + 1)
    <2>1. ToSet(found) \subseteq ToSet(r)
      <3>1. DOMAIN found = 1..c BY ElementOf DEF c
      <3>2. \A k \in 1..c : k \in 1..(c + m) BY <1>3
      <3> QED BY <1>3, <3>1, <3>2 DEF ToSet
    <2>2. S \subseteq ToSet(r)
      <3> SUFFICES ASSUME NEW x \in S PROVE x \in ToSet(r) OBVIOUS
      <3>1. PICK k \in 1..Cardinality(S) : a[k] = x BY <1>1, Zenon
      <3>m. k \in 1..m BY <1>1, <1>9
      <3>2. c + k \in 1..(c + m) /\ r[c + k] = x BY <1>3, <3>1, <3>m
      <3> QED BY <1>3, <3>2 DEF ToSet
    <2>3. \A j \in 1..n : where[j] \subseteq ToSet(found) BY <1>9 DEF Complete
    <2>4. \A j \in 1..(n + 1) : j \in 1..n \/ j = n + 1 OBVIOUS
    <2>5. \A j \in 1..(n + 1) : where[j] \subseteq ToSet(r) BY <1>9, <2>1, <2>2, <2>3, <2>4
    <2> QED BY <2>5 DEF Complete
  <1> QED BY <1>8, <1>9 DEF a

\* Nothing is missed in a region that is left out.
LEMMA SoundSkip ==
    ASSUME NEW where, NEW found, NEW n \in Nat, where[n + 1] = {}
    PROVE  /\ Sound(where, found, n) => Sound(where, found, n + 1)
           /\ Complete(where, found, n) => Complete(where, found, n + 1)
  <1>1. 1..n \subseteq 1..(n + 1) OBVIOUS
  <1>2. \A j \in 1..(n + 1) : j \in 1..n \/ j = n + 1 OBVIOUS
  <1>3. ASSUME Sound(where, found, n) PROVE Sound(where, found, n + 1)
    <2>1. \A k \in 1..Len(found) : \E j \in 1..(n + 1) : found[k] \in where[j] BY <1>1, <1>3, Zenon DEF Sound
    <2>2. \A i, k \in 1..Len(found) : i < k => found[i] < found[k] BY <1>3, Zenon DEF Sound
    <2> QED BY <2>1, <2>2, Zenon DEF Sound
  <1>4. ASSUME Complete(where, found, n) PROVE Complete(where, found, n + 1)
    <2>1. \A j \in 1..n : where[j] \subseteq ToSet(found) BY <1>4 DEF Complete
    <2>2. \A j \in 1..(n + 1) : where[j] \subseteq ToSet(found) BY <1>2, <2>1
    <2> QED BY <2>2 DEF Complete
  <1> QED BY <1>3, <1>4

\* The places depend only on the memory, the regions and what is searched for.
LEMMA SamePlaces ==
    ASSUME UNCHANGED <<ram, regions, range, typed, pattern>> PROVE places' = places
  <1>1. Alignment(typed)' = Alignment(typed) OBVIOUS
  <1> QED BY <1>1 DEF places

\* The regions do not overlap, so that the places in one lie before those in the next.
LEMMA PlacesApart ==
    ASSUME TypeInv, regions \in Layouts, NEW i \in 1..Len(regions), NEW j \in 1..Len(regions), i < j,
           NEW a \in places[i], NEW b \in Nat, regions[j].start <= b
    PROVE  a < b
  <1> DEFINE g == regions[i]
  <1>1. /\ g \in Region /\ g.start \in Nat /\ g.size \in Nat /\ regions[j].start \in Nat
        /\ g.start + g.size <= regions[j].start
    BY LayoutFacts
  <1>2. a \in OccursIn(ram, pattern, Alignment(typed), range, g) BY DEF places
  <1> HIDE DEF g
  <1>3. /\ a \in DOMAIN ram /\ pattern # <<>>
        /\ a + Len(pattern) <= g.start + ReadableIn(ram, g.start, g.size)
    BY <1>2 DEF OccursIn
  <1>4. ReadableIn(ram, g.start, g.size) \in 0..g.size BY <1>1, ReadableFacts
  <1>5. a \in Nat BY <1>3, MemoryFacts DEF TypeInv
  <1>6. Len(pattern) \in Nat /\ Len(pattern) >= 1 BY <1>3 DEF TypeInv
  <1> QED BY <1>1, <1>3, <1>4, <1>5, <1>6

\* The loop over the regions finds the places in one region after the other.
LEMMA StepFound == IInv /\ [Next]_vars => FoundInv'
  <1> SUFFICES ASSUME IInv, [Next]_vars PROVE FoundInv' OBVIOUS
  <1>0. TypeInv /\ Stages /\ FoundInv BY DEF IInv
  <1>1. CASE Type
    <2>1. pc' = "typed" BY <1>1 DEF Type
    <2> QED BY <2>1 DEF FoundInv
  <1>2. CASE begin_search
    <2>1. PICK l \in Layouts : regions' = l /\ todo' = l BY <1>2 DEF begin_search
    <2>2. /\ pc' = IF pattern = <<>> THEN "done" ELSE "regions"
          /\ pattern' = pattern /\ results' = results /\ results = <<>>
      BY <1>0, <1>2 DEF begin_search, Stages
    <2>3. \A where, n : Sound(where, <<>>, n) BY DEF Sound
    <2>4. \A where : Complete(where, <<>>, 0) BY DEF Complete
    <2>5. Len(l) \in Nat BY LayoutFacts
    <2>6. CASE pattern = <<>>
      <3>1. \A mem, align, rng, g : OccursIn(mem, <<>>, align, rng, g) = {} BY DEF OccursIn
      <3>2. \A j \in 1..Len(regions') : places'[j] = {} BY <2>2, <2>6, <3>1 DEF places
      <3>3. Complete(places', results', Len(regions')) BY <3>2 DEF Complete
      <3> QED BY <2>2, <2>3, <2>6, <3>3 DEF FoundInv
    <2>7. CASE pattern # <<>>
      <3>1. Len(regions') - Len(todo') = 0 BY <2>1, <2>5
      <3> QED BY <2>2, <2>3, <2>4, <2>7, <3>1 DEF FoundInv
    <2> QED BY <2>6, <2>7
  <1>3. CASE SkipRegion
    <2> DEFINE n == Len(regions) - Len(todo)
    <2>1. /\ pc = "regions" /\ todo # <<>> /\ ~Scanned(Head(todo)) /\ todo' = Tail(todo)
          /\ UNCHANGED <<ram, regions, range, ok, typed, pattern, pc, before, results, stay_running>>
      BY <1>3 DEF SkipRegion, process
    <2>2. /\ n + 1 \in 1..Len(regions) /\ Head(todo) = regions[n + 1] /\ range \in Ranges
          /\ Head(todo) \in Region /\ Head(todo).start + Head(todo).size < Space
          /\ Len(regions) - Len(Tail(todo)) = n + 1 /\ Len(todo) \in Nat /\ Len(regions) \in Nat
      BY <1>0, <2>1, NextRegion
    <2>3. n \in Nat BY <2>2
    <2>4. places[n + 1] = {}
      <3> DEFINE g == Head(todo)
      <3>1. g.start \in Nat /\ g.size \in Nat /\ g.start + g.size < Space /\ Space \in Nat \ {0}
        BY <2>2, MemSearchAssumption DEF Region
      <3>2. (g.start + g.size) % Space = g.start + g.size
        <4> DEFINE x == g.start + g.size
        <4>1. x \in Int /\ x \in 0..(Space - 1) BY <3>1
        <4> HIDE DEF x
        <4>2. x % Space = x BY <3>1, <4>1, SmallRemainder
        <4> QED BY <4>2 DEF x
      <3>3. range[1] \in Nat /\ range[2] \in Nat BY <2>2, MemSearchAssumption
      <3>4. ~(range[1] <= g.start /\ g.start + g.size <= range[2]) \/ g.size = 0
        BY <2>1, <3>1, <3>2, <3>3 DEF InRange, Scanned
      <3> HIDE DEF g
      <3>5. OccursIn(ram, pattern, Alignment(typed), range, g) = {}
        <4> SUFFICES ASSUME NEW a \in OccursIn(ram, pattern, Alignment(typed), range, g) PROVE FALSE OBVIOUS
        <4>1. /\ a \in DOMAIN ram /\ pattern # <<>> /\ range[1] <= g.start /\ g.start + g.size <= range[2]
              /\ g.start <= a /\ a + Len(pattern) <= g.start + ReadableIn(ram, g.start, g.size)
          BY DEF OccursIn
        <4>2. g.size = 0 BY <3>4, <4>1
        <4>3. ReadableIn(ram, g.start, g.size) \in 0..g.size BY <3>1, ReadableFacts
        <4>4. a \in Nat BY <1>0, <4>1, MemoryFacts DEF TypeInv
        <4>5. Len(pattern) \in Nat /\ Len(pattern) >= 1 BY <1>0, <4>1 DEF TypeInv
        <4> QED BY <3>1, <4>1, <4>2, <4>3, <4>4, <4>5
      <3> QED BY <2>2, <3>5 DEF places, g
    <2>5. places' = places BY <2>1, SamePlaces
    <2>6. Sound(places, results, n) /\ (ok /\ stay_running => Complete(places, results, n)) BY <1>0, <2>1 DEF FoundInv
    <2> HIDE DEF n
    <2>7. Sound(places, results, n + 1) /\ (ok /\ stay_running => Complete(places, results, n + 1))
      BY <2>3, <2>4, <2>6, SoundSkip
    <2>8. Len(regions') - Len(todo') = n + 1 BY <2>1, <2>2
    <2> QED BY <2>1, <2>5, <2>7, <2>8 DEF FoundInv
  <1>4. CASE ScanRegion
    <2> DEFINE g == Head(todo)
               n == Len(regions) - Len(todo)
               found == Ascending(Where(g))
    <2>1. /\ pc = "regions" /\ todo # <<>> /\ stay_running /\ todo' = Tail(todo)
          /\ UNCHANGED <<ram, regions, range, ok, typed, pattern, before>>
      BY <1>4, ScanOutcome
    <2>2. CASE pc' = "fault" BY <2>2 DEF FoundInv
    <2>3. ASSUME ~Faults(g), pc' = pc, NEW m \in 0..Len(found),
                 results' = results \o SubSeq(found, 1, m), stay_running' = (m = Len(found))
          PROVE  FoundInv'
      <3>1. /\ n + 1 \in 1..Len(regions) /\ g = regions[n + 1] /\ regions \in Layouts
            /\ Len(regions) - Len(Tail(todo)) = n + 1 /\ Len(todo) \in Nat /\ Len(regions) \in Nat
        BY <1>0, <2>1, NextRegion
      <3>2. n \in Nat BY <3>1
      <3>3. Sound(places, results, n) /\ (ok => Complete(places, results, n)) BY <1>0, <2>1 DEF FoundInv
      <3>4. /\ Where(g) \subseteq OccursIn(ram, pattern, Alignment(typed), range, g)
            /\ ok => OccursIn(ram, pattern, Alignment(typed), range, g) \subseteq Where(g)
            /\ IsFiniteSet(Where(g)) /\ Where(g) \in SUBSET Nat
            /\ \A a \in Where(g) : g.start <= a
        BY <1>4, <2>3, ScanAdds
      <3>5. places[n + 1] = OccursIn(ram, pattern, Alignment(typed), range, g) BY <3>1 DEF places
      <3>6. results \in Seq(Nat)
        <4>1. results \in Seq(DOMAIN ram) /\ DOMAIN ram \subseteq Nat BY <1>0, MemoryFacts DEF TypeInv
        <4>2. ToSet(results) \subseteq Nat BY <4>1, ElementOf
        <4> QED BY <4>1, <4>2, SequenceWithin
      <3>7. \A j \in 1..n : \A a \in places[j] : \A b \in Where(g) : a < b
        <4> SUFFICES ASSUME NEW j \in 1..n, NEW a \in places[j], NEW b \in Where(g) PROVE a < b OBVIOUS
        <4>1. j \in 1..Len(regions) /\ j < n + 1 BY <3>1, <3>2
        <4>2. regions[n + 1].start <= b /\ b \in Nat BY <3>1, <3>4
        <4> QED BY <1>0, <3>1, <4>1, <4>2, PlacesApart
      <3> DEFINE S == Where(g)
      <3>8. m \in 0..Len(Ascending(S)) /\ results' = results \o SubSeq(Ascending(S), 1, m) BY <2>3
      <3>9. S \in SUBSET Nat /\ IsFiniteSet(S) /\ S \subseteq places[n + 1] /\ (ok => places[n + 1] \subseteq S)
        BY <3>4, <3>5
      <3>10. \A j \in 1..n : \A a \in places[j] : \A b \in S : a < b BY <3>7
      <3>11. ok' /\ stay_running' => ok /\ m = Len(Ascending(S)) BY <2>1, <2>3
      <3> HIDE DEF S, n, found, g
      <3>12. /\ Sound(places, results', n + 1)
             /\ Complete(places, results, n) /\ places[n + 1] \subseteq S /\ m = Len(Ascending(S))
                   => Complete(places, results', n + 1)
        BY <3>2, <3>3, <3>6, <3>8, <3>9, <3>10, SoundScan
      <3>13. ok' /\ stay_running' => Complete(places, results', n + 1) BY <3>3, <3>9, <3>11, <3>12
      <3>14. places' = places BY <2>1, SamePlaces
      <3>15. Len(regions') - Len(todo') = n + 1 BY <2>1, <3>1 DEF n
      <3> QED BY <2>1, <2>3, <3>12, <3>13, <3>14, <3>15 DEF FoundInv
    <2> QED BY <1>4, <2>2, <2>3, ScanOutcome
  <1>5. CASE Finish
    <2>1. /\ pc \in {"regions", "addresses"} /\ pc' = "done" /\ (todo = <<>> \/ ~stay_running)
          /\ UNCHANGED <<ram, regions, range, ok, typed, pattern, todo, before, results, stay_running>>
      BY <1>5 DEF Finish, process
    <2>2. CASE pc = "addresses" BY <1>0, <2>1, <2>2 DEF FoundInv, Stages
    <2>3. CASE pc = "regions"
      <3> DEFINE n == Len(regions) - Len(todo)
      <3>1. places' = places BY <2>1, SamePlaces
      <3>2. Sound(places, results, n) /\ (ok /\ stay_running => Complete(places, results, n)) BY <1>0, <2>3 DEF FoundInv
      <3>3. Len(regions) \in Nat /\ Len(todo) \in Nat /\ Len(todo) <= Len(regions)
        <4>1. regions \in Layouts /\ todo \in Seq(Region) /\ Rest(todo, regions) BY <1>0, <2>3 DEF Stages
        <4> QED BY <4>1, LayoutFacts DEF Rest
      <3>4. Sound(places, results, Len(regions))
        <4>1. \A j \in 1..n : j \in 1..Len(regions) BY <3>3
        <4> QED BY <3>2, <4>1, Zenon DEF Sound
      <3>5. ok /\ stay_running => n = Len(regions)
        <4>1. Len(<<>>) = 0 OBVIOUS
        <4> QED BY <2>1, <3>3, <4>1
      <3> HIDE DEF n
      <3>6. ok /\ stay_running => Complete(places, results, Len(regions)) BY <3>2, <3>5
      <3> QED BY <2>1, <3>1, <3>4, <3>6 DEF FoundInv
    <2> QED BY <2>1, <2>2, <2>3
  <1>6. CASE continue_search
    <2>1. results # <<>> /\ before' = results /\ pc' \in {"done", "addresses"} BY <1>6 DEF continue_search
    <2> QED BY <2>1 DEF FoundInv
  <1>7. CASE VisitAddress
    <2>1. pc = "addresses" /\ pc' = pc BY <1>7 DEF VisitAddress
    <2> QED BY <2>1 DEF FoundInv
  <1>8. CASE Stop
    <2>1. /\ pc \in {"regions", "addresses"} /\ stay_running' = FALSE
          /\ UNCHANGED <<ram, regions, range, ok, typed, pattern, pc, todo, before, results>>
      BY <1>8 DEF Stop, process
    <2>2. places' = places BY <2>1, SamePlaces
    <2> QED BY <1>0, <2>1, <2>2 DEF FoundInv
  <1>9. CASE Lose
    <2>1. /\ pc \in {"regions", "addresses"} /\ ok' = FALSE
          /\ UNCHANGED <<ram, regions, range, typed, pattern, pc, todo, before, results, stay_running>>
      BY <1>9 DEF Lose, process
    <2>2. places' = places BY <2>1, SamePlaces
    <2> QED BY <1>0, <2>1, <2>2 DEF FoundInv
  <1>10. CASE UNCHANGED vars
    <2>1. places' = places BY <1>10, SamePlaces DEF vars
    <2> QED BY <1>0, <1>10, <2>1 DEF FoundInv, vars
  <1> QED BY <1>1, <1>2, <1>3, <1>4, <1>5, <1>6, <1>7, <1>8, <1>9, <1>10 DEF Next

\* An address is visited: it is kept if all of the pattern is there.
LEMMA WholeFacts ==
    ASSUME ok \in BOOLEAN, pattern \in Seq(Byte \cup {Wild}), pattern # <<>>, ram \in Memories,
           NEW addr \in DOMAIN ram
    PROVE  WholeMatch(addr) <=> ok /\ MatchesAt(ram, pattern, addr)
  <1> DEFINE p == Len(pattern)
             data == read(addr, p)
             r == ReadableIn(ram, addr, p)
  <1>1. p \in Nat /\ p >= 1 /\ DOMAIN pattern = 1..p /\ addr \in Nat BY MemoryFacts
  <1>2. /\ Len(data) = IF ok THEN r ELSE 0
        /\ r \in 0..p
        /\ \A k \in 1..Len(data) : data[k] = ram[addr + k - 1]
    BY <1>1, ReadFacts
  <1>3. /\ \A a \in Nat : a >= addr /\ a < addr + r => a \in DOMAIN ram /\ ram[a] # Hole
        /\ (\A a \in Nat : a >= addr /\ a < addr + p => a \in DOMAIN ram /\ ram[a] # Hole) => r = p
    BY <1>1, ReadableFacts
  <1>4. WholeMatch(addr) <=> Len(data) = p /\ \A k \in 1..p : pattern[k] \in {Wild, data[0 + k]}
    BY <1>1, Zenon DEF WholeMatch, is_match
  <1>5. MatchesAt(ram, pattern, addr) <=>
           \A k \in 1..p : addr + k - 1 \in DOMAIN ram /\ ram[addr + k - 1] # Hole
                           /\ pattern[k] \in {Wild, ram[addr + k - 1]}
    BY <1>1, Zenon DEF MatchesAt
  <1> HIDE DEF p, data, r
  <1>6. ASSUME WholeMatch(addr) PROVE ok /\ MatchesAt(ram, pattern, addr)
    <2>1. ok /\ r = p /\ Len(data) = p BY <1>1, <1>2, <1>4, <1>6
    <2>2. ASSUME NEW k \in 1..p
          PROVE  addr + k - 1 \in DOMAIN ram /\ ram[addr + k - 1] # Hole /\ pattern[k] \in {Wild, ram[addr + k - 1]}
      <3>1. addr + k - 1 \in Nat /\ addr + k - 1 >= addr /\ addr + k - 1 < addr + r BY <1>1, <2>1
      <3>2. 0 + k = k /\ data[k] = ram[addr + k - 1] BY <1>1, <1>2, <2>1
      <3>3. pattern[k] \in {Wild, data[k]} BY <1>4, <1>6, <3>2
      <3> QED BY <1>3, <3>1, <3>2, <3>3
    <2> QED BY <1>5, <2>1, <2>2
  <1>7. ASSUME ok, MatchesAt(ram, pattern, addr) PROVE WholeMatch(addr)
    <2>1. ASSUME NEW a \in Nat, a >= addr, a < addr + p PROVE a \in DOMAIN ram /\ ram[a] # Hole
      <3>1. a - addr + 1 \in 1..p /\ addr + (a - addr + 1) - 1 = a BY <1>1, <2>1
      <3> QED BY <1>5, <1>7, <3>1
    <2>2. r = p BY <1>3, <2>1
    <2>3. Len(data) = p BY <1>2, <1>7, <2>2
    <2>4. ASSUME NEW k \in 1..p PROVE pattern[k] \in {Wild, data[0 + k]}
      <3>1. 0 + k = k /\ data[k] = ram[addr + k - 1] BY <1>1, <1>2, <2>3
      <3>2. pattern[k] \in {Wild, ram[addr + k - 1]} BY <1>5, <1>7
      <3> QED BY <3>1, <3>2
    <2> QED BY <1>4, <2>3, <2>4
  <1> QED BY <1>6, <1>7

\* One more address of the search before.
LEMMA KeptGrows ==
    ASSUME NEW mem, NEW pat, NEW V, NEW from, from \in Seq(V), NEW n \in Nat, n + 1 \in 1..Len(from)
    PROVE  LET P == Kept(mem, pat, from, n)
               Q == Kept(mem, pat, from, n + 1)
           IN  /\ P \subseteq Q
               /\ MatchesAt(mem, pat, from[n + 1]) =>
                     /\ n + 1 \in Q
                     /\ Picked(from, Q) = Append(Picked(from, P), from[n + 1])
               /\ ~MatchesAt(mem, pat, from[n + 1]) => Q = P
  <1> DEFINE P == Kept(mem, pat, from, n)
             Q == Kept(mem, pat, from, n + 1)
             M(i) == MatchesAt(mem, pat, from[i])
  <1>1. P = {i \in 1..n : M(i)} /\ Q = {i \in 1..(n + 1) : M(i)} BY DEF Kept
  <1> HIDE DEF P, Q, M
  <1>2. \A i \in 1..(n + 1) : i \in 1..n \/ i = n + 1 OBVIOUS
  <1>3. \A i \in 1..n : i \in 1..(n + 1) /\ i < n + 1 OBVIOUS
  <1>4. P \subseteq Q BY <1>1, <1>3
  <1>5. ~M(n + 1) => Q = P BY <1>1, <1>2, <1>3
  <1>6. ASSUME M(n + 1) PROVE n + 1 \in Q /\ Picked(from, Q) = Append(Picked(from, P), from[n + 1])
    <2>1. n + 1 \in 1..(n + 1) OBVIOUS
    <2>2. Q = P \cup {n + 1} BY <1>1, <1>2, <1>3, <1>6, <2>1
    <2>3. P \in SUBSET (1..Len(from)) /\ \A j \in P : j < n + 1
      <3>1. Len(from) \in Nat OBVIOUS
      <3>2. \A i \in 1..n : i \in 1..Len(from) BY <3>1
      <3> QED BY <1>1, <1>3, <3>2
    <2>4. Picked(from, P \cup {n + 1}) = Append(Picked(from, P), from[n + 1]) BY <2>3, PickedFacts
    <2> QED BY <2>2, <2>4
  <1> QED BY <1>4, <1>5, <1>6 DEF P, Q, M

\* The loop over the addresses keeps the ones where the pattern is.
LEMMA StepKept == IInv /\ [Next]_vars => KeptInv'
  <1> SUFFICES ASSUME IInv, [Next]_vars PROVE KeptInv' OBVIOUS
  <1>0. TypeInv /\ Stages /\ KeptInv BY DEF IInv
  <1>1. CASE Type
    <2>1. pc' = "typed" BY <1>1 DEF Type
    <2> QED BY <2>1 DEF KeptInv
  <1>2. CASE begin_search
    <2>1. pc = "typed" /\ before' = before /\ pc' \in {"regions", "done"} BY <1>2 DEF begin_search
    <2> QED BY <1>0, <2>1 DEF KeptInv, Stages
  <1>3. CASE SkipRegion
    <2>1. pc = "regions" /\ pc' = pc BY <1>3 DEF SkipRegion
    <2> QED BY <2>1 DEF KeptInv
  <1>4. CASE ScanRegion
    <2>1. pc' \in {"regions", "fault"} BY <1>4, ScanOutcome
    <2> QED BY <2>1 DEF KeptInv
  <1>5. CASE Finish
    <2>1. /\ pc \in {"regions", "addresses"} /\ pc' = "done" /\ (todo = <<>> \/ ~stay_running)
          /\ UNCHANGED <<ram, ok, pattern, todo, before, results, stay_running>>
      BY <1>5 DEF Finish, process
    <2>2. CASE pc = "regions" BY <1>0, <2>1, <2>2 DEF KeptInv, Stages
    <2>3. CASE pc = "addresses"
      <3> DEFINE c == Len(before)
                 n == c - Len(todo)
                 K(i) == Kept(ram, pattern, before, i)
      <3>1. /\ ToSet(results) \subseteq {before[i] : i \in K(n)}
            /\ ok => results = Picked(before, K(n))
        BY <1>0, <2>3 DEF KeptInv
      <3>2. c \in Nat /\ Len(todo) \in Nat /\ Len(todo) <= c
        <4>1. todo \in Seq(DOMAIN ram) /\ before \in Seq(DOMAIN ram) /\ Rest(todo, before) BY <1>0, <2>3 DEF Stages, TypeInv
        <4> QED BY <4>1 DEF Rest
      <3>3. K(n) \subseteq K(c)
        <4>1. \A i \in 1..n : i \in 1..c BY <3>2
        <4> QED BY <4>1 DEF Kept
      <3>4. ok /\ stay_running => n = c
        <4>1. Len(<<>>) = 0 OBVIOUS
        <4> QED BY <2>1, <3>2, <4>1
      <3> HIDE DEF n, K
      <3>5. ToSet(results) \subseteq {before[i] : i \in K(c)} BY <3>1, <3>3
      <3>6. ok /\ stay_running => results = Picked(before, K(c)) BY <3>1, <3>4
      <3> QED BY <2>1, <3>5, <3>6 DEF KeptInv, K
    <2> QED BY <2>1, <2>2, <2>3
  <1>6. CASE continue_search
    <2>1. /\ before' = results /\ todo' = results /\ results' = <<>>
          /\ pc' = IF pattern' = <<>> THEN "done" ELSE "addresses"
      BY <1>6 DEF continue_search
    <2>2. ToSet(results') = {} BY <2>1 DEF ToSet
    <2>3. Len(before') - Len(todo') = 0
      <3>1. Len(results) \in Nat BY <1>0 DEF TypeInv
      <3> QED BY <2>1, <3>1
    <2>4. Kept(ram', pattern', before', 0) = {} BY DEF Kept
    <2>5. Picked(before', {}) = <<>>
      <3>1. before' \in Seq(DOMAIN ram) BY <1>0, <2>1 DEF TypeInv
      <3>2. {} \in SUBSET (1..Len(before')) OBVIOUS
      <3> QED BY <3>1, <3>2, PickedFacts
    <2> QED BY <2>1, <2>2, <2>3, <2>4, <2>5 DEF KeptInv
  <1>7. CASE VisitAddress
    <2> DEFINE a == Head(todo)
               n == Len(before) - Len(todo)
               P == Kept(ram, pattern, before, n)
               Q == Kept(ram, pattern, before, n + 1)
    <2>1. /\ pc = "addresses" /\ todo # <<>> /\ todo' = Tail(todo)
          /\ results' = IF WholeMatch(a) THEN Append(results, a) ELSE results
          /\ UNCHANGED <<ram, ok, pattern, pc, before>>
      BY <1>7 DEF VisitAddress, process
    <2>2. todo \in Seq(DOMAIN ram) /\ before \in Seq(DOMAIN ram) /\ Rest(todo, before) /\ pattern # <<>>
      BY <1>0, <2>1 DEF TypeInv, Stages
    <2>3. /\ n + 1 \in 1..Len(before) /\ a = before[n + 1] /\ a \in DOMAIN ram
          /\ Len(Tail(todo)) = Len(todo) - 1 /\ Len(todo) \in Nat /\ Len(before) \in Nat
      BY <2>1, <2>2, RestFacts
    <2>4. n \in Nat BY <2>3
    <2>5. WholeMatch(a) <=> ok /\ MatchesAt(ram, pattern, a) BY <1>0, <2>2, <2>3, WholeFacts DEF TypeInv
    <2>6. ToSet(results) \subseteq {before[i] : i \in P} /\ (ok => results = Picked(before, P))
      BY <1>0, <2>1 DEF KeptInv
    <2>7. Len(before') - Len(todo') = n + 1 BY <2>1, <2>3
    <2>r. results \in Seq(DOMAIN ram) BY <1>0 DEF TypeInv
    <2> HIDE DEF a, n
    <2>8. /\ P \subseteq Q
          /\ MatchesAt(ram, pattern, before[n + 1]) =>
                n + 1 \in Q /\ Picked(before, Q) = Append(Picked(before, P), before[n + 1])
          /\ ~MatchesAt(ram, pattern, before[n + 1]) => Q = P
      <3>1. before \in Seq(DOMAIN ram) /\ n + 1 \in 1..Len(before) BY <2>2, <2>3
      <3>2. ASSUME NEW b, b \in Seq(DOMAIN ram), n + 1 \in 1..Len(b)
            PROVE  /\ Kept(ram, pattern, b, n) \subseteq Kept(ram, pattern, b, n + 1)
                   /\ MatchesAt(ram, pattern, b[n + 1]) =>
                         /\ n + 1 \in Kept(ram, pattern, b, n + 1)
                         /\ Picked(b, Kept(ram, pattern, b, n + 1)) = Append(Picked(b, Kept(ram, pattern, b, n)), b[n + 1])
                   /\ ~MatchesAt(ram, pattern, b[n + 1]) => Kept(ram, pattern, b, n + 1) = Kept(ram, pattern, b, n)
        BY <2>4, <3>2, KeptGrows
      <3> QED BY <3>1, <3>2
    <2>9. Q = Kept(ram, pattern, before, Len(before) - Len(todo))' BY <2>1, <2>7
    <2> HIDE DEF P, Q
    <2>10. CASE WholeMatch(a)
      <3>1. /\ ok /\ n + 1 \in Q /\ Picked(before, Q) = Append(Picked(before, P), a)
            /\ results' = Append(results, a)
        BY <2>1, <2>3, <2>5, <2>8, <2>10
      <3>2. ToSet(Append(results, a)) = ToSet(results) \cup {a}
        <4> DEFINE s == Append(results, a)
        <4>1. /\ Len(results) \in Nat /\ DOMAIN results = 1..Len(results) /\ DOMAIN s = 1..(Len(results) + 1)
              /\ s[Len(results) + 1] = a /\ \A k \in 1..Len(results) : s[k] = results[k]
          BY <2>3, <2>r
        <4>2. Len(results) + 1 \in 1..(Len(results) + 1) /\ \A k \in 1..Len(results) : k \in 1..(Len(results) + 1)
          BY <4>1
        <4>3. \A k \in 1..(Len(results) + 1) : k \in 1..Len(results) \/ k = Len(results) + 1 BY <4>1
        <4> HIDE DEF s
        <4>4. ToSet(s) \subseteq ToSet(results) \cup {a} BY <4>1, <4>3 DEF ToSet
        <4>5. ToSet(results) \cup {a} \subseteq ToSet(s) BY <4>1, <4>2 DEF ToSet
        <4> QED BY <4>4, <4>5 DEF s
      <3>3. ToSet(results') \subseteq {before[i] : i \in Q} BY <2>3, <2>6, <2>8, <3>1, <3>2
      <3>4. results' = Picked(before, Q) BY <2>6, <3>1
      <3> QED BY <2>1, <2>9, <3>3, <3>4 DEF KeptInv
    <2>11. CASE ~WholeMatch(a)
      <3>1. results' = results BY <2>1, <2>11
      <3>2. ToSet(results') \subseteq {before[i] : i \in Q} BY <2>6, <2>8, <3>1
      <3>3. ok => results' = Picked(before, Q) BY <2>3, <2>5, <2>6, <2>8, <2>11, <3>1
      <3> QED BY <2>1, <2>9, <3>2, <3>3 DEF KeptInv
    <2> QED BY <2>10, <2>11
  <1>8. CASE Stop
    <2>1. /\ pc \in {"regions", "addresses"} /\ UNCHANGED <<ram, ok, pattern, pc, todo, before, results>>
      BY <1>8 DEF Stop, process
    <2> QED BY <1>0, <2>1 DEF KeptInv
  <1>9. CASE Lose
    <2>1. /\ pc \in {"regions", "addresses"} /\ ok' = FALSE
          /\ UNCHANGED <<ram, pattern, pc, todo, before, results>>
      BY <1>9 DEF Lose, process
    <2> QED BY <1>0, <2>1 DEF KeptInv
  <1>10. CASE UNCHANGED vars BY <1>0, <1>10 DEF KeptInv, vars
  <1> QED BY <1>1, <1>2, <1>3, <1>4, <1>5, <1>6, <1>7, <1>8, <1>9, <1>10 DEF Next

\* A scan that leaves the data was of a region with less than the pattern.
LEMMA StepOverread == IInv /\ [Next]_vars => OverreadOnlyShort'
  <1> SUFFICES ASSUME IInv, [Next]_vars PROVE OverreadOnlyShort' OBVIOUS
  <1>0. TypeInv /\ Stages /\ OverreadOnlyShort BY DEF IInv
  <1>1. CASE pc' # "fault" BY <1>1 DEF OverreadOnlyShort
  <1>2. CASE UNCHANGED vars BY <1>0, <1>2 DEF OverreadOnlyShort, vars, Scanned, InRange, Readable
  <1>3. ASSUME pc' = "fault", Next PROVE OverreadOnlyShort'
    <2>1. ScanRegion
      <3>1. ASSUME Type \/ begin_search \/ SkipRegion \/ Finish \/ continue_search \/ VisitAddress \/ Stop \/ Lose
            PROVE  FALSE
        BY <1>3, <3>1 DEF Type, begin_search, SkipRegion, Finish, continue_search, VisitAddress, Stop, Lose
      <3> QED BY <1>3, <3>1 DEF Next
    <2> DEFINE g == Head(todo)
    <2>2. /\ pc = "regions" /\ todo # <<>> /\ Scanned(g) /\ InRange(g) /\ Faults(g)
          /\ UNCHANGED <<ram, regions, range, ok, pattern>>
      BY <1>3, <2>1, ScanOutcome DEF Scanned
    <2>3. /\ g \in Region /\ g.start + g.size < Space /\ range \in Ranges /\ pattern # <<>>
          /\ Len(regions) - Len(todo) + 1 \in 1..Len(regions)
          /\ g = regions[Len(regions) - Len(todo) + 1] /\ regions \in Layouts
      BY <1>0, <2>2, NextRegion
    <2>4. typed \in Texts BY <1>0, <2>2 DEF TypeInv
    <2>5. g \in ToSet(regions) BY <2>3, LayoutFacts DEF ToSet
    <2> HIDE DEF g
    <2>6. ~ok \/ Readable(g.start, g.size) < Len(pattern) BY <1>0, <2>2, <2>3, <2>4, ScanFacts
    <2>7. PICK h \in ToSet(regions) : Scanned(h) /\ (~ok \/ Readable(h.start, h.size) < Len(pattern))
      BY <2>2, <2>5, <2>6
    <2>8. h \in ToSet(regions)' /\ Scanned(h)' BY <2>2, <2>7 DEF Scanned, InRange
    <2>9. Readable(h.start, h.size)' = Readable(h.start, h.size) BY <2>2 DEF Readable
    <2>10. ~ok' \/ (Readable(h.start, h.size) < Len(pattern))' BY <2>2, <2>7, <2>9
    <2> QED BY <2>8, <2>10, Zenon DEF OverreadOnlyShort
  <1> QED BY <1>1, <1>2, <1>3

\* The invariant is inductive.
LEMMA StepIInv == IInv /\ [Next]_vars => IInv'
  BY StepTypes, StepStages, StepFound, StepKept, StepOverread DEF IInv

\* It holds in every reachable state.
THEOREM Invariant == Spec => []IInv
  <1>1. Init => IInv BY InitIInv
  <1>2. IInv /\ [Next]_vars => IInv' BY StepIInv
  <1> QED BY <1>1, <1>2, PTL DEF Spec

-----------------------------------------------------------------------------
(* What the runs check, in every reachable state. *)

\* Every variable holds what its C++ type and the search allow: the pattern is bytes and
\* wildcards, and what was found are addresses of the process.
THEOREM TypeCorrect == Spec => []TypeOK
  <1>1. IInv => TypeOK
    <2> SUFFICES ASSUME TypeInv PROVE TypeOK BY DEF IInv
    <2>1. ToSet(pattern) \subseteq Byte \cup {Wild} BY ElementOf DEF TypeInv
    <2>2. ToSet(results) \subseteq DOMAIN ram /\ ToSet(before) \subseteq DOMAIN ram BY ElementOf DEF TypeInv
    <2> QED BY <2>1, <2>2 DEF TypeInv, TypeOK, Byte
  <1> QED BY <1>1, Invariant, PTL

\* A plain text has the pattern it says, and the others have another.
LEMMA IInvPatternIsTyped == IInv => PatternIsTyped
  <1> SUFFICES ASSUME IInv, pc # "typing"
               PROVE  IF Plain(typed) THEN pattern = Meaning(typed)
                                      ELSE Meaning(typed) = <<>> \/ pattern # Meaning(typed)
    BY DEF PatternIsTyped
  <1>1. typed \in Texts /\ pattern = PatternOf(typed) BY DEF IInv, TypeInv
  <1>2. CASE Plain(typed) BY <1>1, <1>2, PlainFacts
  <1>3. CASE ~Plain(typed) BY <1>1, <1>3, OtherFacts
  <1> QED BY <1>2, <1>3

\* What Pattern's constructor makes of a text is what was typed exactly for the plain ones:
\* the numbers stored whole (not below 0 in hex), the patterns that a space ends, and
\* strings.  Of every other text that means something it makes something else.
THEOREM PatternIsTypedAlways == Spec => []PatternIsTyped
  BY Invariant, IInvPatternIsTyped, PTL

\* A number that is shown and confirmed is the number it was if, and only if, it is one that
\* is stored whole: what raw_to_str_expr writes of the others, an s64 below 0 or from 2^32
\* and a decimal u64 from 2^63, is read by str_expr_to_raw as another number.
THEOREM ShownReadBackAlways == Spec => []ShownReadBack
  <1>1. IInv => ShownReadBack
    <2> SUFFICES ASSUME IInv, pc = "typed", typed.kind = "number"
                 PROVE  /\ CellReadBack(typed) = Meaning(typed) <=> Parsed(typed.is)
                        /\ ~typed.is.hex => (RowReadBack(typed) = Meaning(typed) <=> Parsed(typed.is))
      BY DEF ShownReadBack
    <2>1. typed \in Texts BY DEF IInv, TypeInv
    <2> QED BY <2>1, ShownFacts
  <1> QED BY <1>1, Invariant, PTL

\* The occurrences in the regions together are those the property speaks of.
LEMMA PlacesAll ==
    ASSUME TypeInv, regions \in Layouts
    PROVE  \A a : a \in Occurrences(pattern, Alignment(typed)) <=> \E j \in 1..Len(regions) : a \in places[j]
  <1> DEFINE al == Alignment(typed)
  <1>1. \A j \in 1..Len(regions) : places[j] = OccursIn(ram, pattern, al, range, regions[j]) BY DEF places
  <1>2. DOMAIN regions = 1..Len(regions) BY LayoutFacts
  <1>3. \A g \in ToSet(regions) : \E j \in 1..Len(regions) : g = regions[j] BY <1>2 DEF ToSet
  <1>4. \A j \in 1..Len(regions) : regions[j] \in ToSet(regions) BY <1>2 DEF ToSet
  <1>5. \A addr, n : Readable(addr, n) = ReadableIn(ram, addr, n) BY Zenon DEF Readable, ReadableIn
  <1>6. \A a : a \in Occurrences(pattern, al) <=>
           /\ a \in DOMAIN ram /\ pattern # <<>> /\ a % al = 0 /\ In(ram, pattern, a)
           /\ \E g \in ToSet(regions) :
                 /\ range[1] <= g.start /\ g.start + g.size <= range[2]
                 /\ g.start <= a /\ a + Len(pattern) <= g.start + ReadableIn(ram, g.start, g.size)
    BY <1>5, Zenon DEF Occurrences, In
  <1>7. \A a, g : a \in OccursIn(ram, pattern, al, range, g) <=>
           /\ a \in DOMAIN ram /\ pattern # <<>> /\ a % al = 0 /\ In(ram, pattern, a)
           /\ range[1] <= g.start /\ g.start + g.size <= range[2]
           /\ g.start <= a /\ a + Len(pattern) <= g.start + ReadableIn(ram, g.start, g.size)
    BY Zenon DEF OccursIn
  <1> HIDE DEF al
  <1>8. \A a : a \in Occurrences(pattern, al) <=>
           \E g \in ToSet(regions) : a \in OccursIn(ram, pattern, al, range, g)
    BY <1>6, <1>7, Zenon
  <1>9. \A a : (\E g \in ToSet(regions) : a \in OccursIn(ram, pattern, al, range, g)) <=>
               \E j \in 1..Len(regions) : a \in places[j]
    BY <1>1, <1>3, <1>4, Zenon
  <1> QED BY <1>8, <1>9, Zenon DEF al

\* begin_search reports occurrences of what was typed and nothing else, none twice, and all
\* of them when it was neither stopped nor lost its connection: whatever the regions, their
\* start and size, the alignment of the type, and the pages that cannot be read.
THEOREM FindsTypedAlways == Spec => []FindsTyped
  <1>1. IInv => FindsTyped
    <2> DEFINE all == Occurrences(Meaning(typed), Alignment(typed))
    <2> SUFFICES ASSUME IInv, before = <<>>, pc \in {"regions", "done"}, Plain(typed)
                 PROVE  /\ ToSet(results) \subseteq all /\ IsInjective(results)
                        /\ pc = "done" /\ ok /\ stay_running => all \subseteq ToSet(results)
      BY DEF FindsTyped
    <2>0. TypeInv /\ Stages /\ FoundInv BY DEF IInv
    <2>1. pattern = Meaning(typed) BY IInvPatternIsTyped DEF PatternIsTyped
    <2>2. regions \in Layouts BY <2>0 DEF Stages
    <2>3. \A a : a \in all <=> \E j \in 1..Len(regions) : a \in places[j] BY <2>0, <2>1, <2>2, PlacesAll
    <2> HIDE DEF all
    <2>4. PICK n \in Nat : n <= Len(regions) /\ Sound(places, results, n)
      <3>1. CASE pc = "done" BY <2>0, <2>2, <3>1, LayoutFacts DEF FoundInv
      <3>2. CASE pc = "regions"
        <4>1. todo \in Seq(Region) /\ Rest(todo, regions) BY <2>0, <3>2 DEF Stages
        <4>2. Len(todo) \in Nat /\ Len(regions) \in Nat /\ Len(todo) <= Len(regions) BY <2>2, <4>1, LayoutFacts DEF Rest
        <4>3. Len(regions) - Len(todo) \in Nat /\ Len(regions) - Len(todo) <= Len(regions) BY <4>2
        <4>4. Sound(places, results, Len(regions) - Len(todo)) BY <2>0, <3>2 DEF FoundInv
        <4> QED BY <4>3, <4>4
      <3> QED BY <3>1, <3>2
    <2>5. results \in Seq(DOMAIN ram) /\ DOMAIN ram \subseteq Nat BY <2>0, MemoryFacts DEF TypeInv
    <2>6. DOMAIN results = 1..Len(results) /\ Len(results) \in Nat /\ \A k \in 1..Len(results) : results[k] \in Nat
      BY <2>5, ElementOf
    <2>7. ToSet(results) \subseteq all
      <3>1. Len(regions) \in Nat BY <2>2, LayoutFacts
      <3>2. \A j \in 1..n : j \in 1..Len(regions) BY <2>4, <3>1
      <3>3. \A k \in 1..Len(results) : \E j \in 1..n : results[k] \in places[j] BY <2>4 DEF Sound
      <3> QED BY <2>3, <2>6, <3>2, <3>3 DEF ToSet
    <2>8. IsInjective(results)
      <3> SUFFICES ASSUME NEW i \in 1..Len(results), NEW k \in 1..Len(results), results[i] = results[k]
                   PROVE  i = k
        BY <2>6, Zenon DEF IsInjective
      <3>1. \A x, y \in 1..Len(results) : x < y => results[x] < results[y] BY <2>4 DEF Sound
      <3>2. ASSUME i < k PROVE FALSE BY <2>6, <3>1, <3>2
      <3>3. ASSUME k < i PROVE FALSE BY <2>6, <3>1, <3>3
      <3> QED BY <2>6, <3>2, <3>3
    <2>9. ASSUME pc = "done", ok, stay_running PROVE all \subseteq ToSet(results)
      <3>1. \A j \in 1..Len(regions) : places[j] \subseteq ToSet(results) BY <2>0, <2>9 DEF FoundInv, Complete
      <3> QED BY <2>3, <3>1
    <2> QED BY <2>7, <2>8, <2>9
  <1> QED BY <1>1, Invariant, PTL

\* continue_search keeps the addresses that match now, in their order, and no others.
THEOREM KeepsMatchingAlways == Spec => []KeepsMatching
  <1>1. IInv => KeepsMatching
    <2> DEFINE P == Kept(ram, pattern, before, Len(before))
               K == {i \in DOMAIN before : MatchesAt(ram, pattern, before[i])}
    <2> SUFFICES ASSUME IInv, before # <<>>, pc \in {"addresses", "done"}
                 PROVE  /\ ToSet(results) \subseteq ToSet(Picked(before, K))
                        /\ pc = "done" /\ ok /\ stay_running /\ pattern # <<>> => results = Picked(before, K)
      BY Zenon DEF KeepsMatching, MatchesAt
    <2>0. TypeInv /\ Stages /\ KeptInv BY DEF IInv
    <2>1. before \in Seq(DOMAIN ram) /\ DOMAIN before = 1..Len(before) /\ Len(before) \in Nat
      <3>1. before \in Seq(DOMAIN ram) BY <2>0 DEF TypeInv
      <3> QED BY <3>1, ElementOf
    <2>2. K = P BY <2>1, Zenon DEF Kept
    <2>3. P \in SUBSET (1..Len(before)) BY DEF Kept
    <2>4. ToSet(Picked(before, P)) = {before[i] : i \in P} BY <2>1, <2>3, PickedFacts
    <2>5. ToSet(results) \subseteq {before[i] : i \in P}
      <3>1. CASE pc = "done" BY <2>0, <3>1 DEF KeptInv
      <3>2. CASE pc = "addresses"
        <4> DEFINE Q == Kept(ram, pattern, before, Len(before) - Len(todo))
        <4>1. todo \in Seq(DOMAIN ram) /\ Rest(todo, before) BY <2>0, <3>2 DEF Stages
        <4>2. Len(todo) \in Nat BY <4>1
        <4>3. \A i \in 1..(Len(before) - Len(todo)) : i \in 1..Len(before) BY <2>1, <4>2
        <4>4. Q \subseteq P BY <4>3 DEF Kept
        <4>5. ToSet(results) \subseteq {before[i] : i \in Q} BY <2>0, <3>2 DEF KeptInv
        <4> HIDE DEF Q, P
        <4> QED BY <4>4, <4>5
      <3> QED BY <3>1, <3>2
    <2>6. pc = "done" /\ ok /\ stay_running /\ pattern # <<>> => results = Picked(before, P) BY <2>0 DEF KeptInv
    <2> QED BY <2>2, <2>4, <2>5, <2>6
  <1> QED BY <1>1, Invariant, PTL

\* Only a region that gave fewer bytes than the pattern has makes the scan leave the data.
THEOREM OverreadOnlyShortAlways == Spec => []OverreadOnlyShort
  <1>1. IInv => OverreadOnlyShort BY DEF IInv
  <1> QED BY <1>1, Invariant, PTL
=============================================================================
