-------------------------- MODULE MemoryEditor_proofs --------------------------
(***************************************************************************)
(* Proofs about MemoryEditor: that the width of the view is a power of 2,  *)
(* which cells and rows can be read beyond their bytes, and which edits    *)
(* are reported, for every set of types and their widths, of results,      *)
(* every height and every size of an int.                                  *)
(***************************************************************************)
EXTENDS MemoryEditor, TLAPS

-----------------------------------------------------------------------------
(* Powers of 2.                                                            *)

\* 1 is one, and so is the double of one that an int can hold.
LEMMA Doubles ==
    /\ 1 \in Powers /\ Powers \subseteq 1..(IntSpan - 1)
    /\ \A n \in Powers : 2 * n < IntSpan => 2 * n \in Powers
  <1>1. 1 \in 1..(IntSpan - 1) BY EditorAssumption DEF Powers
  <1>2. ASSUME NEW n \in Powers, 2 * n < IntSpan PROVE 2 * n \in Powers
    <2>1. n \in 1..(IntSpan - 1) /\ 2 * n \in 1..(IntSpan - 1)
      BY <1>2, EditorAssumption DEF Powers
    <2>2. ASSUME NEW P \in SUBSET (1..(IntSpan - 1)), 1 \in P, \A k \in P : 2 * k < IntSpan => 2 * k \in P
          PROVE  2 * n \in P
      <3>1. n \in P BY <2>2 DEF Powers
      <3> QED BY <1>2, <2>2, <3>1
    <2> QED BY <2>1, <2>2 DEF Powers
  <1>3. Powers \subseteq 1..(IntSpan - 1) BY DEF Powers
  <1>4. 1 \in Powers BY <1>1 DEF Powers
  <1> QED BY <1>2, <1>3, <1>4

\* There are no others: what holds of 1 and is kept by doubling holds of them all.
LEMMA Doubling ==
    ASSUME NEW P, 1 \in P, \A n \in Powers : n \in P /\ 2 * n < IntSpan => 2 * n \in P
    PROVE  Powers \subseteq P
  <1> DEFINE Q == P \cap Powers
  <1>1. Q \in SUBSET (1..(IntSpan - 1)) /\ 1 \in Q BY Doubles
  <1>2. \A k \in Q : 2 * k < IntSpan => 2 * k \in Q BY Doubles
  <1> HIDE DEF Q
  <1>3. \A n \in Powers : n \in Q BY <1>1, <1>2 DEF Powers
  <1> QED BY <1>3 DEF Q

\* Half of one is one.
LEMMA Halves == \A n \in Powers : n = 1 \/ \E m \in Powers : n = 2 * m
  <1> DEFINE P == {n \in Powers : n = 1 \/ \E m \in Powers : n = 2 * m}
  <1>1. 1 \in P BY Doubles
  <1>2. \A n \in Powers : n \in P /\ 2 * n < IntSpan => 2 * n \in P BY Doubles
  <1> HIDE DEF P
  <1>3. Powers \subseteq P BY <1>1, <1>2, Doubling
  <1> QED BY <1>3 DEF P

\* The lesser of two divides the greater.
LEMMA Divides == \A m, n \in Powers : m <= n => \E q \in Nat \ {0} : n = q * m
  <1> DEFINE P == {n \in Powers : \A m \in Powers : m <= n => \E q \in Nat \ {0} : n = q * m}
  <1>0. Powers \subseteq Nat \ {0} BY Doubles, EditorAssumption
  <1>1. 1 \in P
    <2>1. ASSUME NEW m \in Powers, m <= 1 PROVE 1 = 1 * m BY <1>0, <2>1
    <2> QED BY <2>1, Doubles
  <1>2. ASSUME NEW n \in Powers, n \in P, 2 * n < IntSpan PROVE 2 * n \in P
    <2>1. ASSUME NEW m \in Powers, m <= 2 * n PROVE \E q \in Nat \ {0} : 2 * n = q * m
      <3>1. CASE m <= n
        <4>1. PICK q \in Nat \ {0} : n = q * m BY <1>2, <3>1
        <4>2. 2 * q \in Nat \ {0} /\ 2 * n = (2 * q) * m BY <1>0, <4>1
        <4> QED BY <4>2
      <3>2. CASE n < m
        <4>1. PICK l \in Powers : m = 2 * l BY <1>0, <3>2, Halves
        <4>2. l <= n BY <1>0, <2>1, <4>1
        <4>3. PICK q \in Nat \ {0} : n = q * l BY <1>2, <4>2
        <4>4. q = 1
          <5>1. ASSUME q >= 2 PROVE FALSE
            <6>1. q * l >= 2 * l BY <1>0, <5>1
            <6> QED BY <1>0, <3>2, <4>1, <4>3, <6>1
          <5> QED BY <5>1
        <4>5. 2 * n = 1 * m BY <1>0, <4>1, <4>3, <4>4
        <4> QED BY <4>5
      <3> QED BY <1>0, <3>1, <3>2
    <2> QED BY <1>2, <2>1, Doubles
  <1> HIDE DEF P
  <1>3. Powers \subseteq P BY <1>1, <1>2, Doubling
  <1> QED BY <1>3 DEF P

\* Between one and its double there is none.
LEMMA Apart == \A m, n \in Powers : m < n => 2 * m <= n
  <1> SUFFICES ASSUME NEW m \in Powers, NEW n \in Powers, m < n PROVE 2 * m <= n
    OBVIOUS
  <1>1. m \in Nat \ {0} /\ n \in Nat \ {0} BY Doubles, EditorAssumption
  <1>2. PICK q \in Nat \ {0} : n = q * m BY <1>1, Divides
  <1>3. q # 1 BY <1>1, <1>2
  <1>4. q * m >= 2 * m BY <1>1, <1>3
  <1> QED BY <1>1, <1>2, <1>4

\* The greatest one is half of what an int cannot hold.
LEMMA Greatest == \A n \in Powers : n \in Nat \ {0} /\ 2 * n <= IntSpan
  <1>1. PICK g \in Powers : IntSpan = 2 * g BY EditorAssumption
  <1>2. Powers \subseteq Nat \ {0} /\ Powers \subseteq 1..(IntSpan - 1) BY Doubles, EditorAssumption
  <1>3. ASSUME NEW n \in Powers PROVE n <= g BY <1>1, <1>2, Apart
  <1> QED BY <1>1, <1>2, <1>3

\* The loop that doubles 1 until it is not below v ends at one of them.
LEMMA PowerFromPowers ==
    ASSUME NEW v \in Int, ~Endless(v)
    PROVE  PowerFrom(v) \in Powers
  <1> DEFINE S == {n \in Powers : n >= v}
             Least(x) == x \in S /\ \A y \in S : x <= y
             P == {n \in Powers : n < v \/ \E x \in S : Least(x)}
  <1>0. Powers \subseteq Nat \ {0} BY Greatest
  <1>1. 1 \in P
    <2>1. CASE 1 < v BY <2>1, Doubles
    <2>2. CASE 1 >= v
      <3>1. Least(1) BY <1>0, <2>2, Doubles
      <3> QED BY <3>1, Doubles
    <2> QED BY <2>1, <2>2
  <1>2. ASSUME NEW n \in Powers, n \in P, 2 * n < IntSpan PROVE 2 * n \in P
    <2>0. 2 * n \in Powers BY <1>2, Doubles
    <2>1. CASE \E x \in S : Least(x) BY <2>0, <2>1
    <2>2. CASE n < v /\ 2 * n >= v
      <3>1. ASSUME NEW y \in S PROVE 2 * n <= y BY <1>0, <2>2, <3>1, Apart
      <3>2. Least(2 * n) BY <2>0, <2>2, <3>1
      <3> QED BY <2>0, <3>2
    <2>3. CASE 2 * n < v BY <2>0, <2>3
    <2> QED BY <1>0, <1>2, <2>1, <2>2, <2>3
  <1>3. PICK g \in Powers : IntSpan = 2 * g BY EditorAssumption
  <1>4. g >= v BY <1>0, <1>3 DEF Endless
  <1>5. g \in P
    <2> HIDE DEF P
    <2> QED BY <1>1, <1>2, <1>3, Doubling
  <1>6. PICK x \in S : \A y \in S : x <= y BY <1>0, <1>4, <1>5
  <1>7. PowerFrom(v) \in S
    <2> HIDE DEF S
    <2>1. Min(S) \in S BY <1>6 DEF Min
    <2> QED BY <2>1 DEF PowerFrom, S
  <1> QED BY <1>7

\* The width of a type is one.
LEMMA Sizes == \A t \in Types : TypeSize[t] \in Powers /\ TypeSize[t] \in Nat \ {0}
  BY EditorAssumption, Greatest

-----------------------------------------------------------------------------
(* The rows of the results. *)

Entry == [valid : BOOLEAN, len : Nat, type : Types, fresh : BOOLEAN]

\* An entry with the bytes of its type, if it is valid.
Whole(e) == e.valid = TRUE => TypeSize[e.type] <= e.len

\* The cache, as long as the GUI has not met the end of a row's bytes.
RowsInv ==
    /\ data_type \in Types
    /\ cache \in [Results -> Entry \cup {Nothing}]
    /\ fault = "none" => \A r \in Results : Whole(cache[r])

\* A missing entry is neither valid nor fresh.
LEMMA Missing == Nothing.valid = FALSE /\ Nothing.fresh = FALSE
  BY DEF Nothing

\* A row is read again with the type the user gave it, or with that of the search.
LEMMA TypeOfTypes ==
    ASSUME data_type \in Types, NEW e \in Entry \cup {Nothing}
    PROVE  TypeOf(e) \in Types /\ TypeSize[TypeOf(e)] \in Nat
  <1>1. TypeOf(e) \in Types BY DEF TypeOf, Entry
  <1> QED BY <1>1, Sizes

\* What a row is drawn from is an entry with the bytes of its type, which is the one
\* the row had.
LEMMA EntriesFacts ==
    ASSUME data_type \in Types, NEW e \in Entry \cup {Nothing}, Whole(e), NEW f \in Entries(e)
    PROVE  f \in Entry /\ Whole(f) /\ f.type = TypeOf(e)
  <1>1. CASE e.fresh
    <2>1. f = e BY <1>1 DEF Entries
    <2>2. e # Nothing BY <1>1, Missing
    <2> QED BY <2>1, <2>2 DEF TypeOf
  <1>2. CASE ~e.fresh
    <2>1. TypeOf(e) \in Types /\ TypeSize[TypeOf(e)] \in Nat BY TypeOfTypes
    <2>2. PICK n \in ReadLengths(TypeSize[TypeOf(e)]) : f = Fetched(e, n) BY <1>2 DEF
         Entries
    <2>3. n \in Nat BY <2>1, <2>2 DEF ReadLengths
    <2> DEFINE v == n = TypeSize[TypeOf(e)]
    <2>4. v \in BOOLEAN OBVIOUS
    <2>5. v = TRUE => n = TypeSize[TypeOf(e)] OBVIOUS
    <2> HIDE DEF v
    <2>6. f = [valid |-> v, len |-> n, type |-> TypeOf(e), fresh |-> TRUE]
      BY <2>2, Zenon DEF Fetched, v
    <2>7. f \in Entry /\ f.valid = v /\ f.len = n /\ f.type = TypeOf(e)
      BY <2>1, <2>3, <2>4, <2>6 DEF Entry
    <2> QED BY <2>1, <2>5, <2>7 DEF Whole
  <1> QED BY <1>1, <1>2

\* What a row's fault says of its entry.
LEMMA RowFaults ==
    ASSUME NEW e \in Entry
    PROVE  /\ RowFault(e) = "row" => TypeSize[e.type] > e.len /\ e.valid = TRUE
           /\ RowFault(e) = "none" => Whole(e)
           /\ RowFault(e) # "compare"
           /\ RowEditFault(e) # "row"
           /\ RowEditFault(e) = "compare" => TypeSize[e.type] > e.len
  <1>1. e.valid \in BOOLEAN /\ e.len \in Nat /\ e.type \in Types /\ TypeSize[e.type] \in Nat
    BY Sizes DEF Entry
  <1>2. /\ RowFault(e) = "row" => TypeSize[e.type] > e.len /\ e.valid
        /\ RowFault(e) = "none" => ~(e.valid /\ TypeSize[e.type] > e.len)
        /\ RowFault(e) # "compare"
    BY DEF RowFault
  <1>3. /\ RowEditFault(e) # "row"
        /\ RowEditFault(e) = "compare" => TypeSize[e.type] > e.len
    BY DEF RowEditFault
  <1> QED BY <1>1, <1>2, <1>3 DEF Whole

\* The editor's own faults are others.
LEMMA CellFaults ==
    ASSUME NEW w, NEW t, NEW len
    PROVE  CellFault(w, t, len) \notin {"row", "compare"}
  BY DEF CellFault

\* A row is drawn: it is beyond its bytes only with a type that it did not have.
LEMMA DrawRowStep ==
    ASSUME RowsInv, DrawRow
    PROVE  /\ RowsInv'
           /\ fault' = "row" => \E r \in Results : cache'[r].type # TypeOf(cache[r])
           /\ fault' # "compare"
  <1>0. PICK r \in Results : \E e \in Entries(cache[r]), t \in Types :
           /\ cache' = [cache EXCEPT ![r] = [e EXCEPT !.type = t]]
           /\ fault' = RowFault([e EXCEPT !.type = t])
    BY DEF DrawRow
  <1>1. PICK e \in Entries(cache[r]), t \in Types :
           /\ cache' = [cache EXCEPT ![r] = [e EXCEPT !.type = t]]
           /\ fault' = RowFault([e EXCEPT !.type = t])
    BY <1>0
  <1>2. data_type \in Types /\ cache[r] \in Entry \cup {Nothing} /\ Whole(cache[r]) /\ data_type' = data_type
    BY DEF RowsInv, DrawRow
  <1>3. e \in Entry /\ Whole(e) /\ e.type = TypeOf(cache[r]) BY <1>2, EntriesFacts
  <1> DEFINE f == [e EXCEPT !.type = t]
  <1>4. f \in Entry /\ f.type = t /\ f.len = e.len /\ f.valid = e.valid BY <1>3 DEF Entry
  <1>5. cache' = [cache EXCEPT ![r] = f] /\ fault' = RowFault(f) BY <1>1
  <1> HIDE DEF f
  <1>6. cache' \in [Results -> Entry \cup {Nothing}] /\ cache'[r] = f
        /\ \A s \in Results \ {r} : cache'[s] = cache[s]
    BY <1>4, <1>5 DEF RowsInv
  <1>7. fault' = "none" => \A s \in Results : Whole(cache[s])'
    <2> SUFFICES ASSUME fault' = "none", NEW s \in Results PROVE Whole(cache[s])'
      OBVIOUS
    <2>1. Whole(f) BY <1>4, <1>5, RowFaults
    <2>2. Whole(cache[s]) \/ s = r BY DEF RowsInv, DrawRow
    <2> QED BY <1>6, <2>1, <2>2 DEF Whole
  <1>8. fault' = "row" => t # TypeOf(cache[r])
    <2> SUFFICES ASSUME fault' = "row", t = TypeOf(cache[r]) PROVE FALSE
      OBVIOUS
    <2>1. TypeSize[t] > e.len /\ e.valid = TRUE BY <1>4, <1>5, RowFaults
    <2>2. TypeSize[t] <= e.len BY <1>3, <2>1 DEF Whole
    <2>3. e.len \in Nat /\ TypeSize[t] \in Nat BY <1>3, Sizes DEF Entry
    <2> QED BY <2>1, <2>2, <2>3
  <1> QED BY <1>2, <1>4, <1>5, <1>6, <1>7, <1>8, RowFaults DEF RowsInv

\* A value is confirmed in a row: it is compared with bytes that the row does not have
\* only if none could be read.
LEMMA EnterRowStep ==
    ASSUME RowsInv, EnterRow
    PROVE  /\ RowsInv'
           /\ fault' # "row"
           /\ fault' = "compare" => \E r \in Results : cache[r] # Nothing /\ ~cache[r].valid
  <1>1. fault = "none" /\ cache' = cache /\ data_type' = data_type BY DEF EnterRow, rows
  <1>2. RowsInv' BY <1>1 DEF RowsInv, Whole
  <1>3. PICK r \in Results : cache[r] # Nothing /\ (fault' = fault \/ fault' = RowEditFault(cache[r]))
    BY DEF EnterRow
  <1>4. cache[r] \in Entry /\ Whole(cache[r]) BY <1>1, <1>3 DEF RowsInv
  <1>5. fault' = "compare" => TypeSize[cache[r].type] > cache[r].len BY <1>1, <1>3, <1>4,
       RowFaults
  <1>6. fault' # "row" BY <1>1, <1>3, <1>4, RowFaults
  <1>7. /\ cache[r].len \in Nat /\ TypeSize[cache[r].type] \in Nat /\ cache[r].valid \in BOOLEAN
    BY <1>4, Sizes DEF Entry
  <1>8. fault' = "compare" => cache[r].valid # TRUE
    <2> SUFFICES ASSUME fault' = "compare", cache[r].valid = TRUE PROVE FALSE
      OBVIOUS
    <2>1. TypeSize[cache[r].type] <= cache[r].len BY <1>4 DEF Whole
    <2> QED BY <1>5, <1>7, <2>1
  <1> QED BY <1>2, <1>3, <1>6, <1>7, <1>8

\* Every other step leaves the cache whole, and meets no end of a row.
LEMMA OtherSteps ==
    ASSUME RowsInv, [Next]_vars, ~DrawRow, ~EnterRow
    PROVE  RowsInv' /\ (UNCHANGED fault \/ fault' \notin {"row", "compare"})
  <1>1. CASE InputWidth \/ SelectType \/ MoveView \/ Tick
    <2>1. UNCHANGED rows /\ fault = "none" /\ fault' \notin {"row", "compare"}
      BY <1>1, CellFaults DEF InputWidth, SelectType, MoveView, Tick, Draw
    <2> QED BY <2>1 DEF rows, RowsInv, Whole
  <1>2. CASE \E r \in Results : SelectRow(r)
    <2>1. UNCHANGED rows /\ fault = "none" /\ fault' \notin {"row", "compare"}
      BY <1>2, CellFaults DEF SelectRow, Draw
    <2> QED BY <2>1 DEF rows, RowsInv, Whole
  <1>3. CASE Click \/ Escape \/ Enter \/ Reopen \/ Lose \/ UNCHANGED vars
    <2>1. UNCHANGED rows /\ UNCHANGED fault
      BY <1>3 DEF Click, Escape, Enter, Reopen, Lose, vars
    <2> QED BY <2>1 DEF rows, RowsInv, Whole
  <1>4. CASE Age
    <2>1. PICK r \in Results : cache' = [cache EXCEPT ![r].fresh = FALSE] /\ cache[r].fresh
      BY <1>4 DEF Age
    <2>2. fault = "none" /\ fault' = fault /\ data_type' = data_type BY <1>4 DEF Age
    <2>3. cache[r] \in Entry BY <2>1, Missing DEF RowsInv
    <2> DEFINE f == [cache[r] EXCEPT !.fresh = FALSE]
    <2>4. f \in Entry /\ f.type = cache[r].type /\ f.len = cache[r].len /\ f.valid = cache[r].valid
      BY <2>3 DEF Entry
    <2>5. cache' = [cache EXCEPT ![r] = f] BY <2>1
    <2> HIDE DEF f
    <2>6. cache' \in [Results -> Entry \cup {Nothing}] /\ cache'[r] = f
          /\ \A s \in Results \ {r} : cache'[s] = cache[s]
      BY <2>4, <2>5 DEF RowsInv
    <2>7. ASSUME NEW s \in Results PROVE Whole(cache[s])'
      <3>1. Whole(cache[s]) BY <2>2 DEF RowsInv
      <3> QED BY <2>4, <2>6, <3>1 DEF Whole
    <2> QED BY <2>2, <2>6, <2>7 DEF RowsInv
  <1>5. CASE SearchType
    <2>1. /\ data_type' \in Types /\ cache' = [r \in Results |-> Nothing]
          /\ UNCHANGED fault
      BY <1>5 DEF SearchType
    <2> QED BY <2>1, Missing DEF RowsInv, Whole
  <1> QED BY <1>1, <1>2, <1>3, <1>4, <1>5 DEF Next

\* An edit of which the caller compares the result with the size is reported exactly if
\* not all of it was written, unless the call fails.
LEMMA WriteStep ==
    ASSUME NEW size, Write(size)
    PROVE  /\ ok' = ok \/ ok' = FALSE
           /\ edited' \in [whole : BOOLEAN, reported : BOOLEAN]
           /\ EditReported'
  <1>1. CASE ok /\ UNCHANGED ok
           /\ \E ret \in WriteResults(size) :
                 edited' = [whole |-> ret = size, reported |-> Failed(ret, size)]
    <2>1. PICK ret \in WriteResults(size) : edited' = [whole |-> ret = size, reported |-> Failed(ret, size)]
      BY <1>1
    <2> DEFINE w == ret = size
    <2>2. w \in BOOLEAN OBVIOUS
    <2>3. edited' = [whole |-> w, reported |-> ~w] BY <2>1, Zenon DEF Failed
    <2> HIDE DEF w
    <2> QED BY <1>1, <2>2, <2>3 DEF EditReported
  <1>2. CASE ok' = FALSE
           /\ \E ret, any \in WriteResults(size) :
                 edited' = [whole |-> ret = size, reported |-> Failed(any, size)]
    <2>1. PICK ret \in WriteResults(size), any \in WriteResults(size) :
             edited' = [whole |-> ret = size, reported |-> Failed(any, size)]
      BY <1>2
    <2> DEFINE w == ret = size
               r == any # size
    <2>2. w \in BOOLEAN /\ r \in BOOLEAN OBVIOUS
    <2>3. edited' = [whole |-> w, reported |-> r] BY <2>1, Zenon DEF Failed
    <2> HIDE DEF w, r
    <2> QED BY <1>2, <2>2, <2>3 DEF EditReported
  <1> QED BY <1>1, <1>2, Zenon DEF Write

\* What every step makes of the last edit.
LEMMA EditStep ==
    ASSUME EditReported, ok \in BOOLEAN, edited \in [whole : BOOLEAN, reported : BOOLEAN], [Next]_vars
    PROVE  /\ ok' \in BOOLEAN
           /\ edited' \in [whole : BOOLEAN, reported : BOOLEAN]
           /\ EditReported'
  <1>1. CASE UNCHANGED <<ok, edited>>
    BY <1>1 DEF EditReported
  <1>2. CASE \E size : Write(size)
    BY <1>2, WriteStep
  <1>3. CASE Refuse
    BY <1>3 DEF Refuse, EditReported
  <1>4. CASE Lose
    BY <1>4 DEF Lose, EditReported
  <1>5. CASE Enter
    BY <1>2, <1>3, <1>5 DEF Enter
  <1>6. CASE EnterRow
    BY <1>1, <1>2, <1>3, <1>6 DEF EnterRow
  <1>7. CASE ~Lose /\ ~Enter /\ ~EnterRow
    BY <1>1, <1>7 DEF Next, vars, rows, InputWidth, SelectType, MoveView, Click, Escape,
       Tick, Reopen, DrawRow, SelectRow, Age, SearchType
  <1> QED BY <1>4, <1>5, <1>6, <1>7

-----------------------------------------------------------------------------
(* The cells of the editor. *)

\* The width of the view, until the GUI has computed with an int too great for it: a
\* power of 2, and so is the step that its buttons add and subtract.
WidthInv ==
    /\ view_width \in Nat \ {0} /\ view_width_step \in Nat \ {0}
    /\ fault # "overflow" => view_width \in Powers /\ view_width_step \in Powers

ViewInv == view_addr \in 0..(Space - 1) /\ view \in [at : 0..(Space - 1), len : Nat]

\* The step is one after every input.
LEMMA HalfPowers ==
    \A n \in Nat \ {0} : Half(n) \in Nat \ {0} /\ (n \in Powers => Half(n) \in Powers)
  <1> SUFFICES ASSUME NEW n \in Nat \ {0}
               PROVE  Half(n) \in Nat \ {0} /\ (n \in Powers => Half(n) \in Powers)
    OBVIOUS
  <1>1. Half(n) \in Nat \ {0} BY DEF Half
  <1>2. ASSUME n \in Powers, n # 1 PROVE Half(n) \in Powers
    <2>1. PICK m \in Powers : n = 2 * m BY <1>2, Halves
    <2>2. m \in Nat \ {0} BY Greatest
    <2>3. n \div 2 = m BY <2>1, <2>2
    <2> QED BY <1>2, <2>1, <2>3 DEF Half
  <1>3. n = 1 => Half(n) \in Powers BY Doubles DEF Half
  <1> QED BY <1>1, <1>2, <1>3

\* The width that an input makes is one, if the cells it asks for can be counted.
LEMMA NewWidthPowers ==
    ASSUME NEW v \in Int, NEW s \in Powers, Endless(v) => IsAdd(v, s)
    PROVE  /\ NewWidth(v, s) \in Nat \ {0}
           /\ NewWidth(v, s) * Height < IntSpan => NewWidth(v, s) \in Powers
  <1>1. s \in Nat \ {0} /\ Height \in Nat \ {0} /\ IntSpan \in Nat BY Greatest, EditorAssumption
  <1>2. CASE IsAdd(v, s)
    <2> DEFINE w == 4 * s
    <2>1. NewWidth(v, s) = w BY <1>1, <1>2 DEF NewWidth, IsAdd
    <2>2. ASSUME w * Height < IntSpan PROVE w \in Powers
      <3>1. w * Height >= w BY <1>1
      <3>2. 2 * s < IntSpan /\ 2 * (2 * s) < IntSpan BY <1>1, <2>2, <3>1
      <3>3. 2 * (2 * s) \in Powers BY <3>2, Doubles
      <3> QED BY <1>1, <3>3
    <2>3. w \in Nat \ {0} BY <1>1
    <2> QED BY <2>1, <2>2, <2>3
  <1>3. CASE ~IsAdd(v, s) /\ v = s BY <1>1, <1>3 DEF NewWidth
  <1>4. CASE ~IsAdd(v, s) /\ v # s
    <2>1. NewWidth(v, s) = PowerFrom(v) BY <1>4 DEF NewWidth
    <2>2. PowerFrom(v) \in Powers BY <1>4, PowerFromPowers
    <2> QED BY <2>1, <2>2, Greatest
  <1> QED BY <1>2, <1>3, <1>4

\* A number in steps of d that is below another one leaves a whole step.
LEMMA WholeSteps ==
    ASSUME NEW d \in Nat \ {0}, NEW a \in Nat, NEW b \in Nat, d * a < d * b
    PROVE  d * a + d <= d * b
  <1>1. a < b
    <2>1. ASSUME b <= a PROVE FALSE
      <3>1. PICK k \in Nat : a = b + k
        <4>1. a = b + (a - b) /\ a - b \in Nat BY <2>1
        <4> QED BY <4>1
      <3>2. d * a = d * b + d * k /\ d * k \in Nat /\ d * b \in Nat BY <3>1
      <3> QED BY <3>2
    <2> QED BY <2>1
  <1>2. PICK k \in Nat : b = a + 1 + k
    <2>1. b = a + 1 + (b - a - 1) /\ b - a - 1 \in Nat BY <1>1
    <2> QED BY <2>1
  <1>3. d * b = d * a + d + d * k /\ d * k \in Nat /\ d * a \in Nat BY <1>2
  <1> QED BY <1>3

\* A number without a remainder is a product.
LEMMA Product ==
    ASSUME NEW d \in Nat \ {0}, NEW n \in Nat, n % d = 0
    PROVE  \E q \in Nat : n = d * q
  <1>1. n = d * (n \div d) + (n % d) /\ n \div d \in Nat OBVIOUS
  <1> QED BY <1>1

\* The cells of rows no narrower than an element are elements themselves.
LEMMA CellsWhole ==
    ASSUME NEW w \in Powers, NEW t \in Types, NEW len \in Nat, TypeSize[t] <= w,
           len % TypeSize[t] = 0, NEW c \in Drawn(w, t, len)
    PROVE  c + TypeSize[t] <= len
  <1> DEFINE d == TypeSize[t]
  <1>0. d \in Nat \ {0} /\ d \in Powers /\ w \in Nat \ {0} BY Sizes, Greatest
  <1>1. PICK i \in 0..(Height - 1), j \in {k \in 0..(w - 1) : k % d = 0} : c = i * w + j
    BY DEF Drawn, Cells
  <1>2. i \in Nat /\ j \in Nat /\ j % d = 0 /\ c < len BY <1>0, <1>1, EditorAssumption DEF Drawn
  <1> HIDE DEF d
  <1>3. PICK q \in Nat \ {0} : w = q * d BY <1>0, Divides DEF d
  <1>4. PICK a \in Nat : j = d * a BY <1>0, <1>2, Product
  <1>5. PICK b \in Nat : len = d * b BY <1>0, Product DEF d
  <1> DEFINE e == i * q + a
  <1>6. i * q \in Nat BY <1>2, <1>3
  <1>7. e \in Nat BY <1>6
  <1>8. c = d * e
    <2>1. i * w = d * (i * q) BY <1>0, <1>2, <1>3
    <2>2. d * (i * q + a) = d * (i * q) + d * a BY <1>0, <1>6
    <2> QED BY <1>1, <1>4, <2>1, <2>2
  <1> HIDE DEF e
  <1>9. d * e + d <= d * b BY <1>0, <1>2, <1>5, <1>7, <1>8, WholeSteps
  <1> QED BY <1>5, <1>8, <1>9 DEF d

\* What the editor's fault says of the width and of what was read.
LEMMA CellFaultFacts ==
    ASSUME NEW w \in Nat \ {0}, NEW t \in Types, NEW len \in Nat, w * Height < IntSpan => w \in Powers
    PROVE  /\ CellFault(w, t, len) # "overflow" => w \in Powers
           /\ CellFault(w, t, len) = "cell" => w < TypeSize[t] \/ len % TypeSize[t] # 0
           /\ CellFault(w, t, len) \in {"none", "overflow", "assert", "cell"}
  <1>1. w * Height \in Nat /\ IntSpan \in Nat BY EditorAssumption
  <1>2. CellFault(w, t, len) # "overflow" => w * Height < IntSpan
    <2>1. w * Height >= IntSpan => CellFault(w, t, len) = "overflow" BY DEF CellFault
    <2> QED BY <1>1, <2>1
  <1>3. CellFault(w, t, len) = "cell" => \E c \in Drawn(w, t, len) : c + TypeSize[t] > len
    BY DEF CellFault
  <1>4. CellFault(w, t, len) \in {"none", "overflow", "assert", "cell"} BY DEF CellFault
  <1>5. ASSUME CellFault(w, t, len) = "cell", ~(w < TypeSize[t]), len % TypeSize[t] = 0 PROVE FALSE
    <2>1. PICK c \in Drawn(w, t, len) : c + TypeSize[t] > len BY <1>3, <1>5
    <2>2. w \in Powers BY <1>2, <1>5
    <2>3. TypeSize[t] <= w BY <1>5, Sizes
    <2>4. c + TypeSize[t] <= len BY <1>5, <2>2, <2>3, CellsWhole
    <2>5. c \in Int
      <3>1. PICK i \in 0..(Height - 1), j \in {k \in 0..(w - 1) : k % TypeSize[t] = 0} : c = i * w + j
        BY <2>1 DEF Drawn, Cells
      <3> QED BY <3>1, EditorAssumption
    <2> QED BY <2>1, <2>4, <2>5, Sizes
  <1> QED BY <1>2, <1>4, <1>5, <1>1

\* What a refresh of the view may make of it.
LEMMA RefreshFacts ==
    ASSUME ViewInv, NEW addr \in 0..(Space - 1), NEW w \in Nat, NEW n \in ReadLengths(w * Height)
    PROVE  Refreshed(view, addr, n) \in [at : 0..(Space - 1), len : Nat]
  <1>1. n \in Nat BY EditorAssumption DEF ReadLengths
  <1>2. view.at \in 0..(Space - 1) /\ view.len \in Nat BY DEF ViewInv
  <1> QED BY <1>1, <1>2 DEF Refreshed

\* The view and its width stay what they are, and a cell is beyond the data only where
\* the width or the data are not whole elements.
LEMMA WidthStep ==
    ASSUME TypeOK, WidthInv, ViewInv, CellsFit, [Next]_vars
    PROVE  WidthInv' /\ ViewInv' /\ CellsFit'
  <1>0. view_data_type \in Types /\ view_addr \in 0..(Space - 1) /\ view \in [at : 0..(Space - 1), len : Nat]
    BY DEF TypeOK, ViewInv
  <1>1. CASE UNCHANGED <<where, view, fault>>
    BY <1>1 DEF where, WidthInv, ViewInv, CellsFit
  <1>2. ASSUME view_addr' \in 0..(Space - 1), view_data_type' \in Types, fault = "none",
               view' \in [at : 0..(Space - 1), len : Nat], Draw,
               view_width' \in Nat \ {0}, view_width_step' \in Nat \ {0},
               view_width' * Height < IntSpan => view_width' \in Powers,
               view_width' \in Powers => view_width_step' \in Powers
        PROVE  WidthInv' /\ ViewInv' /\ CellsFit'
    <2>1. view'.len \in Nat BY <1>2
    <2>2. /\ fault' # "overflow" => view_width' \in Powers
          /\ fault' = "cell" => view_width' < TypeSize[view_data_type'] \/ view'.len % TypeSize[view_data_type'] # 0
      BY <1>2, <2>1, CellFaultFacts DEF Draw
    <2> QED BY <1>2, <2>2 DEF WidthInv, ViewInv, CellsFit
  <1>3. CASE InputWidth
    <2>1. PICK u \in 0..(2 * IntSpan - 1) :
             \/ /\ fault' = "loop" /\ UNCHANGED where
             \/ /\ Endless(AsInt(u)) => IsAdd(AsInt(u), view_width_step)
                /\ view_width' = NewWidth(AsInt(u), view_width_step)
                /\ view_width_step' = Half(view_width')
                /\ UNCHANGED <<view_addr, view_data_type>>
                /\ Draw
      BY <1>3 DEF InputWidth
    <2>2. fault = "none" /\ view' = view /\ view_width \in Powers /\ view_width_step \in Powers
      BY <1>3 DEF InputWidth, WidthInv
    <2>3. CASE fault' = "loop" /\ UNCHANGED where
      BY <2>2, <2>3 DEF where, WidthInv, ViewInv, CellsFit
    <2>4. CASE /\ Endless(AsInt(u)) => IsAdd(AsInt(u), view_width_step)
               /\ view_width' = NewWidth(AsInt(u), view_width_step)
               /\ view_width_step' = Half(view_width')
               /\ UNCHANGED <<view_addr, view_data_type>>
               /\ Draw
      <3>1. AsInt(u) \in Int BY EditorAssumption DEF AsInt
      <3>2. /\ view_width' \in Nat \ {0}
            /\ view_width' * Height < IntSpan => view_width' \in Powers
        BY <2>2, <2>4, <3>1, NewWidthPowers
      <3>3. view_width_step' \in Nat \ {0} /\ (view_width' \in Powers => view_width_step' \in Powers)
        BY <2>4, <3>2, HalfPowers
      <3> QED BY <1>0, <1>2, <2>2, <2>4, <3>2, <3>3
    <2> QED BY <2>1, <2>3, <2>4
  <1>4. CASE SelectType \/ MoveView \/ \E r \in Results : SelectRow(r)
    <2>1. UNCHANGED <<view_width, view_width_step, view>> /\ Draw /\ fault = "none" /\ view_data_type' \in Types
      BY <1>0, <1>4 DEF SelectType, MoveView, SelectRow, TypeOK, Nothing
    <2>2. view_width \in Powers /\ view_width_step \in Powers BY <2>1 DEF WidthInv
    <2>3. view_addr' \in 0..(Space - 1)
      <3>1. CASE SelectType \/ MoveView BY <1>0, <3>1 DEF SelectType, MoveView
      <3>2. CASE \E r \in Results : SelectRow(r)
        <4>1. PICK r \in Results : view_addr' = r - (r % view_width) BY <3>2 DEF SelectRow
        <4>2. r \in 0..(Space - 1) /\ view_width \in Nat \ {0} BY <2>2, EditorAssumption, Greatest
        <4>3. r % view_width \in 0..r
          <5>1. r = view_width * (r \div view_width) + (r % view_width) /\ r \div view_width \in Nat
                /\ r % view_width \in Nat
            BY <4>2, EditorAssumption
          <5>2. view_width * (r \div view_width) \in Nat BY <4>2, <5>1
          <5> QED BY <4>2, <5>1, <5>2, EditorAssumption
        <4> QED BY <4>1, <4>2, <4>3, EditorAssumption
      <3> QED BY <1>4, <3>1, <3>2
    <2> QED BY <1>0, <1>2, <2>1, <2>2, <2>3, Greatest
  <1>5. CASE Tick
    <2>1. PICK n \in ReadLengths(view_width * Height) : view' = Refreshed(view, view_addr, n)
      BY <1>5 DEF Tick
    <2>2. UNCHANGED where /\ Draw /\ fault = "none" BY <1>5 DEF Tick
    <2>3. UNCHANGED <<view_addr, view_width, view_width_step, view_data_type>> BY <2>2 DEF where
    <2>4. view_width \in Powers /\ view_width_step \in Powers /\ view_width \in Nat \ {0}
          /\ view_width_step \in Nat \ {0}
      BY <2>2 DEF WidthInv
    <2>5. view' \in [at : 0..(Space - 1), len : Nat] BY <1>0, <2>1, <2>4, RefreshFacts
    <2> QED BY <1>0, <1>2, <2>2, <2>3, <2>4, <2>5
  <1>6. CASE Reopen
    <2>1. PICK n \in ReadLengths(StartWidth * Height) : view' = Refreshed(view, view_addr', n)
      BY <1>6 DEF Reopen
    <2>2. /\ view_addr' \in 0..(Space - 1) /\ view_width' = StartWidth /\ UNCHANGED view_width_step
          /\ fault = "none" /\ UNCHANGED fault
      BY <1>6, EditorAssumption DEF Reopen
    <2>3. StartWidth \in Powers /\ StartWidth \in Nat \ {0} BY EditorAssumption, Greatest
    <2>4. view' \in [at : 0..(Space - 1), len : Nat] BY <2>1, <2>2, <2>3, RefreshFacts
    <2> QED BY <2>2, <2>3, <2>4 DEF WidthInv, ViewInv, CellsFit
  <1>7. CASE DrawRow \/ EnterRow
    <2>1. UNCHANGED <<where, view>> /\ fault = "none" BY <1>7 DEF DrawRow, EnterRow
    <2>2. fault' # "cell"
      BY <1>7, <2>1 DEF DrawRow, EnterRow, RowFault, RowEditFault
    <2> QED BY <2>1, <2>2 DEF where, WidthInv, ViewInv, CellsFit
  <1>8. CASE Click \/ Escape \/ Enter \/ Age \/ SearchType \/ Lose \/ UNCHANGED vars
    BY <1>1, <1>8 DEF Click, Escape, Enter, Age, SearchType, Lose, vars
  <1> QED BY <1>3, <1>4, <1>5, <1>6, <1>7, <1>8 DEF Next

\* The kinds of values.
LEMMA TypeStep ==
    ASSUME TypeOK, EditReported, RowsInv, RowsInv', WidthInv', ViewInv', [Next]_vars
    PROVE  TypeOK'
  <1>1. ok' \in BOOLEAN /\ edited' \in [whole : BOOLEAN, reported : BOOLEAN]
    BY EditStep DEF TypeOK
  <1>2. view_data_type' \in Types
    <2>1. CASE UNCHANGED view_data_type BY <2>1 DEF TypeOK
    <2>2. CASE SelectType \/ Reopen \/ \E r \in Results : SelectRow(r)
      BY <2>2, EditorAssumption DEF SelectType, Reopen, SelectRow, TypeOK, Nothing
    <2>3. CASE ~SelectType /\ ~Reopen /\ ~\E r \in Results : SelectRow(r)
      BY <2>1, <2>3 DEF Next, vars, where, InputWidth, MoveView, Click, Escape, Enter, Tick, DrawRow,
         EnterRow, Age, SearchType, Lose
    <2> QED BY <2>2, <2>3
  <1>3. edit_addr' \in 0..(Space - 1)
    <2>1. CASE UNCHANGED edit_addr BY <2>1 DEF TypeOK
    <2>2. CASE edit_addr' = None BY <2>2, EditorAssumption DEF None
    <2>3. CASE Click
      <3>1. PICK c \in Drawn(view_width, view_data_type, view.len) : edit_addr' = (view_addr + c) % Space
        BY <2>3 DEF Click
      <3> DEFINE a == view_addr + c
      <3>2. a \in Int
        <4>1. PICK i \in 0..(Height - 1), j \in {k \in 0..(view_width - 1) : k % TypeSize[view_data_type] = 0} :
                 c = i * view_width + j
          BY <3>1 DEF Drawn, Cells
        <4>2. view_width \in Nat
          <5>1. view_width' = view_width BY <2>3 DEF Click, where
          <5> QED BY <5>1 DEF WidthInv
        <4> QED BY <4>1, <4>2, EditorAssumption DEF TypeOK
      <3> HIDE DEF a
      <3>3. a % Space \in 0..(Space - 1) BY <3>2, EditorAssumption
      <3> QED BY <3>1, <3>3 DEF a
    <2>4. CASE ~Click
      BY <2>1, <2>2, <2>4 DEF Next, vars, where, InputWidth, SelectType, MoveView, Escape, Enter, Tick,
         Reopen, DrawRow, SelectRow, EnterRow, Age, SearchType, Lose
    <2> QED BY <2>3, <2>4
  <1>4. fault' \in {"none", "overflow", "loop", "assert", "cell", "row", "compare"}
    <2>1. CASE UNCHANGED fault BY <2>1 DEF TypeOK
    <2>2. CASE Draw BY <2>2 DEF Draw, CellFault
    <2>3. CASE InputWidth \/ SelectType \/ MoveView \/ Tick \/ \E r \in Results : SelectRow(r)
      BY <2>2, <2>3 DEF InputWidth, SelectType, MoveView, Tick, SelectRow
    <2>4. CASE DrawRow BY <2>4 DEF DrawRow, RowFault
    <2>5. CASE EnterRow BY <2>1, <2>5 DEF EnterRow, RowEditFault
    <2>6. CASE Click \/ Escape \/ Enter \/ Reopen \/ Age \/ SearchType \/ Lose \/ UNCHANGED vars
      BY <2>1, <2>6 DEF Click, Escape, Enter, Reopen, Age, SearchType, Lose, vars
    <2> QED BY <2>3, <2>4, <2>5, <2>6 DEF Next
  <1>5. data_type' \in Types /\ \A r \in Results : cache'[r] = Nothing \/ cache'[r] \in Entry
    BY DEF RowsInv
  <1>6. /\ view_addr' \in 0..(Space - 1) /\ view_width_step' \in Nat \ {0}
        /\ view'.at \in 0..(Space - 1) /\ view'.len \in Nat
    BY DEF ViewInv, WidthInv
  <1> QED BY <1>1, <1>2, <1>3, <1>4, <1>5, <1>6 DEF TypeOK, Entry

-----------------------------------------------------------------------------
(* The theorems. *)

IInv == TypeOK /\ WidthInv /\ ViewInv /\ CellsFit /\ RowsInv /\ EditReported

\* The invariant holds at first, and every step keeps it.
LEMMA Inductive == (Init => IInv) /\ (IInv /\ [Next]_vars => IInv')
  <1>1. ASSUME Init PROVE IInv
    <2>1. RowsInv BY <1>1, Missing DEF Init, RowsInv, Whole
    <2>2. EditReported BY <1>1 DEF Init, EditReported
    <2>3. WidthInv
      <3>1. StartWidth \in Powers /\ StartWidth \in Nat \ {0} BY EditorAssumption, Greatest
      <3>2. Half(StartWidth) \in Powers /\ Half(StartWidth) \in Nat \ {0} BY <3>1, HalfPowers
      <3> QED BY <1>1, <3>1, <3>2 DEF Init, WidthInv
    <2>4. ViewInv
      <3>1. view_addr \in 0..(Space - 1) BY <1>1, EditorAssumption DEF Init
      <3> QED BY <1>1, <3>1 DEF Init, ViewInv
    <2>5. CellsFit BY <1>1 DEF Init, CellsFit
    <2>6. TypeOK
      <3>1. edit_addr \in 0..(Space - 1) BY <1>1, EditorAssumption DEF Init, None
      <3>2. view_width_step \in Nat \ {0} BY <2>3 DEF WidthInv
      <3>3. view_addr \in 0..(Space - 1) /\ view.at \in 0..(Space - 1) /\ view.len \in Nat BY <2>4 DEF ViewInv
      <3> QED BY <1>1, <3>1, <3>2, <3>3, EditorAssumption DEF Init, TypeOK
    <2> QED BY <2>1, <2>2, <2>3, <2>4, <2>5, <2>6 DEF IInv
  <1>2. ASSUME IInv, [Next]_vars PROVE IInv'
    <2>1. RowsInv' BY <1>2, DrawRowStep, EnterRowStep, OtherSteps DEF IInv
    <2>2. EditReported' BY <1>2, EditStep DEF IInv, TypeOK
    <2>3. WidthInv' /\ ViewInv' /\ CellsFit' BY <1>2, WidthStep DEF IInv
    <2>4. TypeOK' BY <1>2, <2>1, <2>3, TypeStep DEF IInv
    <2> QED BY <2>1, <2>2, <2>3, <2>4 DEF IInv
  <1> QED BY <1>1, <1>2

\* Every variable keeps the kind of values it has.
THEOREM TypeCorrect == Spec => []TypeOK
  <1>1. IInv => TypeOK BY DEF IInv
  <1> QED BY <1>1, Inductive, PTL DEF Spec

\* The width of the view is a power of 2, whatever the user types and whichever step an
\* earlier process left, unless an int overflows.
THEOREM WidthIsPowerAlways == Spec => []WidthIsPower
  <1>1. IInv => WidthIsPower BY DEF IInv, WidthInv, WidthIsPower
  <1> QED BY <1>1, Inductive, PTL DEF Spec

\* A cell is converted beyond the data only if a row is narrower than its type, or the
\* data that were read are no whole elements.
THEOREM CellsFitAlways == Spec => []CellsFit
  <1>1. IInv => CellsFit BY DEF IInv
  <1> QED BY <1>1, Inductive, PTL DEF Spec

\* While the connection lasts, an edit is reported exactly if not all of its bytes were
\* written.
THEOREM EditReportedAlways == Spec => []EditReported
  <1>1. IInv => EditReported BY DEF IInv
  <1> QED BY <1>1, Inductive, PTL DEF Spec

\* A row is read beyond its bytes only in the frame in which it is given another type,
\* and compared beyond them only if they could not be read.
THEOREM RowsFetchedWholeAlways == Spec => RowsFetchedWhole
  <1> DEFINE A == /\ fault' = "row" => \E r \in Results : cache'[r].type # TypeOf(cache[r])
                  /\ fault' = "compare" => \E r \in Results : cache[r] # Nothing /\ ~cache[r].valid
  <1>1. IInv /\ [Next]_vars => [A]_vars
    <2> SUFFICES ASSUME IInv, [Next]_vars, ~UNCHANGED vars PROVE A
      OBVIOUS
    <2>1. CASE DrawRow BY <2>1, DrawRowStep DEF IInv
    <2>2. CASE EnterRow BY <2>2, EnterRowStep DEF IInv
    <2>3. CASE ~DrawRow /\ ~EnterRow
      <3>1. fault = "none" BY <2>3 DEF Next, InputWidth, SelectType, MoveView, Click,
                              Escape,
              Enter, Tick, Reopen, SelectRow, Age, SearchType, Lose
      <3> QED BY <2>3, <3>1, OtherSteps DEF IInv
    <2> QED BY <2>1, <2>2, <2>3
  <1>2. RowsFetchedWhole <=> [][A]_vars BY DEF RowsFetchedWhole
  <1> HIDE DEF A
  <1> QED BY <1>1, <1>2, Inductive, PTL DEF Spec
=============================================================================
