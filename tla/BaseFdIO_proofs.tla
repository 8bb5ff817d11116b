---------------------------- MODULE BaseFdIO_proofs ----------------------------
(***************************************************************************)
(* Proofs about BaseFdIO: its types, and that it implements FrameChannel,  *)
(* both for little-endian machines (on big-endian ones recv() takes every  *)
(* size for 0).                                                            *)
(*                                                                         *)
(* The argument: the bytes in the kernel are a stretch of those that       *)
(* send() writes, without a gap.  The first is the one recv() wants next,  *)
(* the last the one before send()'s next, as long as that end can be used. *)
(***************************************************************************)
EXTENDS BaseFdIO, TLAPS

ByteSet == [frame : Nat, place : Nat]

\* The frames with the sizes z: the last byte of frame n, and what follows a
\* byte.
End(z, n) == HeaderSize + z[n]
Follows(z, b) == IF b.place < End(z, b.frame) THEN Byte(b.frame, b.place + 1)
                 ELSE Byte(b.frame + 1, 1)

\* The bytes of s are ones of the frames with the sizes z; those of one frame
\* follow each other, and then those of the next frame.
Chained(z, s) ==
    /\ \A i \in 1..Len(s) :
          /\ s[i] = Byte(s[i].frame, s[i].place)
          /\ s[i].frame \in 1..Len(z)
          /\ s[i].place \in 1..End(z, s[i].frame)
    /\ \A i, k \in 1..Len(s) :
          i >= k /\ s[k].place + (i - k) <= End(z, s[k].frame) =>
              s[i] = Byte(s[k].frame, s[k].place + (i - k))
    /\ \A i \in 1..Len(s) :
          i < Len(s) /\ s[i].place = End(z, s[i].frame) => s[i + 1] = Byte(s[i].frame + 1, 1)

Types ==
    /\ sizes \in Seq(Sizes) /\ Len(sizes) <= FramesMax
    /\ stream \in Seq(ByteSet) /\ Len(stream) <= StreamMax
    /\ data \in Seq(ByteSet) /\ received \in Seq(Seq(ByteSet))
    /\ left \in Nat /\ want \in Nat /\ sentOk \in Nat
    /\ sfd \in {"open", "closed"} /\ rfd \in {"open", "closed"}
    /\ spc \in {"idle", "header", "data"} /\ rpc \in {"idle", "header", "data"}
Truths == broken \in BOOLEAN

\* send() is in the last frame, and has left what is not in the kernel.
Sender ==
    /\ sentOk <= Len(sizes)
    /\ spc # "idle" => sentOk < Len(sizes) /\ sfd = "open"
    /\ spc = "data" => left >= 1 /\ left <= sizes[Len(sizes)]

\* recv() is in the frame after those it returned.
Receiver ==
    /\ rpc # "idle" => rfd = "open"
    /\ Len(received) <= Len(sizes)
    /\ \A i \in 1..Len(received) : received[i] = Data(i)
    /\ rpc = "data" =>
          /\ Len(received) < Len(sizes) /\ want > 0
          /\ Len(data) + want = sizes[Len(received) + 1]
          /\ \A i \in 1..Len(data) : data[i] = Byte(Len(received) + 1, HeaderSize + i)
    /\ Len(data) + want <= Limit

Chain == Chained(sizes, stream)

\* The bytes that recv() and send() go on with, and how the stream fits.
Wanted == IF rpc = "data" THEN Byte(Len(received) + 1, HeaderSize + Len(data) + 1)
          ELSE Byte(Len(received) + 1, 1)
ToWrite == IF spc = "data" THEN Byte(Len(sizes), End(sizes, Len(sizes)) - left + 1)
           ELSE IF spc = "header" THEN Byte(Len(sizes), 1)
           ELSE Byte(Len(sizes) + 1, 1)
Ends ==
    /\ rfd = "open" /\ stream # <<>> => stream[1] = Wanted
    /\ rfd = "open" /\ sfd = "open" /\ ~broken =>
          ToWrite = IF stream = <<>> THEN Wanted ELSE Follows(sizes, stream[Len(stream)])

IInv == Types /\ Truths /\ Sender /\ Receiver /\ Chain /\ Ends

-----------------------------------------------------------------------------
\* The constants.
LEMMA Constants ==
    /\ HeaderSize \in Nat /\ HeaderSize >= 1 /\ StreamMax \in Nat /\ FramesMax \in Nat
    /\ Limit \in Nat /\ \A n \in Sizes : n \in Nat
  BY FdAssumption

\* A stretch of a frame.
LEMMA Stretch ==
    ASSUME NEW n \in Nat, NEW from \in Nat, NEW to \in Nat, from >= 1, to + 1 >= from
    PROVE  /\ Bytes(n, from, to) \in Seq(ByteSet) /\ Len(Bytes(n, from, to)) = to - from + 1
           /\ \A i \in 1..(to - from + 1) : Bytes(n, from, to)[i] = Byte(n, from + i - 1)
  <1>1. to - from + 1 \in Nat OBVIOUS
  <1>2. \A i \in 1..(to - from + 1) : Byte(n, from + i - 1) \in ByteSet
    BY DEF Byte, ByteSet
  <1> QED BY <1>1, <1>2 DEF Bytes

\* Two bytes are the same if frame and place are.
LEMMA Places ==
    /\ \A n, i : Byte(n, i).frame = n /\ Byte(n, i).place = i
    /\ \A n, m, i, j : Byte(n, i) = Byte(m, j) <=> n = m /\ i = j
  BY DEF Byte

\* The stream grows at its end.
LEMMA Grown ==
    ASSUME NEW s \in Seq(ByteSet), NEW u \in Seq(ByteSet)
    PROVE  /\ s \o u \in Seq(ByteSet) /\ Len(s \o u) = Len(s) + Len(u)
           /\ \A i \in 1..Len(s) : (s \o u)[i] = s[i]
           /\ \A i \in (Len(s) + 1)..(Len(s) + Len(u)) : (s \o u)[i] = u[i - Len(s)]
  OBVIOUS

\* It is read from its front.
LEMMA Shrunk ==
    ASSUME NEW s \in Seq(ByteSet), NEW k \in 0..Len(s)
    PROVE  /\ SubSeq(s, k + 1, Len(s)) \in Seq(ByteSet)
           /\ Len(SubSeq(s, k + 1, Len(s))) = Len(s) - k
           /\ \A i \in 1..(Len(s) - k) : SubSeq(s, k + 1, Len(s))[i] = s[i + k]
  OBVIOUS
LEMMA Front ==
    ASSUME NEW s \in Seq(ByteSet), NEW k \in 0..Len(s)
    PROVE  /\ SubSeq(s, 1, k) \in Seq(ByteSet) /\ Len(SubSeq(s, 1, k)) = k
           /\ \A i \in 1..k : SubSeq(s, 1, k)[i] = s[i]
  OBVIOUS

-----------------------------------------------------------------------------
(* Chained sequences of bytes.                                             *)

\* The sizes and ends of frames are numbers.
LEMMA Sized ==
    ASSUME NEW z \in Seq(Sizes), NEW m \in 1..Len(z)
    PROVE  z[m] \in Nat /\ End(z, m) \in Nat /\ End(z, m) = HeaderSize + z[m] /\ End(z, m) >= 1
  <1>1. z[m] \in Sizes OBVIOUS
  <1>2. z[m] \in Nat BY <1>1, Constants
  <1> QED BY <1>2, Constants DEF End

\* A byte of a chain is one of its frame.
LEMMA Member ==
    ASSUME NEW z \in Seq(Sizes), NEW s \in Seq(ByteSet), Chained(z, s), NEW i \in 1..Len(s)
    PROVE  /\ s[i] = Byte(s[i].frame, s[i].place)
           /\ s[i].frame \in 1..Len(z) /\ s[i].frame \in Nat
           /\ s[i].place \in Nat /\ End(z, s[i].frame) \in Nat
           /\ s[i].place >= 1 /\ s[i].place <= End(z, s[i].frame)
  <1>1. /\ s[i] = Byte(s[i].frame, s[i].place) /\ s[i].frame \in 1..Len(z)
        /\ s[i].place \in 1..End(z, s[i].frame)
    BY DEF Chained
  <1>2. End(z, s[i].frame) \in Nat BY <1>1, Sized
  <1>3. s[i].frame \in Nat BY <1>1
  <1> QED BY <1>1, <1>2, <1>3

\* Two bytes of one frame.
LEMMA Along ==
    ASSUME NEW z, NEW s, Chained(z, s), NEW i \in 1..Len(s), NEW k \in 1..Len(s),
           i >= k, s[k].place + (i - k) <= End(z, s[k].frame)
    PROVE  s[i] = Byte(s[k].frame, s[k].place + (i - k))
  BY DEF Chained

\* The last byte of a frame and the next.
LEMMA Across ==
    ASSUME NEW z, NEW s, Chained(z, s), NEW i \in 1..Len(s),
           i < Len(s), s[i].place = End(z, s[i].frame)
    PROVE  s[i + 1] = Byte(s[i].frame + 1, 1)
  BY DEF Chained

\* Each byte is followed by the next.
LEMMA Steps ==
    ASSUME NEW z \in Seq(Sizes), NEW s \in Seq(ByteSet), Chained(z, s),
           NEW i \in 1..Len(s), i < Len(s)
    PROVE  s[i + 1] = Follows(z, s[i])
  <1>0. i \in Nat /\ i + 1 \in 1..Len(s) /\ (i + 1) - i = 1 OBVIOUS
  <1>1. CASE s[i].place < End(z, s[i].frame)
    <2>1. s[i].place + ((i + 1) - i) <= End(z, s[i].frame)
      <3> DEFINE p == s[i].place
                 e == End(z, s[i].frame)
      <3>1. p \in Nat /\ e \in Nat /\ p < e BY <1>1, Member
      <3> HIDE DEF p, e
      <3>2. p + 1 <= e BY <3>1
      <3> QED BY <1>0, <3>2 DEF p, e
    <2>2. s[i + 1] = Byte(s[i].frame, s[i].place + ((i + 1) - i)) BY <1>0, <2>1, Along
    <2> QED BY <1>0, <1>1, <2>2 DEF Follows
  <1>2. CASE ~(s[i].place < End(z, s[i].frame))
    <2>1. s[i].place = End(z, s[i].frame) BY <1>2, Member
    <2>2. s[i + 1] = Byte(s[i].frame + 1, 1) BY <2>1, Across
    <2> QED BY <1>2, <2>2 DEF Follows
  <1> QED BY <1>1, <1>2

\* A chain goes on with a stretch of a frame.
LEMMA Extended ==
    ASSUME NEW z \in Seq(Sizes), NEW s \in Seq(ByteSet), Chained(z, s), NEW n \in 1..Len(z),
           NEW from \in Nat, NEW to \in Nat, from >= 1, to >= from, to <= End(z, n),
           Len(s) > 0 => Follows(z, s[Len(s)]) = Byte(n, from)
    PROVE  LET t == s \o Bytes(n, from, to)
           IN  /\ t \in Seq(ByteSet) /\ Len(t) = Len(s) + (to - from + 1) /\ t # <<>>
               /\ Chained(z, t)
               /\ t[1] = (IF s = <<>> THEN Byte(n, from) ELSE s[1])
               /\ t[Len(t)] = Byte(n, to)
  <1> DEFINE L == Len(s)
             D == to - from + 1
             t == s \o Bytes(n, from, to)
             E == End(z, n)
  <1>0. L \in Nat /\ n \in Nat /\ D \in Nat /\ D >= 1 /\ E \in Nat /\ to <= E
    <2>1. E \in Nat BY Sized
    <2> QED BY <2>1
  <1>1. /\ t \in Seq(ByteSet) /\ Len(t) = L + D
        /\ \A i \in 1..L : t[i] = s[i]
        /\ \A i \in (L + 1)..(L + D) : t[i] = Byte(n, from + (i - L) - 1)
    <2> DEFINE u == Bytes(n, from, to)
    <2>1. u \in Seq(ByteSet) /\ Len(u) = D /\ \A i \in 1..D : u[i] = Byte(n, from + i - 1)
      <3>1. to + 1 >= from /\ n \in Nat OBVIOUS
      <3> QED BY <3>1, Stretch
    <2> HIDE DEF u
    <2>2. /\ s \o u \in Seq(ByteSet) /\ Len(s \o u) = L + D
          /\ \A i \in 1..L : (s \o u)[i] = s[i]
          /\ \A i \in (L + 1)..(L + D) : (s \o u)[i] = u[i - L]
      <3> HIDE DEF D
      <3> QED BY <2>1, Grown
    <2>3. ASSUME NEW i \in (L + 1)..(L + D) PROVE u[i - L] = Byte(n, from + (i - L) - 1)
      <3> HIDE DEF D, L
      <3>1. i - L \in 1..D BY <1>0
      <3> QED BY <2>1, <3>1
    <2> QED BY <2>2, <2>3 DEF u
  <1>2. to = from + D - 1 BY <1>0
  <1>3. \A i \in 1..Len(s) : i \in 1..L OBVIOUS
  <1> HIDE DEF t, D, L, E
  <1>4. \A i \in 1..Len(t) : i \in Nat /\ (i \in 1..L \/ i \in (L + 1)..(L + D)) BY <1>0,
       <1>1
  <1>5. ASSUME NEW i \in (L + 1)..(L + D)
        PROVE  t[i].frame = n /\ t[i].place = from + (i - L) - 1
               /\ t[i].place \in Nat /\ i \in Nat
    BY <1>0, <1>1, Places
  <1>6. ASSUME NEW k \in 1..L
        PROVE  /\ k \in Nat /\ k \in 1..Len(s) /\ t[k] = s[k]
               /\ t[k] = Byte(t[k].frame, t[k].place) /\ t[k].frame \in 1..Len(z)
               /\ t[k].place \in Nat /\ End(z, t[k].frame) \in Nat
               /\ t[k].place >= 1 /\ t[k].place <= End(z, t[k].frame)
    <2>1. k \in 1..Len(s) BY DEF L
    <2> QED BY <1>1, <2>1, Member
  <1>7. ASSUME NEW i \in 1..Len(t)
        PROVE  /\ t[i] = Byte(t[i].frame, t[i].place)
               /\ t[i].frame \in 1..Len(z)
               /\ t[i].place \in 1..End(z, t[i].frame)
    <2>1. CASE i \in 1..L BY <1>6, <2>1
    <2>2. CASE i \in (L + 1)..(L + D)
      <3>1. from + (i - L) - 1 \in 1..E BY <1>0, <1>2, <2>2
      <3> QED BY <1>1, <1>5, <2>2, <3>1 DEF E
    <2> QED BY <1>4, <2>1, <2>2
  <1>8. ASSUME NEW i \in 1..Len(t), NEW k \in 1..Len(t), i >= k,
               t[k].place + (i - k) <= End(z, t[k].frame)
        PROVE  t[i] = Byte(t[k].frame, t[k].place + (i - k))
    <2>1. CASE i \in 1..L
      <3>1. k \in 1..L BY <1>0, <1>8, <2>1
      <3>2. i \in 1..Len(s) /\ k \in 1..Len(s) /\ t[i] = s[i] /\ t[k] = s[k]
        BY <1>6, <2>1, <3>1
      <3> QED BY <1>8, <3>2, Along
    <2>2. CASE k \in (L + 1)..(L + D)
      <3>1. i \in (L + 1)..(L + D) BY <1>0, <1>1, <1>8, <2>2
      <3>2. from + (k - L) - 1 + (i - k) = from + (i - L) - 1 BY <1>0, <2>2, <3>1
      <3> QED BY <1>1, <1>5, <2>2, <3>1, <3>2
    <2>3. CASE k \in 1..L /\ i \in (L + 1)..(L + D)
      <3> DEFINE f == s[k].frame
                 q == s[k].place
                 e == End(z, f)
      <3>1. q \in Nat /\ e \in Nat /\ q + (i - k) <= e /\ t[k] = s[k]
        BY <1>6, <1>8, <2>3
      <3>2. k \in 1..Len(s) /\ Len(s) \in 1..Len(s) /\ Len(s) = L
        BY <1>0, <2>3 DEF L
      <3> HIDE DEF q, e
      <3>3. L >= k /\ L < i /\ q + (L - k) < e /\ q + (L - k) <= e /\ q + (L - k) \in Nat
        BY <1>0, <2>3, <3>1
      <3>4. s[L] = Byte(f, q + (L - k))
        BY <3>2, <3>3, Along DEF q, e
      <3>5. Follows(z, s[L]) = Byte(f, q + (L - k) + 1)
        BY <3>3, <3>4, Places DEF Follows, e
      <3>6. Byte(n, from) = Byte(f, q + (L - k) + 1) BY <1>0, <3>2, <3>3, <3>5
      <3>7. f = n /\ from = q + (L - k) + 1 BY <3>6, Places
      <3>8. from + (i - L) - 1 = q + (i - k) BY <1>0, <2>3, <3>1, <3>7
      <3>9. t[i] = Byte(f, q + (i - k)) BY <1>1, <2>3, <3>7, <3>8
      <3> QED BY <3>1, <3>9 DEF q
    <2> QED BY <1>4, <2>1, <2>2, <2>3
  <1>9. ASSUME NEW i \in 1..Len(t), i < Len(t), t[i].place = End(z, t[i].frame)
        PROVE  t[i + 1] = Byte(t[i].frame + 1, 1)
    <2>1. CASE i \in 1..L /\ i # L
      <3>1. i + 1 \in 1..L /\ i < L BY <1>0, <2>1
      <3>2. t[i + 1] = s[i + 1] /\ t[i] = s[i] /\ i \in 1..Len(s) BY <1>6, <2>1, <3>1
      <3> QED BY <1>9, <3>1, <3>2, Across DEF L
    <2>2. CASE i = L
      <3>1. i \in 1..L BY <1>0, <1>1, <2>2
      <3>2. Follows(z, s[L]) = Byte(s[L].frame + 1, 1)
        <4>1. s[L].place = End(z, s[L].frame) /\ s[L].place \in Nat
          BY <1>6, <1>9, <2>2, <3>1
        <4> QED BY <4>1 DEF Follows
      <3>3. t[L + 1] = Byte(n, from)
        <4>1. L + 1 \in (L + 1)..(L + D) /\ from + ((L + 1) - L) - 1 = from BY <1>0
        <4> QED BY <1>1, <4>1
      <3>4. L > 0 /\ Len(s) = L BY <1>0, <3>1 DEF L
      <3> QED BY <1>6, <2>2, <3>1, <3>2, <3>3, <3>4
    <2>3. CASE i \in (L + 1)..(L + D)
      <3>1. from + (i - L) - 1 = E BY <1>5, <1>9, <2>3 DEF E
      <3>2. i < L + D BY <1>0, <1>1, <1>9
      <3> QED BY <1>0, <1>2, <2>3, <3>1, <3>2
    <2> QED BY <1>4, <2>1, <2>2, <2>3
  <1>10. Chained(z, t) BY <1>7, <1>8, <1>9 DEF Chained
  <1>11. t[Len(t)] = Byte(n, to)
    <2>1. Len(t) \in (L + 1)..(L + D) /\ from + (Len(t) - L) - 1 = to BY <1>0, <1>1, <1>2
    <2> QED BY <1>1, <2>1
  <1>12. t[1] = (IF s = <<>> THEN Byte(n, from) ELSE s[1])
    <2>1. CASE L = 0
      <3>1. s = <<>> BY <2>1 DEF L
      <3>2. 1 \in (L + 1)..(L + D) /\ from + (1 - L) - 1 = from BY <1>0, <2>1
      <3> QED BY <1>1, <3>1, <3>2
    <2>2. CASE L > 0
      <3>1. s # <<>> BY <2>2 DEF L
      <3>2. 1 \in 1..L BY <1>0, <2>2
      <3> QED BY <1>6, <3>1, <3>2
    <2> QED BY <1>0, <2>1, <2>2
  <1>13. t # <<>> /\ Len(t) = Len(s) + (to - from + 1) BY <1>0, <1>1 DEF D, L
  <1> QED BY <1>1, <1>10, <1>11, <1>12, <1>13 DEF t

\* The rest of a chain is one.
LEMMA Cut ==
    ASSUME NEW z \in Seq(Sizes), NEW s \in Seq(ByteSet), Chained(z, s), NEW k \in 1..Len(s)
    PROVE  LET t == SubSeq(s, k + 1, Len(s))
           IN  /\ t \in Seq(ByteSet) /\ Len(t) = Len(s) - k /\ Chained(z, t)
               /\ t # <<>> => t[1] = Follows(z, s[k]) /\ t[Len(t)] = s[Len(s)]
               /\ t = <<>> => k = Len(s)
  <1> DEFINE L == Len(s)
             t == SubSeq(s, k + 1, Len(s))
  <1>0. L \in Nat /\ k \in Nat /\ k >= 1 /\ k <= L OBVIOUS
  <1>1. /\ t \in Seq(ByteSet) /\ Len(t) = L - k
        /\ \A i \in 1..(L - k) : t[i] = s[i + k]
    BY <1>0, Shrunk
  <1> HIDE DEF t
  <1>2. \A i \in 1..Len(t) : i \in Nat /\ i + k \in 1..Len(s) /\ t[i] = s[i + k]
    BY <1>0, <1>1
  <1>3. ASSUME NEW i \in 1..Len(t)
        PROVE  /\ t[i] = Byte(t[i].frame, t[i].place) /\ t[i].frame \in 1..Len(z)
               /\ t[i].place \in 1..End(z, t[i].frame)
    BY <1>2, Member
  <1>4. ASSUME NEW i \in 1..Len(t), NEW j \in 1..Len(t), i >= j,
               t[j].place + (i - j) <= End(z, t[j].frame)
        PROVE  t[i] = Byte(t[j].frame, t[j].place + (i - j))
    <2>1. (i + k) - (j + k) = i - j /\ i + k >= j + k BY <1>0, <1>2, <1>4
    <2>2. /\ i + k \in 1..Len(s) /\ j + k \in 1..Len(s) /\ t[i] = s[i + k] /\ t[j] = s[j + k]
      BY <1>2
    <2>3. s[j + k].place + ((i + k) - (j + k)) <= End(z, s[j + k].frame) BY <1>4, <2>1, <2>2
    <2>4. s[i + k] = Byte(s[j + k].frame, s[j + k].place + ((i + k) - (j + k)))
      <3> DEFINE p == i + k
                 q == j + k
      <3>1. p \in 1..Len(s) /\ q \in 1..Len(s) /\ p >= q
            /\ s[q].place + (p - q) <= End(z, s[q].frame)
        BY <2>1, <2>2, <2>3
      <3> HIDE DEF p, q
      <3>2. s[p] = Byte(s[q].frame, s[q].place + (p - q)) BY <3>1 DEF Chained
      <3> QED BY <3>2 DEF p, q
    <2> QED BY <2>1, <2>2, <2>4
  <1>5. ASSUME NEW i \in 1..Len(t), i < Len(t), t[i].place = End(z, t[i].frame)
        PROVE  t[i + 1] = Byte(t[i].frame + 1, 1)
    <2>1. i + 1 \in 1..Len(t) /\ (i + 1) + k = (i + k) + 1 /\ i + k < Len(s)
      BY <1>0, <1>1, <1>2, <1>5
    <2>2. t[i + 1] = s[(i + k) + 1] /\ t[i] = s[i + k] /\ i + k \in 1..Len(s) BY <1>2, <2>1
    <2> QED BY <1>5, <2>1, <2>2, Across
  <1>6. Chained(z, t) BY <1>3, <1>4, <1>5 DEF Chained
  <1>7. ASSUME t # <<>> PROVE t[1] = Follows(z, s[k]) /\ t[Len(t)] = s[Len(s)]
    <2>1. Len(t) \in Nat /\ Len(t) >= 1 BY <1>1, <1>7
    <2>2. k < Len(s) /\ 1 + k = k + 1 /\ Len(t) + k = Len(s) /\ 1 \in 1..Len(t)
          /\ Len(t) \in 1..Len(t)
      BY <1>0, <1>1, <2>1
    <2>3. s[k + 1] = Follows(z, s[k]) BY <2>2, Steps
    <2> QED BY <1>2, <2>2, <2>3
  <1>8. ASSUME t = <<>> PROVE k = Len(s) BY <1>0, <1>1, <1>8
  <1> QED BY <1>1, <1>6, <1>7, <1>8 DEF t

\* A chain stays one when a frame is added.
LEMMA Longer ==
    ASSUME NEW z \in Seq(Sizes), NEW s \in Seq(ByteSet), Chained(z, s), NEW size \in Sizes
    PROVE  /\ Chained(Append(z, size), s)
           /\ \A i \in 1..Len(s) : Follows(Append(z, size), s[i]) = Follows(z, s[i])
           /\ \A m \in 1..Len(z) : Append(z, size)[m] = z[m]
           /\ Append(z, size) \in Seq(Sizes) /\ Len(Append(z, size)) = Len(z) + 1
           /\ Append(z, size)[Len(z) + 1] = size
  <1> DEFINE y == Append(z, size)
  <1>1. /\ Len(y) = Len(z) + 1 /\ Len(z) \in Nat /\ y \in Seq(Sizes)
        /\ \A m \in 1..Len(z) : y[m] = z[m]
        /\ y[Len(z) + 1] = size
    OBVIOUS
  <1> HIDE DEF y
  <1>2. \A m \in 1..Len(z) : End(y, m) = End(z, m) /\ m \in 1..Len(y) BY <1>1 DEF End
  <1>3. \A i \in 1..Len(s) : /\ End(y, s[i].frame) = End(z, s[i].frame)
                             /\ s[i].frame \in 1..Len(y)
    BY <1>2, Member
  <1>4. Chained(y, s) BY <1>3 DEF Chained
  <1>5. \A i \in 1..Len(s) : Follows(y, s[i]) = Follows(z, s[i]) BY <1>3 DEF Follows
  <1> QED BY <1>1, <1>4, <1>5 DEF y

-----------------------------------------------------------------------------
(* The invariant.                                                          *)

\* Nothing is in the kernel.
LEMMA InitIInv == Init => IInv
  <1> SUFFICES ASSUME Init PROVE IInv OBVIOUS
  <1> USE Constants DEF Init
  <1>1. Types BY DEF Types
  <1>2. Truths BY Zenon DEF Truths
  <1>3. Sender /\ Receiver /\ Chain BY DEF Sender, Receiver, Chain, Chained
  <1>4. Ends BY DEF Ends, Wanted, ToWrite
  <1> QED BY <1>1, <1>2, <1>3, <1>4 DEF IInv

\* The types that the steps below use.
LEMMA Known ==
    ASSUME IInv
    PROVE  /\ sizes \in Seq(Sizes) /\ stream \in Seq(ByteSet) /\ Chained(sizes, stream)
           /\ Len(sizes) \in Nat /\ Len(stream) \in Nat /\ Len(stream) <= StreamMax
           /\ left \in Nat /\ want \in Nat /\ sentOk \in Nat
           /\ data \in Seq(ByteSet) /\ Len(data) \in Nat
           /\ received \in Seq(Seq(ByteSet)) /\ Len(received) \in Nat
           /\ Len(received) <= Len(sizes) /\ sentOk <= Len(sizes)
           /\ spc # "idle" => Len(sizes) \in 1..Len(sizes) /\ sfd = "open"
  <1>1. /\ sizes \in Seq(Sizes) /\ stream \in Seq(ByteSet) /\ Len(stream) <= StreamMax
        /\ left \in Nat /\ want \in Nat /\ sentOk \in Nat
        /\ data \in Seq(ByteSet) /\ received \in Seq(Seq(ByteSet))
    BY DEF IInv, Types
  <1>2. /\ Chained(sizes, stream) /\ Len(received) <= Len(sizes) /\ sentOk <= Len(sizes)
        /\ spc # "idle" => sentOk < Len(sizes) /\ sfd = "open"
    BY DEF IInv, Chain, Receiver, Sender
  <1> QED BY <1>1, <1>2

\* What send() adds to the stream goes on from what is in it.
LEMMA Writes ==
    ASSUME IInv, rfd = "open", ~broken, spc # "idle",
           NEW from \in Nat, NEW to \in Nat, from >= 1, to >= from,
           to <= End(sizes, Len(sizes)), to - from + 1 <= Room,
           ToWrite = Byte(Len(sizes), from),
           stream' = stream \o Bytes(Len(sizes), from, to),
           UNCHANGED <<sizes, receiver, broken>>
    PROVE  /\ stream' \in Seq(ByteSet) /\ Len(stream') <= StreamMax /\ Chain' /\ Receiver'
           /\ stream'[1] = Wanted' /\ stream' # <<>>
           /\ stream'[Len(stream')] = Byte(Len(sizes), to)
  <1> DEFINE n == Len(sizes)
             t == stream \o Bytes(n, from, to)
  <1>1. n \in 1..n /\ sfd = "open" /\ Wanted' = Wanted BY Known DEF Wanted, receiver
  <1>2. Len(stream) > 0 => Follows(sizes, stream[Len(stream)]) = Byte(n, from)
    BY <1>1, Known DEF IInv, Ends
  <1>3. stream = <<>> => Wanted = Byte(n, from) BY <1>1 DEF IInv, Ends
  <1>4. stream # <<>> => stream[1] = Wanted BY DEF IInv, Ends
  <1>5. /\ sizes \in Seq(Sizes) /\ stream \in Seq(ByteSet) /\ Chained(sizes, stream) BY
       Known
  <1>6. /\ t \in Seq(ByteSet) /\ Len(t) = Len(stream) + (to - from + 1) /\ t # <<>>
        /\ Chained(sizes, t)
        /\ t[1] = (IF stream = <<>> THEN Byte(n, from) ELSE stream[1])
        /\ t[Len(t)] = Byte(n, to)
    <2> HIDE DEF n
    <2>1. to <= End(sizes, n) /\ n \in 1..Len(sizes) BY <1>1 DEF n
    <2> QED BY <1>2, <1>5, <2>1, Extended
  <1> HIDE DEF t
  <1>7. stream' = t BY DEF t
  <1>8. Len(t) <= StreamMax
    <2>1. to - from + 1 <= StreamMax - Len(stream) BY DEF Room
    <2> QED BY <1>6, <2>1, Known, Constants
  <1>9. Chain' BY <1>6, <1>7 DEF Chain
  <1>10. Receiver' BY DEF IInv, Receiver, receiver, Data
  <1>11. t[1] = Wanted BY <1>3, <1>4, <1>6
  <1> QED BY <1>1, <1>6, <1>7, <1>8, <1>9, <1>10, <1>11

\* What recv() takes from the stream leaves what it goes on with.
LEMMA Reads ==
    ASSUME IInv, rfd = "open", NEW k \in 1..Len(stream), Consume(k), UNCHANGED sender
    PROVE  /\ stream' \in Seq(ByteSet) /\ Len(stream') <= StreamMax
           /\ Chain' /\ Sender' /\ Truths'
           /\ (rfd' = "open" => Wanted' = Follows(sizes, stream[k])) => Ends'
  <1> DEFINE t == SubSeq(stream, k + 1, Len(stream))
  <1>1. /\ sizes \in Seq(Sizes) /\ stream \in Seq(ByteSet) /\ Chained(sizes, stream)
        /\ Len(stream) \in Nat /\ Len(stream) <= StreamMax
    BY Known
  <1>2. /\ t \in Seq(ByteSet) /\ Len(t) = Len(stream) - k /\ Chained(sizes, t)
        /\ t # <<>> => t[1] = Follows(sizes, stream[k]) /\ t[Len(t)] = stream[Len(stream)]
        /\ t = <<>> => k = Len(stream)
    BY <1>1, Cut
  <1> HIDE DEF t
  <1>3. stream' = t /\ broken' = broken BY DEF Consume, t
  <1>4. sizes' = sizes /\ sfd' = sfd /\ ToWrite' = ToWrite /\ Sender'
    BY DEF IInv, sender, ToWrite, Sender, End
  <1>5. Chain' BY <1>2, <1>3, <1>4 DEF Chain
  <1>6. Len(stream') <= StreamMax BY <1>1, <1>2, <1>3, Constants
  <1>7. ASSUME rfd' = "open" => Wanted' = Follows(sizes, stream[k]) PROVE Ends'
    <2>1. ASSUME rfd' = "open", stream' # <<>> PROVE stream'[1] = Wanted'
      BY <1>2, <1>3, <1>7, <2>1
    <2>2. ASSUME rfd' = "open", sfd' = "open", ~broken'
          PROVE  ToWrite' = IF stream' = <<>> THEN Wanted'
                            ELSE Follows(sizes', stream'[Len(stream')])
      <3>1. stream # <<>> BY <1>1
      <3>2. ToWrite = Follows(sizes, stream[Len(stream)])
        BY <1>3, <1>4, <2>2, <3>1 DEF IInv, Ends
      <3>3. CASE t = <<>> BY <1>2, <1>3, <1>4, <1>7, <2>2, <3>2, <3>3
      <3>4. CASE t # <<>> BY <1>2, <1>3, <1>4, <3>2, <3>4
      <3> QED BY <3>3, <3>4
    <2> QED BY <2>1, <2>2 DEF Ends
  <1>8. Truths' BY <1>3 DEF IInv, Truths
  <1> QED BY <1>2, <1>3, <1>4, <1>5, <1>6, <1>7, <1>8

\* The bytes at the front of the stream are those of the frame that recv() is
\* in.
LEMMA Fronts ==
    ASSUME IInv, rfd = "open", NEW k \in 1..Len(stream), NEW n \in Nat, NEW p \in Nat,
           Wanted = Byte(n, p), p >= 1, p + k <= End(sizes, n) + 1
    PROVE  /\ n \in 1..Len(sizes)
           /\ SubSeq(stream, 1, k) \in Seq(ByteSet) /\ Len(SubSeq(stream, 1, k)) = k
           /\ \A i \in 1..k : SubSeq(stream, 1, k)[i] = Byte(n, p + (i - 1))
           /\ stream[k] = Byte(n, p + (k - 1))
  <1>1. /\ sizes \in Seq(Sizes) /\ stream \in Seq(ByteSet) /\ Chained(sizes, stream)
        /\ Len(stream) \in Nat
    BY Known
  <1>2. 1 \in 1..Len(stream) /\ stream # <<>> /\ k \in Nat /\ k >= 1 /\ k <= Len(stream)
    BY <1>1
  <1>3. stream[1] = Byte(n, p) BY <1>2 DEF IInv, Ends
  <1>4. stream[1].frame = n /\ stream[1].place = p BY <1>3, Places
  <1>5. n \in 1..Len(sizes) BY <1>1, <1>2, <1>4, Member
  <1>6. End(sizes, n) \in Nat BY <1>1, <1>5, Sized
  <1>7. ASSUME NEW i \in 1..k PROVE stream[i] = Byte(n, p + (i - 1))
    <2> DEFINE e == End(sizes, n)
    <2>1. e \in Nat /\ p + k <= e + 1 BY <1>6
    <2> HIDE DEF e
    <2>2. p + (i - 1) <= e BY <1>2, <2>1
    <2>3. i \in 1..Len(stream) /\ i >= 1 BY <1>2
    <2>4. stream[1].place + (i - 1) <= End(sizes, stream[1].frame) BY <1>4, <2>2 DEF e
    <2>5. stream[i] = Byte(stream[1].frame, stream[1].place + (i - 1))
      BY <1>1, <1>2, <2>3, <2>4 DEF Chained
    <2> QED BY <1>4, <2>5
  <1>8. k \in 0..Len(stream) BY <1>2
  <1>9. /\ SubSeq(stream, 1, k) \in Seq(ByteSet) /\ Len(SubSeq(stream, 1, k)) = k
        /\ \A i \in 1..k : SubSeq(stream, 1, k)[i] = stream[i]
    BY <1>1, <1>8, Front
  <1> QED BY <1>2, <1>5, <1>7, <1>9

-----------------------------------------------------------------------------
(* send() and the network.                                                 *)

LEMMA SendStep == ASSUME IInv, NEW n \in Sizes, Send(n) PROVE IInv'
  <1> DEFINE y == Append(sizes, n)
  <1>1. /\ sizes \in Seq(Sizes) /\ stream \in Seq(ByteSet) /\ Chained(sizes, stream)
        /\ Len(sizes) \in Nat /\ Len(stream) \in Nat
    BY Known
  <1>2. /\ Chained(y, stream)
        /\ \A i \in 1..Len(stream) : Follows(y, stream[i]) = Follows(sizes, stream[i])
        /\ \A m \in 1..Len(sizes) : y[m] = sizes[m]
        /\ y \in Seq(Sizes) /\ Len(y) = Len(sizes) + 1
    BY <1>1, Longer
  <1> HIDE DEF y
  <1>3. sizes' = y /\ UNCHANGED <<stream, broken, receiver>> /\ Wanted' = Wanted
    BY DEF Send, y, receiver, Wanted
  <1>4. Types'
    <2>1. UNCHANGED <<stream, broken, rfd, rpc, want, data, received, sfd, left, sentOk>>
          /\ spc' = "header" /\ Len(sizes) < FramesMax
      BY DEF Send, receiver
    <2>2. Len(y) <= FramesMax BY <1>1, <1>2, <2>1, Constants
    <2> QED BY <1>2, <1>3, <2>1, <2>2 DEF IInv, Types
  <1>5. Truths' BY <1>3 DEF IInv, Truths
  <1>6. Sender'
    <2>1. /\ spc' = "header" /\ sfd' = "open" /\ sentOk' = sentOk BY DEF Send
    <2>2. sentOk \in Nat /\ sentOk <= Len(sizes) BY Known
    <2> QED BY <1>1, <1>2, <1>3, <2>1, <2>2 DEF Sender
  <1>7. Receiver'
    <2>1. Len(received) \in Nat /\ Len(received) <= Len(sizes) BY Known
    <2>2. UNCHANGED <<rfd, rpc, want, data, received>> BY <1>3 DEF receiver
    <2>3. \A i \in 1..Len(received) : Data(i)' = Data(i)
      <3>1. \A i \in 1..Len(received) : sizes'[i] = sizes[i] BY <1>1, <1>2, <1>3, <2>1
      <3> QED BY <2>2, <3>1 DEF Data
    <2>4. Len(received) < Len(sizes) => sizes'[Len(received) + 1] = sizes[Len(received) + 1]
      BY <1>1, <1>2, <1>3, <2>1
    <2> QED BY <1>1, <1>2, <1>3, <2>1, <2>2, <2>3, <2>4 DEF IInv, Receiver
  <1>8. Chain' BY <1>2, <1>3 DEF Chain
  <1>9. Ends'
    <2>1. UNCHANGED <<rfd, stream, broken, sfd>> BY <1>3 DEF receiver, Send
    <2>2. ToWrite' = ToWrite BY <1>1, <1>2, <1>3 DEF Send, ToWrite
    <2>3. stream # <<>> => Follows(y, stream[Len(stream)]) = Follows(sizes, stream[Len(stream)])
      BY <1>1, <1>2
    <2> QED BY <1>3, <2>1, <2>2, <2>3 DEF IInv, Ends
  <1> QED BY <1>4, <1>5, <1>6, <1>7, <1>8, <1>9 DEF IInv

LEMMA WriteHeaderStep == ASSUME IInv, WriteHeader PROVE IInv'
  <1> DEFINE n == Len(sizes)
             e == End(sizes, n)
  <1>1. /\ spc = "header" /\ ~broken /\ rfd = "open" /\ HeaderSize <= Room
        /\ stream' = stream \o Bytes(n, 1, HeaderSize) /\ left' = sizes[n]
        /\ UNCHANGED <<sizes, sfd, receiver, broken>>
        /\ IF left' = 0 THEN spc' = "idle" /\ sentOk' = sentOk + 1
           ELSE spc' = "data" /\ sentOk' = sentOk
    <2>1. StreamMax - Len(stream) >= HeaderSize BY DEF WriteHeader, Room
    <2>2. HeaderSize <= Room BY <2>1, Known, Constants DEF Room
    <2> QED BY <2>2 DEF WriteHeader, SendReturnsOk
  <1>2. n \in 1..Len(sizes) /\ sfd = "open" /\ n \in Nat BY <1>1, Known
  <1>3. sizes \in Seq(Sizes) BY Known
  <1>4. sizes[n] \in Nat /\ e \in Nat /\ e = HeaderSize + sizes[n] BY <1>2, <1>3, Sized
  <1>5. HeaderSize <= e /\ HeaderSize - 1 + 1 = HeaderSize /\ HeaderSize \in Nat
        /\ HeaderSize >= 1
    BY <1>4, Constants
  <1>6. ToWrite = Byte(n, 1) BY <1>1 DEF ToWrite
  <1>7. /\ stream' \in Seq(ByteSet) /\ Len(stream') <= StreamMax /\ Chain' /\ Receiver'
        /\ stream'[1] = Wanted' /\ stream' # <<>>
        /\ stream'[Len(stream')] = Byte(n, HeaderSize)
    <2> DEFINE from == 1
    <2>1. /\ spc # "idle" /\ from \in Nat /\ HeaderSize - from + 1 <= Room /\ from >= 1
          /\ HeaderSize >= from /\ stream' = stream \o Bytes(n, from, HeaderSize)
          /\ ToWrite = Byte(n, from)
      BY <1>1, <1>5, <1>6
    <2> HIDE DEF from
    <2> QED BY <1>1, <1>5, <2>1, Writes
  <1>8. Types'
    <2>1. left' \in Nat /\ sentOk' \in Nat /\ spc' \in {"idle", "data"} BY <1>1, <1>4, Known
    <2> QED BY <1>1, <1>7, <2>1 DEF IInv, Types, receiver
  <1>9. Truths' BY <1>1 DEF IInv, Truths
  <1>10. Sender'
    <2>1. sentOk \in Nat /\ sentOk < n BY <1>1, Known DEF IInv, Sender
    <2> QED BY <1>1, <1>2, <1>4, <2>1 DEF Sender
  <1>11. ToWrite' = Follows(sizes, Byte(n, HeaderSize))
    <2> HIDE DEF n, e
    <2>1. Follows(sizes, Byte(n, HeaderSize)) =
              IF HeaderSize < e THEN Byte(n, HeaderSize + 1) ELSE Byte(n + 1, 1)
      BY Places DEF Follows, e
    <2>2. CASE left' = 0
      <3>1. ~(HeaderSize < e) BY <1>1, <1>4, <1>5, <2>2
      <3> QED BY <1>1, <2>1, <2>2, <3>1 DEF ToWrite, n
    <2>3. CASE left' # 0
      <3>1. HeaderSize < e /\ e - sizes[n] + 1 = HeaderSize + 1 BY <1>1, <1>4, <1>5, <2>3
      <3>2. ToWrite' = Byte(n, e - sizes[n] + 1)
        BY <1>1, <2>3 DEF ToWrite, n, e, End
      <3> QED BY <2>1, <3>1, <3>2
    <2> QED BY <2>2, <2>3
  <1>12. Ends' BY <1>1, <1>7, <1>11 DEF Ends
  <1> QED BY <1>7, <1>8, <1>9, <1>10, <1>12 DEF IInv

LEMMA WriteHeaderShortStep ==
    ASSUME IInv, NEW k \in 1..StreamMax, WriteHeaderShort(k) PROVE IInv'
  <1> DEFINE n == Len(sizes)
             e == End(sizes, n)
  <1>1. /\ spc = "header" /\ ~broken /\ rfd = "open" /\ k < HeaderSize /\ k <= Room
        /\ stream' = stream \o Bytes(n, 1, k) /\ sfd' = "closed" /\ spc' = "idle"
        /\ UNCHANGED <<sizes, left, sentOk, receiver, broken>>
    BY DEF WriteHeaderShort
  <1>2. n \in 1..Len(sizes) /\ n \in Nat /\ sizes \in Seq(Sizes) BY <1>1, Known
  <1>3. sizes[n] \in Nat /\ e \in Nat /\ e = HeaderSize + sizes[n] BY <1>2, Sized
  <1>4. k <= e /\ k - 1 + 1 = k /\ k \in Nat /\ k >= 1 BY <1>1, <1>3, Constants
  <1>5. ToWrite = Byte(n, 1) BY <1>1 DEF ToWrite
  <1>6. /\ stream' \in Seq(ByteSet) /\ Len(stream') <= StreamMax /\ Chain' /\ Receiver'
        /\ stream'[1] = Wanted' /\ stream' # <<>>
    <2> DEFINE from == 1
    <2>1. /\ spc # "idle" /\ from \in Nat /\ k - from + 1 <= Room /\ from >= 1
          /\ k >= from /\ stream' = stream \o Bytes(n, from, k)
          /\ ToWrite = Byte(n, from)
      BY <1>1, <1>4, <1>5
    <2> HIDE DEF from
    <2> QED BY <1>1, <1>4, <2>1, Writes
  <1>7. Types' BY <1>1, <1>6 DEF IInv, Types, receiver
  <1>8. Truths' BY <1>1 DEF IInv, Truths
  <1>9. Sender' BY <1>1 DEF IInv, Sender
  <1>10. Ends' BY <1>1, <1>6 DEF Ends
  <1> QED BY <1>6, <1>7, <1>8, <1>9, <1>10 DEF IInv

LEMMA WriteDataStep == ASSUME IInv, NEW k \in 1..StreamMax, WriteData(k) PROVE IInv'
  <1> DEFINE n == Len(sizes)
             e == End(sizes, n)
             from == e - left + 1
             to == e - left + k
  <1>1. /\ spc = "data" /\ ~broken /\ rfd = "open" /\ k <= left /\ k <= Room
        /\ stream' = stream \o Bytes(n, from, to) /\ left' = left - k
        /\ UNCHANGED <<sizes, sfd, receiver, broken>>
        /\ IF left' = 0 THEN spc' = "idle" /\ sentOk' = sentOk + 1
           ELSE spc' = spc /\ sentOk' = sentOk
    BY DEF WriteData, SendReturnsOk, End
  <1>2. n \in 1..Len(sizes) /\ sfd = "open" /\ n \in Nat /\ sizes \in Seq(Sizes)
    BY <1>1, Known
  <1>3. sizes[n] \in Nat /\ e \in Nat /\ e = HeaderSize + sizes[n] BY <1>2, Sized
  <1>4. left \in Nat /\ left >= 1 /\ left <= sizes[n] BY <1>1, Known DEF IInv, Sender
  <1>5. from \in Nat /\ to \in Nat /\ from >= 1 /\ to >= from /\ to <= e
        /\ to - from + 1 = k /\ left' \in Nat /\ from > HeaderSize
    <2>1. k \in Nat /\ k >= 1 /\ k <= left /\ left' = left - k BY <1>1, Constants
    <2>2. HeaderSize \in Nat /\ HeaderSize >= 1 BY Constants
    <2> DEFINE size == sizes[n]
    <2>3. size \in Nat /\ e \in Nat /\ e = HeaderSize + size /\ left \in Nat /\ left <= size
      BY <1>3, <1>4
    <2> HIDE DEF e, size
    <2>4. e - left \in Nat /\ e - left >= HeaderSize /\ e - left + k <= e BY <2>1, <2>2,
         <2>3
    <2>5. from \in Nat /\ from > HeaderSize /\ from >= 1 BY <2>2, <2>4
    <2>6. to \in Nat /\ to >= from /\ to <= e /\ to - from + 1 = k BY <2>1, <2>3, <2>4
    <2>7. left' \in Nat BY <2>1, <2>3
    <2> QED BY <2>5, <2>6, <2>7
  <1>6. ToWrite = Byte(n, from) BY <1>1 DEF ToWrite
  <1> HIDE DEF from, to
  <1>7. /\ stream' \in Seq(ByteSet) /\ Len(stream') <= StreamMax /\ Chain' /\ Receiver'
        /\ stream'[1] = Wanted' /\ stream' # <<>>
        /\ stream'[Len(stream')] = Byte(n, to)
    <2>1. spc # "idle" /\ to - from + 1 <= Room BY <1>1, <1>5
    <2> QED BY <1>1, <1>5, <1>6, <2>1, Writes
  <1>8. Types'
    <2>1. left' \in Nat /\ sentOk' \in Nat /\ spc' \in {"idle", "data"} BY <1>1, <1>5, Known
    <2> QED BY <1>1, <1>7, <2>1 DEF IInv, Types, receiver
  <1>9. Truths' BY <1>1 DEF IInv, Truths
  <1>10. Sender'
    <2>1. sentOk \in Nat /\ sentOk < n BY <1>1, Known DEF IInv, Sender
    <2>2. left' # 0 => left' >= 1 /\ left' <= sizes[n] BY <1>1, <1>3, <1>4, <1>5
    <2> QED BY <1>1, <1>2, <2>1, <2>2 DEF Sender
  <1>11. ToWrite' = Follows(sizes, Byte(n, to))
    <2> HIDE DEF n, e
    <2>1. Follows(sizes, Byte(n, to)) = IF to < e THEN Byte(n, to + 1) ELSE Byte(n + 1, 1)
      BY Places DEF Follows, e
    <2>2. CASE left' = 0
      <3>1. ~(to < e) BY <1>1, <1>3, <1>4, <2>2 DEF to
      <3> QED BY <1>1, <2>1, <2>2, <3>1 DEF ToWrite, n
    <2>3. CASE left' # 0
      <3>1. to < e /\ e - left' + 1 = to + 1 BY <1>1, <1>3, <1>4, <2>3 DEF to
      <3>2. ToWrite' = Byte(n, e - left' + 1) BY <1>1, <2>3 DEF ToWrite, n, e, End
      <3> QED BY <2>1, <3>1, <3>2
    <2> QED BY <2>2, <2>3
  <1>12. Ends' BY <1>1, <1>7, <1>11 DEF Ends
  <1> QED BY <1>7, <1>8, <1>9, <1>10, <1>12 DEF IInv

\* The steps that leave the stream and the receiver as they are.
LEMMA OtherSteps ==
    ASSUME IInv, WriteLost \/ WriteFails \/ CloseSender \/ CloseReceiver \/ Reset \/ ReadFails
    PROVE  IInv'
  <1>1. UNCHANGED <<sizes, stream, want, data, received>>
    BY DEF WriteLost, WriteFails, CloseSender, CloseReceiver, Reset, ReadFails, RecvFails,
           SendReturnsOk, sender, receiver
  <1>2. /\ sentOk \in Nat /\ Len(sizes) \in Nat /\ sentOk <= Len(sizes)
        /\ spc # "idle" => sentOk < Len(sizes) /\ sfd = "open"
    BY Known DEF IInv, Sender
  <1>3. Types'
    <2>1. /\ left' \in Nat /\ sentOk' \in Nat /\ spc' \in {"idle", "header", "data"}
          /\ sfd' \in {"open", "closed"} /\ rfd' \in {"open", "closed"}
          /\ rpc' \in {"idle", "header", "data"}
      BY DEF IInv, Types, WriteLost, WriteFails, CloseSender, CloseReceiver, Reset,
         ReadFails,
             RecvFails, SendReturnsOk, sender, receiver
    <2> QED BY <1>1, <2>1 DEF IInv, Types
  <1>4. Truths'
    BY DEF IInv, Truths, WriteLost, WriteFails, CloseSender, CloseReceiver, Reset, ReadFails
  <1>5. Sender'
    BY <1>1, <1>2 DEF IInv, Sender, WriteLost, WriteFails, CloseSender, CloseReceiver,
       Reset,
                      ReadFails, RecvFails, SendReturnsOk, sender, receiver
  <1>6. Receiver'
    <2>1. rpc' = rpc \/ rpc' = "idle" BY DEF WriteLost, WriteFails, CloseSender,
                                         CloseReceiver,
                                       Reset, ReadFails, RecvFails, sender, receiver
    <2>2. rpc' # "idle" => rfd' = rfd /\ rpc' = rpc
      BY DEF WriteLost, WriteFails, CloseSender, CloseReceiver, Reset, ReadFails, RecvFails,
             sender, receiver
    <2> QED BY <1>1, <2>1, <2>2 DEF IInv, Receiver, Data
  <1>7. Chain' BY <1>1 DEF IInv, Chain
  <1>8. rfd' = "open" => rfd = "open" /\ rpc' = rpc
    BY DEF WriteLost, WriteFails, CloseSender, CloseReceiver, Reset, ReadFails, RecvFails,
           sender, receiver
  <1>9. rfd' = "open" /\ sfd' = "open" /\ ~broken' =>
            rfd = "open" /\ sfd = "open" /\ ~broken /\ spc' = spc /\ left' = left
    BY DEF WriteLost, WriteFails, CloseSender, CloseReceiver, Reset, ReadFails, RecvFails,
           sender, receiver
  <1>10. Ends' BY <1>1, <1>8, <1>9 DEF IInv, Ends, Wanted, ToWrite, End, Follows
  <1> QED BY <1>3, <1>4, <1>5, <1>6, <1>7, <1>10 DEF IInv

-----------------------------------------------------------------------------
(* recv().                                                                 *)

\* What a step of recv() makes of the frames returned: the same, or the next
\* frame too.
NextFrame ==
    \/ received' = received /\ (rfd' = rfd \/ rfd' = "closed")
    \/ /\ rfd = "open" /\ rfd' = rfd /\ Len(received) < Len(sizes)
       /\ received' = Append(received, Data(Len(received) + 1))

\* The data of a frame.
LEMMA Whole ==
    ASSUME IInv, NEW n \in 1..Len(sizes), NEW d \in Seq(ByteSet), Len(d) = sizes[n],
           \A i \in 1..Len(d) : d[i] = Byte(n, HeaderSize + i)
    PROVE  d = Data(n)
  <1> DEFINE size == sizes[n]
  <1>1. n \in Nat /\ size \in Nat BY Known, Sized
  <1>2. HeaderSize + 1 \in Nat /\ HeaderSize + 1 >= 1 /\ HeaderSize \in Nat BY Constants
  <1> HIDE DEF size
  <1>3. /\ HeaderSize + size \in Nat /\ (HeaderSize + size) + 1 >= HeaderSize + 1
        /\ (HeaderSize + size) - (HeaderSize + 1) + 1 = size
    BY <1>1, <1>2
  <1>4. /\ Data(n) \in Seq(ByteSet) /\ Len(Data(n)) = size
        /\ \A i \in 1..size : Data(n)[i] = Byte(n, (HeaderSize + 1) + i - 1)
    <2> DEFINE from == HeaderSize + 1
               to == HeaderSize + size
    <2>1. /\ from \in Nat /\ to \in Nat /\ from >= 1 /\ to + 1 >= from
          /\ to - from + 1 = size /\ Data(n) = Bytes(n, from, to)
      BY <1>2, <1>3 DEF Data, size
    <2> HIDE DEF from, to
    <2>2. /\ Bytes(n, from, to) \in Seq(ByteSet) /\ Len(Bytes(n, from, to)) = to - from + 1
          /\ \A i \in 1..(to - from + 1) : Bytes(n, from, to)[i] = Byte(n, from + i - 1)
      BY <1>1, <2>1, Stretch
    <2>3. \A i \in 1..size : Data(n)[i] = Byte(n, from + i - 1) BY <2>1, <2>2
    <2> QED BY <2>1, <2>2, <2>3 DEF from
  <1>5. \A i \in 1..size : (HeaderSize + 1) + i - 1 = HeaderSize + i BY <1>1, <1>2
  <1>6. Len(d) = size BY DEF size
  <1>7. \A i \in 1..size : d[i] = Data(n)[i] BY <1>4, <1>5, <1>6
  <1> QED BY <1>4, <1>6, <1>7

\* One more frame received.
LEMMA Returned ==
    ASSUME IInv, Len(received) < Len(sizes), UNCHANGED sizes,
           received' = Append(received, Data(Len(received) + 1)),
           Data(Len(received) + 1) \in Seq(ByteSet)
    PROVE  /\ received' \in Seq(Seq(ByteSet)) /\ Len(received') = Len(received) + 1
           /\ Len(received') <= Len(sizes')
           /\ \A i \in 1..Len(received') : received'[i] = Data(i)'
  <1>1. /\ received \in Seq(Seq(ByteSet)) /\ Len(received) \in Nat /\ Len(sizes) \in Nat
        /\ \A i \in 1..Len(received) : received[i] = Data(i)
    BY Known DEF IInv, Receiver
  <1>2. \A i \in Nat : Data(i)' = Data(i) BY DEF Data
  <1> QED BY <1>1, <1>2

LEMMA RecvStep == ASSUME IInv, Recv PROVE IInv' /\ NextFrame
  <1>1. /\ rfd = "open" /\ rpc = "idle" /\ rpc' = "header"
        /\ UNCHANGED <<rfd, want, data, received, sender, stream, broken>>
    BY DEF Recv
  <1>2. Types' BY <1>1 DEF IInv, Types, sender
  <1>3. Truths' BY <1>1 DEF IInv, Truths
  <1>4. Sender' BY <1>1 DEF IInv, Sender, sender
  <1>5. Receiver' BY <1>1 DEF IInv, Receiver, Data, sender
  <1>6. Chain' BY <1>1 DEF IInv, Chain, sender
  <1>7. Ends' BY <1>1 DEF IInv, Ends, Wanted, ToWrite, End, Follows, sender
  <1> QED BY <1>1, <1>2, <1>3, <1>4, <1>5, <1>6, <1>7 DEF IInv, NextFrame

LEMMA ReadHeaderShortStep ==
    ASSUME IInv, NEW k \in 1..StreamMax, ReadHeaderShort(k) PROVE IInv' /\ NextFrame
  <1>1. /\ rpc = "header" /\ k \in 1..Len(stream) /\ Consume(k)
        /\ rfd' = "closed" /\ rpc' = "idle" /\ UNCHANGED <<want, data, received, sender>>
    BY Known, Constants DEF ReadHeaderShort, RecvFails
  <1>2. rfd = "open" BY <1>1 DEF IInv, Receiver
  <1>3. /\ stream' \in Seq(ByteSet) /\ Len(stream') <= StreamMax
        /\ Chain' /\ Sender' /\ Truths' /\ Ends'
    <2>1. rfd' = "open" => Wanted' = Follows(sizes, stream[k]) BY <1>1
    <2> QED BY <1>1, <1>2, <2>1, Reads
  <1>4. Types' BY <1>1, <1>3 DEF IInv, Types, sender
  <1>5. Receiver' BY <1>1 DEF IInv, Receiver, Data, sender
  <1> QED BY <1>1, <1>3, <1>4, <1>5 DEF IInv, NextFrame

LEMMA ReadHeaderStep == ASSUME IInv, ReadHeader, BigEndian = FALSE PROVE IInv' /\ NextFrame
  <1> DEFINE n == Len(received) + 1
             e == End(sizes, n)
             size == sizes[n]
             header == SubSeq(stream, 1, HeaderSize)
  <1>1. /\ rpc = "header" /\ HeaderSize \in 1..Len(stream) /\ Consume(HeaderSize)
        /\ UNCHANGED sender
        /\ \E m \in Decoded(header) :
              IF m > Limit THEN RecvFails
              ELSE /\ data' = <<>> /\ want' = m
                   /\ IF m = 0 THEN RecvReturns(<<>>)
                      ELSE rpc' = "data" /\ UNCHANGED <<rfd, received>>
    BY Known, Constants DEF ReadHeader
  <1>2. rfd = "open" /\ Wanted = Byte(n, 1) BY <1>1 DEF IInv, Receiver, Wanted
  <1>3. n \in Nat /\ n >= 1 /\ Len(received) \in Nat /\ Len(sizes) \in Nat BY Known
  <1>4. n \in 1..Len(sizes)
    <2>1. /\ sizes \in Seq(Sizes) /\ stream \in Seq(ByteSet) /\ Chained(sizes, stream)
          /\ 1 \in 1..Len(stream) /\ stream # <<>>
      BY <1>1, Known, Constants
    <2>2. stream[1].frame \in 1..Len(sizes) BY <2>1, Member
    <2>3. stream[1] = Byte(n, 1) BY <1>2, <2>1 DEF IInv, Ends
    <2> QED BY <2>2, <2>3, Places
  <1>5. size \in Nat /\ e \in Nat /\ e = HeaderSize + size BY <1>4, Known, Sized
  <1>6. /\ header \in Seq(ByteSet) /\ Len(header) = HeaderSize
        /\ \A i \in 1..HeaderSize : header[i] = Byte(n, i)
        /\ stream[HeaderSize] = Byte(n, HeaderSize)
    <2> DEFINE p == 1
    <2>1. /\ p \in Nat /\ p >= 1 /\ Wanted = Byte(n, p) /\ p + HeaderSize <= e + 1
      BY <1>2, <1>5, Constants
    <2> HIDE DEF p, n
    <2>2. /\ header \in Seq(ByteSet) /\ Len(header) = HeaderSize
          /\ \A i \in 1..HeaderSize : header[i] = Byte(n, p + (i - 1))
          /\ stream[HeaderSize] = Byte(n, p + (HeaderSize - 1))
      BY <1>1, <1>2, <1>3, <2>1, Fronts
    <2>3. \A i \in 1..HeaderSize : p + (i - 1) = i BY Constants DEF p
    <2>4. HeaderSize \in 1..HeaderSize BY Constants
    <2> QED BY <2>2, <2>3, <2>4
  <1>7. Decoded(header) = {size}
    <2>1. header[1].frame = n BY <1>6, Places, Constants
    <2>2. /\ Bytes(n, 1, HeaderSize) \in Seq(ByteSet) /\ Len(Bytes(n, 1, HeaderSize)) = HeaderSize
          /\ \A i \in 1..HeaderSize : Bytes(n, 1, HeaderSize)[i] = Byte(n, i)
      <3> DEFINE from == 1
      <3>1. from \in Nat /\ from >= 1 /\ HeaderSize + 1 >= from
            /\ HeaderSize - from + 1 = HeaderSize /\ HeaderSize \in Nat
            /\ \A i \in 1..HeaderSize : from + i - 1 = i
        BY Constants
      <3> HIDE DEF from, n
      <3>2. /\ Bytes(n, from, HeaderSize) \in Seq(ByteSet)
            /\ Len(Bytes(n, from, HeaderSize)) = HeaderSize - from + 1
            /\ \A i \in 1..(HeaderSize - from + 1) :
                  Bytes(n, from, HeaderSize)[i] = Byte(n, from + i - 1)
        BY <1>3, <3>1, Stretch
      <3>3. \A i \in 1..HeaderSize : Bytes(n, from, HeaderSize)[i] = Byte(n, i) BY <3>1,
           <3>2
      <3> QED BY <3>1, <3>2, <3>3 DEF from
    <2> HIDE DEF header, n
    <2>3. header = Bytes(n, 1, HeaderSize) BY <1>6, <2>2
    <2>4. EnsureLittleEndian(EnsureLittleEndian(size)) = size BY DEF EnsureLittleEndian
    <2> QED BY <2>1, <2>3, <2>4 DEF Decoded
  <1>8. \/ size > Limit /\ RecvFails
        \/ /\ ~(size > Limit) /\ size = 0 /\ data' = <<>> /\ want' = 0
           /\ received' = Append(received, <<>>) /\ rpc' = "idle" /\ rfd' = rfd
        \/ /\ ~(size > Limit) /\ size # 0 /\ data' = <<>> /\ want' = size
           /\ rpc' = "data" /\ rfd' = rfd /\ received' = received
    <2> HIDE DEF header, size
    <2> QED BY <1>1, <1>7 DEF RecvReturns
  <1>9. /\ sizes' = sizes /\ Len(received) < Len(sizes)
        /\ Follows(sizes, stream[HeaderSize]) =
              IF HeaderSize < e THEN Byte(n, HeaderSize + 1) ELSE Byte(n + 1, 1)
    <2>1. Len(received) < Len(sizes) BY <1>3, <1>4
    <2> QED BY <1>1, <1>6, <2>1, Places DEF Follows, sender
  <1> HIDE DEF header
  <1>10. ASSUME rfd' = "open" => Wanted' = Follows(sizes, stream[HeaderSize])
         PROVE  /\ stream' \in Seq(ByteSet) /\ Len(stream') <= StreamMax
                /\ Chain' /\ Sender' /\ Truths' /\ Ends'
    BY <1>1, <1>2, <1>10, Reads
  <1>11. CASE size > Limit /\ RecvFails
    <2>1. /\ stream' \in Seq(ByteSet) /\ Len(stream') <= StreamMax
          /\ Chain' /\ Sender' /\ Truths' /\ Ends'
      BY <1>10, <1>11 DEF RecvFails
    <2>2. Types' BY <1>1, <1>11, <2>1 DEF IInv, Types, sender, RecvFails
    <2>3. Receiver' BY <1>9, <1>11 DEF IInv, Receiver, Data, RecvFails
    <2> QED BY <1>11, <2>1, <2>2, <2>3 DEF IInv, NextFrame, RecvFails
  <1>12. CASE /\ ~(size > Limit) /\ size = 0 /\ data' = <<>> /\ want' = 0
              /\ received' = Append(received, <<>>) /\ rpc' = "idle" /\ rfd' = rfd
    <2>1. <<>> = Data(n)
      <3> DEFINE d == <<>>
      <3>1. d \in Seq(ByteSet) /\ Len(d) = sizes[n] /\ \A i \in 1..Len(d) : FALSE BY <1>12
      <3> HIDE DEF d, n
      <3>2. d = Data(n) BY <1>4, <3>1, Whole
      <3> QED BY <3>2 DEF d
    <2>2. <<>> \in Seq(ByteSet) OBVIOUS
    <2>3. /\ received' \in Seq(Seq(ByteSet)) /\ Len(received') = Len(received) + 1
          /\ Len(received') <= Len(sizes')
          /\ \A i \in 1..Len(received') : received'[i] = Data(i)'
      BY <1>9, <1>12, <2>1, <2>2, Returned
    <2>4. /\ stream' \in Seq(ByteSet) /\ Len(stream') <= StreamMax
          /\ Chain' /\ Sender' /\ Truths' /\ Ends'
      <3>1. ~(HeaderSize < e) BY <1>5, <1>12, Constants
      <3>2. Wanted' = Byte(n + 1, 1) BY <1>12, <2>3 DEF Wanted
      <3> QED BY <1>9, <1>10, <3>1, <3>2
    <2>5. Types' BY <1>1, <1>12, <2>3, <2>4 DEF IInv, Types, sender
    <2>6. Receiver' BY <1>12, <2>3, Constants DEF Receiver
    <2> QED BY <1>2, <1>9, <1>12, <2>1, <2>4, <2>5, <2>6 DEF IInv, NextFrame
  <1>13. CASE /\ ~(size > Limit) /\ size # 0 /\ data' = <<>> /\ want' = size
              /\ rpc' = "data" /\ rfd' = rfd /\ received' = received
    <2>1. Len(data') = 0 /\ size > 0 /\ size <= Limit BY <1>5, <1>13, Constants
    <2>2. /\ stream' \in Seq(ByteSet) /\ Len(stream') <= StreamMax
          /\ Chain' /\ Sender' /\ Truths' /\ Ends'
      <3>1. HeaderSize < e /\ HeaderSize + 0 + 1 = HeaderSize + 1 BY <1>5, <2>1, Constants
      <3>2. Wanted' = Byte(n, HeaderSize + 0 + 1) BY <1>13, <2>1 DEF Wanted
      <3> QED BY <1>9, <1>10, <3>1, <3>2
    <2>3. Types' BY <1>1, <1>5, <1>13, <2>2 DEF IInv, Types, sender
    <2>4. Receiver'
      <3>1. /\ rpc' # "idle" => rfd' = "open"
            /\ Len(received') <= Len(sizes')
            /\ \A i \in 1..Len(received') : received'[i] = Data(i)'
        BY <1>2, <1>9, <1>13 DEF IInv, Receiver, Data
      <3>2. /\ Len(received') < Len(sizes') /\ want' > 0
            /\ Len(data') + want' = sizes'[Len(received') + 1] /\ Len(data') + want' <= Limit
        BY <1>5, <1>9, <1>13, <2>1
      <3>3. \A i \in 1..Len(data') : FALSE BY <2>1
      <3> QED BY <3>1, <3>2, <3>3 DEF Receiver
    <2> QED BY <1>13, <2>2, <2>3, <2>4 DEF IInv, NextFrame
  <1> QED BY <1>8, <1>11, <1>12, <1>13

LEMMA ReadDataStep ==
    ASSUME IInv, NEW k \in 1..StreamMax, ReadData(k) PROVE IInv' /\ NextFrame
  <1> DEFINE n == Len(received) + 1
             e == End(sizes, n)
             size == sizes[n]
             L == Len(data)
             p == HeaderSize + L + 1
             part == SubSeq(stream, 1, k)
  <1>1. /\ rpc = "data" /\ k <= want /\ k \in 1..Len(stream) /\ Consume(k)
        /\ data' = data \o part /\ want' = want - k /\ UNCHANGED sender
        /\ IF want' = 0 THEN RecvReturns(data') ELSE UNCHANGED <<rfd, rpc, received>>
    BY Known, Constants DEF ReadData
  <1>2. /\ rfd = "open" /\ Wanted = Byte(n, p) /\ want > 0 /\ L + want = size
        /\ Len(received) < Len(sizes) /\ L + want <= Limit
        /\ \A i \in 1..L : data[i] = Byte(n, HeaderSize + i)
    BY <1>1 DEF IInv, Receiver, Wanted
  <1>3. /\ n \in Nat /\ n >= 1 /\ Len(received) \in Nat /\ Len(sizes) \in Nat
        /\ L \in Nat /\ want \in Nat /\ data \in Seq(ByteSet)
    BY Known
  <1>4. n \in 1..Len(sizes) BY <1>2, <1>3
  <1>5. size \in Nat /\ e \in Nat /\ e = HeaderSize + size BY <1>4, Known, Sized
  <1>6. HeaderSize \in Nat /\ k \in Nat /\ k >= 1 /\ p \in Nat /\ p >= 1 /\ p + k <= e + 1
    <2>1. HeaderSize \in Nat /\ k \in Nat /\ k >= 1 /\ Limit \in Nat BY Constants
    <2> HIDE DEF L, e, size
    <2> QED BY <1>1, <1>2, <1>3, <1>5, <2>1
  <1>7. /\ part \in Seq(ByteSet) /\ Len(part) = k
        /\ \A i \in 1..k : part[i] = Byte(n, p + (i - 1))
        /\ stream[k] = Byte(n, p + (k - 1))
    <2> HIDE DEF p, n
    <2> QED BY <1>1, <1>2, <1>3, <1>6, Fronts
  <1> HIDE DEF part
  <1>8. /\ data' \in Seq(ByteSet) /\ Len(data') = L + k
        /\ \A i \in 1..Len(data') : data'[i] = Byte(n, HeaderSize + i)
    <2>1. /\ data \o part \in Seq(ByteSet) /\ Len(data \o part) = L + k
          /\ \A i \in 1..L : (data \o part)[i] = data[i]
          /\ \A i \in (L + 1)..(L + k) : (data \o part)[i] = part[i - L]
      BY <1>3, <1>7, Grown
    <2> HIDE DEF L, n
    <2>2. ASSUME NEW i \in (L + 1)..(L + k) PROVE part[i - L] = Byte(n, HeaderSize + i)
      <3>1. i - L \in 1..k /\ p + ((i - L) - 1) = HeaderSize + i BY <1>3, <1>6
      <3> QED BY <1>7, <3>1
    <2>3. \A i \in 1..(L + k) : i \in 1..L \/ i \in (L + 1)..(L + k) BY <1>3, <1>6
    <2> QED BY <1>1, <1>2, <2>1, <2>2, <2>3
  <1>9. /\ sizes' = sizes
        /\ p + (k - 1) = HeaderSize + (L + k)
        /\ Follows(sizes, stream[k]) =
              IF HeaderSize + (L + k) < e THEN Byte(n, HeaderSize + (L + k) + 1)
              ELSE Byte(n + 1, 1)
    <2>1. p + (k - 1) = HeaderSize + (L + k)
      <3> HIDE DEF L
      <3> QED BY <1>3, <1>6
    <2>2. stream[k].frame = n /\ stream[k].place = HeaderSize + (L + k)
      BY <1>7, <2>1, Places
    <2> QED BY <1>1, <2>1, <2>2 DEF Follows, sender
  <1>10. ASSUME rfd' = "open" => Wanted' = Follows(sizes, stream[k])
         PROVE  /\ stream' \in Seq(ByteSet) /\ Len(stream') <= StreamMax
                /\ Chain' /\ Sender' /\ Truths' /\ Ends'
    BY <1>1, <1>2, <1>10, Reads
  <1>11. want' \in Nat /\ (L + k) + want' = size /\ (L + k) + want' <= Limit
    <2> HIDE DEF L, size
    <2> QED BY <1>1, <1>2, <1>3, <1>5, <1>6, Constants
  <1>12. CASE want' = 0
    <2>1. received' = Append(received, data') /\ rpc' = "idle" /\ rfd' = rfd
      BY <1>1, <1>12 DEF RecvReturns
    <2>2. data' = Data(n)
      <3>1. Len(data') = sizes[n] BY <1>3, <1>6, <1>8, <1>11, <1>12
      <3> QED BY <1>4, <1>8, <3>1, Whole
    <2>3. /\ received' \in Seq(Seq(ByteSet)) /\ Len(received') = Len(received) + 1
          /\ Len(received') <= Len(sizes')
          /\ \A i \in 1..Len(received') : received'[i] = Data(i)'
      <3>1. received' = Append(received, Data(Len(received) + 1)) BY <2>1, <2>2
      <3>2. Data(Len(received) + 1) \in Seq(ByteSet) BY <1>8, <2>2
      <3> QED BY <1>2, <1>9, <3>1, <3>2, Returned
    <2>4. /\ stream' \in Seq(ByteSet) /\ Len(stream') <= StreamMax
          /\ Chain' /\ Sender' /\ Truths' /\ Ends'
      <3>1. ~(HeaderSize + (L + k) < e)
        <4> HIDE DEF L, e, size
        <4> QED BY <1>3, <1>5, <1>6, <1>11, <1>12
      <3>2. Wanted' = Byte(n + 1, 1) BY <2>1, <2>3 DEF Wanted
      <3> QED BY <1>9, <1>10, <3>1, <3>2
    <2>5. Types' BY <1>1, <1>8, <1>11, <2>1, <2>3, <2>4 DEF IInv, Types, sender
    <2>6. Receiver' BY <1>8, <1>11, <2>1, <2>3 DEF Receiver
    <2> QED BY <1>2, <2>1, <2>2, <2>4, <2>5, <2>6 DEF IInv, NextFrame
  <1>13. CASE want' # 0
    <2>1. UNCHANGED <<rfd, rpc, received>> BY <1>1, <1>13
    <2>2. /\ stream' \in Seq(ByteSet) /\ Len(stream') <= StreamMax
          /\ Chain' /\ Sender' /\ Truths' /\ Ends'
      <3>1. HeaderSize + (L + k) < e
        <4> HIDE DEF L, e, size
        <4>1. want' \in Nat /\ want' >= 1 /\ (L + k) + want' = size BY <1>11, <1>13
        <4>2. /\ L \in Nat /\ k \in Nat /\ HeaderSize \in Nat /\ size \in Nat
              /\ e = HeaderSize + size
          BY <1>3, <1>5, <1>6
        <4>3. \A x, y, w, z, h \in Nat : (x + y) + w = z /\ w >= 1 => h + (x + y) < h + z
          OBVIOUS
        <4> QED BY <4>1, <4>2, <4>3
      <3>2. Wanted' = Byte(n, HeaderSize + (L + k) + 1) BY <1>1, <1>8, <2>1 DEF Wanted
      <3> QED BY <1>9, <1>10, <3>1, <3>2
    <2>3. Types' BY <1>1, <1>8, <1>11, <2>1, <2>2 DEF IInv, Types, sender
    <2>4. Receiver'
      <3>1. /\ rpc' # "idle" => rfd' = "open"
            /\ Len(received') <= Len(sizes')
            /\ \A i \in 1..Len(received') : received'[i] = Data(i)'
        BY <1>2, <1>9, <2>1 DEF IInv, Receiver, Data
      <3>2. /\ Len(received') < Len(sizes') /\ want' > 0
            /\ Len(data') + want' = sizes'[Len(received') + 1] /\ Len(data') + want' <= Limit
        BY <1>2, <1>8, <1>9, <1>11, <1>13, <2>1
      <3>3. \A i \in 1..Len(data') : data'[i] = Byte(Len(received') + 1, HeaderSize + i)
        BY <1>8, <2>1
      <3> QED BY <3>1, <3>2, <3>3 DEF Receiver
    <2> QED BY <2>1, <2>2, <2>3, <2>4 DEF IInv, NextFrame
  <1> QED BY <1>12, <1>13

-----------------------------------------------------------------------------
(* The theorems.                                                           *)

\* What a step does to the frames given and returned.
LEMMA Step ==
    ASSUME IInv, [Next]_vars, BigEndian = FALSE
    PROVE  /\ IInv'
           /\ \/ UNCHANGED <<sizes, received, rfd>>
              \/ \E n \in Sizes : sizes' = Append(sizes, n) /\ UNCHANGED <<received, rfd>>
              \/ UNCHANGED sizes /\ NextFrame
              \/ UNCHANGED <<sizes, received>> /\ rfd' = "closed"
  <1>1. CASE UNCHANGED vars
    <2>1. UNCHANGED <<sizes, sfd, spc, left, sentOk, rfd, rpc, want, data, received, stream,
                      broken>>
      BY <1>1 DEF vars, sender, receiver
    <2>2. Types' /\ Truths' BY <2>1 DEF IInv, Types, Truths
    <2>3. Sender' /\ Receiver' /\ Chain' BY <2>1 DEF IInv, Sender, Receiver, Data, Chain
    <2>4. Ends' BY <2>1 DEF IInv, Ends, Wanted, ToWrite, End, Follows
    <2> QED BY <2>1, <2>2, <2>3, <2>4 DEF IInv
  <1>2. ASSUME NEW n \in Sizes, Send(n) PROVE \E m \in Sizes : sizes' = Append(sizes, m)
                                              /\ UNCHANGED <<received, rfd>>
    BY <1>2 DEF Send, receiver
  <1>3. CASE Sending
    <2>1. IInv'
      BY <1>3, WriteHeaderStep, WriteHeaderShortStep, WriteDataStep, OtherSteps DEF Sending
    <2>2. UNCHANGED <<sizes, received, rfd>>
      BY <1>3 DEF Sending, WriteHeader, WriteHeaderShort, WriteData, WriteLost, WriteFails,
                  receiver
    <2> QED BY <2>1, <2>2
  <1>4. CASE ReadFails
    <2>1. IInv' BY <1>4, OtherSteps
    <2> QED BY <1>4, <2>1 DEF ReadFails, RecvFails, sender
  <1>5. CASE Recv \/ ReadHeader \/ \E k \in 1..StreamMax : ReadHeaderShort(k) \/ ReadData(k)
    <2>1. IInv' /\ NextFrame
      BY <1>5, RecvStep, ReadHeaderStep, ReadHeaderShortStep, ReadDataStep
    <2>2. UNCHANGED sizes BY <1>5 DEF Recv, ReadHeader, ReadHeaderShort, ReadData, sender
    <2> QED BY <2>1, <2>2
  <1>6. CASE CloseSender \/ CloseReceiver \/ Reset
    <2>1. IInv' BY <1>6, OtherSteps
    <2>2. UNCHANGED <<sizes, received>> /\ (rfd' = rfd \/ rfd' = "closed")
      BY <1>6 DEF CloseSender, CloseReceiver, Reset, sender, receiver
    <2> QED BY <2>1, <2>2
  <1>7. ASSUME NEW n \in Sizes, Send(n) PROVE IInv' BY <1>7, SendStep
  <1> QED BY <1>1, <1>2, <1>3, <1>4, <1>5, <1>6, <1>7 DEF Next, Receiving

THEOREM Invariance == ASSUME BigEndian = FALSE PROVE Spec => []IInv
  <1>1. Init => IInv BY InitIInv
  <1>2. IInv /\ [Next]_vars => IInv' BY Step
  <1> QED BY <1>1, <1>2, PTL DEF Spec

\* TypeOK holds between little-endian machines.
THEOREM TypeCorrect == ASSUME BigEndian = FALSE PROVE Spec => []TypeOK
  <1>1. IInv => TypeOK
    <2> SUFFICES ASSUME IInv PROVE TypeOK OBVIOUS
    <2>1. /\ Len(data) + want <= Limit /\ Len(received) <= Len(sizes)
          /\ sentOk \in 0..Len(sizes)
      BY Known DEF IInv, Receiver
    <2>2. \A i \in 1..Len(stream) : stream[i].frame \in 1..Len(sizes) BY Known, Member
    <2>3. broken \in BOOLEAN BY DEF IInv, Truths
    <2> QED BY <2>1, <2>2, <2>3 DEF IInv, Types, TypeOK
  <1> QED BY <1>1, Invariance, PTL

\* recv() returns the frames given to send(), whole and in order, for every
\* size, every limit and every split of the bytes by the kernel: BaseFdIO
\* implements FrameChannel (rpc_tunnel.hpp:68-136).
THEOREM Refinement == ASSUME BigEndian = FALSE PROVE Spec => FramesInOrder
  <1> DEFINE given == [n \in 1..Len(sizes) |-> Data(n)]
  <1>1. Init => Channel!Init
    <2> SUFFICES ASSUME Init PROVE Channel!Init OBVIOUS
    <2>1. Len(sizes) = 0 /\ received = <<>> /\ rfd = "open" BY DEF Init
    <2>2. [n \in 1..0 |-> Data(n)] = <<>> OBVIOUS
    <2> QED BY <2>1, <2>2 DEF Channel!Init
  <1>2. IInv /\ [Next]_vars => [Channel!Next]_Channel!vars
    <2> SUFFICES ASSUME IInv, [Next]_vars PROVE [Channel!Next]_Channel!vars OBVIOUS
    <2>1. sizes \in Seq(Sizes) /\ Len(sizes) \in Nat /\ Len(received) \in Nat BY Known
    <2>2. CASE UNCHANGED <<sizes, received, rfd>> BY <2>2 DEF Channel!vars, Data
    <2>3. ASSUME NEW m \in Sizes, sizes' = Append(sizes, m), UNCHANGED <<received, rfd>>
          PROVE  Channel!Next
      <3>1. PICK k \in Nat : k = Len(sizes) + 1 BY <2>1
      <3>2. Len(sizes') = k /\ sizes'[k] = m /\ \A i \in 1..Len(sizes) : sizes'[i] = sizes[i]
        BY <2>1, <2>3, <3>1
      <3>3. k \in 1..FramesMax
        <4>1. Len(sizes') <= FramesMax BY Step DEF IInv, Types
        <4> QED BY <2>1, <3>1, <3>2, <4>1, Constants
      <3> DEFINE f == Bytes(k, HeaderSize + 1, HeaderSize + m)
      <3>4. \A i \in 1..Len(sizes) : Data(i)' = Data(i) BY <3>2 DEF Data
      <3>5. Data(k)' = f BY <3>2 DEF Data
      <3>6. f \in {Bytes(n, HeaderSize + 1, HeaderSize + size) :
                       n \in 1..FramesMax, size \in Sizes}
        BY <3>3
      <3> HIDE DEF f
      <3>7. given' = Append(given, f)
        <4>1. given' = [i \in 1..k |-> Data(i)'] BY <3>2
        <4>2. given \in Seq({Data(i) : i \in 1..Len(sizes)}) /\ Len(given) = Len(sizes)
          BY <2>1
        <4>3. /\ DOMAIN Append(given, f) = 1..k
              /\ \A i \in 1..Len(sizes) : Append(given, f)[i] = Data(i)
              /\ Append(given, f)[k] = f
              /\ Append(given, f) = [i \in 1..k |-> Append(given, f)[i]]
          BY <2>1, <3>1, <4>2
        <4>4. \A i \in 1..k : i \in 1..Len(sizes) \/ i = k BY <2>1, <3>1
        <4>5. \A i \in 1..k : Data(i)' = Append(given, f)[i] BY <3>4, <3>5, <4>3, <4>4
        <4> HIDE DEF given
        <4> QED BY <4>1, <4>3, <4>5
      <3>8. Channel!Give(f) BY <2>3, <3>7 DEF Channel!Give
      <3> QED BY <3>6, <3>8 DEF Channel!Next
    <2>4. CASE UNCHANGED sizes /\ NextFrame
      <3>1. given' = given BY <2>4 DEF Data
      <3>2. CASE received' = received /\ rfd' = rfd
        BY <3>1, <3>2 DEF Channel!vars
      <3>3. CASE /\ rfd = "open" /\ rfd' = rfd /\ Len(received) < Len(sizes)
                 /\ received' = Append(received, Data(Len(received) + 1))
        <4>1. Len(given) = Len(sizes) /\ given[Len(received) + 1] = Data(Len(received) + 1)
          BY <2>1, <3>3
        <4> HIDE DEF given
        <4>2. Channel!Take BY <3>1, <3>3, <4>1 DEF Channel!Take, given
        <4> QED BY <4>2 DEF Channel!Next
      <3>4. CASE received' = received /\ rfd' = "closed"
        BY <3>1, <3>4 DEF Channel!Next, Channel!Shut
      <3> QED BY <2>4, <3>2, <3>3, <3>4 DEF NextFrame
    <2>5. CASE UNCHANGED <<sizes, received>> /\ rfd' = "closed"
      BY <2>5 DEF Channel!Next, Channel!Shut, Data
    <2> QED BY <2>2, <2>3, <2>4, <2>5, Step
  <1> QED BY <1>1, <1>2, Invariance, PTL DEF Spec, FramesInOrder, Channel!Spec

=============================================================================
