---------------------------- MODULE ReaderProofs -----------------------------
(***************************************************************************)
(* What the program reads out of bytes, its own and those that others      *)
(* wrote, for every size and every content.  All of it rests on where the  *)
(* pieces of a sequence lie that is put together of pieces (FlattenSeq):   *)
(* the attributes of a product, which the scanner never leaves but at      *)
(* their ends, and the fields of a layout, each of which is read where it  *)
(* was written: the arguments of an instruction, the fields of an account  *)
(* and of the entries of its list.                                         *)
(***************************************************************************)
EXTENDS ProductAttributes, InstructionCodec, AccountCodec, ArithmeticProofs, SequenceTheorems

-----------------------------------------------------------------------------
(***************************************************************************)
(* Sequences one behind the other                                          *)
(***************************************************************************)
IsFlat(seqs, f) ==
  f = [i \in 1..Len(seqs) |-> IF i = 1 THEN seqs[i] ELSE f[i - 1] \o seqs[i]]

\* A function on the first numbers is a sequence.
LEMMA FunctionIsSeq ==
  ASSUME NEW S, NEW n \in Nat, NEW f \in [1..n -> S]
  PROVE  f \in Seq(S) /\ Len(f) = n /\ DOMAIN f = 1..n
<1>1. f \in Seq(S)
  BY SeqDef
<1>2. DOMAIN f = 1..Len(f) /\ Len(f) \in Nat
  BY <1>1, LenProperties
<1>3. \A m \in Nat : 1..m = 1..n => m = n
  <2> SUFFICES ASSUME NEW m \in Nat, 1..m = 1..n PROVE m = n
    OBVIOUS
  <2>1. m \in 1..m => m \in 1..n
    OBVIOUS
  <2>2. n \in 1..n => n \in 1..m
    OBVIOUS
  <2> QED
    BY <2>1, <2>2
<1> QED
  BY <1>1, <1>2, <1>3

LEMMA FlattenIs ==
  ASSUME NEW seqs, Len(seqs) # 0
  PROVE  FlattenSeq(seqs) = (CHOOSE f : IsFlat(seqs, f))[Len(seqs)]
BY DEF FlattenSeq, IsFlat

\* What the first i of them make up, for each i.
IsPrefixes(seqs, S, m, pre) ==
  /\ pre \in [0..m -> Seq(S)]
  /\ pre[0] = << >>
  /\ \A i \in 1..m : pre[i] = pre[i - 1] \o seqs[i]

LEMMA PrefixesExist ==
  ASSUME NEW S, NEW seqs \in Seq(Seq(S))
  PROVE  \A m \in Nat : m <= Len(seqs) => \E pre : IsPrefixes(seqs, S, m, pre)
<1> DEFINE T == {m \in Nat : m <= Len(seqs) => \E pre : IsPrefixes(seqs, S, m, pre)}
<1>0. Len(seqs) \in Nat /\ \A i \in 1..Len(seqs) : seqs[i] \in Seq(S)
  BY ElementOfSeq, LenProperties
<1>1. 0 \in T
  <2>1. << >> \in Seq(S)
    OBVIOUS
  <2>2. IsPrefixes(seqs, S, 0, [i \in 0..0 |-> << >>])
    BY <2>1 DEF IsPrefixes
  <2> QED
    BY <2>2
<1>2. ASSUME NEW m \in Nat, m \in T PROVE m + 1 \in T
  <2> SUFFICES ASSUME m + 1 <= Len(seqs)
               PROVE  \E pre : IsPrefixes(seqs, S, m + 1, pre)
    OBVIOUS
  <2>1. m <= Len(seqs) /\ m + 1 \in 1..Len(seqs)
    BY <1>0
  <2>2. PICK pre : IsPrefixes(seqs, S, m, pre)
    BY <1>2, <2>1
  <2>3. pre[m] \in Seq(S) /\ seqs[m + 1] \in Seq(S)
    BY <1>0, <2>1, <2>2 DEF IsPrefixes
  <2>4. PICK t \in Seq(S) : t = pre[m] \o seqs[m + 1]
    BY <2>3, ConcatProperties
  <2> DEFINE new == [i \in 0..(m + 1) |-> IF i = m + 1 THEN t ELSE pre[i]]
  <2>5. new \in [0..(m + 1) -> Seq(S)] /\ new[0] = << >>
    BY <2>2, <2>4 DEF IsPrefixes
  <2>6. ASSUME NEW i \in 1..(m + 1) PROVE new[i] = new[i - 1] \o seqs[i]
    <3>1. new[i - 1] = pre[i - 1]
      OBVIOUS
    <3>2. CASE i = m + 1
      <4>1. i - 1 = m /\ new[i] = t
        BY <3>2
      <4> QED
        BY <2>4, <3>1, <3>2, <4>1
    <3>3. CASE i # m + 1
      <4>1. i \in 1..m /\ new[i] = pre[i]
        BY <3>3
      <4> QED
        BY <2>2, <3>1, <4>1 DEF IsPrefixes
    <3> QED
      BY <3>2, <3>3
  <2> HIDE DEF new
  <2>7. IsPrefixes(seqs, S, m + 1, new)
    BY <2>5, <2>6 DEF IsPrefixes
  <2> QED
    BY <2>7
<1> HIDE DEF T
<1>3. \A m \in Nat : m \in T
  BY <1>1, <1>2, Induction
<1> QED
  BY <1>3 DEF T

\* All of them make up the flat sequence.
LEMMA FlatPrefixes ==
  ASSUME NEW S, NEW seqs \in Seq(Seq(S))
  PROVE  \E pre : IsPrefixes(seqs, S, Len(seqs), pre) /\ pre[Len(seqs)] = FlattenSeq(seqs)
<1>0. Len(seqs) \in Nat /\ \A i \in 1..Len(seqs) : seqs[i] \in Seq(S)
  BY ElementOfSeq, LenProperties
<1> PICK n \in Nat : n = Len(seqs)
  BY <1>0
<1>1. PICK pre : IsPrefixes(seqs, S, n, pre)
  BY PrefixesExist
<1>2. CASE n = 0
  <2>1. seqs = << >>
    BY <1>2, EmptySeq
  <2>2. FlattenSeq(seqs) = << >>
    BY <2>1, <1>2 DEF FlattenSeq
  <2> QED
    BY <1>1, <1>2, <2>2 DEF IsPrefixes
<1>3. CASE n # 0
  <2> DEFINE g == [i \in 1..n |-> pre[i]]
  <2>1. IsFlat(seqs, g)
    <3>1. ASSUME NEW i \in 1..n
          PROVE  g[i] = IF i = 1 THEN seqs[i] ELSE g[i - 1] \o seqs[i]
      <4>1. pre[i] = pre[i - 1] \o seqs[i]
        BY <1>1 DEF IsPrefixes
      <4>2. CASE i = 1
        <5>1. pre[i - 1] = << >>
          BY <1>1, <4>2 DEF IsPrefixes
        <5>2. << >> \o seqs[i] = seqs[i]
          BY <1>0, ConcatEmptySeq
        <5> QED
          BY <4>1, <4>2, <5>1, <5>2
      <4>3. CASE i # 1
        <5>1. i - 1 \in 1..n
          BY <4>3
        <5>2. g[i] = pre[i] /\ g[i - 1] = pre[i - 1]
          BY <5>1
        <5> HIDE DEF g
        <5> QED
          BY <4>1, <4>3, <5>2
      <4> QED
        BY <4>2, <4>3
    <3> HIDE DEF g
    <3>2. g = [i \in 1..n |-> g[i]]
      BY DEF g
    <3> QED
      BY <3>1, <3>2 DEF IsFlat
  <2> HIDE DEF g
  <2>2. PICK f : f = (CHOOSE h : IsFlat(seqs, h))
    OBVIOUS
  <2>3. IsFlat(seqs, f)
    BY <2>1, <2>2
  <2>4. \A i \in 1..n : f[i] = IF i = 1 THEN seqs[i] ELSE f[i - 1] \o seqs[i]
    BY <2>3 DEF IsFlat
  <2>5. \A i \in 1..n : g[i] = IF i = 1 THEN seqs[i] ELSE g[i - 1] \o seqs[i]
    BY <2>1 DEF IsFlat
  <2> DEFINE T == {i \in Nat : i \in 1..n => f[i] = g[i]}
  <2>6. 0 \in T
    OBVIOUS
  <2>7. ASSUME NEW i \in Nat, i \in T PROVE i + 1 \in T
    <3> SUFFICES ASSUME i + 1 \in 1..n PROVE f[i + 1] = g[i + 1]
      OBVIOUS
    <3>1. CASE i = 0
      BY <2>4, <2>5, <3>1
    <3>2. CASE i # 0
      <4>1. i \in 1..n /\ (i + 1) - 1 = i /\ i + 1 # 1
        BY <3>2
      <4>2. f[i] = g[i]
        BY <2>7, <4>1
      <4> QED
        BY <2>4, <2>5, <4>1, <4>2
    <3> QED
      BY <3>1, <3>2
  <2> HIDE DEF T
  <2>8. \A i \in Nat : i \in T
    BY <2>6, <2>7, Induction
  <2>9. f[n] = pre[n]
    <3>1. n \in 1..n /\ n \in T
      BY <1>3, <2>8
    <3> QED
      BY <3>1 DEF T, g
  <2>10. FlattenSeq(seqs) = f[n]
    BY <1>3, <2>2, FlattenIs
  <2> QED
    BY <1>1, <2>9, <2>10
<1> QED
  BY <1>2, <1>3

\* Where each of them is in the flat sequence.
Placed(seqs, flat, off) ==
  /\ off \in [0..Len(seqs) -> Nat]
  /\ off[0] = 0 /\ off[Len(seqs)] = Len(flat)
  /\ \A i \in 1..Len(seqs) :
       /\ off[i] = off[i - 1] + Len(seqs[i]) /\ off[i] <= Len(flat)
       /\ \A j \in 1..Len(seqs[i]) : flat[off[i - 1] + j] = seqs[i][j]

\* s, of length k, is a, of length m, with b, of length n, behind it.
Joined(a, m, b, n, s, k) ==
  /\ m \in Nat /\ n \in Nat /\ k = m + n
  /\ \A j \in 1..m : s[j] = a[j]
  /\ \A j \in 1..n : s[m + j] = b[j]

LEMMA Joining ==
  ASSUME NEW S, NEW a \in Seq(S), NEW b \in Seq(S)
  PROVE  a \o b \in Seq(S) /\ Joined(a, Len(a), b, Len(b), a \o b, Len(a \o b))
<1>1. Len(a) \in Nat /\ Len(b) \in Nat
  BY LenProperties
<1>2. /\ a \o b \in Seq(S) /\ Len(a \o b) = Len(a) + Len(b)
      /\ \A j \in 1..(Len(a) + Len(b)) :
           (a \o b)[j] = IF j <= Len(a) THEN a[j] ELSE b[j - Len(a)]
  BY ConcatProperties
<1>3. \A j \in 1..Len(a) : (a \o b)[j] = a[j]
  BY <1>1, <1>2
<1>4. \A j \in 1..Len(b) : (a \o b)[Len(a) + j] = b[j]
  BY <1>1, <1>2
<1> QED
  BY <1>1, <1>2, <1>3, <1>4 DEF Joined

\* Pieces that are joined one behind the other stay where they were put.
Chain(n, pre, len, part, size) ==
  /\ len[0] = 0
  /\ \A i \in 1..n : Joined(pre[i - 1], len[i - 1], part[i], size[i], pre[i], len[i])

LEMMA PiecesStay ==
  ASSUME NEW n \in Nat, NEW pre, NEW len, NEW part, NEW size,
         Chain(n, pre, len, part, size)
  PROVE  \A i \in 1..n : /\ len[i] <= len[n]
                         /\ \A j \in 1..size[i] : pre[n][len[i - 1] + j] = part[i][j]
<1>0. /\ len[0] = 0
      /\ \A i \in 1..n : Joined(pre[i - 1], len[i - 1], part[i], size[i], pre[i], len[i])
  BY DEF Chain
<1> DEFINE Stays(i, m) == /\ len[i] <= len[m]
                          /\ \A j \in 1..size[i] : pre[m][len[i - 1] + j] = part[i][j]
           T == {m \in Nat : m <= n => \A i \in 1..m : Stays(i, m)}
<1>1. 0 \in T
  OBVIOUS
<1>2. ASSUME NEW m \in Nat, m \in T PROVE m + 1 \in T
  <2> SUFFICES ASSUME m + 1 <= n, NEW i \in 1..(m + 1) PROVE Stays(i, m + 1)
    OBVIOUS
  <2>1. m + 1 \in 1..n /\ (m + 1) - 1 = m
    OBVIOUS
  <2>2. Joined(pre[m], len[m], part[m + 1], size[m + 1], pre[m + 1], len[m + 1])
    BY <1>0, <2>1
  <2>3. CASE i = m + 1
    <3>1. i - 1 = m
      BY <2>3
    <3> QED
      BY <2>2, <2>3, <3>1 DEF Joined
  <2>4. CASE i # m + 1
    <3>1. i \in 1..m /\ i \in 1..n
      BY <2>4, <2>1
    <3>2. Stays(i, m)
      BY <1>2, <3>1
    <3>3. Joined(pre[i - 1], len[i - 1], part[i], size[i], pre[i], len[i])
      BY <1>0, <3>1
    <3>4. \A j \in 1..size[i] : len[i - 1] + j \in 1..len[m]
      BY <3>2, <3>3, <2>2 DEF Joined
    <3> QED
      BY <2>2, <3>2, <3>3, <3>4 DEF Joined
  <2> QED
    BY <2>3, <2>4
<1> HIDE DEF T
<1>3. n \in T
  BY <1>1, <1>2, Induction
<1> QED
  BY <1>3 DEF T

LEMMA FlatPlaces ==
  ASSUME NEW S, NEW seqs \in Seq(Seq(S))
  PROVE  FlattenSeq(seqs) \in Seq(S) /\ \E off : Placed(seqs, FlattenSeq(seqs), off)
<1>0. Len(seqs) \in Nat /\ \A i \in 1..Len(seqs) : seqs[i] \in Seq(S)
  BY ElementOfSeq, LenProperties
<1> PICK n \in Nat : n = Len(seqs)
  BY <1>0
<1> PICK flat : flat = FlattenSeq(seqs)
  OBVIOUS
<1>1. PICK pre : IsPrefixes(seqs, S, n, pre) /\ pre[n] = flat
  BY FlatPrefixes
<1>2. /\ \A i \in 0..n : pre[i] \in Seq(S) /\ Len(pre[i]) \in Nat
      /\ pre[0] = << >>
      /\ \A i \in 1..n : pre[i] = pre[i - 1] \o seqs[i]
  <2>1. pre \in [0..n -> Seq(S)]
    BY <1>1 DEF IsPrefixes
  <2> QED
    BY <1>1, <2>1, LenProperties DEF IsPrefixes
<1> PICK off : off = [i \in 0..n |-> Len(pre[i])]
  OBVIOUS
<1> PICK size : size = [i \in 1..n |-> Len(seqs[i])]
  OBVIOUS
<1>3. \A i \in 1..n : Joined(pre[i - 1], off[i - 1], seqs[i], size[i], pre[i], off[i])
  <2> SUFFICES ASSUME NEW i \in 1..n
               PROVE  Joined(pre[i - 1], off[i - 1], seqs[i], size[i], pre[i], off[i])
    OBVIOUS
  <2>1. PICK a \in Seq(S) : a = pre[i - 1]
    <3>1. i - 1 \in 0..n
      OBVIOUS
    <3> QED
      BY ONLY <1>2, <3>1
  <2>2. PICK b \in Seq(S) : b = seqs[i]
    BY <1>0
  <2>3. pre[i] = a \o b
    BY <1>2, <2>1, <2>2
  <2>4. Joined(a, Len(a), b, Len(b), a \o b, Len(a \o b))
    BY Joining
  <2>5. off[i] = Len(pre[i]) /\ off[i - 1] = Len(pre[i - 1]) /\ size[i] = Len(seqs[i])
    OBVIOUS
  <2> QED
    BY <2>1, <2>2, <2>3, <2>4, <2>5
<1>4. /\ off \in [0..n -> Nat] /\ off[0] = 0 /\ off[n] = Len(flat)
  <2>1. Len(<< >>) = 0 /\ 0 \in 0..n /\ n \in 0..n
    OBVIOUS
  <2> QED
    BY <1>1, <1>2, <2>1
<1>5. \A i \in 1..n : /\ off[i] <= off[n]
                      /\ \A j \in 1..size[i] : pre[n][off[i - 1] + j] = seqs[i][j]
  <2>1. n \in Nat /\ Chain(n, pre, off, seqs, size)
    BY <1>3, <1>4 DEF Chain
  <2> QED
    BY ONLY <2>1, PiecesStay
<1>6. ASSUME NEW i \in 1..n
      PROVE  /\ off[i] = off[i - 1] + Len(seqs[i]) /\ off[i] <= Len(flat)
             /\ \A j \in 1..Len(seqs[i]) : flat[off[i - 1] + j] = seqs[i][j]
  <2>1. size[i] = Len(seqs[i]) /\ off[i] = off[i - 1] + size[i]
    BY <1>3 DEF Joined
  <2> QED
    BY <1>1, <1>4, <1>5, <2>1
<1>7. Placed(seqs, flat, off)
  BY <1>4, <1>6 DEF Placed
<1>8. flat \in Seq(S)
  BY <1>1, <1>2
<1> QED
  BY <1>7, <1>8

-----------------------------------------------------------------------------
(***************************************************************************)
(* Where the attributes of a product are                                   *)
(***************************************************************************)
Parts(w) == [i \in DOMAIN w |-> Framed(w[i][1]) \o Framed(w[i][2])]

\* off[i] is where the attribute behind the first i of them starts; k, v and
\* the bytes of the i-th key and value follow in this order.
TwoAt(p, a, l, k, m, v, b) ==
  /\ b = ((a + 2) + l) + m
  /\ p[a + 1] = l /\ p[(a + 2) + l] = m
  /\ \A j \in 1..l : p[(a + 1) + j] = k[j]
  /\ \A j \in 1..m : p[((a + 2) + l) + j] = v[j]

Attribute(w, off, i) ==
  LET k == w[i][1]
      v == w[i][2]
  IN  /\ Len(k) \in Nat /\ Len(v) \in Nat /\ off[i - 1] \in Nat
      /\ off[i] <= Len(Published(w))
      /\ TwoAt(Published(w), off[i - 1], Len(k), k, Len(v), v, off[i])

Layout(w, off) ==
  /\ off \in [0..Len(w) -> Nat] /\ off[0] = 0 /\ off[Len(w)] = Len(Published(w))
  /\ \A i \in 1..Len(w) : Attribute(w, off, i)

LEMMA FramedBytes ==
  ASSUME NEW b \in Seq(Bytes)
  PROVE  /\ Framed(b) \in Seq(Nat) /\ Len(b) \in Nat /\ Len(Framed(b)) = 1 + Len(b)
         /\ Framed(b)[1] = Len(b) /\ \A j \in 1..Len(b) : Framed(b)[1 + j] = b[j]
<1>1. b \in Seq(Nat)
  <2>1. \A i \in 1..Len(b) : b[i] \in Bytes
    BY ElementOfSeq
  <2>2. b \in [1..Len(b) -> Bytes] /\ Len(b) \in Nat
    BY LenProperties
  <2>3. Bytes \subseteq Nat
    BY DEF Bytes
  <2> QED
    BY <2>3, SeqMonotonic
<1>2. Len(b) \in Nat
  BY <1>1
<1>3. <<Len(b)>> \in Seq(Nat) /\ Len(<<Len(b)>>) = 1
  BY <1>2
<1> PICK a \in Seq(Nat) : a = <<Len(b)>>
  BY <1>3
<1>4. Len(a) = 1 /\ a[1] = Len(b)
  BY <1>3
<1>5. a \o b \in Seq(Nat) /\ Joined(a, Len(a), b, Len(b), a \o b, Len(a \o b))
  BY <1>1, Joining
<1>6. Framed(b) = a \o b
  BY DEF Framed
<1> QED
  BY <1>2, <1>4, <1>5, <1>6 DEF Joined

\* x is k behind its length l, and p has the z bytes of g behind place a.
InFrame(x, l, k) == x[1] = l /\ \A j \in 1..l : x[1 + j] = k[j]

Copied(p, a, g, z) == \A j \in 1..z : p[a + j] = g[j]

\* Two frames one behind the other, from the a-th place of p.
LEMMA TwoFrames ==
  ASSUME NEW a \in Nat, NEW l \in Nat, NEW m \in Nat, NEW z,
         NEW p, NEW g, NEW x, NEW y, NEW k, NEW v,
         Joined(x, 1 + l, y, 1 + m, g, z),
         Copied(p, a, g, z), InFrame(x, l, k), InFrame(y, m, v)
  PROVE  TwoAt(p, a, l, k, m, v, a + z)
<1>1. /\ z = (1 + l) + (1 + m)
      /\ \A j \in 1..(1 + l) : g[j] = x[j]
      /\ \A j \in 1..(1 + m) : g[(1 + l) + j] = y[j]
  BY DEF Joined
<1>2. \A j \in 1..(1 + l) : p[a + j] = x[j]
  BY <1>1 DEF Copied
<1>3. \A j \in 1..(1 + m) : p[a + ((1 + l) + j)] = y[j]
  <2>1. \A j \in 1..(1 + m) : (1 + l) + j \in 1..z
    BY <1>1
  <2> QED
    BY <1>1, <2>1 DEF Copied
<1>4. p[a + 1] = l /\ p[(a + 2) + l] = m
  <2>1. 1 \in 1..(1 + l) /\ 1 \in 1..(1 + m) /\ a + ((1 + l) + 1) = (a + 2) + l
    OBVIOUS
  <2> QED
    BY <1>2, <1>3, <2>1 DEF InFrame
<1>5. \A j \in 1..l : p[(a + 1) + j] = k[j]
  <2>1. \A j \in 1..l : 1 + j \in 1..(1 + l) /\ a + (1 + j) = (a + 1) + j
    OBVIOUS
  <2> QED
    BY <1>2, <2>1 DEF InFrame
<1>6. \A j \in 1..m : p[((a + 2) + l) + j] = v[j]
  <2>1. \A j \in 1..m : /\ 1 + j \in 1..(1 + m)
                        /\ a + ((1 + l) + (1 + j)) = ((a + 2) + l) + j
    OBVIOUS
  <2> QED
    BY <1>3, <2>1 DEF InFrame
<1> QED
  BY <1>1, <1>4, <1>5, <1>6 DEF TwoAt

LEMMA Laid ==
  ASSUME NEW w \in Seq(Seq(Bytes) \X Seq(Bytes))
  PROVE  Published(w) \in Seq(Nat) /\ \E off : Layout(w, off)
<1> PICK n \in Nat : n = Len(w)
  BY LenProperties
<1> PICK f : f = Parts(w)
  OBVIOUS
<1>0. DOMAIN w = 1..n
  BY LenProperties
<1>1. \A i \in 1..n : w[i][1] \in Seq(Bytes) /\ w[i][2] \in Seq(Bytes)
  BY ElementOfSeq
<1>2. ASSUME NEW i \in 1..n
      PROVE  /\ f[i] \in Seq(Nat)
             /\ Joined(Framed(w[i][1]), Len(Framed(w[i][1])),
                       Framed(w[i][2]), Len(Framed(w[i][2])), f[i], Len(f[i]))
  <2> PICK a \in Seq(Nat) : a = Framed(w[i][1])
    BY <1>1, FramedBytes
  <2> PICK b \in Seq(Nat) : b = Framed(w[i][2])
    BY <1>1, FramedBytes
  <2>1. f[i] = a \o b
    BY <1>0 DEF Parts
  <2> QED
    BY <2>1, Joining
<1>3. f \in Seq(Seq(Nat)) /\ Len(f) = n
  <2>1. f = [i \in 1..n |-> f[i]]
    BY <1>0 DEF Parts
  <2>2. f \in [1..n -> Seq(Nat)]
    BY <1>2, <2>1
  <2> QED
    BY <2>2, FunctionIsSeq
<1>4. Published(w) = FlattenSeq(f)
  BY DEF Published, Parts
<1> PICK p : p = Published(w)
  OBVIOUS
<1>5. p \in Seq(Nat) /\ \E off : Placed(f, p, off)
  BY <1>3, <1>4, FlatPlaces
<1>6. PICK off : Placed(f, p, off)
  BY <1>5
<1>7. ASSUME NEW i \in 1..n PROVE Attribute(w, off, i)
  <2> PICK k \in Seq(Bytes) : k = w[i][1]
    BY <1>1
  <2> PICK v \in Seq(Bytes) : v = w[i][2]
    BY <1>1
  <2> PICK a : a = off[i - 1]
    OBVIOUS
  <2> PICK l : l = Len(k)
    OBVIOUS
  <2> PICK m : m = Len(v)
    OBVIOUS
  <2>1. l \in Nat /\ Len(Framed(k)) = 1 + l /\ InFrame(Framed(k), l, k)
    BY FramedBytes DEF InFrame
  <2>2. m \in Nat /\ Len(Framed(v)) = 1 + m /\ InFrame(Framed(v), m, v)
    BY FramedBytes DEF InFrame
  <2>3. Joined(Framed(k), 1 + l, Framed(v), 1 + m, f[i], Len(f[i]))
    BY <1>2, <2>1, <2>2
  <2>4. /\ a \in Nat /\ off[i] = a + Len(f[i]) /\ off[i] <= Len(p)
        /\ \A j \in 1..Len(f[i]) : p[a + j] = f[i][j]
    <3>1. off \in [0..n -> Nat] /\ i - 1 \in 0..n
      BY <1>3, <1>6 DEF Placed
    <3>2. /\ off[i] = off[i - 1] + Len(f[i]) /\ off[i] <= Len(p)
          /\ \A j \in 1..Len(f[i]) : p[off[i - 1] + j] = f[i][j]
      BY <1>3, <1>6 DEF Placed
    <3> QED
      BY <3>1, <3>2
  <2> PICK z : z = Len(f[i])
    OBVIOUS
  <2>5. TwoAt(p, a, l, k, m, v, a + z)
    <3>1. /\ l \in Nat /\ m \in Nat /\ a \in Nat
          /\ Copied(p, a, f[i], z)
          /\ Joined(Framed(k), 1 + l, Framed(v), 1 + m, f[i], z)
      BY <2>1, <2>2, <2>3, <2>4 DEF Copied
    <3> QED
      BY ONLY <2>1, <2>2, <3>1, TwoFrames
  <2> QED
    BY <2>1, <2>2, <2>4, <2>5 DEF Attribute
<1>8. off \in [0..n -> Nat] /\ off[0] = 0 /\ off[n] = Len(p)
  BY <1>3, <1>6 DEF Placed
<1>9. Layout(w, off)
  BY <1>7, <1>8 DEF Layout
<1> QED
  BY <1>5, <1>9

-----------------------------------------------------------------------------
(***************************************************************************)
(* What the loop has seen when it reaches an attribute                     *)
(***************************************************************************)
NoneBefore(w, i) == \A j \in 1..i : ~NamesCurrency(w[j])

Cell(w, i) == IF i < Len(Published(w)) THEN Published(w)[i + 1] ELSE 0

\* The loop is at an attribute, the first with the key being it or behind it.
AtAttribute(w, off, s) == \E i \in 1..Len(w) : s = off[i - 1] /\ NoneBefore(w, i - 1)

\* The loop is behind all attributes, none of which has the key.
Behind(w, s) == s >= Len(Published(w)) /\ ~HasCurrency(w)

Readable(w) == HasCurrency(w) /\ Len(CurrencyOf(w)) <= MaxValue

Right(w, r) ==
  \/ /\ r.kind = "ok" /\ Readable(w)
     /\ r.value = PaddedWithZeros(CurrencyOf(w))
  \/ /\ r \in {Invalid, Panic}
     /\ Len(Published(w)) <= AttrSize => ~Readable(w)

ScanInv ==
  /\ written \in Products
  /\ attr = [i \in 0..(AttrSize - 1) |-> Cell(written, i)]
  /\ start \in Nat
  /\ \/ /\ result = Scanning
        /\ \/ \E off : Layout(written, off) /\ AtAttribute(written, off, start)
           \/ Behind(written, start)
     \/ result # Scanning /\ Right(written, result)

LEMMA ScanTypes ==
  /\ AttrSize \in Nat \ {0} /\ MaxValue \in Nat
  /\ Key \in Seq(Bytes) /\ Len(Key) \in Nat \ {0}
  /\ \A w \in Products : w \in Seq(Seq(Bytes) \X Seq(Bytes))
<1>1. Key \in Seq(Bytes) /\ Key # << >>
  BY AttributesAssumption
<1>2. Len(Key) \in Nat \ {0}
  BY <1>1, EmptySeq
<1> QED
  BY <1>1, <1>2, AttributesAssumption

\* The currency is the value of the first attribute with the key.
LEMMA FirstWithKey ==
  ASSUME NEW w \in Seq(Seq(Bytes) \X Seq(Bytes)), NEW i \in 1..Len(w),
         NoneBefore(w, i - 1), w[i][1] = Key
  PROVE  HasCurrency(w) /\ CurrencyOf(w) = w[i][2]
<1>1. DOMAIN w = 1..Len(w) /\ Len(w) \in Nat
  BY LenProperties
<1>2. HasCurrency(w)
  BY <1>1 DEF HasCurrency, NamesCurrency
<1> DEFINE I == {j \in 1..Len(w) : NamesCurrency(w[j])}
<1>3. i \in I /\ \A j \in I : i <= j
  <2>1. i \in I
    BY DEF NamesCurrency
  <2>2. ASSUME NEW j \in I PROVE i <= j
    <3> SUFFICES ASSUME ~(i <= j) PROVE FALSE
      OBVIOUS
    <3>1. j \in 1..(i - 1)
      BY <1>1
    <3> QED
      BY <3>1 DEF NoneBefore
  <2> QED
    BY <2>1, <2>2
<1>4. SelectInSeq(w, NamesCurrency) = IF I # {} THEN Min(I) ELSE 0
  BY DEF SelectInSeq
<1>5. \A j \in I : j \in Nat
  BY <1>1
<1> HIDE DEF I
<1>6. Min(I) = i
  <2>1. \A j \in I : (\A x \in I : j <= x) => j = i
    BY <1>3, <1>5
  <2> QED
    BY <1>3, <2>1 DEF Min
<1>7. SelectInSeq(w, NamesCurrency) = i
  BY <1>3, <1>4, <1>6
<1> QED
  BY <1>2, <1>7 DEF CurrencyOf

\* The array has p as far as both go, and p has the l bytes of s behind c.
ArrayHas(p, n) == \A c \in Nat : c < AttrSize /\ c < n => attr[c] = p[c + 1]

Sliceable(p, n, c, l, s) ==
  /\ n \in Nat /\ ArrayHas(p, n)
  /\ c \in Nat /\ l \in Nat /\ c + l <= AttrSize /\ c + l <= n
  /\ s = [j \in 1..l |-> s[j]] /\ Copied(p, c, s, l)

LEMMA SliceOfArray ==
  ASSUME NEW p, NEW n, NEW c, NEW l, NEW s, Sliceable(p, n, c, l, s)
  PROVE  Slice(c, l) = s
<1> USE DEF Sliceable
<1>0. AttrSize \in Nat
  BY ScanTypes
<1>1. \A j \in 1..l : attr[(c + j) - 1] = s[j]
  <2> SUFFICES ASSUME NEW j \in 1..l PROVE attr[(c + j) - 1] = s[j]
    OBVIOUS
  <2>1. /\ (c + j) - 1 \in Nat /\ (c + j) - 1 < AttrSize /\ (c + j) - 1 < n
        /\ ((c + j) - 1) + 1 = c + j
    BY <1>0
  <2>2. attr[(c + j) - 1] = p[c + j]
    BY <2>1 DEF ArrayHas
  <2> QED
    BY <2>2 DEF Copied
<1>2. Slice(c, l) = [j \in 1..l |-> attr[(c + j) - 1]]
  BY DEF Slice
<1> QED
  BY <1>1, <1>2

\* What the array has where an attribute is, which ends at e.
ReadAt(e, k, v, key, at) ==
  /\ k \in Seq(Bytes) /\ Len(k) \in Nat /\ v \in Seq(Bytes) /\ Len(v) \in Nat
  /\ at \in Nat /\ at = key + Len(k) /\ e = (at + 1) + Len(v)
  /\ e <= Len(Published(written))
  /\ start < AttrSize => attr[start] = Len(k)
  /\ at < AttrSize => attr[at] = Len(v)
  /\ at <= AttrSize => Slice(key, Len(k)) = k
  /\ (at + 1) + Len(v) <= AttrSize => Slice(at + 1, Len(v)) = v

LEMMA ReadAttribute ==
  ASSUME ScanInv, NEW off, Layout(written, off), NEW i \in 1..Len(written),
         start = off[i - 1]
  PROVE  ReadAt(off[i], written[i][1], written[i][2], start + 1,
                (start + 1) + Len(written[i][1]))
<1> PICK k : k = written[i][1]
  OBVIOUS
<1> PICK v : v = written[i][2]
  OBVIOUS
<1> PICK key : key = start + 1
  OBVIOUS
<1> PICK at : at = key + Len(k)
  OBVIOUS
<1> PICK w \in Seq(Seq(Bytes) \X Seq(Bytes)) : w = written
  BY ScanTypes DEF ScanInv
<1> PICK p \in Seq(Nat) : p = Published(w)
  BY Laid
<1>1. k \in Seq(Bytes) /\ v \in Seq(Bytes)
  BY ElementOfSeq
<1> PICK l \in Nat : l = Len(k)
  BY <1>1, LenProperties
<1> PICK m \in Nat : m = Len(v)
  BY <1>1, LenProperties
<1> PICK n \in Nat : n = Len(p)
  BY LenProperties
<1>2. Attribute(w, off, i)
  BY DEF Layout
<1> PICK e : e = off[i]
  OBVIOUS
<1>3. start \in Nat /\ e <= n /\ TwoAt(p, start, l, k, m, v, e)
  BY <1>2 DEF Attribute
<1>4. /\ l \in Nat /\ m \in Nat /\ n \in Nat /\ start \in Nat /\ AttrSize \in Nat
      /\ key = start + 1 /\ at = key + l /\ e <= n
  BY <1>3, ScanTypes
<1>5. /\ e = ((start + 2) + l) + m
      /\ p[start + 1] = l /\ p[(start + 2) + l] = m
      /\ Copied(p, start + 1, k, l) /\ Copied(p, (start + 2) + l, v, m)
  BY <1>3 DEF TwoAt, Copied
<1>6. /\ key \in Nat /\ at \in Nat /\ at + 1 = (start + 2) + l /\ at + 1 \in Nat
      /\ e = (at + 1) + m /\ key + l = at /\ at < n /\ start < n /\ key + l <= n
      /\ (at + 1) + m <= n
  BY ONLY <1>4, <1>5
<1>7. ArrayHas(p, n)
  <2> SUFFICES ASSUME NEW c \in Nat, c < AttrSize, c < n PROVE attr[c] = p[c + 1]
    BY DEF ArrayHas
  <2>1. c \in 0..(AttrSize - 1) /\ attr = [x \in 0..(AttrSize - 1) |-> Cell(w, x)]
    BY <1>4 DEF ScanInv
  <2>2. attr[c] = Cell(w, c)
    BY <2>1
  <2> QED
    BY <2>2 DEF Cell
<1>8. start < AttrSize => attr[start] = l
  BY <1>4, <1>5, <1>6, <1>7 DEF ArrayHas
<1>9. at < AttrSize => attr[at] = m
  BY <1>5, <1>6, <1>7 DEF ArrayHas
<1>10. k = [j \in 1..l |-> k[j]] /\ v = [j \in 1..m |-> v[j]]
  BY <1>1, LenProperties
<1>11. ASSUME at <= AttrSize PROVE Slice(key, l) = k
  <2>1. Sliceable(p, n, key, l, k)
    BY ONLY <1>4, <1>5, <1>6, <1>7, <1>10, <1>11 DEF Sliceable
  <2> QED
    BY <2>1, SliceOfArray
<1>12. ASSUME (at + 1) + m <= AttrSize PROVE Slice(at + 1, m) = v
  <2>1. Sliceable(p, n, at + 1, m, v)
    BY ONLY <1>4, <1>5, <1>6, <1>7, <1>10, <1>12 DEF Sliceable
  <2> QED
    BY <2>1, SliceOfArray
<1>13. /\ Slice(key, Len(k)) = Slice(key, l) /\ Slice(at + 1, Len(v)) = Slice(at + 1, m)
  OBVIOUS
<1>14. ReadAt(e, k, v, key, at)
  BY <1>1, <1>3, <1>6, <1>8, <1>9, <1>11, <1>12, <1>13 DEF ReadAt
<1> QED
  BY <1>14

-----------------------------------------------------------------------------
(***************************************************************************)
(* What the loop returns                                                   *)
(***************************************************************************)
LEMMA RightIsDone ==
  ASSUME NEW w, NEW r, Right(w, r)
  PROVE  r # Scanning
BY DEF Right, Scanning, Invalid, Panic

\* A product without the key, or cut off, may be refused.
LEMMA RightRefusals ==
  ASSUME NEW w, ~HasCurrency(w) \/ ~(Len(Published(w)) <= AttrSize)
  PROVE  Right(w, Invalid) /\ Right(w, Panic)
BY DEF Right, Readable

\* Behind an attribute without the key the loop is at the next one.
LEMMA NextAttribute ==
  ASSUME NEW w \in Seq(Seq(Bytes) \X Seq(Bytes)), NEW off, Layout(w, off),
         NEW i \in 1..Len(w), NoneBefore(w, i - 1), w[i][1] # Key
  PROVE  AtAttribute(w, off, off[i]) \/ Behind(w, off[i])
<1> PICK n \in Nat : n = Len(w)
  BY LenProperties
<1>1. NoneBefore(w, i)
  <2> SUFFICES ASSUME NEW j \in 1..i PROVE ~NamesCurrency(w[j])
    BY DEF NoneBefore
  <2>1. j = i \/ j \in 1..(i - 1)
    OBVIOUS
  <2> QED
    BY <2>1 DEF NoneBefore, NamesCurrency
<1>2. CASE i = n
  <2>1. DOMAIN w = 1..n
    BY LenProperties
  <2>2. ~HasCurrency(w)
    BY <1>1, <1>2, <2>1 DEF NoneBefore, HasCurrency
  <2>3. off[i] = Len(Published(w)) /\ off[i] \in Nat
    BY <1>2 DEF Layout
  <2> QED
    BY <2>2, <2>3 DEF Behind
<1>3. CASE i # n
  <2>1. i + 1 \in 1..n /\ (i + 1) - 1 = i
    BY <1>3
  <2> QED
    BY <1>1, <2>1 DEF AtAttribute
<1> QED
  BY <1>2, <1>3

\* What is made of the attribute with the key.
LEMMA RightCurrency ==
  ASSUME ScanInv, NEW off, Layout(written, off), NEW i \in 1..Len(written),
         start = off[i - 1], NoneBefore(written, i - 1), written[i][1] = Key,
         NEW at, at = (start + 1) + Len(Key)
  PROVE  Right(written, Currency(at))
<1> PICK w \in Seq(Seq(Bytes) \X Seq(Bytes)) : w = written
  BY ScanTypes DEF ScanInv
<1> PICK k : k = w[i][1]
  OBVIOUS
<1> PICK v : v = w[i][2]
  OBVIOUS
<1>1. /\ Len(v) \in Nat /\ at \in Nat
      /\ (at + 1) + Len(v) <= Len(Published(w))
      /\ at < AttrSize => attr[at] = Len(v)
      /\ (at + 1) + Len(v) <= AttrSize => Slice(at + 1, Len(v)) = v
  <2>1. ReadAt(off[i], k, v, start + 1, at)
    BY ReadAttribute
  <2> QED
    BY <2>1 DEF ReadAt
<1> PICK m \in Nat : m = Len(v)
  BY <1>1
<1> PICK n \in Nat : n = Len(Published(w))
  BY Laid, LenProperties
<1>2. HasCurrency(w) /\ CurrencyOf(w) = v
  BY FirstWithKey
<1>3. AttrSize \in Nat /\ MaxValue \in Nat
  BY ScanTypes
<1>9. at \in Nat /\ m \in Nat /\ n \in Nat /\ (at + 1) + m <= n
  BY <1>1
<1>4. ASSUME ~(n <= AttrSize) PROVE Right(w, Invalid) /\ Right(w, Panic)
  BY <1>4, RightRefusals
<1>5. CASE at >= AttrSize
  <2>1. ~(n <= AttrSize)
    BY ONLY <1>9, <1>3, <1>5
  <2>2. Currency(at) = Panic
    BY <1>5 DEF Currency
  <2> QED
    BY <1>4, <2>1, <2>2
<1>6. CASE at < AttrSize /\ m > MaxValue
  <2>1. ~(at >= AttrSize) /\ ~(at > AttrSize)
    BY ONLY <1>9, <1>3, <1>6
  <2>2. Currency(at) = Invalid
    BY <1>1, <1>6, <2>1 DEF Currency
  <2>3. ~(Len(CurrencyOf(w)) <= MaxValue)
    BY <1>2, <1>3, <1>6
  <2> QED
    BY <2>1, <2>2, <2>3 DEF Right, Readable
<1>7. CASE at < AttrSize /\ ~(m > MaxValue) /\ (at + 1) + m > AttrSize
  <2>1. ~(at >= AttrSize) /\ ~(at > AttrSize)
    BY ONLY <1>9, <1>3, <1>7
  <2>2. Currency(at) = Invalid
    BY <1>1, <1>7, <2>1 DEF Currency
  <2>3. ~(n <= AttrSize)
    BY ONLY <1>9, <1>3, <1>7
  <2> QED
    BY <1>4, <2>1, <2>2, <2>3
<1>8. CASE at < AttrSize /\ ~(m > MaxValue) /\ ~((at + 1) + m > AttrSize)
  <2>1. ~(at >= AttrSize) /\ ~(at > AttrSize) /\ (at + 1) + m <= AttrSize /\ m <= MaxValue
    BY ONLY <1>9, <1>3, <1>8
  <2>2. Currency(at) = Found(PaddedWithZeros(Slice(at + 1, m)))
    BY <1>1, <1>8, <2>1 DEF Currency
  <2>3. Currency(at) = Found(PaddedWithZeros(v))
    BY <1>1, <2>1, <2>2
  <2>4. Readable(w)
    BY <1>2, <2>1 DEF Readable
  <2> QED
    BY <1>2, <2>1, <2>3, <2>4 DEF Right, Found
<1> QED
  BY <1>9, <1>3, <1>5, <1>6, <1>7, <1>8

-----------------------------------------------------------------------------
(***************************************************************************)
(* The steps of the loop                                                   *)
(***************************************************************************)
LEMMA ScanStarts == ScanInit => ScanInv
<1> SUFFICES ASSUME ScanInit PROVE ScanInv
  OBVIOUS
<1> PICK w \in Seq(Seq(Bytes) \X Seq(Bytes)) : w = written
  BY ScanTypes DEF ScanInit
<1>1. PICK off : Layout(w, off)
  BY Laid
<1> PICK n \in Nat : n = Len(w)
  BY LenProperties
<1>2. off[0] = 0 /\ off[n] = Len(Published(w)) /\ DOMAIN w = 1..n
  BY <1>1, LenProperties DEF Layout
<1>3. AtAttribute(w, off, 0) \/ Behind(w, 0)
  <2>1. CASE n = 0
    BY <1>2, <2>1 DEF Behind, HasCurrency
  <2>2. CASE n # 0
    <3>1. 1 \in 1..n /\ 1 - 1 = 0
      BY <2>2
    <3>2. NoneBefore(w, 0)
      BY DEF NoneBefore
    <3> QED
      BY <1>2, <3>1, <3>2 DEF AtAttribute
  <2> QED
    BY <2>1, <2>2
<1>4. attr = [i \in 0..(AttrSize - 1) |-> Cell(written, i)]
  BY DEF ScanInit, Cell
<1> QED
  BY <1>1, <1>3, <1>4 DEF ScanInit, ScanInv

\* A step leaves the array alone and goes on or returns.
LEMMA ScanEndsWith ==
  ASSUME ScanInv, UNCHANGED <<written, attr>>, start' \in Nat, Right(written, result')
  PROVE  ScanInv'
<1>1. result' # Scanning
  BY RightIsDone
<1>2. Cell(written, 0) = Cell(written', 0)
  OBVIOUS
<1>3. Right(written', result')
  OBVIOUS
<1> QED
  BY <1>1, <1>3 DEF ScanInv

LEMMA ScanGoesOn ==
  ASSUME ScanInv, UNCHANGED <<written, attr>>, start' \in Nat, result' = Scanning,
         \/ \E off : Layout(written, off) /\ AtAttribute(written, off, start')
         \/ Behind(written, start')
  PROVE  ScanInv'
BY DEF ScanInv

\* The ways a turn can take.
LEMMA Ways ==
  ASSUME Turn, NEW key, key = start + 1, NEW at, at = key + attr[start]
  PROVE  /\ result = Scanning /\ start < AttrSize
         /\ UNCHANGED <<written, attr>>
         /\ \/ at > AttrSize /\ result' = Invalid /\ UNCHANGED start
            \/ /\ attr[start] = Len(Key) /\ at <= AttrSize /\ KeyAt(key)
               /\ result' = Currency(at) /\ UNCHANGED start
            \/ /\ attr[start] = Len(Key) => at <= AttrSize /\ ~KeyAt(key)
               /\ at < AttrSize /\ start' = (at + 1) + attr[at] /\ UNCHANGED result
            \/ ~(at < AttrSize) /\ result' = Panic /\ UNCHANGED start
BY DEF Turn

\* At an attribute.
LEMMA TurnAtAttribute ==
  ASSUME ScanInv, ScanNext, NEW off, Layout(written, off), AtAttribute(written, off, start)
  PROVE  ScanInv'
<1> PICK w \in Seq(Seq(Bytes) \X Seq(Bytes)) : w = written
  BY ScanTypes DEF ScanInv
<1>1. PICK i \in 1..Len(w) : start = off[i - 1] /\ NoneBefore(w, i - 1)
  BY DEF AtAttribute
<1> PICK k : k = w[i][1]
  OBVIOUS
<1> PICK v : v = w[i][2]
  OBVIOUS
<1> PICK e : e = off[i]
  OBVIOUS
<1> PICK key : key = start + 1
  OBVIOUS
<1> PICK at : at = key + Len(k)
  OBVIOUS
<1> PICK l : l = Len(k)
  OBVIOUS
<1> PICK m : m = Len(v)
  OBVIOUS
<1> PICK n : n = Len(Published(w))
  OBVIOUS
<1>2. ReadAt(e, k, v, key, at)
  BY <1>1, ReadAttribute
<1>3. /\ l \in Nat /\ m \in Nat /\ at \in Nat /\ at = key + l /\ e = (at + 1) + m
      /\ e <= n /\ start \in Nat /\ key = start + 1 /\ AttrSize \in Nat /\ n \in Nat
  <2>1. n \in Nat
    BY Laid, LenProperties
  <2> QED
    BY <1>2, <2>1, ScanTypes DEF ReadAt, ScanInv
<1>4. ASSUME ~(at < AttrSize) PROVE Right(written, Invalid) /\ Right(written, Panic)
  <2>1. ~(n <= AttrSize)
    BY ONLY <1>3, <1>4
  <2> QED
    BY <2>1, RightRefusals
<1>5. CASE NotFound
  <2>1. /\ UNCHANGED <<written, attr>> /\ result' = Invalid /\ start' = start
        /\ start >= AttrSize
    BY <1>5 DEF NotFound
  <2>2. ~(at < AttrSize)
    BY ONLY <1>3, <2>1
  <2>3. Right(written, result') /\ start' \in Nat
    BY <1>3, <1>4, <2>1, <2>2
  <2> QED
    BY <2>1, <2>3, ScanEndsWith
<1>6. CASE Turn
  <2>1. start < AttrSize /\ result = Scanning /\ UNCHANGED <<written, attr>>
    BY <1>6, Ways
  <2>2. attr[start] = l
    BY <1>2, <2>1 DEF ReadAt
  <2>3. at = key + attr[start]
    BY <1>3, <2>2
  <2>4. CASE at > AttrSize /\ result' = Invalid /\ UNCHANGED start
    <3>1. ~(at < AttrSize) /\ start' \in Nat
      BY ONLY <1>3, <2>4
    <3> QED
      BY <1>4, <2>1, <2>4, <3>1, ScanEndsWith
  <2>5. CASE ~(at < AttrSize) /\ result' = Panic /\ UNCHANGED start
    <3>1. start' \in Nat
      BY <1>3, <2>5
    <3> QED
      BY <1>4, <2>1, <2>5, <3>1, ScanEndsWith
  <2>6. CASE /\ attr[start] = Len(Key) /\ at <= AttrSize /\ KeyAt(key)
             /\ result' = Currency(at) /\ UNCHANGED start
    <3>1. Slice(key, l) = k /\ Slice(key, l) = Key
      BY <1>2, <2>2, <2>6 DEF ReadAt, KeyAt
    <3>2. written[i][1] = Key /\ at = (start + 1) + Len(Key)
      BY <2>2, <2>6, <3>1
    <3>3. Right(written, Currency(at))
      BY <1>1, <3>2, RightCurrency
    <3>4. start' \in Nat
      BY <1>3, <2>6
    <3> QED
      BY <2>1, <2>6, <3>3, <3>4, ScanEndsWith
  <2>7. CASE /\ attr[start] = Len(Key) => at <= AttrSize /\ ~KeyAt(key)
             /\ at < AttrSize /\ start' = (at + 1) + attr[at] /\ UNCHANGED result
    <3>1. k # Key
      <4> SUFFICES ASSUME k = Key PROVE FALSE
        OBVIOUS
      <4>1. l = Len(Key) /\ at <= AttrSize /\ ~KeyAt(key)
        BY <2>2, <2>7
      <4>2. Slice(key, l) = k
        BY <1>2, <4>1 DEF ReadAt
      <4> QED
        BY <4>1, <4>2 DEF KeyAt
    <3>2. start' = e /\ start' \in Nat
      <4>1. attr[at] = m
        BY <1>2, <2>7 DEF ReadAt
      <4>2. start' = (at + 1) + attr[at]
        BY <2>7
      <4> QED
        BY ONLY <1>3, <4>1, <4>2
    <3>3. AtAttribute(w, off, e) \/ Behind(w, e)
      BY <1>1, <3>1, NextAttribute
    <3>4. result' = Scanning
      BY <2>1, <2>7
    <3> QED
      BY <2>1, <3>2, <3>3, <3>4, ScanGoesOn
  <2> QED
    BY <1>6, <2>3, <2>4, <2>5, <2>6, <2>7, Ways
<1> QED
  BY <1>5, <1>6 DEF ScanNext

\* Behind the last attribute, where there are only zeros.
LEMMA TurnBehind ==
  ASSUME ScanInv, ScanNext, result = Scanning, Behind(written, start)
  PROVE  ScanInv'
<1> PICK n \in Nat : n = Len(Published(written))
  BY ScanTypes, Laid, LenProperties DEF ScanInv
<1>1. /\ AttrSize \in Nat \ {0} /\ Len(Key) \in Nat \ {0} /\ start \in Nat /\ start >= n
  BY ScanTypes DEF ScanInv, Behind
<1>2. Right(written, Invalid) /\ Right(written, Panic)
  BY RightRefusals DEF Behind
<1>3. \A c \in Nat : c >= n /\ c < AttrSize => attr[c] = 0
  <2> SUFFICES ASSUME NEW c \in Nat, c >= n, c < AttrSize PROVE attr[c] = 0
    OBVIOUS
  <2>1. c \in 0..(AttrSize - 1) /\ attr = [x \in 0..(AttrSize - 1) |-> Cell(written, x)]
    BY <1>1 DEF ScanInv
  <2>2. attr[c] = Cell(written, c)
    BY <2>1
  <2> QED
    BY <2>2 DEF Cell
<1>4. CASE NotFound
  <2>1. UNCHANGED <<written, attr>> /\ result' = Invalid /\ start' \in Nat
    BY <1>1, <1>4 DEF NotFound
  <2> QED
    BY <1>2, <2>1, ScanEndsWith
<1>5. CASE Turn
  <2> PICK key : key = start + 1
    OBVIOUS
  <2> PICK at : at = key + attr[start]
    OBVIOUS
  <2>1. start < AttrSize /\ UNCHANGED <<written, attr>>
    BY <1>5, Ways
  <2>2. attr[start] = 0
    BY <1>1, <1>3, <2>1
  <2>3. at = start + 1 /\ at \in Nat /\ at >= n
    BY <1>1, <2>2
  <2>4. ~(attr[start] = Len(Key))
    BY <1>1, <2>2
  <2>5. CASE result' \in {Invalid, Panic} /\ UNCHANGED start
    <3>1. start' \in Nat /\ Right(written, result')
      BY <1>1, <1>2, <2>5
    <3> QED
      BY <2>1, <3>1, ScanEndsWith
  <2>6. CASE at < AttrSize /\ start' = (at + 1) + attr[at] /\ UNCHANGED result
    <3>1. attr[at] = 0
      BY <1>3, <2>3, <2>6
    <3>2. start' = at + 1
      BY <2>3, <2>6, <3>1
    <3>3. start' \in Nat /\ start' >= n
      BY ONLY <1>1, <2>3, <3>2
    <3>4. Behind(written, start')
      BY <3>3 DEF Behind
    <3>5. result' = Scanning
      BY <2>6
    <3> QED
      BY <2>1, <3>3, <3>4, <3>5, ScanGoesOn
  <2> QED
    BY <1>5, <2>4, <2>5, <2>6, Ways
<1> QED
  BY <1>4, <1>5 DEF ScanNext

LEMMA ScanKept ==
  ASSUME ScanInv, [ScanNext]_scanVars
  PROVE  ScanInv'
<1>1. CASE UNCHANGED scanVars
  <2>1. written' = written /\ attr' = attr /\ start' = start /\ result' = result
    BY <1>1 DEF scanVars
  <2> QED
    BY <2>1 DEF ScanInv
<1>2. CASE ScanNext
  <2>1. result = Scanning
    BY <1>2 DEF ScanNext, Turn, NotFound
  <2> QED
    BY <1>2, <2>1, TurnAtAttribute, TurnBehind DEF ScanInv
<1> QED
  BY <1>1, <1>2

(***************************************************************************)
(* While the loop runs it is at the start of an attribute, with no key     *)
(* before it, or behind the last one, with no key at all; it returns the   *)
(* first currency, or refuses what was cut off or has none that fits.      *)
(***************************************************************************)
THEOREM ScanStaysAligned == ScanSpec => []ScanInv
<1>1. ScanInit => ScanInv
  BY ScanStarts
<1>2. ScanInv /\ [ScanNext]_scanVars => ScanInv'
  BY ScanKept
<1> QED
  BY <1>1, <1>2, PTL DEF ScanSpec

(***************************************************************************)
(* The loop moves two bytes or more at every turn that does not end it, so *)
(* it takes fewer turns than the array has bytes, whatever lengths the     *)
(* attributes claim: a length of zero cannot keep it where it is.          *)
(***************************************************************************)
MovesOn == result' = Scanning => start < AttrSize /\ start' >= start + 2

LEMMA ArrayOfNumbers ==
  ASSUME ScanInv, NEW c \in 0..(AttrSize - 1)
  PROVE  attr[c] \in Nat
<1>1. Published(written) \in Seq(Nat)
  BY ScanTypes, Laid DEF ScanInv
<1>2. Len(Published(written)) \in Nat
        /\ \A j \in 1..Len(Published(written)) : Published(written)[j] \in Nat
  BY <1>1, ElementOfSeq, LenProperties
<1>3. c < Len(Published(written)) => c + 1 \in 1..Len(Published(written))
  BY <1>2, ScanTypes
<1>4. attr[c] = Cell(written, c)
  BY DEF ScanInv
<1> QED
  BY <1>2, <1>3, <1>4 DEF Cell

THEOREM ScanMovesOn == ScanSpec => [][MovesOn]_scanVars
<1>1. ScanInv /\ [ScanNext]_scanVars => [MovesOn]_scanVars
  <2> SUFFICES ASSUME ScanInv, ScanNext, result' = Scanning
               PROVE  start < AttrSize /\ start' >= start + 2
    BY DEF MovesOn
  <2>1. Invalid # Scanning /\ Panic # Scanning
    BY DEF Invalid, Panic, Scanning
  <2>2. Turn
    BY <2>1 DEF ScanNext, NotFound
  <2> PICK key : key = start + 1
    OBVIOUS
  <2> PICK at : at = key + attr[start]
    OBVIOUS
  <2>3. \A from : Currency(from) # Scanning
    BY DEF Currency, Found, Invalid, Panic, Scanning
  <2>4. start < AttrSize /\ at < AttrSize /\ start' = (at + 1) + attr[at]
    BY <2>1, <2>2, <2>3, Ways
  <2>5. start \in Nat /\ AttrSize \in Nat
    BY ScanTypes DEF ScanInv
  <2>6. attr[start] \in Nat
    BY <2>4, <2>5, ArrayOfNumbers
  <2>7. at \in Nat
    BY <2>5, <2>6
  <2>8. attr[at] \in Nat
    BY <2>4, <2>5, <2>7, ArrayOfNumbers
  <2> QED
    BY ONLY <2>4, <2>5, <2>6, <2>7, <2>8, at = key + attr[start], key = start + 1
<1> QED
  BY <1>1, ScanStaysAligned, PTL DEF ScanSpec

LEMMA ScanInvMeans == ScanInv => NothingElseIsRead /\ CurrencyIsRead
<1> SUFFICES ASSUME ScanInv PROVE NothingElseIsRead /\ CurrencyIsRead
  OBVIOUS
<1>1. CASE result = Scanning
  <2>1. result.kind # "ok"
    BY <1>1 DEF Scanning
  <2> QED
    BY <1>1, <2>1 DEF NothingElseIsRead, CurrencyIsRead
<1>2. CASE Right(written, result)
  <2>1. CASE result.kind = "ok" /\ Readable(written)
             /\ result.value = PaddedWithZeros(CurrencyOf(written))
    BY <2>1 DEF NothingElseIsRead, CurrencyIsRead, Readable
  <2>2. CASE result \in {Invalid, Panic}
             /\ (Len(Published(written)) <= AttrSize => ~Readable(written))
    <3>1. result.kind # "ok"
      BY <2>2 DEF Invalid, Panic
    <3> QED
      BY <2>2, <3>1 DEF NothingElseIsRead, CurrencyIsRead, Readable
  <2> QED
    BY <1>2, <2>1, <2>2 DEF Right
<1> QED
  BY <1>1, <1>2 DEF ScanInv

(***************************************************************************)
(* get_pyth_product_quote_currency returns nothing but the value of the    *)
(* first attribute with the key, whatever keys and values look like and    *)
(* wherever the array ends.                                                *)
(***************************************************************************)
THEOREM NothingElseRead == ScanSpec => []NothingElseIsRead
BY ScanStaysAligned, ScanInvMeans, PTL

(***************************************************************************)
(* A product that fits the array is refused only if it has no quote        *)
(* currency, or one that is too long.                                      *)
(***************************************************************************)
THEOREM CurrencyRead == ScanSpec => []CurrencyIsRead
BY ScanStaysAligned, ScanInvMeans, PTL

-----------------------------------------------------------------------------
(***************************************************************************)
(* Layouts: where a field starts, and what is read back of it              *)
(***************************************************************************)
\* L is a layout of n fields.
IsLayout(L, n) ==
  n \in Nat /\ Len(L) = n /\ DOMAIN L = 1..n /\ \A i \in 1..n : L[i][2] \in Nat \ {0}

\* Its fields follow one another from the start.
IsLaidOut(L, n) ==
  /\ Offset(L, 1) = 0
  /\ \A i \in 1..(n + 1) : Offset(L, i) \in Nat
  /\ \A i \in 1..n : Offset(L, i + 1) = Offset(L, i) + L[i][2]

LEMMA Offsets ==
  ASSUME NEW L, NEW n, IsLayout(L, n)
  PROVE  IsLaidOut(L, n)
<1>0. n \in Nat /\ Len(L) = n /\ DOMAIN L = 1..n /\ \A i \in 1..n : L[i][2] \in Nat \ {0}
  BY DEF IsLayout
<1> USE <1>0
<1> PICK f : f = [j \in DOMAIN L |-> L[j][2]]
  OBVIOUS
<1>1. \A i \in 1..n : f[i] = L[i][2] /\ L[i][2] \in Nat \ {0}
  OBVIOUS
<1> DEFINE O(i) == SumFunctionOnSet(f, 1..(i - 1))
<1>2. \A i : Offset(L, i) = O(i)
  BY DEF Offset
<1>3. O(1) = 0
  <2>1. 1..(1 - 1) = {}
    OBVIOUS
  <2> QED
    BY <2>1, SumEmpty
<1>4. ASSUME NEW i \in 1..n PROVE O(i + 1) = O(i) + f[i]
  <2>1. PICK m \in Nat : m = i - 1
    OBVIOUS
  <2>2. m + 1 = i /\ (i + 1) - 1 = m + 1
    BY <2>1
  <2>4. \A j \in 1..(m + 1) : f[j] \in Int
    <3>1. \A j \in 1..(m + 1) : j \in 1..n
      BY <2>2
    <3>2. ASSUME NEW j \in 1..n PROVE f[j] \in Int
      <4>1. f[j] = L[j][2] /\ L[j][2] \in Nat
        BY <1>1
      <4> QED
        BY <4>1
    <3> QED
      BY ONLY <3>1, <3>2
  <2>3. SumFunctionOnSet(f, 1..(m + 1)) = SumFunctionOnSet(f, 1..m) + f[m + 1]
    BY ONLY <2>4, SumLast
  <2> QED
    BY <2>1, <2>2, <2>3
<1> HIDE DEF O
<1> DEFINE T == {i \in Nat : i <= n => O(i + 1) \in Nat}
<1>5. 0 \in T
  BY <1>3
<1>6. ASSUME NEW i \in Nat, i \in T PROVE i + 1 \in T
  <2> SUFFICES ASSUME i + 1 <= n PROVE O((i + 1) + 1) \in Nat
    OBVIOUS
  <2>1. i + 1 \in 1..n /\ O(i + 1) \in Nat
    BY <1>6
  <2>2. f[i + 1] \in Nat
    BY <1>1, <2>1
  <2>3. O((i + 1) + 1) = O(i + 1) + f[i + 1]
    BY <1>4, <2>1
  <2> QED
    BY ONLY <2>1, <2>2, <2>3
<1> HIDE DEF T
<1>7. \A i \in Nat : i \in T
  BY <1>5, <1>6, Induction
<1>8. \A i \in 1..(n + 1) : O(i) \in Nat
  <2> SUFFICES ASSUME NEW i \in 1..(n + 1) PROVE O(i) \in Nat
    OBVIOUS
  <2>1. i - 1 \in Nat /\ i - 1 <= n /\ (i - 1) + 1 = i
    OBVIOUS
  <2> QED
    BY <1>7, <2>1 DEF T
<1> QED
  BY <1>1, <1>2, <1>3, <1>4, <1>8 DEF IsLaidOut

LEMMA SubSeqIs ==
  ASSUME NEW S, NEW s \in Seq(S), NEW o \in Nat, NEW w \in Nat, o + w <= Len(s)
  PROVE  SubSeq(s, o + 1, o + w) = [j \in 1..w |-> s[o + j]]
<1> PICK n \in Nat : n = Len(s)
  BY LenProperties
<1> PICK a \in Int : a = o + 1
  OBVIOUS
<1> PICK b \in Int : b = o + w
  OBVIOUS
<1> PICK t : t = SubSeq(s, a, b)
  OBVIOUS
<1>1. \A i \in a..b : i \in 1..n
  OBVIOUS
<1>2. \A i \in a..b : s[i] \in S
  BY <1>1, ElementOfSeq
<1>3. /\ t \in Seq(S) /\ Len(t) = IF a <= b THEN (b - a) + 1 ELSE 0
      /\ \A i \in 1..((b - a) + 1) : t[i] = s[(a + i) - 1]
  BY <1>2, SubSeqProperties
<1>4. (b - a) + 1 = w /\ Len(t) = w
  BY <1>3
<1>5. \A i \in 1..w : t[i] = s[o + i]
  <2>1. \A i \in 1..w : (a + i) - 1 = o + i
    OBVIOUS
  <2> QED
    BY <1>3, <1>4, <2>1
<1>6. t = [i \in 1..w |-> t[i]]
  BY <1>3, <1>4, LenProperties
<1> QED
  BY <1>5, <1>6

\* Fields of the widths of a layout, one behind the other, make up its width,
\* and each is what is read at its offset.
Fills(L, f, n, S) ==
  /\ IsLayout(L, n)
  /\ f \in [1..n -> Seq(S)] /\ \A i \in 1..n : Len(f[i]) = L[i][2]

InPlace(L, flat, f, n, S) ==
  /\ flat \in Seq(S) /\ Len(flat) = Width(L)
  /\ \A i \in 1..n : /\ Offset(L, i) \in Nat
                     /\ Offset(L, i) + L[i][2] <= Width(L)
                     /\ SliceOf(flat, L, i) = f[i]

LEMMA FieldPlaces ==
  ASSUME NEW S, NEW L, NEW n, NEW f, Fills(L, f, n, S)
  PROVE  InPlace(L, FlattenSeq(f), f, n, S)
<1>0. /\ IsLayout(L, n) /\ n \in Nat /\ n = Len(L)
      /\ f \in [1..n -> Seq(S)] /\ \A i \in 1..n : Len(f[i]) = L[i][2]
  BY DEF Fills, IsLayout
<1> USE <1>0
<1>1. f \in Seq(Seq(S)) /\ Len(f) = n
  BY <1>0, FunctionIsSeq
<1> PICK flat : flat = FlattenSeq(f)
  OBVIOUS
<1>2. PICK off : flat \in Seq(S) /\ Placed(f, flat, off)
  BY <1>1, FlatPlaces
<1>3. /\ off \in [0..n -> Nat] /\ off[0] = 0 /\ off[n] = Len(flat)
      /\ \A i \in 1..n :
           /\ off[i] = off[i - 1] + L[i][2] /\ off[i] <= Len(flat)
           /\ \A j \in 1..L[i][2] : flat[off[i - 1] + j] = f[i][j]
  BY <1>0, <1>1, <1>2 DEF Placed
<1>4. /\ Offset(L, 1) = 0
      /\ \A i \in 1..n : L[i][2] \in Nat \ {0} /\ Offset(L, i + 1) = Offset(L, i) + L[i][2]
  BY <1>0, Offsets DEF IsLayout, IsLaidOut
<1> DEFINE T == {i \in Nat : i <= n => Offset(L, i + 1) = off[i]}
<1>5. 0 \in T
  BY <1>3, <1>4
<1>6. ASSUME NEW i \in Nat, i \in T PROVE i + 1 \in T
  <2> SUFFICES ASSUME i + 1 <= n PROVE Offset(L, (i + 1) + 1) = off[i + 1]
    OBVIOUS
  <2>1. i + 1 \in 1..n /\ (i + 1) - 1 = i /\ Offset(L, i + 1) = off[i]
    BY <1>6
  <2>2. Offset(L, (i + 1) + 1) = Offset(L, i + 1) + L[i + 1][2]
    BY <1>4, <2>1
  <2>3. off[i + 1] = off[(i + 1) - 1] + L[i + 1][2]
    BY <1>3, <2>1
  <2> QED
    BY <2>1, <2>2, <2>3
<1> HIDE DEF T
<1>7. \A i \in 0..n : Offset(L, i + 1) = off[i]
  <2>1. \A i \in Nat : i \in T
    BY <1>5, <1>6, Induction
  <2> QED
    BY <2>1 DEF T
<1>8. Width(L) = Len(flat)
  BY <1>0, <1>3, <1>7 DEF Width
<1>9. ASSUME NEW i \in 1..n
      PROVE  /\ Offset(L, i) \in Nat /\ Offset(L, i) + L[i][2] <= Width(L)
             /\ SliceOf(flat, L, i) = f[i]
  <2> PICK o : o = off[i - 1]
    OBVIOUS
  <2> PICK w : w = L[i][2]
    OBVIOUS
  <2>1. Offset(L, i) = o /\ o \in Nat /\ w \in Nat \ {0}
    <3>1. i - 1 \in 0..n /\ (i - 1) + 1 = i
      OBVIOUS
    <3> QED
      BY <1>3, <1>4, <1>7, <3>1
  <2>2. off[i] = o + w /\ off[i] <= Len(flat) /\ Len(flat) \in Nat
    BY <1>2, <1>3, LenProperties
  <2>3. \A j \in 1..w : flat[o + j] = f[i][j]
    BY <1>3
  <2>4. SliceOf(flat, L, i) = SubSeq(flat, o + 1, o + w)
    BY <2>1 DEF SliceOf
  <2>5. SubSeq(flat, o + 1, o + w) = [j \in 1..w |-> flat[o + j]]
    <3>1. o \in Nat /\ w \in Nat /\ o + w <= Len(flat) /\ flat \in Seq(S)
      BY <1>2, <2>1, <2>2
    <3> QED
      BY ONLY <3>1, SubSeqIs
  <2>6. f[i] = [j \in 1..w |-> f[i][j]]
    BY <1>0, LenProperties
  <2>7. SliceOf(flat, L, i) = f[i]
    BY <2>3, <2>4, <2>5, <2>6
  <2> QED
    BY <1>8, <2>1, <2>2, <2>7
<1> QED
  BY <1>2, <1>8, <1>9 DEF InPlace

-----------------------------------------------------------------------------
(***************************************************************************)
(* Instructions                                                            *)
(***************************************************************************)
Pairs == Nat \X Nat

\* A value that is read whole is itself.
LEMMA DecodedEncoded ==
  ASSUME NEW v \in 0..255, NEW w \in Nat \ {0}
  PROVE  /\ Encoded(v, w) \in Seq(Pairs) /\ Len(Encoded(v, w)) = w
         /\ Decoded(Encoded(v, w)) = v
<1> PICK s : s = Encoded(v, w)
  OBVIOUS
<1>1. s = [i \in 1..w |-> Byte(v, i)]
  BY DEF Encoded
<1>2. s \in [1..w -> Pairs]
  BY <1>1 DEF Byte, Pairs
<1>3. s \in Seq(Pairs) /\ Len(s) = w
  BY <1>2, FunctionIsSeq
<1>4. s[1][1] = v
  <2>1. s[1] = Byte(v, 1)
    BY <1>1
  <2> QED
    BY <2>1 DEF Byte
<1>5. Decoded(s) = v
  BY <1>3, <1>4 DEF Decoded
<1> QED
  BY <1>3, <1>5

\* The layout of the arguments, and where the boolean is.
LEMMA ArgumentLayout ==
  ASSUME NEW tag \in 0..255
  PROVE  /\ IsLayout(Arguments(tag), Len(Arguments(tag)))
         /\ \A i \in 1..Len(Arguments(tag)) :
              Arguments(tag)[i][1] = "use_pyth_oracle" <=> tag = 2 /\ i = 3
         /\ tag = 2 => Len(Arguments(tag)) = 3
         /\ Handler(tag) # "none" <=> tag \in 0..8
         /\ Handler(tag) # "not yet"
<1> PICK L : L = Arguments(tag)
  OBVIOUS
<1>1. /\ Handler(tag) # "none" <=> tag \in 0..8
      /\ Handler(tag) # "not yet"
  BY DEF Handler
<1>2. /\ IsLayout(L, Len(L))
      /\ \A i \in 1..Len(L) : L[i][1] = "use_pyth_oracle" <=> tag = 2 /\ i = 3
      /\ tag = 2 => Len(L) = 3
  <2>1. CASE tag = 0
    <3>1. L = << <<"owner", 32>>, <<"quote_currency", 32>> >>
      BY <2>1 DEF Arguments
    <3>2. Len(L) = 2
      BY <3>1
    <3>3. /\ L[1][2] \in Nat \ {0} /\ L[1][1] # "use_pyth_oracle"
          /\ L[2][2] \in Nat \ {0} /\ L[2][1] # "use_pyth_oracle"
      BY <3>1
    <3>4. IsLayout(L, Len(L))
      BY <3>1, <3>2, <3>3 DEF IsLayout
    <3> QED
      BY <2>1, <3>2, <3>3, <3>4
  <2>2. CASE tag = 1
    <3>1. L = << <<"new_owner", 32>> >>
      BY <2>2 DEF Arguments
    <3>2. Len(L) = 1
      BY <3>1
    <3>3. /\ L[1][2] \in Nat \ {0} /\ L[1][1] # "use_pyth_oracle"
      BY <3>1
    <3>4. IsLayout(L, Len(L))
      BY <3>1, <3>2, <3>3 DEF IsLayout
    <3> QED
      BY <2>2, <3>2, <3>3, <3>4
  <2>3. CASE tag = 2
    <3>1. L = << <<"total_mining_speed", 8>>, <<"kink_util_rate", 8>>,
                 <<"use_pyth_oracle", 1>> >>
      BY <2>3 DEF Arguments
    <3>2. Len(L) = 3
      BY <3>1
    <3>3. /\ L[1][2] \in Nat \ {0} /\ L[1][1] # "use_pyth_oracle"
          /\ L[2][2] \in Nat \ {0} /\ L[2][1] # "use_pyth_oracle"
          /\ L[3][2] \in Nat \ {0} /\ L[3][1] = "use_pyth_oracle"
      BY <3>1
    <3>4. IsLayout(L, Len(L))
      BY <3>1, <3>2, <3>3 DEF IsLayout
    <3> QED
      BY <2>3, <3>2, <3>3, <3>4
  <2>4. CASE tag = 4
    <3>1. L = << <<"liquidity_amount", 8>> >>
      BY <2>4 DEF Arguments
    <3>2. Len(L) = 1
      BY <3>1
    <3>3. /\ L[1][2] \in Nat \ {0} /\ L[1][1] # "use_pyth_oracle"
      BY <3>1
    <3>4. IsLayout(L, Len(L))
      BY <3>1, <3>2, <3>3 DEF IsLayout
    <3> QED
      BY <2>4, <3>2, <3>3, <3>4
  <2>5. CASE tag = 5
    <3>1. L = << <<"collateral_amount", 8>> >>
      BY <2>5 DEF Arguments
    <3>2. Len(L) = 1
      BY <3>1
    <3>3. /\ L[1][2] \in Nat \ {0} /\ L[1][1] # "use_pyth_oracle"
      BY <3>1
    <3>4. IsLayout(L, Len(L))
      BY <3>1, <3>2, <3>3 DEF IsLayout
    <3> QED
      BY <2>5, <3>2, <3>3, <3>4
  <2>6. CASE tag \notin {0, 1, 2, 4, 5}
    <3>1. L = << >>
      BY <2>6 DEF Arguments
    <3> QED
      BY <2>6, <3>1 DEF IsLayout
  <2> QED
    BY <2>1, <2>2, <2>3, <2>4, <2>5, <2>6
<1> QED
  BY <1>1, <1>2

\* The bytes behind the tag.
Body(tag, arguments) ==
  FlattenSeq([i \in DOMAIN arguments |-> Encoded(arguments[i], Arguments(tag)[i][2])])

LEMMA BodyPlaces ==
  ASSUME NEW tag \in 0..255, NEW arguments \in [DOMAIN Arguments(tag) -> 0..255]
  PROVE  /\ Body(tag, arguments) \in Seq(Pairs)
         /\ Len(Body(tag, arguments)) = Width(Arguments(tag))
         /\ \A i \in 1..Len(Arguments(tag)) :
              /\ Offset(Arguments(tag), i) \in Nat
              /\ Arguments(tag)[i][2] \in Nat \ {0}
              /\ Offset(Arguments(tag), i) + Arguments(tag)[i][2] <= Width(Arguments(tag))
              /\ Decoded(SliceOf(Body(tag, arguments), Arguments(tag), i)) = arguments[i]
<1> PICK L : L = Arguments(tag)
  OBVIOUS
<1> PICK n \in Nat : n = Len(L)
  BY ArgumentLayout DEF IsLayout
<1>0. IsLayout(L, n) /\ IsLaidOut(L, n)
  BY ArgumentLayout, Offsets
<1> PICK f : f = [i \in 1..n |-> Encoded(arguments[i], L[i][2])]
  OBVIOUS
<1>1. DOMAIN L = 1..n
  BY <1>0 DEF IsLayout
<1>2. \A i \in 1..n : L[i][2] \in Nat \ {0} /\ arguments[i] \in 0..255
  BY <1>0, <1>1 DEF IsLayout
<1>3. ASSUME NEW i \in 1..n
      PROVE  f[i] \in Seq(Pairs) /\ Len(f[i]) = L[i][2] /\ Decoded(f[i]) = arguments[i]
  <2>1. f[i] = Encoded(arguments[i], L[i][2])
    OBVIOUS
  <2> QED
    BY <1>2, <2>1, DecodedEncoded
<1>4. Fills(L, f, n, Pairs)
  BY <1>0, <1>3 DEF Fills
<1>5. Body(tag, arguments) = FlattenSeq(f)
  BY <1>1 DEF Body
<1>6. InPlace(L, FlattenSeq(f), f, n, Pairs)
  BY <1>4, FieldPlaces
<1> PICK body : body = FlattenSeq(f)
  OBVIOUS
<1>7. InPlace(L, body, f, n, Pairs)
  BY <1>6
<1>8. body \in Seq(Pairs) /\ Len(body) = Width(L)
  BY <1>7 DEF InPlace
<1>9. ASSUME NEW i \in 1..n
      PROVE  /\ Offset(L, i) \in Nat /\ L[i][2] \in Nat \ {0}
             /\ Offset(L, i) + L[i][2] <= Width(L)
             /\ Decoded(SliceOf(body, L, i)) = arguments[i]
  <2>1. /\ Offset(L, i) \in Nat /\ Offset(L, i) + L[i][2] <= Width(L)
        /\ SliceOf(body, L, i) = f[i]
    BY <1>7 DEF InPlace
  <2> QED
    BY <1>2, <1>3, <2>1
<1>10. Body(tag, arguments) = body
  BY <1>5
<1> QED
  BY <1>8, <1>9, <1>10

\* The bytes behind the tag as they lie: n arguments in w bytes.
Legible(L, n, w, arguments, body) ==
  /\ n \in Nat /\ n = Len(L) /\ DOMAIN L = 1..n
  /\ w \in Nat /\ w = Width(L)
  /\ body \in Seq(Pairs) /\ Len(body) = w
  /\ \A i \in 1..n : /\ Offset(L, i) \in Nat /\ L[i][2] \in Nat \ {0}
                     /\ Offset(L, i) + L[i][2] <= w
                     /\ Decoded(SliceOf(body, L, i)) = arguments[i]
  /\ n > 0 => Offset(L, n) + L[n][2] = w
  /\ n = 0 => w = 0

LEMMA BodyLegible ==
  ASSUME NEW tag \in 0..255, NEW arguments \in [DOMAIN Arguments(tag) -> 0..255]
  PROVE  \E n, w : Legible(Arguments(tag), n, w, arguments, Body(tag, arguments))
<1> PICK L : L = Arguments(tag)
  OBVIOUS
<1> PICK n \in Nat : n = Len(L)
  BY ArgumentLayout DEF IsLayout
<1>0. IsLayout(L, n) /\ IsLaidOut(L, n)
  BY ArgumentLayout, Offsets
<1> PICK body : body = Body(tag, arguments)
  OBVIOUS
<1> PICK w : w = Width(L)
  OBVIOUS
<1>1. body \in Seq(Pairs) /\ Len(body) = w /\ w \in Nat
  <2>1. body \in Seq(Pairs) /\ Len(body) = w
    BY BodyPlaces
  <2> QED
    BY <2>1, LenProperties
<1>2. DOMAIN L = 1..n
  BY <1>0 DEF IsLayout
<1>3. ASSUME NEW i \in 1..n
      PROVE  /\ Offset(L, i) \in Nat /\ L[i][2] \in Nat \ {0}
             /\ Offset(L, i) + L[i][2] <= w
             /\ Decoded(SliceOf(body, L, i)) = arguments[i]
  BY BodyPlaces
<1>4. n > 0 => Offset(L, n) + L[n][2] = w
  <2>1. n > 0 => n \in 1..n
    OBVIOUS
  <2> QED
    BY <1>0, <2>1 DEF Width, IsLayout, IsLaidOut
<1>5. n = 0 => w = 0
  BY <1>0 DEF Width, IsLayout, IsLaidOut
<1> QED
  BY <1>1, <1>2, <1>3, <1>4, <1>5 DEF Legible

\* The arguments have all arrived if and only if the last byte has.
Missing(layout, rest) ==
  \E i \in DOMAIN layout :
    ~Arrived(SubSeq(rest, Offset(layout, i) + 1, Len(rest)), layout[i][2])

LEMMA NoneMissing ==
  ASSUME NEW L, NEW n, NEW w, NEW arguments, NEW body, Legible(L, n, w, arguments, body),
         NEW rest \in Seq(Pairs)
  PROVE  ~Missing(L, rest) <=> Len(rest) >= w
<1>0. /\ n \in Nat /\ DOMAIN L = 1..n /\ w \in Nat
      /\ \A i \in 1..n : /\ Offset(L, i) \in Nat /\ L[i][2] \in Nat \ {0}
                         /\ Offset(L, i) + L[i][2] <= w
      /\ n > 0 => Offset(L, n) + L[n][2] = w
      /\ n = 0 => w = 0
  BY DEF Legible
<1> PICK r \in Nat : r = Len(rest)
  BY LenProperties
<1>1. ASSUME NEW i \in 1..n
      PROVE  Arrived(SubSeq(rest, Offset(L, i) + 1, r), L[i][2])
               <=> r >= Offset(L, i) + L[i][2]
  <2> PICK o \in Nat : o = Offset(L, i)
    BY <1>0
  <2> PICK k \in Nat \ {0} : k = L[i][2]
    BY <1>0
  <2> PICK left : left = SubSeq(rest, o + 1, r)
    OBVIOUS
  <2>1. \A j \in (o + 1)..r : rest[j] \in Pairs
    BY ElementOfSeq
  <2>2. Len(left) = IF o + 1 <= r THEN (r - (o + 1)) + 1 ELSE 0
    BY <2>1, SubSeqProperties
  <2>3. Len(left) >= k <=> r >= o + k
    <3> PICK m : m = Len(left)
      OBVIOUS
    <3>1. m = IF o + 1 <= r THEN (r - (o + 1)) + 1 ELSE 0
      BY <2>2
    <3>2. o \in Nat /\ k \in Nat \ {0} /\ r \in Nat
      OBVIOUS
    <3>3. m >= k <=> r >= o + k
      BY ONLY <3>1, <3>2
    <3> QED
      BY <3>3
  <2> QED
    BY <2>3 DEF Arrived
<1>2. Missing(L, rest) <=> \E i \in 1..n : ~(r >= Offset(L, i) + L[i][2])
  BY <1>0, <1>1 DEF Missing
<1>3. r >= w => \A i \in 1..n : r >= Offset(L, i) + L[i][2]
  BY <1>0
<1>4. ~(r >= w) => \E i \in 1..n : ~(r >= Offset(L, i) + L[i][2])
  <2> SUFFICES ASSUME ~(r >= w) PROVE \E i \in 1..n : ~(r >= Offset(L, i) + L[i][2])
    OBVIOUS
  <2>1. n > 0 /\ n \in 1..n
    BY <1>0
  <2>2. ~(r >= Offset(L, n) + L[n][2])
    BY <1>0, <2>1
  <2> QED
    BY <2>1, <2>2
<1> QED
  BY <1>2, <1>3, <1>4

\* What is read is what was written, when all of it has arrived.
Holds(rest, body, w) ==
  rest \in Seq(Pairs) /\ Len(rest) >= w /\ \A j \in 1..w : rest[j] = body[j]

LEMMA ArgumentsRead ==
  ASSUME NEW tag, NEW n, NEW w, NEW arguments, NEW body,
         Legible(Arguments(tag), n, w, arguments, body),
         NEW rest, Holds(rest, body, w)
  PROVE  \A i \in 1..n : Argument(tag, rest, i) = arguments[i]
<1>0. /\ n \in Nat /\ w \in Nat /\ w = Width(Arguments(tag))
      /\ body \in Seq(Pairs) /\ Len(body) = w
      /\ \A i \in 1..n : Decoded(SliceOf(body, Arguments(tag), i)) = arguments[i]
  BY DEF Legible
<1>1. Padded(rest, w) = body
  <2> PICK r \in Nat : r = Len(rest)
    BY LenProperties DEF Holds
  <2>1. Padded(rest, w) = [j \in 1..w |-> body[j]]
    BY <1>0 DEF Padded, Holds
  <2>2. body = [j \in 1..w |-> body[j]]
    BY <1>0, LenProperties
  <2> QED
    BY <2>1, <2>2
<1> QED
  BY <1>0, <1>1 DEF Argument

-----------------------------------------------------------------------------
NoBoolean(tag, rest) ==
  \E i \in DOMAIN Arguments(tag) :
    Arguments(tag)[i][1] = "use_pyth_oracle" /\ ~IsBoolean(Argument(tag, rest, i))

LEMMA UnpackIs ==
  ASSUME NEW input
  PROVE  UnpackInstruction(input)
           = IF \/ input = << >>
                \/ Handler(input[1][1]) = "none"
                \/ Missing(Arguments(input[1][1]), Tail(input))
                \/ NoBoolean(input[1][1], Tail(input))
             THEN Failed
             ELSE [ handler   |-> Handler(input[1][1]),
                    arguments |-> [i \in DOMAIN Arguments(input[1][1]) |->
                                     Argument(input[1][1], Tail(input), i)] ]
BY DEF UnpackInstruction, Missing, NoBoolean

\* What arrives of an instruction: the bytes that are there are the caller's.
Agrees(tag, w, body, input) ==
  /\ input \in Seq(Pairs)
  /\ input # << >> => input[1][1] = tag
  /\ \A j \in 1..w : j + 1 <= Len(input) => input[j + 1] = body[j]

\* What the processor makes of it.
Faithful(tag, w, arguments, input, outcome) ==
  /\ outcome.handler # "not yet"
  /\ outcome.handler # "none" =>
       /\ outcome.handler = Handler(tag) /\ outcome.arguments = arguments
       /\ Len(input) >= w + 1
  /\ Len(input) >= w + 1 =>
       (outcome.handler # "none" <=> tag \in 0..8 /\ (tag = 2 => arguments[3] \in {0, 1}))

LEMMA UnpackedFaithfully ==
  ASSUME NEW tag \in 0..255, NEW arguments \in [DOMAIN Arguments(tag) -> 0..255],
         NEW n, NEW w, NEW body, Legible(Arguments(tag), n, w, arguments, body),
         NEW input, Agrees(tag, w, body, input)
  PROVE  Faithful(tag, w, arguments, input, UnpackInstruction(input))
<1> PICK outcome : outcome = UnpackInstruction(input)
  OBVIOUS
<1>0. /\ n \in Nat /\ DOMAIN Arguments(tag) = 1..n /\ n = Len(Arguments(tag)) /\ w \in Nat
  BY DEF Legible
<1>1. input \in Seq(Pairs) /\ Len(input) \in Nat
  BY LenProperties DEF Agrees
<1> PICK m \in Nat : m = Len(input)
  BY <1>1
<1>2. CASE input = << >>
  <2>1. outcome = Failed /\ m = 0
    BY <1>2, UnpackIs
  <2> QED
    BY <1>0, <2>1 DEF Faithful, Failed
<1>3. CASE input # << >>
  <2> PICK rest : rest = Tail(input)
    OBVIOUS
  <2>1. input[1][1] = tag
    BY <1>3 DEF Agrees
  <2>2. /\ rest \in Seq(Pairs) /\ Len(rest) = m - 1 /\ m >= 1
        /\ \A j \in 1..(m - 1) : rest[j] = input[j + 1]
    BY <1>1, <1>3, HeadTailProperties, EmptySeq
  <2>3. outcome = IF Handler(tag) = "none" \/ Missing(Arguments(tag), rest)
                       \/ NoBoolean(tag, rest)
                  THEN Failed
                  ELSE [ handler   |-> Handler(tag),
                         arguments |-> [i \in 1..n |-> Argument(tag, rest, i)] ]
    BY <1>0, <1>3, <2>1, UnpackIs
  <2>4. ~Missing(Arguments(tag), rest) <=> m - 1 >= w
    BY <2>2, NoneMissing
  <2>5. ASSUME m - 1 >= w
        PROVE  \A i \in 1..n : Argument(tag, rest, i) = arguments[i]
    <3>1. \A j \in 1..w : rest[j] = body[j]
      <4> SUFFICES ASSUME NEW j \in 1..w PROVE rest[j] = body[j]
        OBVIOUS
      <4>1. j \in 1..(m - 1) /\ j + 1 <= m
        BY <1>0, <2>5
      <4> QED
        BY <2>2, <4>1 DEF Agrees
    <3>2. Len(rest) >= w
      BY <2>2, <2>5
    <3>3. Holds(rest, body, w)
      BY <2>2, <3>1, <3>2 DEF Holds
    <3> QED
      BY <3>3, ArgumentsRead
  <2>6. ASSUME m - 1 >= w
        PROVE  NoBoolean(tag, rest) <=> tag = 2 /\ arguments[3] \notin {0, 1}
    <3>1. \A i \in 1..n : Arguments(tag)[i][1] = "use_pyth_oracle" <=> tag = 2 /\ i = 3
      BY <1>0, ArgumentLayout
    <3>2. tag = 2 => 3 \in 1..n
      <4>1. tag = 2 => n = 3
        BY <1>0, ArgumentLayout
      <4> QED
        BY <4>1
    <3> QED
      BY <1>0, <2>5, <2>6, <3>1, <3>2 DEF NoBoolean, IsBoolean
  <2>7. arguments \in [1..n -> 0..255]
    BY <1>0
  <2>8. (Handler(tag) # "none" <=> tag \in 0..8) /\ Handler(tag) # "not yet"
    BY ArgumentLayout
  <2>9. CASE Handler(tag) = "none" \/ Missing(Arguments(tag), rest) \/ NoBoolean(tag, rest)
    <3>1. outcome.handler = "none"
      BY <2>3, <2>9 DEF Failed
    <3>2. m >= w + 1 => ~(tag \in 0..8 /\ (tag = 2 => arguments[3] \in {0, 1}))
      <4>1. m >= w + 1 => m - 1 >= w
        BY <1>0
      <4> QED
        BY <2>4, <2>6, <2>8, <2>9, <4>1
    <3> QED
      BY <3>1, <3>2 DEF Faithful
  <2>10. CASE ~(Handler(tag) = "none" \/ Missing(Arguments(tag), rest) \/ NoBoolean(tag, rest))
    <3>1. m - 1 >= w /\ m >= w + 1
      BY <1>0, <2>4, <2>10
    <3>2. outcome.handler = Handler(tag)
      BY <2>3, <2>10
    <3>3. outcome.arguments = arguments
      <4>1. outcome.arguments = [i \in 1..n |-> Argument(tag, rest, i)]
        BY <2>3, <2>10
      <4> QED
        BY <2>5, <2>7, <3>1, <4>1
    <3>4. tag \in 0..8 /\ (tag = 2 => arguments[3] \in {0, 1})
      BY <2>6, <2>8, <2>10, <3>1
    <3> QED
      BY <2>8, <3>1, <3>2, <3>3, <3>4 DEF Faithful
  <2> QED
    BY <2>9, <2>10
<1> QED
  BY <1>2, <1>3

-----------------------------------------------------------------------------
(***************************************************************************)
(* The instruction that arrives is a beginning of what the caller wrote,   *)
(* or all of it with something behind.                                     *)
(***************************************************************************)
InstructionInv ==
  \E tag \in 0..255 : \E arguments \in [DOMAIN Arguments(tag) -> 0..255] :
    /\ sent = [tag |-> tag, arguments |-> arguments]
    /\ Agrees(tag, Width(Arguments(tag)), Body(tag, arguments), data)
    /\ entered = NotYet \/ entered = UnpackInstruction(data)

IsWhole(tag, w, body, all) ==
  /\ all \in Seq(Pairs) /\ Len(all) = w + 1 /\ all[1][1] = tag
  /\ \A j \in 1..w : all[j + 1] = body[j]

LEMMA WrittenIs ==
  ASSUME NEW tag \in 0..255, NEW arguments \in [DOMAIN Arguments(tag) -> 0..255],
         NEW n, NEW w, Legible(Arguments(tag), n, w, arguments, Body(tag, arguments))
  PROVE  IsWhole(tag, w, Body(tag, arguments), Written(tag, arguments))
<1> PICK body : body = Body(tag, arguments)
  OBVIOUS
<1>1. body \in Seq(Pairs) /\ Len(body) = w /\ w \in Nat
  BY DEF Legible
<1> PICK first : first = <<Byte(tag, 1)>>
  OBVIOUS
<1>2. first \in Seq(Pairs) /\ Len(first) = 1 /\ first[1][1] = tag
  <2>1. Byte(tag, 1) \in Pairs /\ Byte(tag, 1)[1] = tag
    BY DEF Byte, Pairs
  <2> QED
    BY <2>1
<1>3. Written(tag, arguments) = first \o body
  BY DEF Written, Body
<1> PICK all : all = first \o body
  OBVIOUS
<1>4. all \in Seq(Pairs) /\ Len(all) = w + 1
      /\ all[1] = first[1] /\ \A j \in 1..w : all[j + 1] = body[j]
  <2>1. /\ all \in Seq(Pairs) /\ Len(all) = 1 + w
        /\ \A i \in 1..(1 + w) : all[i] = IF i <= 1 THEN first[i] ELSE body[i - 1]
    BY <1>1, <1>2, ConcatProperties
  <2>2. all[1] = first[1]
    BY <1>1, <2>1
  <2>3. ASSUME NEW j \in 1..w PROVE all[j + 1] = body[j]
    <3>1. j + 1 \in 1..(1 + w) /\ ~(j + 1 <= 1) /\ (j + 1) - 1 = j
      BY <1>1
    <3> QED
      BY <2>1, <3>1
  <2> QED
    BY <1>1, <2>1, <2>2, <2>3
<1> QED
  BY <1>2, <1>3, <1>4 DEF IsWhole

LEMMA InstructionStarts == InstructionInit => InstructionInv
<1> SUFFICES ASSUME InstructionInit PROVE InstructionInv
  OBVIOUS
<1>1. PICK tag \in Tags : \E arguments \in [DOMAIN Arguments(tag) -> ArgumentValues] :
        sent = [tag |-> tag, arguments |-> arguments]
  BY DEF InstructionInit
<1>2. PICK arguments \in [DOMAIN Arguments(tag) -> ArgumentValues] :
        sent = [tag |-> tag, arguments |-> arguments]
  BY <1>1
<1>3. tag \in 0..255 /\ arguments \in [DOMAIN Arguments(tag) -> 0..255]
  BY InstructionAssumption
<1> PICK body : body = Body(tag, arguments)
  OBVIOUS
<1>4. PICK n, w : Legible(Arguments(tag), n, w, arguments, body)
  BY <1>3, BodyLegible
<1> PICK all : all = Written(tag, arguments)
  OBVIOUS
<1>5. /\ all \in Seq(Pairs) /\ Len(all) = w + 1 /\ all[1][1] = tag
      /\ \A j \in 1..w : all[j + 1] = body[j]
  <2>1. IsWhole(tag, w, body, all)
    BY <1>3, <1>4, WrittenIs
  <2> QED
    BY <2>1 DEF IsWhole
<1>6. w \in Nat /\ w = Width(Arguments(tag))
  BY <1>4 DEF Legible
<1>7. Agrees(tag, w, body, data)
  <2>1. \/ \E n1 \in 0..Len(all) : data = SubSeq(all, 1, n1)
        \/ \E n1 \in Trailing, v \in ArgumentValues : data = all \o Encoded(v, n1)
    BY <1>2 DEF InstructionInit
  <2>2. ASSUME NEW n1 \in 0..(w + 1), data = SubSeq(all, 1, n1)
        PROVE  Agrees(tag, w, body, data)
    <3>1. \A i \in 1..n1 : i \in 1..(w + 1)
      BY <1>6
    <3>2. \A i \in 1..n1 : all[i] \in Pairs
      BY <1>5, <3>1, ElementOfSeq
    <3>3. /\ data \in Seq(Pairs) /\ Len(data) = IF 1 <= n1 THEN (n1 - 1) + 1 ELSE 0
          /\ \A i \in 1..((n1 - 1) + 1) : data[i] = all[(1 + i) - 1]
      BY <2>2, <3>2, SubSeqProperties
    <3>4. Len(data) = n1 /\ \A i \in 1..n1 : data[i] = all[i]
      BY <1>6, <3>3
    <3>5. data # << >> => 1 \in 1..n1
      BY <1>6, <3>3, <3>4, EmptySeq
    <3>6. ASSUME NEW j \in 1..w, j + 1 <= Len(data) PROVE data[j + 1] = body[j]
      <4>1. j + 1 \in 1..n1
        BY <1>6, <3>4, <3>6
      <4> QED
        BY <1>5, <3>4, <4>1
    <3> QED
      BY <1>5, <3>3, <3>4, <3>5, <3>6 DEF Agrees
  <2>3. ASSUME NEW n1 \in Trailing, NEW v \in ArgumentValues, data = all \o Encoded(v, n1)
        PROVE  Agrees(tag, w, body, data)
    <3> PICK k \in Nat : k = n1
      BY InstructionAssumption
    <3> PICK behind : behind = Encoded(v, k)
      OBVIOUS
    <3>1. behind \in Seq(Pairs) /\ Len(behind) = k
      <4>1. behind \in [1..k -> Pairs]
        BY InstructionAssumption DEF Encoded, Byte, Pairs
      <4> QED
        BY <4>1, FunctionIsSeq
    <3> PICK z \in Nat : z = w + 1
      BY <1>6
    <3>2. /\ data \in Seq(Pairs) /\ Len(data) = z + k
          /\ \A i \in 1..(z + k) : data[i] = IF i <= z THEN all[i] ELSE behind[i - z]
      <4>1. /\ all \in Seq(Pairs) /\ Len(all) = z /\ data = all \o behind
            /\ behind \in Seq(Pairs) /\ Len(behind) = k
        BY <1>5, <2>3, <3>1
      <4>2. /\ all \o behind \in Seq(Pairs) /\ Len(all \o behind) = Len(all) + Len(behind)
            /\ \A i \in 1..(Len(all) + Len(behind)) :
                 (all \o behind)[i] = IF i <= Len(all) THEN all[i] ELSE behind[i - Len(all)]
        BY ONLY <4>1, ConcatProperties
      <4> QED
        BY <4>1, <4>2
    <3>3. \A i \in 1..(w + 1) : data[i] = all[i]
      <4>1. \A i \in 1..z : i \in 1..(z + k) /\ i <= z
        OBVIOUS
      <4> QED
        BY <3>2, <4>1
    <3>4. data[1] = all[1]
      BY <1>6, <3>3
    <3>5. ASSUME NEW j \in 1..w PROVE data[j + 1] = body[j]
      <4>1. j + 1 \in 1..(w + 1)
        BY <1>6
      <4> QED
        BY <1>5, <3>3, <4>1
    <3> QED
      BY <1>5, <3>2, <3>4, <3>5 DEF Agrees
  <2> QED
    BY <1>5, <2>1, <2>2, <2>3
<1>8. entered = NotYet
  BY DEF InstructionInit
<1> QED
  BY <1>2, <1>3, <1>6, <1>7, <1>8 DEF InstructionInv

LEMMA InstructionKept == InstructionInv /\ [InstructionNext]_instructionVars => InstructionInv'
BY DEF InstructionInv, InstructionNext, ProcessInstruction, instructionVars

\* InstructionInv is inductive.
THEOREM InstructionStaysWhole == InstructionSpec => []InstructionInv
<1>1. InstructionInit => InstructionInv
  BY InstructionStarts
<1>2. InstructionInv /\ [InstructionNext]_instructionVars => InstructionInv'
  BY InstructionKept
<1> QED
  BY <1>1, <1>2, PTL DEF InstructionSpec

LEMMA InstructionInvMeans == InstructionInv => NothingMadeUp /\ WholeOnesAreEntered
<1> SUFFICES ASSUME InstructionInv PROVE NothingMadeUp /\ WholeOnesAreEntered
  OBVIOUS
<1>1. PICK tag \in 0..255 : \E arguments \in [DOMAIN Arguments(tag) -> 0..255] :
        /\ sent = [tag |-> tag, arguments |-> arguments]
        /\ Agrees(tag, Width(Arguments(tag)), Body(tag, arguments), data)
        /\ entered = NotYet \/ entered = UnpackInstruction(data)
  BY DEF InstructionInv
<1>2. PICK arguments \in [DOMAIN Arguments(tag) -> 0..255] :
        /\ sent = [tag |-> tag, arguments |-> arguments]
        /\ Agrees(tag, Width(Arguments(tag)), Body(tag, arguments), data)
        /\ entered = NotYet \/ entered = UnpackInstruction(data)
  BY <1>1
<1>3. sent.tag = tag /\ sent.arguments = arguments
  BY <1>2
<1>4. PICK n, w : Legible(Arguments(tag), n, w, arguments, Body(tag, arguments))
  BY BodyLegible
<1>5. w \in Nat /\ w = Width(Arguments(tag))
  BY <1>4 DEF Legible
<1>6. Len(Written(tag, arguments)) = w + 1
  <2>1. IsWhole(tag, w, Body(tag, arguments), Written(tag, arguments))
    BY <1>4, WrittenIs
  <2> QED
    BY <2>1 DEF IsWhole
<1>7. entered # NotYet => Faithful(tag, w, arguments, data, entered)
  BY <1>2, <1>4, <1>5, UnpackedFaithfully
<1>8. CASE entered = NotYet
  BY <1>8 DEF NotYet, NothingMadeUp, WholeOnesAreEntered
<1>9. CASE Faithful(tag, w, arguments, data, entered)
  BY <1>3, <1>6, <1>9 DEF NothingMadeUp, WholeOnesAreEntered, Sensible, Faithful
<1> QED
  BY <1>7, <1>8, <1>9

(***************************************************************************)
(* No handler is entered with an argument that the caller did not write:   *)
(* PoolingInstruction::unpack fails when a byte of one is missing, and     *)
(* reads none across its neighbour.                                        *)
(***************************************************************************)
THEOREM ArgumentsAreTheCallers == InstructionSpec => []NothingMadeUp
BY InstructionStaysWhole, InstructionInvMeans, PTL

(***************************************************************************)
(* An instruction that arrives whole is carried out if and only if its tag *)
(* is one of the nine and its boolean is one, whatever is behind it.       *)
(***************************************************************************)
THEOREM WholeInstructionsAreEntered == InstructionSpec => []WholeOnesAreEntered
BY InstructionStaysWhole, InstructionInvMeans, PTL

-----------------------------------------------------------------------------
(***************************************************************************)
(* Accounts: the layouts                                                   *)
(***************************************************************************)

\* What pack_into_slice writes by and what unpack_from_slice reads by agree.
LEMMA PackedIsUnpacked ==
  \A k : Packed(k) = Unpacked(k) /\ EntryPacked(k) = EntryUnpacked(k)
BY DEF Packed, Unpacked, EntryPacked, EntryUnpacked, PoolPacked, PoolUnpacked,
       TicketPacked, TicketUnpacked, TicketEntryPacked, TicketEntryUnpacked,
       ManagerPacked, ManagerUnpacked, MiningPacked, MiningUnpacked,
       MiningEntryPacked, MiningEntryUnpacked

Distinct(L, n) ==
  \A i, j \in 1..n : L[i][1] = L[j][1] => i = j

HasList(k) == k \in {"Ticket", "Mining"}

\* What the accounts' layouts have in common: n fields in w bytes.
IsAccountLayout(k, L, n, w) ==
  /\ IsLayout(L, n) /\ Distinct(L, n) /\ n >= 1
  /\ Width(L) = w
  /\ L[1][1] = "version" /\ L[1][2] = 1
  /\ \A i \in 1..n : /\ L[i][1] = "count" => HasList(k) /\ L[i][2] = 1
                     /\ L[i][1] = "entries" =>
                          HasList(k) /\ L[i][2] = Width(EntryPacked(k)) * MaxEntries
  /\ HasList(k) => \E i, j \in 1..n : L[i][1] = "count" /\ L[j][1] = "entries"

IsEntryLayout(L, n, w) ==
  IsLayout(L, n) /\ Distinct(L, n) /\ Width(L) = w

LEMMA MiningEntryLayout == IsEntryLayout(MiningEntryPacked, 3, 56)
<1> PICK L : L = MiningEntryPacked
  OBVIOUS
<1>1. L = << <<"reserve", 32>>, <<"un_coll_l_token_amount", 8>>, <<"index", 16>> >>
  BY DEF MiningEntryPacked
<1>2. IsLayout(L, 3)
  BY <1>1 DEF IsLayout
<1>3. Distinct(L, 3)
  BY <1>1 DEF Distinct
<1>4. L[1][2] = 32 /\ L[2][2] = 8 /\ L[3][2] = 16
  BY <1>1
<1>5. Width(L) = 56
  <2>1. IsLaidOut(L, 3)
    BY <1>2, Offsets
  <2>2. Offset(L, 1) = 0 /\ \A i \in 1..3 : Offset(L, i + 1) = Offset(L, i) + L[i][2]
    BY <2>1 DEF IsLaidOut
  <2>3. Offset(L, 2) = 32 /\ Offset(L, 3) = 40 /\ Offset(L, 4) = 56
    BY <1>4, <2>2
  <2> QED
    BY <1>2, <2>3 DEF Width, IsLayout
<1> QED
  BY <1>2, <1>3, <1>5 DEF IsEntryLayout

LEMMA TicketEntryLayout == IsEntryLayout(TicketEntryPacked, 4, 72)
<1> PICK L : L = TicketEntryPacked
  OBVIOUS
<1>1. L = << <<"deposit_reserve", 32>>, <<"deposited_amount", 8>>, <<"market_value", 16>>,
             <<"index", 16>> >>
  BY DEF TicketEntryPacked
<1>2. IsLayout(L, 4)
  BY <1>1 DEF IsLayout
<1>3. Distinct(L, 4)
  BY <1>1 DEF Distinct
<1>4. L[1][2] = 32 /\ L[2][2] = 8 /\ L[3][2] = 16 /\ L[4][2] = 16
  BY <1>1
<1>5. Width(L) = 72
  <2>1. IsLaidOut(L, 4)
    BY <1>2, Offsets
  <2>2. Offset(L, 1) = 0 /\ \A i \in 1..4 : Offset(L, i + 1) = Offset(L, i) + L[i][2]
    BY <2>1 DEF IsLaidOut
  <2>3. Offset(L, 2) = 32 /\ Offset(L, 3) = 40 /\ Offset(L, 4) = 56 /\ Offset(L, 5) = 72
    BY <1>4, <2>2
  <2> QED
    BY <1>2, <2>3 DEF Width, IsLayout
<1> QED
  BY <1>2, <1>3, <1>5 DEF IsEntryLayout

LEMMA MiningLayout == IsAccountLayout("Mining", MiningPacked, 6, 642)
<1> PICK L : L = MiningPacked
  OBVIOUS
<1>1. L = << <<"version", 1>>, <<"owner", 32>>, <<"pool_manager", 32>>, <<"count", 1>>,
             <<"unclaimed_mine", 16>>, <<"entries", 560>> >>
  BY CodecAssumption DEF MiningPacked
<1>2. IsLayout(L, 6)
  BY <1>1 DEF IsLayout
<1>3. Distinct(L, 6)
  BY <1>1 DEF Distinct
<1>4. /\ L[1][2] = 1 /\ L[2][2] = 32 /\ L[3][2] = 32 /\ L[4][2] = 1 /\ L[5][2] = 16
      /\ L[6][2] = 560
  BY <1>1
<1>5. Width(L) = 642
  <2>1. IsLaidOut(L, 6)
    BY <1>2, Offsets
  <2>2. Offset(L, 1) = 0 /\ \A i \in 1..6 : Offset(L, i + 1) = Offset(L, i) + L[i][2]
    BY <2>1 DEF IsLaidOut
  <2>3. /\ Offset(L, 2) = 1 /\ Offset(L, 3) = 33 /\ Offset(L, 4) = 65 /\ Offset(L, 5) = 66
        /\ Offset(L, 6) = 82 /\ Offset(L, 7) = 642
    BY <1>4, <2>2
  <2> QED
    BY <1>2, <2>3 DEF Width, IsLayout
<1>6. Width(EntryPacked("Mining")) * MaxEntries = 560
  BY CodecAssumption, MiningEntryLayout DEF EntryPacked, IsEntryLayout
<1>7. /\ L[1][1] = "version" /\ L[2][1] = "owner" /\ L[3][1] = "pool_manager"
      /\ L[4][1] = "count" /\ L[5][1] = "unclaimed_mine" /\ L[6][1] = "entries"
  BY <1>1
<1> QED
  BY <1>2, <1>3, <1>4, <1>5, <1>6, <1>7 DEF IsAccountLayout, HasList

LEMMA TicketLayout == IsAccountLayout("Ticket", TicketPacked, 9, 827)
<1> PICK L : L = TicketPacked
  OBVIOUS
<1>1. L = << <<"version", 1>>, <<"slot", 8>>, <<"stale", 1>>, <<"pool_manager", 32>>,
             <<"owner", 32>>, <<"deposited_value", 16>>, <<"count", 1>>,
             <<"unclaimed_mine", 16>>, <<"entries", 720>> >>
  BY CodecAssumption DEF TicketPacked
<1>2. IsLayout(L, 9)
  BY <1>1 DEF IsLayout
<1>3. Distinct(L, 9)
  BY <1>1 DEF Distinct
<1>4. /\ L[1][2] = 1 /\ L[2][2] = 8 /\ L[3][2] = 1 /\ L[4][2] = 32 /\ L[5][2] = 32
      /\ L[6][2] = 16 /\ L[7][2] = 1 /\ L[8][2] = 16 /\ L[9][2] = 720
  BY <1>1
<1>5. Width(L) = 827
  <2>1. IsLaidOut(L, 9)
    BY <1>2, Offsets
  <2>2. Offset(L, 1) = 0 /\ \A i \in 1..9 : Offset(L, i + 1) = Offset(L, i) + L[i][2]
    BY <2>1 DEF IsLaidOut
  <2>3. /\ Offset(L, 2) = 1 /\ Offset(L, 3) = 9 /\ Offset(L, 4) = 10 /\ Offset(L, 5) = 42
        /\ Offset(L, 6) = 74 /\ Offset(L, 7) = 90 /\ Offset(L, 8) = 91 /\ Offset(L, 9) = 107
        /\ Offset(L, 10) = 827
    BY <1>4, <2>2
  <2> QED
    BY <1>2, <2>3 DEF Width, IsLayout
<1>6. Width(EntryPacked("Ticket")) * MaxEntries = 720
  BY CodecAssumption, TicketEntryLayout DEF EntryPacked, IsEntryLayout
<1>7. /\ L[1][1] = "version" /\ L[2][1] = "slot" /\ L[3][1] = "stale"
      /\ L[4][1] = "pool_manager" /\ L[5][1] = "owner" /\ L[6][1] = "deposited_value"
      /\ L[7][1] = "count" /\ L[8][1] = "unclaimed_mine" /\ L[9][1] = "entries"
  BY <1>1
<1> QED
  BY <1>2, <1>3, <1>4, <1>5, <1>6, <1>7 DEF IsAccountLayout, HasList

LEMMA ManagerLayout == IsAccountLayout("PoolManager", ManagerPacked, 10, 354)
<1> PICK L : L = ManagerPacked
  OBVIOUS
<1>1. IsLayout(L, 10)
  BY DEF IsLayout, ManagerPacked
<1>2. Distinct(L, 10)
  BY DEF Distinct, ManagerPacked
<1>3. /\ L[1][2] = 1 /\ L[2][2] = 1 /\ L[3][2] = 32 /\ L[4][2] = 32
      /\ L[5][2] = 32 /\ L[6][2] = 32 /\ L[7][2] = 32 /\ L[8][2] = 32
      /\ L[9][2] = 32 /\ L[10][2] = 128
  BY DEF ManagerPacked
<1>4. Width(L) = 354
  <2>1. IsLaidOut(L, 10)
    BY <1>1, Offsets
  <2>2. Offset(L, 1) = 0 /\ \A i \in 1..10 : Offset(L, i + 1) = Offset(L, i) + L[i][2]
    BY <2>1 DEF IsLaidOut
  <2>3. /\ Offset(L, 2) = 1 /\ Offset(L, 3) = 2 /\ Offset(L, 4) = 34
        /\ Offset(L, 5) = 66 /\ Offset(L, 6) = 98 /\ Offset(L, 7) = 130
        /\ Offset(L, 8) = 162 /\ Offset(L, 9) = 194 /\ Offset(L, 10) = 226
        /\ Offset(L, 11) = 354
    BY <1>3, <2>2
  <2> QED
    BY <1>1, <2>3 DEF Width, IsLayout
<1>5. L[1][1] = "version" /\ \A i \in 1..10 : L[i][1] \notin {"count", "entries"}
  BY DEF ManagerPacked
<1> QED
  BY <1>1, <1>2, <1>3, <1>4, <1>5 DEF IsAccountLayout, HasList

LEMMA PoolLayout == IsAccountLayout("Pool", PoolPacked, 26, 646)
<1> PICK L : L = PoolPacked
  OBVIOUS
<1>1. IsLayout(L, 26)
  BY DEF IsLayout, PoolPacked
<1>2. Distinct(L, 26)
  BY DEF Distinct, PoolPacked
<1>3. /\ L[1][2] = 1 /\ L[2][2] = 8 /\ L[3][2] = 1 /\ L[4][2] = 32
      /\ L[5][2] = 32 /\ L[6][2] = 1 /\ L[7][2] = 32 /\ L[8][2] = 32
      /\ L[9][2] = 1 /\ L[10][2] = 32 /\ L[11][2] = 8 /\ L[12][2] = 16
      /\ L[13][2] = 16 /\ L[14][2] = 16 /\ L[15][2] = 16 /\ L[16][2] = 32
      /\ L[17][2] = 8 /\ L[18][2] = 32 /\ L[19][2] = 1 /\ L[20][2] = 32
      /\ L[21][2] = 16 /\ L[22][2] = 16 /\ L[23][2] = 8 /\ L[24][2] = 8
      /\ L[25][2] = 1 /\ L[26][2] = 248
  BY DEF PoolPacked
<1>4. Width(L) = 646
  <2>1. IsLaidOut(L, 26)
    BY <1>1, Offsets
  <2>2. Offset(L, 1) = 0 /\ \A i \in 1..26 : Offset(L, i + 1) = Offset(L, i) + L[i][2]
    BY <2>1 DEF IsLaidOut
  <2>3. /\ Offset(L, 2) = 1 /\ Offset(L, 3) = 9 /\ Offset(L, 4) = 10
        /\ Offset(L, 5) = 42 /\ Offset(L, 6) = 74 /\ Offset(L, 7) = 75
        /\ Offset(L, 8) = 107 /\ Offset(L, 9) = 139 /\ Offset(L, 10) = 140
        /\ Offset(L, 11) = 172 /\ Offset(L, 12) = 180 /\ Offset(L, 13) = 196
        /\ Offset(L, 14) = 212 /\ Offset(L, 15) = 228 /\ Offset(L, 16) = 244
        /\ Offset(L, 17) = 276 /\ Offset(L, 18) = 284 /\ Offset(L, 19) = 316
        /\ Offset(L, 20) = 317 /\ Offset(L, 21) = 349 /\ Offset(L, 22) = 365
        /\ Offset(L, 23) = 381 /\ Offset(L, 24) = 389 /\ Offset(L, 25) = 397
        /\ Offset(L, 26) = 398 /\ Offset(L, 27) = 646
    BY <1>3, <2>2
  <2> QED
    BY <1>1, <2>3 DEF Width, IsLayout
<1>5. L[1][1] = "version" /\ \A i \in 1..26 : L[i][1] \notin {"count", "entries"}
  BY DEF PoolPacked
<1> QED
  BY <1>1, <1>2, <1>3, <1>4, <1>5 DEF IsAccountLayout, HasList

LEMMA AccountLayout ==
  ASSUME NEW k \in Kinds
  PROVE  /\ \E n : IsAccountLayout(k, Packed(k), n, AccountLen(k))
         /\ HasList(k) => \E q, w : IsEntryLayout(EntryPacked(k), q, w)
<1>1. k \in {"Pool", "Ticket", "PoolManager", "Mining"}
  BY DEF Kinds
<1>2. CASE k = "Pool"
  BY <1>2, PoolLayout DEF Packed, AccountLen, HasList
<1>3. CASE k = "Ticket"
  BY <1>3, TicketLayout, TicketEntryLayout DEF Packed, AccountLen, EntryPacked
<1>4. CASE k = "PoolManager"
  BY <1>4, ManagerLayout DEF Packed, AccountLen, HasList
<1>5. CASE k = "Mining"
  BY <1>5, MiningLayout, MiningEntryLayout DEF Packed, AccountLen, EntryPacked
<1> QED
  BY <1>1, <1>2, <1>3, <1>4, <1>5

-----------------------------------------------------------------------------
(***************************************************************************)
(* Accounts: the records that are packed                                   *)
(***************************************************************************)
EntrySet(k) == [Names(EntryPacked(k)) -> 0..255]

Shape(k, record) ==
  /\ DOMAIN record = Names(Packed(k)) \ {"padding", "count"}
  /\ record = [name \in DOMAIN record |-> record[name]]
  /\ record["version"] = 1
  /\ \A name \in DOMAIN record \ {"entries"} :
       record[name] \in 0..255 /\ (name \in Booleans => record[name] \in {0, 1})
  /\ HasList(k) => /\ record["entries"] \in Seq(EntrySet(k))
                   /\ Len(record["entries"]) <= MaxEntries

LEMMA AllButOneValues ==
  ASSUME NEW names, NEW values \in SUBSET (0..255), NEW f \in AllButOne(names, values)
  PROVE  f \in [names -> 0..255] /\ \A n \in names : n \in Booleans => f[n] \in {0, 1}
<1>1. \A n, v : v \in 0..255 => /\ Value(n, v) \in 0..255
                                /\ n \in Booleans => Value(n, v) \in {0, 1}
  BY DEF Value
<1>2. PICK except \in names, v \in values, w \in values :
        f = [n \in names |-> IF n = except THEN Value(n, v) ELSE Value(n, w)]
  BY DEF AllButOne
<1> QED
  BY <1>1, <1>2

\* The names of an account.
LEMMA NamesOf ==
  ASSUME NEW k \in Kinds
  PROVE  /\ "version" \in Names(Packed(k))
         /\ "count" \in Names(Packed(k)) <=> HasList(k)
         /\ "entries" \in Names(Packed(k)) <=> HasList(k)
<1> PICK L : L = Packed(k)
  OBVIOUS
<1>1. PICK n : IsAccountLayout(k, L, n, AccountLen(k))
  BY AccountLayout
<1>2. DOMAIN L = 1..n /\ n \in Nat
  BY <1>1 DEF IsAccountLayout, IsLayout
<1>3. 1 \in 1..n /\ L[1][1] = "version"
  BY <1>1, <1>2 DEF IsAccountLayout
<1>4. \A i \in 1..n : L[i][1] \in {"count", "entries"} => HasList(k)
  BY <1>1 DEF IsAccountLayout
<1>5. HasList(k) => \E i, j \in 1..n : L[i][1] = "count" /\ L[j][1] = "entries"
  BY <1>1 DEF IsAccountLayout
<1> QED
  BY <1>2, <1>3, <1>4, <1>5 DEF Names

HeaderShape(k, header) ==
  /\ header \in [Names(Packed(k)) \ {"padding", "count", "entries"} -> 0..255]
  /\ header["version"] = 1
  /\ \A name \in DOMAIN header : name \in Booleans => header[name] \in {0, 1}

LEMMA HeadersAre ==
  ASSUME NEW k \in Kinds, NEW header \in Headers(k)
  PROVE  HeaderShape(k, header)
<1> PICK names : names = Names(Packed(k)) \ {"padding", "count", "entries"}
  OBVIOUS
<1>1. "version" \in names /\ Fields(k) \cup {"version"} = names
  BY NamesOf DEF Fields
<1>2. PICK f \in AllButOne(names, FieldValues) : header = [f EXCEPT !.version = 1]
  BY <1>1 DEF Headers
<1>3. f \in [names -> 0..255] /\ \A n \in names : n \in Booleans => f[n] \in {0, 1}
  BY <1>2, CodecAssumption, AllButOneValues
<1>4. header \in [names -> 0..255] /\ header["version"] = 1
      /\ \A n \in names : n # "version" => header[n] = f[n]
  BY <1>1, <1>2, <1>3
<1>5. "version" \notin Booleans
  BY DEF Booleans
<1> QED
  BY <1>3, <1>4, <1>5 DEF HeaderShape

LEMMA PlainIs ==
  ASSUME NEW k \in Kinds
  PROVE  HeaderShape(k, Plain(k))
<1> PICK names : names = Names(Packed(k)) \ {"padding", "count", "entries"}
  OBVIOUS
<1>1. "version" \in names /\ Fields(k) \cup {"version"} = names
  BY NamesOf DEF Fields
<1>2. Plain(k) = [name \in names |-> IF name = "version" THEN 1 ELSE 0]
  BY <1>1 DEF Plain
<1> QED
  BY <1>1, <1>2 DEF HeaderShape

LEMMA ListsAre ==
  ASSUME NEW k \in Kinds, NEW list \in Lists(k)
  PROVE  list \in Seq(EntrySet(k))
<1> PICK S : S = AllButOne(Names(EntryPacked(k)), EntryValues)
  OBVIOUS
<1>1. S \subseteq EntrySet(k)
  BY CodecAssumption, AllButOneValues DEF EntrySet
<1>2. PICK n \in Nat : list \in [1..n -> EntrySet(k)]
  <2>1. \/ \E n \in ListLengths : list \in [1..n -> S]
        \/ \E n \in LongLengths : \E e \in S : list = [i \in 1..n |-> e]
    BY DEF Lists
  <2>2. \E n \in Nat : list \in [1..n -> S]
    BY <2>1, CodecAssumption
  <2> QED
    BY <1>1, <2>2
<1> QED
  BY <1>2, FunctionIsSeq

LEMMA HeaderIsRecord ==
  ASSUME NEW k \in Kinds, ~HasList(k), NEW header, HeaderShape(k, header)
  PROVE  Shape(k, header)
<1>1. Names(Packed(k)) \ {"padding", "count", "entries"} = Names(Packed(k)) \ {"padding", "count"}
  BY NamesOf
<1> QED
  BY <1>1 DEF Shape, HeaderShape

LEMMA ListIsRecord ==
  ASSUME NEW k \in Kinds, HasList(k), NEW header, HeaderShape(k, header),
         NEW list \in Seq(EntrySet(k)), Len(list) <= MaxEntries
  PROVE  Shape(k, WithEntries(header, list))
<1> PICK names : names = DOMAIN header
  OBVIOUS
<1> PICK r : r = WithEntries(header, list)
  OBVIOUS
<1>1. /\ names = Names(Packed(k)) \ {"padding", "count", "entries"}
      /\ "version" \in names /\ "entries" \notin names
      /\ names \cup {"entries"} = Names(Packed(k)) \ {"padding", "count"}
  BY NamesOf DEF HeaderShape
<1>2. r = [name \in names \cup {"entries"} |-> IF name = "entries" THEN list ELSE header[name]]
  BY DEF WithEntries
<1>3. /\ DOMAIN r = names \cup {"entries"} /\ r = [name \in DOMAIN r |-> r[name]]
      /\ r["entries"] = list /\ \A name \in names : r[name] = header[name]
  BY <1>1, <1>2
<1>4. \A name \in names : header[name] \in 0..255 /\ (name \in Booleans => header[name] \in {0, 1})
  BY <1>1 DEF HeaderShape
<1>5. r["version"] = 1
  BY <1>1, <1>3 DEF HeaderShape
<1>6. \A name \in DOMAIN r \ {"entries"} :
        r[name] \in 0..255 /\ (name \in Booleans => r[name] \in {0, 1})
  BY <1>3, <1>4
<1> QED
  BY <1>1, <1>3, <1>5, <1>6 DEF Shape

LEMMA RecordsAre ==
  ASSUME NEW k \in Kinds, NEW record \in Records(k), CanPackRecord(k, record)
  PROVE  Shape(k, record)
<1>1. CASE ~HasList(k)
  <2>1. record \in Headers(k)
    BY <1>1, NamesOf DEF Records
  <2> QED
    BY <1>1, <2>1, HeadersAre, HeaderIsRecord
<1>2. CASE HasList(k)
  <2>1. \E header, list : /\ HeaderShape(k, header) /\ list \in Seq(EntrySet(k))
                          /\ record = WithEntries(header, list)
    <3>1. \/ \E header \in Headers(k) : record = WithEntries(header, << >>)
          \/ \E list \in Lists(k) : record = WithEntries(Plain(k), list)
      BY <1>2, NamesOf DEF Records
    <3>2. << >> \in Seq(EntrySet(k))
      OBVIOUS
    <3> QED
      BY <3>1, <3>2, HeadersAre, PlainIs, ListsAre
  <2>2. PICK header, list : /\ HeaderShape(k, header) /\ list \in Seq(EntrySet(k))
                            /\ record = WithEntries(header, list)
    BY <2>1
  <2>3. "entries" \in DOMAIN record /\ record["entries"] = list
    BY <2>2 DEF WithEntries
  <2>4. Len(list) <= MaxEntries
    BY <2>3 DEF CanPackRecord
  <2> QED
    BY <1>2, <2>2, <2>4, ListIsRecord
<1> QED
  BY <1>1, <1>2

-----------------------------------------------------------------------------
(***************************************************************************)
(* Accounts: entries                                                       *)
(***************************************************************************)

\* Where a name is.
LEMMA ChosenPlace ==
  ASSUME NEW L, NEW n, IsLayout(L, n), Distinct(L, n), NEW i \in 1..n
  PROVE  (CHOOSE j \in DOMAIN L : L[j][1] = L[i][1]) = i
<1>1. DOMAIN L = 1..n
  BY DEF IsLayout
<1> PICK c : c = CHOOSE j \in DOMAIN L : L[j][1] = L[i][1]
  OBVIOUS
<1>2. c \in 1..n /\ L[c][1] = L[i][1]
  BY <1>1
<1> QED
  BY <1>2 DEF Distinct

\* No field reaches beyond the layout.
LEMMA FieldsFit ==
  ASSUME NEW L, NEW n, IsLayout(L, n)
  PROVE  \A i \in 1..n : Offset(L, i) \in Nat /\ Offset(L, i) + L[i][2] <= Width(L)
<1>0. n \in Nat /\ \A i \in 1..n : L[i][2] \in Nat \ {0}
  BY DEF IsLayout
<1> PICK f : f = [i \in 1..n |-> [j \in 1..L[i][2] |-> 0]]
  OBVIOUS
<1>1. ASSUME NEW i \in 1..n PROVE f[i] \in Seq(Nat) /\ Len(f[i]) = L[i][2]
  <2> PICK w \in Nat : w = L[i][2]
    BY <1>0
  <2> PICK g : g = [j \in 1..w |-> 0]
    OBVIOUS
  <2>1. g \in [1..w -> Nat]
    OBVIOUS
  <2>2. g \in Seq(Nat) /\ Len(g) = w
    BY <2>1, FunctionIsSeq
  <2> QED
    BY <2>2
<1>2. Fills(L, f, n, Nat)
  BY <1>1 DEF Fills
<1>3. InPlace(L, FlattenSeq(f), f, n, Nat)
  BY <1>2, FieldPlaces
<1> QED
  BY <1>3 DEF InPlace

LEMMA SliceIsThere ==
  ASSUME NEW L, NEW n, IsLayout(L, n), NEW raw \in Seq(Pairs), Len(raw) = Width(L),
         NEW i \in 1..n
  PROVE  SliceOf(raw, L, i) \in Seq(Pairs) /\ Len(SliceOf(raw, L, i)) = L[i][2]
<1> PICK o \in Nat : o = Offset(L, i)
  BY FieldsFit
<1> PICK w \in Nat : w = L[i][2]
  BY DEF IsLayout
<1>1. o + w <= Len(raw)
  BY FieldsFit
<1>2. SliceOf(raw, L, i) = SubSeq(raw, o + 1, o + w)
  BY DEF SliceOf
<1>3. SubSeq(raw, o + 1, o + w) = [j \in 1..w |-> raw[o + j]]
  BY ONLY <1>1, o \in Nat, w \in Nat, raw \in Seq(Pairs), SubSeqIs
<1> PICK s : s = [j \in 1..w |-> raw[o + j]]
  OBVIOUS
<1> PICK d \in Nat : d = Len(raw)
  BY LenProperties
<1>4. \A j \in 1..w : o + j \in 1..d
  BY <1>1
<1>5. s \in [1..w -> Pairs]
  BY <1>4, ElementOfSeq
<1>6. s \in Seq(Pairs) /\ Len(s) = w
  BY <1>5, FunctionIsSeq
<1> QED
  BY <1>2, <1>3, <1>6

EntryReads(L, w, raw, entry) ==
  /\ raw \in Seq(Pairs) /\ Len(raw) = w
  /\ entry = [name \in Names(L) |->
                Decoded(SliceOf(raw, L, CHOOSE i \in DOMAIN L : L[i][1] = name))]

LEMMA EntryReadsBack ==
  ASSUME NEW L, NEW n, NEW w, IsEntryLayout(L, n, w), NEW entry \in [Names(L) -> 0..255]
  PROVE  EntryReads(L, w, EntryData(L, entry), entry)
<1>0. IsLayout(L, n) /\ Distinct(L, n) /\ Width(L) = w
  BY DEF IsEntryLayout
<1>1. DOMAIN L = 1..n /\ n \in Nat /\ \A i \in 1..n : L[i][2] \in Nat \ {0}
  BY <1>0 DEF IsLayout
<1>2. \A i \in 1..n : L[i][1] \in Names(L) /\ entry[L[i][1]] \in 0..255
  BY <1>1 DEF Names
<1> PICK f : f = [i \in 1..n |-> Encoded(entry[L[i][1]], L[i][2])]
  OBVIOUS
<1>3. ASSUME NEW i \in 1..n
      PROVE  f[i] \in Seq(Pairs) /\ Len(f[i]) = L[i][2] /\ Decoded(f[i]) = entry[L[i][1]]
  <2>1. f[i] = Encoded(entry[L[i][1]], L[i][2])
    OBVIOUS
  <2> QED
    BY <1>1, <1>2, <2>1, DecodedEncoded
<1>4. InPlace(L, FlattenSeq(f), f, n, Pairs)
  <2>1. Fills(L, f, n, Pairs)
    BY <1>0, <1>3 DEF Fills
  <2> QED
    BY <2>1, FieldPlaces
<1> PICK raw : raw = EntryData(L, entry)
  OBVIOUS
<1>5. raw = FlattenSeq(f)
  BY <1>1 DEF EntryData
<1>6. raw \in Seq(Pairs) /\ Len(raw) = w /\ \A i \in 1..n : SliceOf(raw, L, i) = f[i]
  BY <1>0, <1>4, <1>5 DEF InPlace
<1>7. ASSUME NEW name \in Names(L)
      PROVE  Decoded(SliceOf(raw, L, CHOOSE i \in DOMAIN L : L[i][1] = name)) = entry[name]
  <2>1. PICK i \in 1..n : L[i][1] = name
    BY <1>1 DEF Names
  <2>2. (CHOOSE j \in DOMAIN L : L[j][1] = name) = i
    BY <1>0, <2>1, ChosenPlace
  <2> QED
    BY <1>3, <1>6, <2>1, <2>2
<1>8. entry = [name \in Names(L) |->
                 Decoded(SliceOf(raw, L, CHOOSE i \in DOMAIN L : L[i][1] = name))]
  BY <1>7
<1> QED
  BY <1>6, <1>8 DEF EntryReads

-----------------------------------------------------------------------------
\* Pieces of one width, one behind the other.
Even(f, m, w) ==
  /\ m \in Nat /\ w \in Nat
  /\ f \in [1..m -> Seq(Pairs)] /\ \A i \in 1..m : Len(f[i]) = w

InRow(f, m, w, flat) ==
  /\ flat \in Seq(Pairs) /\ Len(flat) = m * w
  /\ \A e \in 1..m : \A j \in 1..w : flat[((e - 1) * w) + j] = f[e][j]

LEMMA NextMultiple ==
  \A e \in Nat, w \in Nat : (e + 1) * w = (e * w) + w /\ e * w \in Nat /\ 0 * w = 0
BY Z3

LEMMA EvenPieces ==
  ASSUME NEW f, NEW m, NEW w, Even(f, m, w)
  PROVE  InRow(f, m, w, FlattenSeq(f))
<1>0. /\ m \in Nat /\ w \in Nat
      /\ f \in [1..m -> Seq(Pairs)] /\ \A i \in 1..m : Len(f[i]) = w
  BY DEF Even
<1>1. f \in Seq(Seq(Pairs)) /\ Len(f) = m
  BY <1>0, FunctionIsSeq
<1> PICK flat : flat = FlattenSeq(f)
  OBVIOUS
<1>2. PICK off : flat \in Seq(Pairs) /\ Placed(f, flat, off)
  BY <1>1, FlatPlaces
<1>3. /\ off \in [0..m -> Nat] /\ off[0] = 0 /\ off[m] = Len(flat)
      /\ \A i \in 1..m : /\ off[i] = off[i - 1] + w
                         /\ \A j \in 1..w : flat[off[i - 1] + j] = f[i][j]
  BY <1>0, <1>1, <1>2 DEF Placed
<1> DEFINE T == {i \in Nat : i <= m => off[i] = i * w}
<1>4. 0 \in T
  BY <1>0, <1>3, NextMultiple
<1>5. ASSUME NEW i \in Nat, i \in T PROVE i + 1 \in T
  <2> SUFFICES ASSUME i + 1 <= m PROVE off[i + 1] = (i + 1) * w
    OBVIOUS
  <2>1. i + 1 \in 1..m /\ (i + 1) - 1 = i /\ off[i] = i * w
    BY <1>0, <1>5
  <2>2. off[i + 1] = off[i] + w
    BY <1>3, <2>1
  <2> QED
    BY <1>0, <2>1, <2>2, NextMultiple
<1> HIDE DEF T
<1>6. \A i \in 0..m : off[i] = i * w
  <2>1. \A i \in Nat : i \in T
    BY <1>4, <1>5, Induction
  <2> QED
    BY <1>0, <2>1 DEF T
<1>7. Len(flat) = m * w
  BY <1>0, <1>3, <1>6
<1>8. ASSUME NEW e \in 1..m, NEW j \in 1..w PROVE flat[((e - 1) * w) + j] = f[e][j]
  <2>1. e - 1 \in 0..m
    BY <1>0
  <2>2. off[e - 1] = (e - 1) * w
    BY <1>6, <2>1
  <2>3. flat[off[e - 1] + j] = f[e][j]
    BY <1>3
  <2> QED
    BY <2>2, <2>3
<1> QED
  BY <1>2, <1>7, <1>8 DEF InRow

\* With something behind it, a row still reads piece by piece.
Piece(raw, w, e) == SubSeq(raw, (e - 1) * w + 1, e * w)

LEMMA PieceOfRow ==
  ASSUME NEW f, NEW m, NEW w, Even(f, m, w), NEW flat, InRow(f, m, w, flat),
         NEW behind \in Seq(Pairs), NEW e \in 1..m
  PROVE  Piece(flat \o behind, w, e) = f[e]
<1>0. /\ m \in Nat /\ w \in Nat /\ f[e] \in Seq(Pairs) /\ Len(f[e]) = w
  BY DEF Even
<1>1. flat \in Seq(Pairs) /\ Len(flat) = m * w
      /\ \A j \in 1..w : flat[((e - 1) * w) + j] = f[e][j]
  BY DEF InRow
<1> PICK o \in Nat : o = (e - 1) * w
  <2>1. e - 1 \in Nat
    BY <1>0
  <2> QED
    BY <1>0, <2>1, NextMultiple
<1>2. e * w = o + w
  <2>1. e - 1 \in Nat /\ (e - 1) + 1 = e
    BY <1>0
  <2> QED
    BY <1>0, <2>1, NextMultiple
<1> PICK l \in Nat : l = m * w
  BY <1>0, NextMultiple
<1>3. o + w <= l
  <2>1. \A a \in Nat, b \in Nat, c \in Nat : a <= b => a * c <= b * c
    BY Z3
  <2>2. e \in Nat /\ e <= m
    BY <1>0
  <2> QED
    BY <1>0, <1>2, <2>1, <2>2
<1> PICK all : all = flat \o behind
  OBVIOUS
<1> PICK b \in Nat : b = Len(behind)
  BY LenProperties
<1>4. /\ all \in Seq(Pairs) /\ Len(all) = l + b
      /\ \A i \in 1..(l + b) : all[i] = IF i <= l THEN flat[i] ELSE behind[i - l]
  <2>1. flat \in Seq(Pairs) /\ Len(flat) = l /\ behind \in Seq(Pairs) /\ Len(behind) = b
        /\ all = flat \o behind
    BY <1>1
  <2>2. /\ flat \o behind \in Seq(Pairs) /\ Len(flat \o behind) = Len(flat) + Len(behind)
        /\ \A i \in 1..(Len(flat) + Len(behind)) :
             (flat \o behind)[i] = IF i <= Len(flat) THEN flat[i] ELSE behind[i - Len(flat)]
    BY ONLY <2>1, ConcatProperties
  <2> QED
    BY <2>1, <2>2
<1>5. \A j \in 1..w : all[o + j] = f[e][j]
  <2> SUFFICES ASSUME NEW j \in 1..w PROVE all[o + j] = f[e][j]
    OBVIOUS
  <2>1. o + j \in 1..(l + b) /\ o + j <= l
    BY ONLY <1>0, <1>3, o \in Nat, l \in Nat, b \in Nat, j \in 1..w
  <2> QED
    BY <1>1, <1>4, <2>1
<1>6. SubSeq(all, o + 1, o + w) = [j \in 1..w |-> all[o + j]]
  <2>1. o \in Nat /\ w \in Nat /\ o + w <= Len(all) /\ all \in Seq(Pairs)
    BY ONLY <1>0, <1>3, <1>4, o \in Nat, l \in Nat, b \in Nat
  <2> QED
    BY ONLY <2>1, SubSeqIs
<1>7. f[e] = [j \in 1..w |-> f[e][j]]
  BY <1>0, LenProperties
<1>8. Piece(all, w, e) = SubSeq(all, o + 1, o + w)
  BY <1>2 DEF Piece
<1> QED
  BY <1>5, <1>6, <1>7, <1>8

-----------------------------------------------------------------------------
(***************************************************************************)
(* Accounts: lists                                                         *)
(***************************************************************************)
ListReads(k, raw, list, w) ==
  /\ raw \in Seq(Pairs) /\ Len(raw) = w * MaxEntries
  /\ EntriesIn(raw, EntryUnpacked(k), Len(list)) = list

LEMMA ListReadsBack ==
  ASSUME NEW k \in Kinds, HasList(k), NEW w, w = Width(EntryPacked(k)),
         NEW list \in Seq(EntrySet(k)), Len(list) <= MaxEntries,
         NEW there \in Seq(Pairs), Len(there) = w * MaxEntries
  PROVE  ListReads(k, PackedEntries(there, EntryPacked(k), list), list, w)
<1> PICK L : L = EntryPacked(k)
  OBVIOUS
<1>1. PICK q : IsEntryLayout(L, q, w)
  <2>1. \E q, w1 : IsEntryLayout(L, q, w1)
    BY AccountLayout
  <2> QED
    BY <2>1 DEF IsEntryLayout
<1> PICK m \in Nat : m = Len(list)
  BY LenProperties
<1>2. DOMAIN list = 1..m /\ list = [e \in 1..m |-> list[e]]
      /\ \A e \in 1..m : list[e] \in [Names(L) -> 0..255]
  BY LenProperties, ElementOfSeq DEF EntrySet
<1> PICK f : f = [e \in 1..m |-> EntryData(L, list[e])]
  OBVIOUS
<1>3. \A e \in 1..m : EntryReads(L, w, f[e], list[e])
  BY <1>1, <1>2, EntryReadsBack
<1>4. w \in Nat
  <2>1. IsLayout(L, q)
    BY <1>1 DEF IsEntryLayout
  <2>2. q \in Nat /\ Len(L) = q
    BY <2>1 DEF IsLayout
  <2>3. \A i \in 1..(q + 1) : Offset(L, i) \in Nat
    BY <2>1, Offsets DEF IsLaidOut
  <2> QED
    BY <2>2, <2>3 DEF Width
<1>5. Even(f, m, w)
  BY <1>3, <1>4 DEF Even, EntryReads
<1> PICK flat : flat = FlattenSeq(f)
  OBVIOUS
<1>6. InRow(f, m, w, flat)
  BY <1>5, EvenPieces
<1>7. flat \in Seq(Pairs) /\ Len(flat) = m * w
  BY <1>6 DEF InRow
<1> PICK a \in Nat : a = m * w
  BY <1>4, NextMultiple
<1> PICK c \in Nat : c = w * MaxEntries
  BY <1>4, CodecAssumption
<1>8. a <= c
  <2>1. m <= 10 /\ c = w * 10
    BY CodecAssumption
  <2>2. \A x \in Nat, y \in Nat : x <= 10 => x * y <= y * 10
    BY Z3
  <2> QED
    BY <1>4, <2>1, <2>2
<1> PICK behind : behind = SubSeq(there, a + 1, c)
  OBVIOUS
<1>9. behind \in Seq(Pairs) /\ Len(behind) = c - a
  <2>1. \A i \in (a + 1)..c : there[i] \in Pairs
    <3>1. \A i \in (a + 1)..c : i \in 1..c
      OBVIOUS
    <3> QED
      BY <3>1, ElementOfSeq
  <2>2. behind \in Seq(Pairs) /\ Len(behind) = IF a + 1 <= c THEN (c - (a + 1)) + 1 ELSE 0
    BY <2>1, SubSeqProperties
  <2>3. (IF a + 1 <= c THEN (c - (a + 1)) + 1 ELSE 0) = c - a
    BY ONLY <1>8, a \in Nat, c \in Nat
  <2> QED
    BY <2>2, <2>3
<1> PICK raw : raw = flat \o behind
  OBVIOUS
<1>10. PackedEntries(there, L, list) = raw
  <2>1. Width(L) = w /\ Len(there) = c
    OBVIOUS
  <2> QED
    BY <1>2, <2>1 DEF PackedEntries
<1>11. raw \in Seq(Pairs) /\ Len(raw) = c
  <2>1. flat \in Seq(Pairs) /\ Len(flat) = a /\ behind \in Seq(Pairs) /\ Len(behind) = c - a
    BY <1>7, <1>9
  <2>2. flat \o behind \in Seq(Pairs) /\ Len(flat \o behind) = a + (c - a)
    BY ONLY <2>1, ConcatProperties
  <2>3. a + (c - a) = c
    OBVIOUS
  <2> QED
    BY <2>2, <2>3
<1>12. ASSUME NEW e \in 1..m PROVE EntryReads(L, w, Piece(raw, w, e), list[e])
  <2>1. Piece(raw, w, e) = f[e]
    <3>1. behind \in Seq(Pairs)
      BY <1>9
    <3>2. Piece(flat \o behind, w, e) = f[e]
      BY ONLY <1>5, <1>6, <3>1, e \in 1..m, PieceOfRow
    <3> QED
      BY <3>2
  <2>2. EntryReads(L, w, f[e], list[e])
    BY <1>3
  <2> QED
    BY <2>1, <2>2
<1>13. EntriesIn(raw, L, m) = list
  <2> DEFINE Read(e) == [name \in Names(L) |->
                           Decoded(SliceOf(Piece(raw, w, e), L,
                                           CHOOSE i \in DOMAIN L : L[i][1] = name))]
  <2>1. EntriesIn(raw, L, m) = [e \in 1..m |-> Read(e)]
    <3>1. Width(L) = w
      OBVIOUS
    <3> QED
      BY ONLY <3>1 DEF EntriesIn, Piece
  <2>2. \A e \in 1..m : Read(e) = list[e]
    BY <1>12 DEF EntryReads
  <2> HIDE DEF Read
  <2>3. EntriesIn(raw, L, m) = [e \in 1..m |-> list[e]]
    BY <2>1, <2>2
  <2> QED
    BY <1>2, <2>3
<1>14. EntryUnpacked(k) = L
  BY PackedIsUnpacked
<1> QED
  BY <1>10, <1>11, <1>13, <1>14 DEF ListReads

-----------------------------------------------------------------------------
(***************************************************************************)
(* Accounts: what is packed is what is unpacked                            *)
(***************************************************************************)

\* The bytes of a field hold the field of a record.
FieldReads(k, name, field, record) ==
  /\ name \notin {"padding", "count", "entries"} => Decoded(field) = record[name]
  /\ name = "count" => Decoded(field) = Len(record["entries"])
  /\ name = "entries" =>
       EntriesIn(field, EntryUnpacked(k), Len(record["entries"])) = record["entries"]

LEMMA FieldReadsBack ==
  ASSUME NEW k \in Kinds, NEW n, IsAccountLayout(k, Packed(k), n, AccountLen(k)),
         NEW record, Shape(k, record),
         NEW old \in Seq(Pairs), Len(old) = AccountLen(k), NEW i \in 1..n
  PROVE  /\ PackedField(k, old, record, i) \in Seq(Pairs)
         /\ Len(PackedField(k, old, record, i)) = Packed(k)[i][2]
         /\ FieldReads(k, Packed(k)[i][1], PackedField(k, old, record, i), record)
<1> PICK L : L = Packed(k)
  OBVIOUS
<1> PICK name : name = L[i][1]
  OBVIOUS
<1> PICK there : there = SliceOf(old, L, i)
  OBVIOUS
<1> PICK w : w = L[i][2]
  OBVIOUS
<1>1. /\ IsLayout(L, n) /\ Width(L) = AccountLen(k)
      /\ name = "count" => HasList(k) /\ w = 1
      /\ name = "entries" => HasList(k) /\ w = Width(EntryPacked(k)) * MaxEntries
  BY DEF IsAccountLayout
<1>2. w \in Nat \ {0} /\ DOMAIN L = 1..n
  BY <1>1 DEF IsLayout
<1>3. there \in Seq(Pairs) /\ Len(there) = w
  BY <1>1, SliceIsThere
<1>4. PackedField(k, old, record, i)
        = CASE name = "padding" -> there
            [] name = "count"   -> PackedCount(there, record["entries"])
            [] name = "entries" -> PackedEntries(there, EntryPacked(k), record["entries"])
            [] OTHER            -> Encoded(record[name], w)
  BY DEF PackedField
<1> PICK field : field = PackedField(k, old, record, i)
  OBVIOUS
<1>5. CASE name = "padding"
  <2>1. field = there
    BY <1>4, <1>5
  <2> QED
    BY <1>3, <1>5, <2>1 DEF FieldReads
<1>6. CASE name = "count"
  <2> PICK list : list = record["entries"]
    OBVIOUS
  <2>1. list \in Seq(EntrySet(k)) /\ Len(list) <= 10
    BY <1>1, <1>6, CodecAssumption DEF Shape
  <2> PICK l \in Nat : l = Len(list)
    BY <2>1, LenProperties
  <2>2. field = Encoded(l, 1)
    BY <1>4, <1>6 DEF PackedCount
  <2>3. l \in 0..255 /\ 1 \in Nat \ {0}
    <3>1. l <= 10
      BY <2>1
    <3> QED
      BY ONLY <3>1, l \in Nat
  <2>4. field \in Seq(Pairs) /\ Len(field) = 1 /\ Decoded(field) = l
    BY ONLY <2>2, <2>3, DecodedEncoded
  <2> QED
    BY <1>1, <1>6, <2>4 DEF FieldReads
<1>7. CASE name = "entries"
  <2>1. field = PackedEntries(there, EntryPacked(k), record["entries"])
    BY <1>4, <1>7
  <2>2. record["entries"] \in Seq(EntrySet(k)) /\ Len(record["entries"]) <= MaxEntries
    BY <1>1, <1>7 DEF Shape
  <2>3. HasList(k) /\ w = Width(EntryPacked(k)) * MaxEntries
    BY <1>1, <1>7
  <2>4. ListReads(k, field, record["entries"], Width(EntryPacked(k)))
    BY <1>3, <2>1, <2>2, <2>3, ListReadsBack
  <2> QED
    BY <1>7, <2>3, <2>4 DEF FieldReads, ListReads
<1>8. CASE name \notin {"padding", "count", "entries"}
  <2>1. field = Encoded(record[name], w)
    BY <1>4, <1>8
  <2>2. name \in Names(L)
    BY <1>2 DEF Names
  <2>3. record[name] \in 0..255
    BY <1>8, <2>2 DEF Shape
  <2>4. field \in Seq(Pairs) /\ Len(field) = w /\ Decoded(field) = record[name]
    BY <1>2, <2>1, <2>3, DecodedEncoded
  <2> QED
    BY <1>8, <2>4 DEF FieldReads
<1> QED
  BY <1>5, <1>6, <1>7, <1>8

\* The bytes of an account hold a record.
Packs(k, raw, record) ==
  /\ raw \in Seq(Pairs) /\ Len(raw) = AccountLen(k)
  /\ \A i \in DOMAIN Packed(k) :
       FieldReads(k, Packed(k)[i][1], SliceOf(raw, Packed(k), i), record)

LEMMA PackPacks ==
  ASSUME NEW k \in Kinds, NEW record, Shape(k, record),
         NEW old \in Seq(Pairs), Len(old) = AccountLen(k)
  PROVE  Packs(k, Pack(k, old, record), record)
<1> PICK L : L = Packed(k)
  OBVIOUS
<1>1. PICK n : IsAccountLayout(k, L, n, AccountLen(k))
  BY AccountLayout
<1>2. IsLayout(L, n) /\ DOMAIN L = 1..n /\ Width(L) = AccountLen(k)
  BY <1>1 DEF IsAccountLayout, IsLayout
<1> PICK f : f = [i \in 1..n |-> PackedField(k, old, record, i)]
  OBVIOUS
<1>3. \A i \in 1..n : /\ f[i] \in Seq(Pairs) /\ Len(f[i]) = L[i][2]
                      /\ FieldReads(k, L[i][1], f[i], record)
  BY <1>1, FieldReadsBack
<1>4. InPlace(L, FlattenSeq(f), f, n, Pairs)
  <2>1. Fills(L, f, n, Pairs)
    BY <1>2, <1>3 DEF Fills
  <2> QED
    BY <2>1, FieldPlaces
<1>5. Pack(k, old, record) = FlattenSeq(f)
  BY <1>2 DEF Pack
<1> PICK raw : raw = FlattenSeq(f)
  OBVIOUS
<1>6. raw \in Seq(Pairs) /\ Len(raw) = AccountLen(k) /\ \A i \in 1..n : SliceOf(raw, L, i) = f[i]
  BY <1>2, <1>4 DEF InPlace
<1> QED
  BY <1>2, <1>3, <1>5, <1>6 DEF Packs

FieldAt(k, raw, name) ==
  SliceOf(raw, Packed(k), CHOOSE i \in DOMAIN Packed(k) : Packed(k)[i][1] = name)

LEMMA UnpackReads ==
  ASSUME NEW k, NEW raw
  PROVE  Unpack(k, raw)
           = IF \/ ~HasLength(k, raw)
                \/ Decoded(FieldAt(k, raw, "version")) # 1
                \/ \E name \in Names(Packed(k)) \cap Booleans :
                     Decoded(FieldAt(k, raw, name)) \notin {0, 1}
                \/ /\ "count" \in Names(Packed(k))
                   /\ Decoded(FieldAt(k, raw, "count")) > MaxEntries
             THEN Rejected
             ELSE [name \in Names(Packed(k)) \ {"padding", "count"} |->
                     IF name = "entries"
                     THEN EntriesIn(FieldAt(k, raw, name), EntryUnpacked(k),
                                    Decoded(FieldAt(k, raw, "count")))
                     ELSE Decoded(FieldAt(k, raw, name))]
<1>1. Unpacked(k) = Packed(k)
  BY PackedIsUnpacked
<1> QED
  BY <1>1 DEF Unpack, FieldAt

LEMMA PackedUnpacks ==
  ASSUME NEW k \in Kinds, NEW record, Shape(k, record), NEW raw, Packs(k, raw, record)
  PROVE  Unpack(k, raw) = record
<1> PICK L : L = Packed(k)
  OBVIOUS
<1>1. PICK n : IsAccountLayout(k, L, n, AccountLen(k))
  BY AccountLayout
<1>2. IsLayout(L, n) /\ DOMAIN L = 1..n /\ Distinct(L, n)
  BY <1>1 DEF IsAccountLayout, IsLayout
<1> DEFINE At(name) == FieldAt(k, raw, name)
<1>3. \A name \in Names(L) : FieldReads(k, name, At(name), record)
  <2> SUFFICES ASSUME NEW name \in Names(L) PROVE FieldReads(k, name, At(name), record)
    OBVIOUS
  <2>1. PICK i \in 1..n : L[i][1] = name
    BY <1>2 DEF Names
  <2>2. (CHOOSE j \in DOMAIN L : L[j][1] = name) = i
    BY <1>2, <2>1, ChosenPlace
  <2>3. FieldReads(k, L[i][1], SliceOf(raw, L, i), record)
    BY <1>2 DEF Packs
  <2>4. At(name) = SliceOf(raw, L, i)
    BY <2>2 DEF FieldAt
  <2> QED
    BY <2>1, <2>3, <2>4
<1>5. Unpack(k, raw)
        = IF \/ ~HasLength(k, raw)
             \/ Decoded(At("version")) # 1
             \/ \E name \in Names(L) \cap Booleans : Decoded(At(name)) \notin {0, 1}
             \/ "count" \in Names(L) /\ Decoded(At("count")) > MaxEntries
          THEN Rejected
          ELSE [name \in Names(L) \ {"padding", "count"} |->
                  IF name = "entries"
                  THEN EntriesIn(At(name), EntryUnpacked(k), Decoded(At("count")))
                  ELSE Decoded(At(name))]
  BY UnpackReads
<1> HIDE DEF At
<1>6. \A name \in Names(L) \ {"padding", "count", "entries"} :
        Decoded(At(name)) = record[name]
  BY <1>3 DEF FieldReads
<1>7. HasLength(k, raw)
  BY DEF Packs, HasLength
<1>8. Decoded(At("version")) = 1
  BY <1>6, NamesOf DEF Shape
<1>9. \A name \in Names(L) \cap Booleans : Decoded(At(name)) \in {0, 1}
  <2>1. \A name \in Booleans : name \notin {"padding", "count", "entries"}
    BY DEF Booleans
  <2> QED
    BY <1>6, <2>1 DEF Shape
<1>10. "count" \in Names(L) =>
         /\ HasList(k) /\ Decoded(At("count")) = Len(record["entries"])
         /\ record["entries"] \in Seq(EntrySet(k)) /\ Len(record["entries"]) <= MaxEntries
  BY <1>3, NamesOf DEF FieldReads, Shape
<1>11. "count" \in Names(L) => ~(Decoded(At("count")) > MaxEntries)
  <2> SUFFICES ASSUME "count" \in Names(L) PROVE ~(Decoded(At("count")) > MaxEntries)
    OBVIOUS
  <2> PICK m \in Nat : m = Len(record["entries"])
    BY <1>10, LenProperties
  <2>1. m <= 10 /\ Decoded(At("count")) = m
    BY <1>10, CodecAssumption
  <2> QED
    BY <2>1, CodecAssumption
<1>12. "entries" \in Names(L) =>
         EntriesIn(At("entries"), EntryUnpacked(k), Decoded(At("count"))) = record["entries"]
  <2>1. "entries" \in Names(L) <=> "count" \in Names(L)
    BY NamesOf
  <2> QED
    BY <1>3, <1>10, <2>1 DEF FieldReads
<1>13. Unpack(k, raw) = [name \in Names(L) \ {"padding", "count"} |-> record[name]]
  <2>1. Unpack(k, raw)
          = [name \in Names(L) \ {"padding", "count"} |->
               IF name = "entries"
               THEN EntriesIn(At(name), EntryUnpacked(k), Decoded(At("count")))
               ELSE Decoded(At(name))]
    BY <1>5, <1>7, <1>8, <1>9, <1>11
  <2> QED
    BY <1>6, <1>12, <2>1
<1> QED
  BY <1>13 DEF Shape

-----------------------------------------------------------------------------
(***************************************************************************)
(* An account keeps its kind and its length.  It is all zeros until it is  *)
(* packed, and holds the record packed last from then on.                  *)
(***************************************************************************)
AccountInv ==
  /\ kind \in Kinds
  /\ \/ stored = Nothing /\ bytes = [i \in 1..AccountLen(kind) |-> Byte(0, i)]
     \/ Shape(kind, stored) /\ Packs(kind, bytes, stored)

LEMMA ZerosAre ==
  ASSUME NEW k \in Kinds, NEW raw, raw = [i \in 1..AccountLen(k) |-> Byte(0, i)]
  PROVE  raw \in Seq(Pairs) /\ Len(raw) = AccountLen(k)
<1> PICK l \in Nat : l = AccountLen(k)
  BY DEF AccountLen
<1>1. raw \in [1..l -> Pairs]
  BY DEF Byte, Pairs
<1> QED
  BY <1>1, FunctionIsSeq

LEMMA ZerosDoNotUnpack ==
  ASSUME NEW k \in Kinds, NEW raw, raw = [i \in 1..AccountLen(k) |-> Byte(0, i)]
  PROVE  Unpack(k, raw) = Rejected
<1> PICK L : L = Packed(k)
  OBVIOUS
<1>1. PICK n : IsAccountLayout(k, L, n, AccountLen(k))
  BY AccountLayout
<1>2. /\ IsLayout(L, n) /\ DOMAIN L = 1..n /\ Distinct(L, n) /\ 1 \in 1..n
      /\ L[1][1] = "version" /\ L[1][2] = 1 /\ Width(L) = AccountLen(k)
  BY <1>1 DEF IsAccountLayout, IsLayout
<1>3. raw \in Seq(Pairs) /\ Len(raw) = AccountLen(k)
  BY ZerosAre
<1> PICK l \in Nat : l = AccountLen(k)
  BY DEF AccountLen
<1> PICK at : at = SliceOf(raw, L, 1)
  OBVIOUS
<1>4. at \in Seq(Pairs) /\ Len(at) = 1 /\ at[1] = raw[1]
  <2>1. at \in Seq(Pairs) /\ Len(at) = 1
    <3>1. IsLayout(L, n) /\ raw \in Seq(Pairs) /\ Len(raw) = Width(L) /\ 1 \in 1..n
      BY <1>2, <1>3
    <3>2. SliceOf(raw, L, 1) \in Seq(Pairs) /\ Len(SliceOf(raw, L, 1)) = L[1][2]
      BY ONLY <3>1, SliceIsThere
    <3> QED
      BY <1>2, <3>2
  <2>2. Offset(L, 1) = 0
    BY <1>2, Offsets DEF IsLaidOut
  <2>3. at = SubSeq(raw, 0 + 1, 0 + 1)
    BY <1>2, <2>2 DEF SliceOf
  <2>4. 0 + 1 <= Len(raw)
    BY <1>3 DEF AccountLen
  <2>5. SubSeq(raw, 0 + 1, 0 + 1) = [j \in 1..1 |-> raw[0 + j]]
    <3>1. raw \in Seq(Pairs) /\ 0 \in Nat /\ 1 \in Nat
      BY <1>3
    <3> QED
      BY ONLY <2>4, <3>1, SubSeqIs
  <2> QED
    BY <2>1, <2>3, <2>5
<1>5. raw[1] = <<0, 0>>
  <2>1. 1 \in 1..AccountLen(k)
    BY DEF AccountLen
  <2> QED
    BY <2>1 DEF Byte
<1>6. Decoded(at) = 0
  <2>1. at[1][1] = 0
    BY <1>4, <1>5
  <2>2. Encoded(0, 1) = at
    <3>1. at = [i \in 1..1 |-> at[i]]
      BY <1>4, LenProperties
    <3> QED
      BY <1>4, <1>5, <3>1 DEF Encoded, Byte
  <2> QED
    BY <1>4, <2>1, <2>2 DEF Decoded
<1>7. (CHOOSE i \in DOMAIN L : L[i][1] = "version") = 1
  BY <1>2, ChosenPlace
<1>8. Decoded(FieldAt(k, raw, "version")) = 0
  BY <1>6, <1>7 DEF FieldAt
<1>9. Decoded(FieldAt(k, raw, "version")) # 1
  BY <1>8
<1> QED
  BY ONLY <1>9, UnpackReads, Zenon

LEMMA AccountStarts == AccountInit => AccountInv
BY DEF AccountInit, AccountInv

LEMMA AccountKept == AccountInv /\ [AccountNext]_accountVars => AccountInv'
<1> SUFFICES ASSUME AccountInv, [AccountNext]_accountVars PROVE AccountInv'
  OBVIOUS
<1>1. CASE UNCHANGED accountVars
  BY <1>1 DEF AccountInv, accountVars
<1>2. CASE AccountNext
  <2>1. PICK record \in Records(kind) : Write(record)
    BY <1>2 DEF AccountNext
  <2>2. /\ CanPackRecord(kind, record) /\ kind' = kind /\ stored' = record
        /\ bytes' = Pack(kind, bytes, record)
    BY <2>1 DEF Write
  <2>3. kind \in Kinds /\ bytes \in Seq(Pairs) /\ Len(bytes) = AccountLen(kind)
    BY ZerosAre DEF AccountInv, Packs
  <2>4. Shape(kind, record)
    BY <2>2, <2>3, RecordsAre
  <2>5. Packs(kind, Pack(kind, bytes, record), record)
    BY <2>3, <2>4, PackPacks
  <2> QED
    BY <2>2, <2>3, <2>4, <2>5 DEF AccountInv
<1> QED
  BY <1>1, <1>2

\* AccountInv is inductive.
THEOREM AccountsHoldRecords == AccountSpec => []AccountInv
<1>1. AccountInit => AccountInv
  BY AccountStarts
<1>2. AccountInv /\ [AccountNext]_accountVars => AccountInv'
  BY AccountKept
<1> QED
  BY <1>1, <1>2, PTL DEF AccountSpec

LEMMA AccountInvMeans == AccountInv => ReadsBack /\ KindsToldApart
<1> SUFFICES ASSUME AccountInv PROVE ReadsBack /\ KindsToldApart
  OBVIOUS
<1>1. kind \in Kinds
  BY DEF AccountInv
<1>2. ReadsBack
  <2>1. CASE stored = Nothing /\ bytes = [i \in 1..AccountLen(kind) |-> Byte(0, i)]
    BY <1>1, <2>1, ZerosDoNotUnpack DEF ReadsBack
  <2>2. CASE Shape(kind, stored) /\ Packs(kind, bytes, stored)
    <3>1. Unpack(kind, bytes) = stored
      BY <1>1, <2>2, PackedUnpacks
    <3>2. stored["version"] = 1
      BY <2>2 DEF Shape
    <3>3. stored # Nothing
      BY <3>2 DEF Nothing
    <3> QED
      BY <3>1, <3>3 DEF ReadsBack
  <2> QED
    BY <2>1, <2>2 DEF AccountInv
<1>3. KindsToldApart
  <2> SUFFICES ASSUME NEW k \in Kinds \ {kind} PROVE Unpack(k, bytes) = Rejected
    BY DEF KindsToldApart
  <2>1. Len(bytes) = AccountLen(kind)
    BY <1>1, ZerosAre DEF AccountInv, Packs
  <2>2. AccountLen(kind) # AccountLen(k)
    BY <1>1 DEF Kinds, AccountLen
  <2>3. ~HasLength(k, bytes)
    BY <2>1, <2>2 DEF HasLength
  <2> QED
    BY <2>3 DEF Unpack
<1> QED
  BY <1>2, <1>3

(***************************************************************************)
(* What the Pack implementations of the four accounts wrote last is what   *)
(* they read, for any fields, lists of up to ten entries and earlier       *)
(* content; an account of zeros is not read at all.                        *)
(***************************************************************************)
THEOREM AccountsReadBack == AccountSpec => []ReadsBack
BY AccountsHoldRecords, AccountInvMeans, PTL

(***************************************************************************)
(* No account is read as one of another kind: the four lengths differ.     *)
(***************************************************************************)
THEOREM KindsStayApart == AccountSpec => []KindsToldApart
BY AccountsHoldRecords, AccountInvMeans, PTL

=============================================================================
