-------------------------- MODULE ArithmeticProofs --------------------------
(***************************************************************************)
(* Lemmas about the numbers of the program: what the fixed-point operators *)
(* return and when they do not round, and how the sum over a finite set or *)
(* a list follows a change of its terms.  The facts about sums are proved  *)
(* by induction over a set of natural numbers (those of which the claim    *)
(* holds): it contains zero, and with each number the next.                *)
(***************************************************************************)
EXTENDS FixedPoint, Functions, FiniteSetTheorems, TLAPS

-----------------------------------------------------------------------------
(***************************************************************************)
(* Fixed-point numbers                                                     *)
(***************************************************************************)

\* The widths are positive naturals, and Wad is even.
LEMMA Widths ==
  /\ Wad \in Nat \ {0} /\ MaxU64 \in Nat \ {0} /\ MaxU128 \in Nat /\ MaxU192 \in Nat
  /\ HalfWad \in Nat /\ HalfWad < Wad
  BY FixedPointAssumption DEF HalfWad

\* A checked result is an error or the value itself, in range.
LEMMA CheckedResult ==
  ASSUME NEW x \in Int, NEW w \in Nat
  PROVE  /\ Checked(x, w) \in (0..w) \cup {Err}
         /\ Checked(x, w) # Err => Checked(x, w) = x /\ x \in 0..w
         /\ x \in 0..w => Checked(x, w) = x /\ Checked(x, w) # Err
  BY DEF Checked, Err

\* Also of an operand that is an error.
LEMMA CheckedRange ==
  ASSUME NEW x, NEW w
  PROVE  Checked(x, w) \in (0..w) \cup {Err}
  BY DEF Checked

\* Dividing a product by one of its factors loses nothing, and neither does
\* a remainder below the divisor.
LEMMA DivideProduct ==
  ASSUME NEW a \in Nat, NEW b \in Nat \ {0}, NEW r \in Nat, r < b
  PROVE  (r + a * b) \div b = a
  BY Z3

LEMMA DivideProductExact ==
  ASSUME NEW a \in Nat, NEW b \in Nat \ {0}
  PROVE  (a * b) \div b = a
  BY DivideProduct, Z3

\* Products of naturals are naturals and monotone.
LEMMA ProductMonotone ==
  ASSUME NEW a \in Nat, NEW b \in Nat, NEW c \in Nat, a <= b
  PROVE  a * c \in Nat /\ b * c \in Nat /\ a * c <= b * c
  BY Z3

\* A token amount scaled by Wad fits 128 bits, and scaled twice 192 bits.
LEMMA ScaledAmount ==
  ASSUME NEW n \in 0..MaxU64
  PROVE  /\ n * Wad \in 0..MaxU128
         /\ (n * Wad) * Wad \in 0..MaxU192
<1>1. n * Wad <= MaxU64 * Wad
  BY Widths, ProductMonotone
<1>2. n * Wad \in Nat /\ n * Wad <= MaxU128
  BY <1>1, Widths, FixedPointAssumption
<1>3. (n * Wad) * Wad <= MaxU128 * Wad
  BY <1>2, Widths, ProductMonotone
<1>4. (n * Wad) * Wad \in Nat
  BY <1>2, Widths
<1> QED
  BY <1>2, <1>3, <1>4, Widths, FixedPointAssumption

\* Wad * n is n * Wad: Decimal(n) for a token amount n.
LEMMA DecimalOfAmount ==
  ASSUME NEW n \in 0..MaxU64
  PROVE  /\ Decimal(n) = n * Wad
         /\ Decimal(n) \in 0..MaxU128 /\ Decimal(n) \in 0..MaxU192
         /\ (Decimal(n) = 0 <=> n = 0)
         /\ Decimal(n) \div Wad = n
<1>1. Decimal(n) = n * Wad
  BY Widths DEF Decimal
<1>2. n * Wad \in 0..MaxU128
  BY ScaledAmount
<1>3. MaxU128 <= MaxU192
  BY FixedPointAssumption, Z3
<1>4. n * Wad = 0 <=> n = 0
  BY Widths, Z3
<1>5. (n * Wad) \div Wad = n
  BY DivideProductExact, Widths
<1> QED
  BY <1>1, <1>2, <1>3, <1>4, <1>5, Widths

\* Dividing an amount by itself gives one, and by one gives the amount back.
LEMMA DivideBySelf ==
  ASSUME NEW n \in 1..MaxU64
  PROVE  TryDiv(Decimal(n), Decimal(n), DecimalMax) = One
<1>1. Decimal(n) \in Nat \ {0}
  BY DecimalOfAmount
<1>2. Decimal(n) * Wad \in 0..MaxU192
  BY DecimalOfAmount, ScaledAmount
<1>3. (Decimal(n) * Wad) \div Decimal(n) = Wad
  <2>1. Decimal(n) * Wad = Wad * Decimal(n)
    BY <1>1, Widths
  <2> QED
    BY <2>1, <1>1, Widths, DivideProductExact
<1>4. Checked(Decimal(n) * Wad, DecimalMax) # Err
  BY <1>2, Widths, CheckedResult DEF DecimalMax
<1> QED
  BY <1>1, <1>3, <1>4 DEF TryDiv, Err, One

LEMMA DivideByOne ==
  ASSUME NEW n \in 0..MaxU64
  PROVE  TryDiv(Decimal(n), One, DecimalMax) = Decimal(n)
<1>1. Decimal(n) \in Nat /\ Decimal(n) = n * Wad
  BY DecimalOfAmount
<1>2. Decimal(n) * Wad \in 0..MaxU192
  BY <1>1, ScaledAmount
<1>3. (Decimal(n) * Wad) \div Wad = Decimal(n)
  BY <1>1, Widths, DivideProductExact
<1>4. Checked(Decimal(n) * Wad, DecimalMax) # Err
  BY <1>2, Widths, CheckedResult DEF DecimalMax
<1> QED
  BY <1>1, <1>3, <1>4, Widths DEF TryDiv, Err, One

-----------------------------------------------------------------------------
(***************************************************************************)
(* Induction                                                               *)
(***************************************************************************)

\* A set of natural numbers that is not empty has a least element.
LEMMA LeastNatural ==
  ASSUME NEW T, T \subseteq Nat, T # {}
  PROVE  \E n \in T : \A m \in T : n <= m
<1> DEFINE R == OpToRel(<, Nat)
<1>1. IsWellFoundedOn(R, Nat)
  BY NatLessThanWellFounded
<1>2. \A x, y \in Nat : <<x, y>> \in R <=> x < y
  BY DEF OpToRel
<1> HIDE DEF R
<1>3. PICK n \in T : \A m \in T : ~(<<m, n>> \in R)
  BY <1>1, WFMin
<1>4. \A m \in T : ~(m < n)
  BY <1>2, <1>3
<1> QED
  BY <1>4

\* Induction over the natural numbers, on a set.
LEMMA Induction ==
  ASSUME NEW T, 0 \in T, \A n \in Nat : n \in T => n + 1 \in T
  PROVE  \A n \in Nat : n \in T
<1> SUFFICES ASSUME NEW k \in Nat, k \notin T PROVE FALSE
  OBVIOUS
<1>1. PICK n \in Nat \ T : \A m \in Nat \ T : n <= m
  BY LeastNatural
<1>2. n # 0 /\ n - 1 \in Nat
  BY <1>1
<1>3. n - 1 \in T
  BY <1>1, <1>2
<1> QED
  BY <1>1, <1>2, <1>3

\* Induction over the subsets of a finite set, on a set of subsets.
LEMMA SubsetInduction ==
  ASSUME NEW S, IsFiniteSet(S), NEW T, {} \in T,
         \A s \in SUBSET S : \A x \in S \ s : s \in T => s \cup {x} \in T
  PROVE  \A s \in SUBSET S : s \in T
<1> DEFINE N == {n \in Nat : \A s \in SUBSET S : Cardinality(s) = n => s \in T}
<1>1. 0 \in N
  BY FS_EmptySet, FS_Subset
<1>2. ASSUME NEW n \in Nat, n \in N PROVE n + 1 \in N
  <2> SUFFICES ASSUME NEW s \in SUBSET S, Cardinality(s) = n + 1 PROVE s \in T
    OBVIOUS
  <2>1. IsFiniteSet(s)
    BY FS_Subset
  <2>2. s # {}
    <3>1. n + 1 # 0
      OBVIOUS
    <3> QED
      BY <3>1, FS_EmptySet
  <2>3. PICK x : x \in s
    BY <2>2
  <2>4. Cardinality(s \ {x}) = n /\ s \ {x} \in SUBSET S
    <3>1. Cardinality(s \ {x}) = Cardinality(s) - 1
      BY <2>1, <2>3, FS_RemoveElement
    <3> QED
      BY <3>1
  <2>5. s \ {x} \in T
    BY <1>2, <2>4
  <2>6. s = (s \ {x}) \cup {x} /\ x \in S \ (s \ {x})
    BY <2>3
  <2> QED
    BY <2>4, <2>5, <2>6
<1> HIDE DEF N
<1>3. \A n \in Nat : n \in N
  BY <1>1, <1>2, Induction
<1>4. ASSUME NEW s \in SUBSET S PROVE s \in T
  <2>1. Cardinality(s) \in Nat
    BY FS_Subset, FS_CardinalityType
  <2> QED
    BY <1>3, <2>1 DEF N
<1> QED
  BY <1>4

-----------------------------------------------------------------------------
\* One element of a set that is not empty: the choice of the folds.
Chosen(s) == CHOOSE x \in s : TRUE

\* `it` sums f over every subset of S.
Sums(f, S, it) ==
  it = [s \in SUBSET S |-> IF s = {} THEN 0 ELSE f[Chosen(s)] + it[s \ {Chosen(s)}]]

LEMMA SumsExist ==
  ASSUME NEW S, IsFiniteSet(S), NEW f, \A x \in S : f[x] \in Int
  PROVE  \E it \in [SUBSET S -> Int] : Sums(f, S, it)
<1> DEFINE Small(n) == {s \in SUBSET S : Cardinality(s) <= n}
           Good(n, it) == \A s \in Small(n) :
                            it[s] = IF s = {} THEN 0 ELSE f[Chosen(s)] + it[s \ {Chosen(s)}]
           N == {n \in Nat : \E it \in [Small(n) -> Int] : Good(n, it)}
<1>0. \A s \in SUBSET S : s # {} => Chosen(s) \in s /\ Chosen(s) \in S
  BY DEF Chosen
<1>1. 0 \in N
  <2>1. Small(0) = {{}}
    BY FS_EmptySet, FS_Subset, FS_CardinalityType
  <2>2. [s \in Small(0) |-> 0] \in [Small(0) -> Int] /\ Good(0, [s \in Small(0) |-> 0])
    BY <2>1
  <2> QED
    BY <2>2
<1>2. ASSUME NEW n \in Nat, n \in N PROVE n + 1 \in N
  <2>1. PICK it \in [Small(n) -> Int] : Good(n, it)
    BY <1>2
  <2> DEFINE more == [s \in Small(n + 1) |->
                        IF s = {} THEN 0 ELSE f[Chosen(s)] + it[s \ {Chosen(s)}]]
  <2>2. ASSUME NEW s \in Small(n + 1), s # {}
        PROVE  s \ {Chosen(s)} \in Small(n)
    <3>1. Chosen(s) \in s /\ IsFiniteSet(s)
      BY <1>0, <2>2, FS_Subset
    <3>2. Cardinality(s \ {Chosen(s)}) = Cardinality(s) - 1 /\ Cardinality(s) \in Nat
      BY <3>1, FS_RemoveElement, FS_CardinalityType
    <3> QED
      BY <3>2
  <2>3. more \in [Small(n + 1) -> Int]
    BY <1>0, <2>2
  <2>4. ASSUME NEW s \in Small(n) PROVE s \in Small(n + 1) /\ more[s] = it[s]
    <3>1. Cardinality(s) \in Nat
      BY FS_Subset, FS_CardinalityType
    <3>2. s \in Small(n + 1)
      BY <3>1
    <3> HIDE DEF Small
    <3> QED
      BY <2>1, <3>2
  <2>5. Good(n + 1, more)
    <3> SUFFICES ASSUME NEW s \in Small(n + 1)
                 PROVE  more[s] = IF s = {} THEN 0 ELSE f[Chosen(s)] + more[s \ {Chosen(s)}]
      OBVIOUS
    <3> HIDE DEF Small
    <3>1. more[s] = IF s = {} THEN 0 ELSE f[Chosen(s)] + it[s \ {Chosen(s)}]
      OBVIOUS
    <3> HIDE DEF more
    <3> QED
      BY <2>2, <2>4, <3>1
  <2> HIDE DEF more, Small
  <2> QED
    BY <2>3, <2>5
<1>3. \A n \in Nat : n \in N
  <2> HIDE DEF N
  <2> QED
    BY <1>1, <1>2, Induction
<1>4. Small(Cardinality(S)) = SUBSET S /\ Cardinality(S) \in Nat
  BY FS_Subset, FS_CardinalityType
<1>5. PICK it \in [SUBSET S -> Int] : Good(Cardinality(S), it)
  BY <1>3, <1>4
<1>6. Sums(f, S, it)
  <2> HIDE DEF Small
  <2> QED
    BY <1>4, <1>5 DEF Sums
<1> QED
  BY <1>6

\* Two sums agree where the functions do.
LEMMA SumsAgree ==
  ASSUME NEW S, IsFiniteSet(S), NEW U \in SUBSET S, NEW f, NEW g,
         \A x \in U : f[x] = g[x],
         NEW it, Sums(f, S, it), NEW jt, Sums(g, U, jt)
  PROVE  \A s \in SUBSET U : it[s] = jt[s]
<1> DEFINE N == {n \in Nat : \A s \in SUBSET U : Cardinality(s) = n => it[s] = jt[s]}
<1>1. \A s \in SUBSET U : /\ it[s] = IF s = {} THEN 0 ELSE f[Chosen(s)] + it[s \ {Chosen(s)}]
                          /\ jt[s] = IF s = {} THEN 0 ELSE g[Chosen(s)] + jt[s \ {Chosen(s)}]
  BY DEF Sums
<1>2. \A s \in SUBSET U : IsFiniteSet(s) /\ Cardinality(s) \in Nat
  BY FS_Subset, FS_CardinalityType
<1>3. 0 \in N
  BY <1>1, <1>2, FS_EmptySet
<1>4. ASSUME NEW n \in Nat, n \in N PROVE n + 1 \in N
  <2> SUFFICES ASSUME NEW s \in SUBSET U, Cardinality(s) = n + 1 PROVE it[s] = jt[s]
    OBVIOUS
  <2>1. s # {}
    <3>1. n + 1 # 0
      OBVIOUS
    <3> QED
      BY <3>1, FS_EmptySet
  <2>2. Chosen(s) \in s
    BY <2>1 DEF Chosen
  <2>3. Cardinality(s \ {Chosen(s)}) = n
    <3>1. Cardinality(s \ {Chosen(s)}) = Cardinality(s) - 1
      BY <1>2, <2>2, FS_RemoveElement
    <3> QED
      BY <3>1
  <2>4. it[s \ {Chosen(s)}] = jt[s \ {Chosen(s)}]
    BY <1>4, <2>3
  <2> QED
    BY <1>1, <2>1, <2>2, <2>4
<1> HIDE DEF N
<1>5. \A n \in Nat : n \in N
  BY <1>3, <1>4, Induction
<1> QED
  BY <1>2, <1>5 DEF N

\* The operator of the community modules is such a sum.
LEMMA SumIsOne ==
  ASSUME NEW S, IsFiniteSet(S), NEW f, \A x \in S : f[x] \in Int
  PROVE  \E it \in [SUBSET S -> Int] : Sums(f, S, it) /\ SumFunctionOnSet(f, S) = it[S]
<1> DEFINE it == CHOOSE i : Sums(f, S, i)
<1>1. PICK jt \in [SUBSET S -> Int] : Sums(f, S, jt)
  BY SumsExist
<1>2. Sums(f, S, it)
  BY <1>1
<1>3. SumFunctionOnSet(f, S) = it[S]
  BY DEF SumFunctionOnSet, FoldFunctionOnSet, MapThenFoldSet, Sums, Chosen
<1> HIDE DEF it
<1>4. \A s \in SUBSET S : it[s] = jt[s]
  BY <1>1, <1>2, SumsAgree
<1>5. it \in [SUBSET S -> Int]
  <2>1. it = [s \in SUBSET S |-> it[s]]
    BY <1>2 DEF Sums
  <2> QED
    BY <1>4, <2>1
<1> QED
  BY <1>2, <1>3, <1>5

-----------------------------------------------------------------------------
(***************************************************************************)
(* What the proofs use of sums                                             *)
(***************************************************************************)

\* Type.
LEMMA SumType ==
  ASSUME NEW S, IsFiniteSet(S), NEW f, \A x \in S : f[x] \in Int
  PROVE  SumFunctionOnSet(f, S) \in Int
<1>1. PICK it \in [SUBSET S -> Int] : SumFunctionOnSet(f, S) = it[S]
  BY SumIsOne
<1>2. it[S] \in Int
  OBVIOUS
<1> QED
  BY <1>1, <1>2

\* Functions that agree have the same sum.
LEMMA SumSame ==
  ASSUME NEW S, IsFiniteSet(S), NEW f, NEW g, \A x \in S : f[x] \in Int /\ f[x] = g[x]
  PROVE  SumFunctionOnSet(f, S) = SumFunctionOnSet(g, S)
<1>1. \A x \in S : g[x] \in Int
  OBVIOUS
<1>2. PICK it \in [SUBSET S -> Int] : Sums(f, S, it) /\ SumFunctionOnSet(f, S) = it[S]
  BY SumIsOne
<1>3. PICK jt \in [SUBSET S -> Int] : Sums(g, S, jt) /\ SumFunctionOnSet(g, S) = jt[S]
  BY <1>1, SumIsOne
<1>4. it[S] = jt[S]
  BY <1>2, <1>3, SumsAgree
<1> QED
  BY <1>2, <1>3, <1>4

LEMMA SumEmpty == ASSUME NEW f PROVE SumFunctionOnSet(f, {}) = 0
<1>1. PICK it \in [SUBSET {} -> Int] : Sums(f, {}, it) /\ SumFunctionOnSet(f, {}) = it[{}]
  BY FS_EmptySet, SumIsOne
<1> QED
  BY <1>1 DEF Sums

\* The element chosen first.
LEMMA SumFirst ==
  ASSUME NEW S, IsFiniteSet(S), S # {}, NEW f, \A x \in S : f[x] \in Int
  PROVE  /\ Chosen(S) \in S
         /\ SumFunctionOnSet(f, S) = f[Chosen(S)] + SumFunctionOnSet(f, S \ {Chosen(S)})
<1> DEFINE U == S \ {Chosen(S)}
<1>1. IsFiniteSet(U)
  BY FS_RemoveElement
<1>2. PICK it \in [SUBSET S -> Int] : Sums(f, S, it) /\ SumFunctionOnSet(f, S) = it[S]
  BY SumIsOne
<1>3. PICK jt \in [SUBSET U -> Int] : Sums(f, U, jt) /\ SumFunctionOnSet(f, U) = jt[U]
  BY <1>1, SumIsOne
<1>4. it[U] = jt[U]
  BY <1>2, <1>3, SumsAgree
<1>5. it[S] = f[Chosen(S)] + it[U]
  BY <1>2 DEF Sums
<1>6. Chosen(S) \in S
  BY DEF Chosen
<1> QED
  BY <1>2, <1>3, <1>4, <1>5, <1>6

\* Any element may be taken out of the sum.
LEMMA SumRemove ==
  ASSUME NEW S, IsFiniteSet(S), NEW f, \A x \in S : f[x] \in Int, NEW a \in S
  PROVE  SumFunctionOnSet(f, S) = f[a] + SumFunctionOnSet(f, S \ {a})
<1> DEFINE Sum(U) == SumFunctionOnSet(f, U)
           N == {n \in Nat : \A U \in SUBSET S : Cardinality(U) = n =>
                   \A x \in U : Sum(U) = f[x] + Sum(U \ {x})}
<1>1. \A U \in SUBSET S : IsFiniteSet(U) /\ Cardinality(U) \in Nat /\ Sum(U) \in Int
  BY FS_Subset, FS_CardinalityType, SumType
<1>2. 0 \in N
  BY <1>1, FS_EmptySet
<1>3. ASSUME NEW n \in Nat, n \in N PROVE n + 1 \in N
  <2> SUFFICES ASSUME NEW U \in SUBSET S, Cardinality(U) = n + 1, NEW x \in U
               PROVE  Sum(U) = f[x] + Sum(U \ {x})
    OBVIOUS
  <2> DEFINE y == Chosen(U)
  <2>1. y \in U /\ Sum(U) = f[y] + Sum(U \ {y})
    BY <1>1, SumFirst
  <2>2. CASE x = y
    BY <2>1, <2>2
  <2>3. CASE x # y
    <3>1. Cardinality(U \ {y}) = n /\ Cardinality(U \ {x}) = n
      <4>1. Cardinality(U \ {y}) = Cardinality(U) - 1
        BY <1>1, <2>1, FS_RemoveElement
      <4>2. Cardinality(U \ {x}) = Cardinality(U) - 1
        BY <1>1, FS_RemoveElement
      <4> QED
        BY <4>1, <4>2
    <3>2. Sum(U \ {y}) = f[x] + Sum((U \ {y}) \ {x})
      BY <1>3, <2>1, <2>3, <3>1
    <3>3. Sum(U \ {x}) = f[y] + Sum((U \ {x}) \ {y})
      BY <1>3, <2>1, <2>3, <3>1
    <3>4. (U \ {y}) \ {x} = (U \ {x}) \ {y}
      OBVIOUS
    <3>5. f[x] \in Int /\ f[y] \in Int /\ Sum((U \ {x}) \ {y}) \in Int
      BY <1>1, <2>1
    <3>6. \A u, v, w \in Int : u + (v + w) = v + (u + w)
      OBVIOUS
    <3> DEFINE A == Sum((U \ {x}) \ {y})
    <3>7. Sum(U) = f[y] + (f[x] + A) /\ Sum(U \ {x}) = f[y] + A
      BY <2>1, <3>2, <3>3, <3>4
    <3> HIDE DEF Sum, y
    <3> QED
      BY <3>5, <3>6, <3>7
  <2> QED
    BY <2>2, <2>3
<1> HIDE DEF N
<1>4. \A n \in Nat : n \in N
  BY <1>2, <1>3, Induction
<1> QED
  BY <1>1, <1>4 DEF N

\* A change at one element changes the sum by as much.
LEMMA SumChange ==
  ASSUME NEW S, IsFiniteSet(S), NEW a \in S, NEW f, NEW g,
         \A x \in S : f[x] \in Int /\ g[x] \in Int,
         \A x \in S \ {a} : g[x] = f[x]
  PROVE  SumFunctionOnSet(g, S) = SumFunctionOnSet(f, S) + (g[a] - f[a])
<1> DEFINE U == S \ {a}
<1>1. /\ SumFunctionOnSet(f, S) = f[a] + SumFunctionOnSet(f, U)
      /\ SumFunctionOnSet(g, S) = g[a] + SumFunctionOnSet(g, U)
  BY SumRemove
<1>2. IsFiniteSet(U)
  BY FS_RemoveElement
<1>3. SumFunctionOnSet(g, U) = SumFunctionOnSet(f, U) /\ SumFunctionOnSet(f, U) \in Int
  BY <1>2, SumSame, SumType
<1> HIDE DEF U
<1>4. \A x, y, z \in Int : y + z = (x + z) + (y - x)
  OBVIOUS
<1> QED
  BY <1>1, <1>3, <1>4

\* An inequality that holds of the terms, each side scaled, holds of the sums.
LEMMA SumScaled ==
  ASSUME NEW S, IsFiniteSet(S), NEW f, NEW g, NEW v \in Int, NEW w \in Int,
         \A x \in S : f[x] \in Int /\ g[x] \in Int /\ v * f[x] <= w * g[x]
  PROVE  v * SumFunctionOnSet(f, S) <= w * SumFunctionOnSet(g, S)
<1> DEFINE T == {U \in SUBSET S : v * SumFunctionOnSet(f, U) <= w * SumFunctionOnSet(g, U)}
<1>1. {} \in T
  BY SumEmpty
<1>2. ASSUME NEW U \in SUBSET S, NEW a \in S \ U, U \in T
      PROVE  U \cup {a} \in T
  <2> DEFINE B == U \cup {a}
  <2>1. IsFiniteSet(B) /\ IsFiniteSet(U) /\ B \ {a} = U /\ a \in B /\ B \in SUBSET S
    BY FS_Subset
  <2>2. /\ SumFunctionOnSet(f, B) = f[a] + SumFunctionOnSet(f, U)
        /\ SumFunctionOnSet(g, B) = g[a] + SumFunctionOnSet(g, U)
    <3> HIDE DEF B
    <3>1. /\ SumFunctionOnSet(f, B) = f[a] + SumFunctionOnSet(f, B \ {a})
          /\ SumFunctionOnSet(g, B) = g[a] + SumFunctionOnSet(g, B \ {a})
      BY <2>1, SumRemove
    <3> QED
      BY <2>1, <3>1
  <2>3. SumFunctionOnSet(f, U) \in Int /\ SumFunctionOnSet(g, U) \in Int
    BY <2>1, SumType
  <2>4. v * SumFunctionOnSet(f, U) <= w * SumFunctionOnSet(g, U)
    BY <1>2
  <2>5. \A x, y, p, q \in Int : v * x <= w * p /\ v * y <= w * q => v * (x + y) <= w * (p + q)
    BY Z3
  <2>6. v * SumFunctionOnSet(f, B) <= w * SumFunctionOnSet(g, B)
    BY <2>2, <2>3, <2>4, <2>5
  <2> QED
    BY <2>1, <2>6
<1> HIDE DEF T
<1>3. S \in T
  BY <1>1, <1>2, SubsetInduction
<1> QED
  BY <1>3 DEF T

\* A sum of natural numbers is one, and so is a sum of zeros zero.
LEMMA SumNatural ==
  ASSUME NEW S, IsFiniteSet(S), NEW f, \A x \in S : f[x] \in Nat
  PROVE  /\ SumFunctionOnSet(f, S) \in Nat
         /\ (\A x \in S : f[x] = 0) => SumFunctionOnSet(f, S) = 0
<1>1. SumFunctionOnSet(f, S) \in Int
  BY SumType
<1>2. 0 * SumFunctionOnSet(f, S) <= 1 * SumFunctionOnSet(f, S)
  <2>1. \A x \in S : f[x] \in Int /\ 0 * f[x] <= 1 * f[x]
    OBVIOUS
  <2> QED
    BY <2>1, SumScaled
<1>3. ASSUME \A x \in S : f[x] = 0 PROVE 1 * SumFunctionOnSet(f, S) <= 0 * SumFunctionOnSet(f, S)
  <2>1. \A x \in S : f[x] \in Int /\ 1 * f[x] <= 0 * f[x]
    BY <1>3
  <2> QED
    BY <2>1, SumScaled
<1> QED
  BY <1>1, <1>2, <1>3

-----------------------------------------------------------------------------
(***************************************************************************)
(* Sums over the positions of a list                                       *)
(***************************************************************************)

LEMMA PositionsFinite == \A n \in Nat : IsFiniteSet(1..n)
  BY FS_Interval

\* One more term.
LEMMA SumLast ==
  ASSUME NEW n \in Nat, NEW f, \A i \in 1..(n + 1) : f[i] \in Int
  PROVE  SumFunctionOnSet(f, 1..(n + 1)) = SumFunctionOnSet(f, 1..n) + f[n + 1]
<1>1. IsFiniteSet(1..(n + 1)) /\ n + 1 \in 1..(n + 1) /\ (1..(n + 1)) \ {n + 1} = 1..n
  BY FS_Interval
<1>2. SumFunctionOnSet(f, 1..(n + 1)) = f[n + 1] + SumFunctionOnSet(f, 1..n)
  BY <1>1, SumRemove
<1>3. SumFunctionOnSet(f, 1..n) \in Int
  <2>1. \A i \in 1..n : f[i] \in Int
    OBVIOUS
  <2> QED
    BY <2>1, PositionsFinite, SumType
<1> QED
  BY <1>1, <1>2, <1>3

\* One term dropped, and those behind it moved up.
LEMMA SumDrop ==
  ASSUME NEW n \in Nat, NEW f, \A i \in 1..(n + 1) : f[i] \in Int,
         NEW k \in 1..(n + 1), NEW g,
         \A i \in 1..n : g[i] = IF i < k THEN f[i] ELSE f[i + 1]
  PROVE  SumFunctionOnSet(f, 1..(n + 1)) = f[k] + SumFunctionOnSet(g, 1..n)
<1> DEFINE P(m) == SumFunctionOnSet(f, 1..(m + 1)) = f[k] + SumFunctionOnSet(g, 1..m)
           N == {m \in Nat : m <= n /\ k <= m + 1 => P(m)}
<1>0. ASSUME NEW m \in Nat, m <= n
      PROVE  /\ \A i \in 1..m : g[i] \in Int /\ f[i] \in Int
             /\ SumFunctionOnSet(f, 1..m) \in Int /\ SumFunctionOnSet(g, 1..m) \in Int
             /\ SumFunctionOnSet(f, 1..(m + 1)) = SumFunctionOnSet(f, 1..m) + f[m + 1]
  <2>1. \A i \in 1..(m + 1) : f[i] \in Int
    BY <1>0
  <2>2. \A i \in 1..m : g[i] \in Int /\ f[i] \in Int
    BY <1>0
  <2>3. SumFunctionOnSet(f, 1..m) \in Int /\ SumFunctionOnSet(g, 1..m) \in Int
    BY <2>2, PositionsFinite, SumType
  <2> QED
    BY <2>1, <2>2, <2>3, SumLast
<1>1. ASSUME NEW m \in Nat, m <= n, k = m + 1 PROVE P(m)
  <2>1. \A i \in 1..m : f[i] \in Int /\ f[i] = g[i]
    BY <1>0, <1>1
  <2>2. SumFunctionOnSet(f, 1..m) = SumFunctionOnSet(g, 1..m)
    BY <2>1, PositionsFinite, SumSame
  <2>3. f[k] \in Int /\ SumFunctionOnSet(g, 1..m) \in Int
    BY <1>0, <1>1
  <2> QED
    BY <1>0, <1>1, <2>2, <2>3
<1>2. 0 \in N
  <2>1. k <= 0 + 1 => k = 0 + 1
    OBVIOUS
  <2>2. 0 \in Nat /\ 0 <= n
    OBVIOUS
  <2> HIDE DEF P
  <2> QED
    BY <1>1, <2>1, <2>2
<1>3. ASSUME NEW m \in Nat, m \in N PROVE m + 1 \in N
  <2> SUFFICES ASSUME m + 1 <= n, k <= m + 2 PROVE P(m + 1)
    OBVIOUS
  <2>1. CASE k = m + 2
    BY <1>1, <2>1
  <2>2. CASE k <= m + 1
    <3>1. P(m)
      BY <1>3, <2>2
    <3>2. \A i \in 1..(m + 1) : g[i] \in Int
      BY <1>0
    <3>3. SumFunctionOnSet(g, 1..(m + 1)) = SumFunctionOnSet(g, 1..m) + g[m + 1]
      BY <3>2, SumLast
    <3>4. SumFunctionOnSet(f, 1..(m + 2)) = SumFunctionOnSet(f, 1..(m + 1)) + f[m + 2]
      BY <1>0
    <3>5. g[m + 1] = f[m + 2] /\ f[m + 2] \in Int /\ f[k] \in Int
          /\ SumFunctionOnSet(g, 1..m) \in Int
      BY <1>0, <2>2
    <3>6. \A x, y, z \in Int : (x + y) + z = x + (y + z)
      OBVIOUS
    <3> QED
      BY <3>1, <3>3, <3>4, <3>5, <3>6
  <2> QED
    BY <2>1, <2>2
<1> HIDE DEF N
<1>4. n \in N
  BY <1>2, <1>3, Induction
<1> QED
  BY <1>4 DEF N

-----------------------------------------------------------------------------
(***************************************************************************)
(* Sums beside one another                                                 *)
(***************************************************************************)

\* What is less term by term is less in sum.
LEMMA SumLess ==
  ASSUME NEW S, IsFiniteSet(S), NEW f, NEW g,
         \A x \in S : f[x] \in Int /\ g[x] \in Int /\ f[x] <= g[x]
  PROVE  SumFunctionOnSet(f, S) <= SumFunctionOnSet(g, S)
<1>1. 1 * SumFunctionOnSet(f, S) <= 1 * SumFunctionOnSet(g, S)
  <2>1. \A x \in S : f[x] \in Int /\ g[x] \in Int /\ 1 * f[x] <= 1 * g[x]
    OBVIOUS
  <2> QED
    BY <2>1, SumScaled
<1>2. SumFunctionOnSet(f, S) \in Int /\ SumFunctionOnSet(g, S) \in Int
  BY SumType
<1> QED
  BY <1>1, <1>2

\* A sum of sums.
LEMMA SumPlus ==
  ASSUME NEW S, IsFiniteSet(S), NEW f, NEW g, NEW d,
         \A x \in S : f[x] \in Int /\ d[x] \in Int /\ g[x] = f[x] + d[x]
  PROVE  SumFunctionOnSet(g, S) = SumFunctionOnSet(f, S) + SumFunctionOnSet(d, S)
<1> DEFINE T == {U \in SUBSET S :
                   SumFunctionOnSet(g, U) = SumFunctionOnSet(f, U) + SumFunctionOnSet(d, U)}
<1>1. {} \in T
  BY SumEmpty
<1>2. ASSUME NEW U \in SUBSET S, NEW a \in S \ U, U \in T
      PROVE  U \cup {a} \in T
  <2> DEFINE B == U \cup {a}
  <2>1. IsFiniteSet(B) /\ IsFiniteSet(U) /\ B \ {a} = U /\ a \in B /\ B \in SUBSET S
    BY FS_Subset
  <2>2. \A x \in B : f[x] \in Int /\ d[x] \in Int /\ g[x] \in Int
    BY <2>1
  <2>3. /\ SumFunctionOnSet(f, B) = f[a] + SumFunctionOnSet(f, U)
        /\ SumFunctionOnSet(g, B) = g[a] + SumFunctionOnSet(g, U)
        /\ SumFunctionOnSet(d, B) = d[a] + SumFunctionOnSet(d, U)
    <3> HIDE DEF B
    <3>1. /\ SumFunctionOnSet(f, B) = f[a] + SumFunctionOnSet(f, B \ {a})
          /\ SumFunctionOnSet(g, B) = g[a] + SumFunctionOnSet(g, B \ {a})
          /\ SumFunctionOnSet(d, B) = d[a] + SumFunctionOnSet(d, B \ {a})
      BY <2>1, <2>2, SumRemove
    <3> QED
      BY <2>1, <3>1
  <2>4. SumFunctionOnSet(f, U) \in Int /\ SumFunctionOnSet(d, U) \in Int
    BY <2>1, SumType
  <2>5. \A p, q, v, w \in Int : (p + q) + (v + w) = (p + v) + (q + w)
    OBVIOUS
  <2>6. g[a] = f[a] + d[a] /\ f[a] \in Int /\ d[a] \in Int
    OBVIOUS
  <2>7. SumFunctionOnSet(g, U) = SumFunctionOnSet(f, U) + SumFunctionOnSet(d, U)
    BY <1>2
  <2> HIDE DEF B
  <2>8. SumFunctionOnSet(g, B) = SumFunctionOnSet(f, B) + SumFunctionOnSet(d, B)
    BY <2>3, <2>4, <2>5, <2>6, <2>7
  <2> QED
    BY <2>1, <2>8 DEF B
<1> HIDE DEF T
<1>3. S \in T
  BY <1>1, <1>2, SubsetInduction
<1> QED
  BY <1>3 DEF T

\* Terms that are placed one to one under the terms of another sum.
LEMMA SumInjection ==
  ASSUME NEW S, IsFiniteSet(S), NEW R, IsFiniteSet(R),
         NEW h, \A x \in S : h[x] \in R, \A x, y \in S : h[x] = h[y] => x = y,
         NEW f, NEW g, \A r \in R : g[r] \in Nat,
         \A x \in S : f[x] \in Int /\ f[x] <= g[h[x]]
  PROVE  SumFunctionOnSet(f, S) <= SumFunctionOnSet(g, R)
<1> DEFINE Part(U) == [r \in R |-> IF \E x \in U : h[x] = r THEN g[r] ELSE 0]
           T == {U \in SUBSET S :
                   SumFunctionOnSet(f, U) <= SumFunctionOnSet(Part(U), R)}
<1>1. \A U \in SUBSET S : \A r \in R : Part(U)[r] \in Nat /\ Part(U)[r] <= g[r]
  OBVIOUS
<1>2. \A U \in SUBSET S : SumFunctionOnSet(Part(U), R) \in Int
  <2> SUFFICES ASSUME NEW U \in SUBSET S PROVE SumFunctionOnSet(Part(U), R) \in Int
    OBVIOUS
  <2>1. \A r \in R : Part(U)[r] \in Int
    BY <1>1
  <2> HIDE DEF Part
  <2> QED
    BY <2>1, SumType
<1>3. {} \in T
  <2>1. SumFunctionOnSet(Part({}), R) \in Nat
    <3>1. \A r \in R : Part({})[r] \in Nat
      BY <1>1
    <3> HIDE DEF Part
    <3> QED
      BY <3>1, SumNatural
  <2> HIDE DEF Part
  <2> QED
    BY <2>1, SumEmpty
<1>4. ASSUME NEW U \in SUBSET S, NEW a \in S \ U, U \in T
      PROVE  U \cup {a} \in T
  <2> DEFINE B == U \cup {a}
  <2>1. IsFiniteSet(B) /\ IsFiniteSet(U) /\ B \ {a} = U /\ a \in B /\ B \in SUBSET S
    BY FS_Subset
  <2>2. SumFunctionOnSet(f, B) = f[a] + SumFunctionOnSet(f, U)
    <3> HIDE DEF B
    <3>1. \A x \in B : f[x] \in Int
      BY <2>1
    <3>2. SumFunctionOnSet(f, B) = f[a] + SumFunctionOnSet(f, B \ {a})
      BY <2>1, <3>1, SumRemove
    <3> QED
      BY <2>1, <3>2
  <2>3. /\ \A r \in R \ {h[a]} : Part(B)[r] = Part(U)[r]
        /\ Part(B)[h[a]] = g[h[a]] /\ Part(U)[h[a]] = 0 /\ h[a] \in R
    OBVIOUS
  <2>4. \A r \in R : Part(B)[r] \in Int /\ Part(U)[r] \in Int
    BY <1>1, <2>1
  <2>5. SumFunctionOnSet(f, U) \in Int /\ SumFunctionOnSet(Part(U), R) \in Int
        /\ SumFunctionOnSet(f, U) <= SumFunctionOnSet(Part(U), R)
    <3>1. \A x \in U : f[x] \in Int
      OBVIOUS
    <3> HIDE DEF Part
    <3> QED
      BY <1>2, <1>4, <2>1, <3>1, SumType
  <2>6. f[a] \in Int /\ g[h[a]] \in Int /\ f[a] <= g[h[a]]
    OBVIOUS
  <2> HIDE DEF Part, B
  <2>7. SumFunctionOnSet(Part(B), R)
          = SumFunctionOnSet(Part(U), R) + (Part(B)[h[a]] - Part(U)[h[a]])
    BY <2>3, <2>4, SumChange
  <2>8. SumFunctionOnSet(f, B) <= SumFunctionOnSet(Part(B), R)
    BY <2>2, <2>3, <2>5, <2>6, <2>7
  <2> QED
    BY <2>1, <2>8 DEF B
<1>5. S \in T
  <2> HIDE DEF T
  <2> QED
    BY <1>3, <1>4, SubsetInduction
<1>6. SumFunctionOnSet(Part(S), R) <= SumFunctionOnSet(g, R)
  <2>1. \A r \in R : Part(S)[r] \in Int /\ g[r] \in Int /\ Part(S)[r] <= g[r]
    BY <1>1
  <2> HIDE DEF Part
  <2> QED
    BY <2>1, SumLess
<1>7. SumFunctionOnSet(f, S) \in Int /\ SumFunctionOnSet(g, R) \in Int
  BY SumType
<1> HIDE DEF Part
<1> QED
  BY <1>2, <1>5, <1>6, <1>7

=============================================================================
