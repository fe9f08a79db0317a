--------------------------- MODULE FunctionProofs ---------------------------
(***************************************************************************)
(* Rate::try_pow for every base, every number of slots and every width.    *)
(* Squaring truncates at every turn of the loop; the proofs carry what a   *)
(* turn may lose through the loop, as inequalities between powers that     *)
(* hold for what is left of the exponent, the base and the result.         *)
(***************************************************************************)
EXTENDS SlotInterest, ArithmeticProofs

-----------------------------------------------------------------------------
(***************************************************************************)
(* Powers of natural numbers                                               *)
(***************************************************************************)

\* The powers of b up to the n-th.
Powers(b, n) ==
  {p \in [0..n -> Nat] : p[0] = 1 /\ \A i \in 1..n : p[i] = p[i - 1] * b}

Pow(b, n) == (CHOOSE p : p \in Powers(b, n))[n]

LEMMA PowersExist ==
  ASSUME NEW b \in Nat
  PROVE  \A n \in Nat : Powers(b, n) # {}
<1> DEFINE T == {n \in Nat : Powers(b, n) # {}}
<1>1. 0 \in T
  <2>1. [i \in 0..0 |-> 1] \in Powers(b, 0)
    BY DEF Powers
  <2> QED
    BY <2>1
<1>2. ASSUME NEW n \in Nat, n \in T PROVE n + 1 \in T
  <2>1. PICK p : p \in Powers(b, n)
    BY <1>2
  <2>2. p \in [0..n -> Nat] /\ p[0] = 1 /\ \A i \in 1..n : p[i] = p[i - 1] * b
    BY <2>1 DEF Powers
  <2>3. p[n] * b \in Nat
    BY <2>2
  <2> DEFINE q == [i \in 0..(n + 1) |-> IF i = n + 1 THEN p[n] * b ELSE p[i]]
  <2>4. q \in [0..(n + 1) -> Nat]
    BY <2>2, <2>3
  <2>5. q[0] = 1
    BY <2>2
  <2>6. \A i \in 1..(n + 1) : q[i] = q[i - 1] * b
    <3> SUFFICES ASSUME NEW i \in 1..(n + 1) PROVE q[i] = q[i - 1] * b
      OBVIOUS
    <3>1. q[i - 1] = p[i - 1]
      OBVIOUS
    <3>2. CASE i = n + 1
      BY <3>1, <3>2
    <3>3. CASE i # n + 1
      <4>1. i \in 1..n /\ q[i] = p[i]
        BY <3>3
      <4> QED
        BY <2>2, <3>1, <4>1
    <3> QED
      BY <3>2, <3>3
  <2> HIDE DEF q
  <2>7. q \in Powers(b, n + 1)
    BY <2>4, <2>5, <2>6 DEF Powers
  <2> QED
    BY <2>7
<1> HIDE DEF T
<1>3. \A n \in Nat : n \in T
  BY <1>1, <1>2, Induction
<1> QED
  BY <1>3 DEF T

LEMMA PowersAgree ==
  ASSUME NEW b \in Nat, NEW m \in Nat, NEW n \in Nat, m <= n,
         NEW p, p \in Powers(b, m), NEW q, q \in Powers(b, n)
  PROVE  p[m] = q[m]
<1> DEFINE T == {i \in Nat : i <= m => p[i] = q[i]}
<1>0. /\ p[0] = 1 /\ \A i \in 1..m : p[i] = p[i - 1] * b
      /\ q[0] = 1 /\ \A i \in 1..n : q[i] = q[i - 1] * b
  BY DEF Powers
<1>1. 0 \in T
  BY <1>0
<1>2. ASSUME NEW i \in Nat, i \in T PROVE i + 1 \in T
  <2> SUFFICES ASSUME i + 1 <= m PROVE p[i + 1] = q[i + 1]
    OBVIOUS
  <2>1. i + 1 \in 1..m /\ i + 1 \in 1..n /\ (i + 1) - 1 = i /\ i <= m
    OBVIOUS
  <2>2. p[i] = q[i]
    BY <1>2, <2>1
  <2>3. p[i + 1] = p[(i + 1) - 1] * b /\ q[i + 1] = q[(i + 1) - 1] * b
    BY <1>0, <2>1
  <2> QED
    BY <2>1, <2>2, <2>3
<1> HIDE DEF T
<1>3. \A i \in Nat : i \in T
  BY <1>1, <1>2, Induction
<1> QED
  BY <1>3 DEF T

\* A power with one more factor, and the first ones.
LEMMA PowNext ==
  ASSUME NEW b \in Nat
  PROVE  /\ Pow(b, 0) = 1 /\ Pow(b, 1) = b
         /\ \A n \in Nat : Pow(b, n) \in Nat /\ Pow(b, n + 1) = Pow(b, n) * b
<1> DEFINE Of(n) == CHOOSE p : p \in Powers(b, n)
<1>1. \A n \in Nat : Of(n) \in Powers(b, n)
  BY PowersExist
<1>2. \A n \in Nat : Pow(b, n) = Of(n)[n]
  BY DEF Pow
<1> HIDE DEF Of
<1>3. Pow(b, 0) = 1
  BY <1>1, <1>2 DEF Powers
<1>4. ASSUME NEW n \in Nat
      PROVE  Pow(b, n) \in Nat /\ Pow(b, n + 1) = Pow(b, n) * b
  <2>1. Of(n) \in Powers(b, n) /\ Of(n + 1) \in Powers(b, n + 1)
    BY <1>1
  <2>2. Of(n)[n] = Of(n + 1)[n]
    BY <2>1, PowersAgree
  <2>3. /\ Of(n) \in [0..n -> Nat]
        /\ \A i \in 1..(n + 1) : Of(n + 1)[i] = Of(n + 1)[i - 1] * b
    BY <2>1 DEF Powers
  <2>4. Of(n + 1)[n + 1] = Of(n + 1)[(n + 1) - 1] * b /\ (n + 1) - 1 = n
    BY <2>3
  <2>5. Of(n)[n] \in Nat
    BY <2>3
  <2> QED
    BY <1>2, <2>2, <2>4, <2>5
<1>5. Pow(b, 1) = b
  <2>1. Pow(b, 0 + 1) = Pow(b, 0) * b
    BY <1>4
  <2> QED
    BY <1>3, <2>1
<1> QED
  BY <1>3, <1>4, <1>5

LEMMA PowPlus ==
  ASSUME NEW b \in Nat, NEW m \in Nat
  PROVE  \A n \in Nat : Pow(b, m + n) = Pow(b, m) * Pow(b, n)
<1> DEFINE T == {n \in Nat : Pow(b, m + n) = Pow(b, m) * Pow(b, n)}
<1>1. 0 \in T
  BY PowNext
<1>2. ASSUME NEW n \in Nat, n \in T PROVE n + 1 \in T
  <2>1. m + n \in Nat /\ m + (n + 1) = (m + n) + 1
    OBVIOUS
  <2>2. Pow(b, m + (n + 1)) = Pow(b, m + n) * b
    BY <2>1, PowNext
  <2>3. Pow(b, n + 1) = Pow(b, n) * b /\ Pow(b, m) \in Nat /\ Pow(b, n) \in Nat
    BY PowNext
  <2>4. \A x, y \in Nat : (x * y) * b = x * (y * b)
    BY Z3
  <2> QED
    BY <1>2, <2>2, <2>3, <2>4
<1> HIDE DEF T
<1>3. \A n \in Nat : n \in T
  BY <1>1, <1>2, Induction
<1> QED
  BY <1>3 DEF T

LEMMA PowTimes ==
  ASSUME NEW a \in Nat, NEW b \in Nat
  PROVE  \A n \in Nat : a * b \in Nat /\ Pow(a * b, n) = Pow(a, n) * Pow(b, n)
<1> DEFINE T == {n \in Nat : Pow(a * b, n) = Pow(a, n) * Pow(b, n)}
<1>0. a * b \in Nat
  BY Z3
<1>1. 0 \in T
  BY <1>0, PowNext
<1>2. ASSUME NEW n \in Nat, n \in T PROVE n + 1 \in T
  <2>1. Pow(a * b, n + 1) = Pow(a * b, n) * (a * b)
    BY <1>0, PowNext
  <2>2. /\ Pow(a, n + 1) = Pow(a, n) * a /\ Pow(b, n + 1) = Pow(b, n) * b
        /\ Pow(a, n) \in Nat /\ Pow(b, n) \in Nat
    BY PowNext
  <2>3. \A x, y \in Nat : (x * y) * (a * b) = (x * a) * (y * b)
    BY Z3
  <2> QED
    BY <1>2, <2>1, <2>2, <2>3
<1> HIDE DEF T
<1>3. \A n \in Nat : n \in T
  BY <1>1, <1>2, Induction
<1> QED
  BY <1>0, <1>3 DEF T

LEMMA PowMonotone ==
  ASSUME NEW a \in Nat, NEW b \in Nat, a <= b
  PROVE  \A n \in Nat : Pow(a, n) <= Pow(b, n)
<1> DEFINE T == {n \in Nat : Pow(a, n) <= Pow(b, n)}
<1>1. 0 \in T
  BY PowNext
<1>2. ASSUME NEW n \in Nat, n \in T PROVE n + 1 \in T
  <2>1. /\ Pow(a, n + 1) = Pow(a, n) * a /\ Pow(b, n + 1) = Pow(b, n) * b
        /\ Pow(a, n) \in Nat /\ Pow(b, n) \in Nat
    BY PowNext
  <2>2. \A x, y \in Nat : x <= y => x * a <= y * b
    BY Z3
  <2> QED
    BY <1>2, <2>1, <2>2
<1> HIDE DEF T
<1>3. \A n \in Nat : n \in T
  BY <1>1, <1>2, Induction
<1> QED
  BY <1>3 DEF T

LEMMA PowPositive ==
  ASSUME NEW b \in Nat \ {0}
  PROVE  \A n \in Nat : Pow(b, n) \in Nat \ {0}
<1> DEFINE T == {n \in Nat : Pow(b, n) \in Nat \ {0}}
<1>1. 0 \in T
  BY PowNext
<1>2. ASSUME NEW n \in Nat, n \in T PROVE n + 1 \in T
  <2>1. Pow(b, n + 1) = Pow(b, n) * b
    BY PowNext
  <2>2. \A x \in Nat \ {0} : x * b \in Nat \ {0}
    BY Z3
  <2> QED
    BY <1>2, <2>1, <2>2
<1> HIDE DEF T
<1>3. \A n \in Nat : n \in T
  BY <1>1, <1>2, Induction
<1> QED
  BY <1>3 DEF T

-----------------------------------------------------------------------------
(***************************************************************************)
(* The loop                                                                *)
(***************************************************************************)
Square(b) == TryMul(b, b, RateMax)

\* What a turn makes of the result, when e is left of the exponent.
Times(r, e, b) == IF e % 2 = 1 THEN TryMul(r, b, RateMax) ELSE r

Turned(f, s) ==
  IF s[1] = 0 THEN s[3]
  ELSE IF Square(s[2]) = Err THEN Err
  ELSE f[<<s[1] \div 2, Square(s[2]), Times(s[3], s[1] \div 2, Square(s[2]))>>]

IsLoop(f) == f = [s \in Nat \X Int \X Int |-> Turned(f, s)]

Loop == CHOOSE f : IsLoop(f)

LEMMA PowerIsLoop ==
  ASSUME NEW b, b # Err, NEW n
  PROVE  TryPow(b, n) = Loop[<<n, b, IF n % 2 = 1 THEN b ELSE One>>]
  BY DEF TryPow, Loop, IsLoop, Turned, Square, Times

LEMMA Halves ==
  ASSUME NEW e \in Nat
  PROVE  /\ e \div 2 \in Nat /\ e % 2 \in {0, 1}
         /\ e = 2 * (e \div 2) + (e % 2)
         /\ e # 0 => e \div 2 < e
  BY SMT

\* Induction along the exponents of the loop.
LEMMA HalvingInduction ==
  ASSUME NEW T, 0 \in T, \A e \in Nat \ {0} : e \div 2 \in T => e \in T
  PROVE  \A e \in Nat : e \in T
<1> SUFFICES ASSUME NEW k \in Nat, k \notin T PROVE FALSE
  OBVIOUS
<1>1. PICK e \in Nat \ T : \A m \in Nat \ T : e <= m
  BY LeastNatural
<1>2. e \in Nat \ {0} /\ e \div 2 \in Nat /\ e \div 2 < e
  BY <1>1, Halves
<1>3. e \div 2 \in T
  BY <1>1, <1>2
<1> QED
  BY <1>1, <1>2, <1>3

\* What a product of the loop may be.
LEMMA ProductRange ==
  ASSUME NEW a \in Int, NEW b \in Int
  PROVE  /\ TryMul(a, b, RateMax) \in (0..RateMax) \cup {Err}
         /\ TryMul(a, b, RateMax) # Err =>
              /\ a * b \in 0..RateMax /\ TryMul(a, b, RateMax) = (a * b) \div Wad
              /\ a # Err /\ b # Err
         /\ a # Err /\ b # Err /\ a * b \in 0..RateMax => TryMul(a, b, RateMax) # Err
<1> DEFINE x == a * b
<1>1. x \in Int
  BY Z3
<1>2. RateMax \in Nat /\ Wad \in Nat \ {0}
  BY Widths DEF RateMax
<1> HIDE DEF x
<1>3. x \in 0..RateMax => x \div Wad \in 0..RateMax
  <2> SUFFICES ASSUME x \in 0..RateMax PROVE x \div Wad \in 0..RateMax
    OBVIOUS
  <2>1. \A y \in Nat, w \in Nat \ {0} : y \div w \in Nat /\ y \div w <= y
    BY Z3
  <2>2. x \div Wad \in Nat /\ x \div Wad <= x
    BY <1>2, <2>1
  <2> QED
    BY <1>2, <2>2
<1>4. TryMul(a, b, RateMax) = IF Err \in {a, b} \/ Checked(x, RateMax) = Err THEN Err ELSE x \div Wad
  BY DEF TryMul, x
<1>5. Checked(x, RateMax) # Err <=> x \in 0..RateMax
  BY <1>1, <1>2, CheckedResult
<1>6. x \in 0..RateMax => x \div Wad # Err
  BY <1>2, <1>3 DEF Err
<1> QED
  BY <1>3, <1>4, <1>5, <1>6 DEF x

LEMMA TurnTyped ==
  ASSUME NEW e \in Nat, NEW b \in Int, NEW r \in Int
  PROVE  Square(b) \in Int /\ Times(r, e, Square(b)) \in Int
<1>0. Err \in Int /\ \A x : x \in (0..RateMax) \cup {Err} => x \in Int
  BY Widths DEF Err, RateMax
<1>1. Square(b) \in Int
  BY <1>0, ProductRange DEF Square
<1> QED
  BY <1>0, <1>1, ProductRange DEF Times

\* The loop on exponents up to n.
Turns(n) == (0..n) \X Int \X Int

IsLoopTo(n, f) == f = [s \in Turns(n) |-> Turned(f, s)]

LEMMA TurnsDown ==
  ASSUME NEW n \in Nat, NEW s \in Turns(n), s[1] # 0
  PROVE  /\ <<s[1] \div 2, Square(s[2]), Times(s[3], s[1] \div 2, Square(s[2]))>> \in Turns(n)
         /\ s[1] \div 2 < s[1]
<1>1. s[1] \in 0..n /\ s[2] \in Int /\ s[3] \in Int
  BY DEF Turns
<1>2. s[1] \div 2 \in 0..n /\ s[1] \div 2 < s[1] /\ s[1] \div 2 \in Nat
  BY <1>1, Halves
<1>3. Square(s[2]) \in Int /\ Times(s[3], s[1] \div 2, Square(s[2])) \in Int
  BY <1>1, <1>2, TurnTyped
<1> QED
  BY <1>2, <1>3 DEF Turns

LEMMA LoopsToExist == \A n \in Nat : \E f : IsLoopTo(n, f)
<1> DEFINE T == {n \in Nat : \E f : IsLoopTo(n, f)}
<1>1. 0 \in T
  <2> DEFINE f == [s \in Turns(0) |-> s[3]]
  <2>1. \A s \in Turns(0) : s[1] = 0
    BY DEF Turns
  <2>2. \A s \in Turns(0) : f[s] = Turned(f, s)
    BY <2>1 DEF Turned
  <2>3. f = [s \in Turns(0) |-> f[s]]
    OBVIOUS
  <2> HIDE DEF f
  <2>4. IsLoopTo(0, f)
    BY <2>2, <2>3 DEF IsLoopTo
  <2> QED
    BY <2>4
<1>2. ASSUME NEW n \in Nat, n \in T PROVE n + 1 \in T
  <2>1. PICK f : IsLoopTo(n, f)
    BY <1>2
  <2> DEFINE g == [s \in Turns(n + 1) |-> Turned(f, s)]
  <2>2. ASSUME NEW s \in Turns(n) PROVE s \in Turns(n + 1) /\ g[s] = f[s]
    <3>1. s \in Turns(n + 1)
      BY DEF Turns
    <3> QED
      BY <2>1, <3>1 DEF IsLoopTo
  <2>3. ASSUME NEW s \in Turns(n + 1) PROVE Turned(f, s) = Turned(g, s)
    <3>1. CASE s[1] = 0
      BY <3>1 DEF Turned
    <3>2. CASE s[1] # 0
      <4> DEFINE t == <<s[1] \div 2, Square(s[2]), Times(s[3], s[1] \div 2, Square(s[2]))>>
      <4>1. t \in Turns(n + 1) /\ s[1] \div 2 < s[1] /\ s[1] \in 0..(n + 1)
        BY <3>2, TurnsDown DEF Turns
      <4>2. t \in Turns(n)
        <5>1. t[1] = s[1] \div 2 /\ s[1] \div 2 \in Nat
          BY <4>1, Halves
        <5> QED
          BY <4>1, <5>1 DEF Turns
      <4>3. f[t] = g[t]
        BY <2>2, <4>2
      <4> HIDE DEF g
      <4> QED
        BY <4>3 DEF Turned
    <3> QED
      BY <3>1, <3>2
  <2>4. g = [s \in Turns(n + 1) |-> Turned(g, s)]
    <3>1. \A s \in Turns(n + 1) : g[s] = Turned(g, s)
      BY <2>3
    <3> QED
      BY <3>1
  <2> HIDE DEF g
  <2>5. IsLoopTo(n + 1, g)
    BY <2>4 DEF IsLoopTo
  <2> QED
    BY <2>5
<1> HIDE DEF T
<1>3. \A n \in Nat : n \in T
  BY <1>1, <1>2, Induction
<1> QED
  BY <1>3 DEF T

LEMMA LoopsAgree ==
  ASSUME NEW m \in Nat, NEW n \in Nat, NEW f, IsLoopTo(m, f), NEW g, IsLoopTo(n, g)
  PROVE  \A s \in Turns(m) \cap Turns(n) : f[s] = g[s]
<1> DEFINE T == {e \in Nat : \A s \in Turns(m) \cap Turns(n) : s[1] = e => f[s] = g[s]}
<1>0. ASSUME NEW s \in Turns(m) \cap Turns(n)
      PROVE  f[s] = Turned(f, s) /\ g[s] = Turned(g, s) /\ s[1] \in Nat
  BY DEF IsLoopTo, Turns
<1>1. 0 \in T
  BY <1>0 DEF Turned
<1>2. ASSUME NEW e \in Nat \ {0}, e \div 2 \in T PROVE e \in T
  <2> SUFFICES ASSUME NEW s \in Turns(m) \cap Turns(n), s[1] = e PROVE f[s] = g[s]
    OBVIOUS
  <2> DEFINE t == <<s[1] \div 2, Square(s[2]), Times(s[3], s[1] \div 2, Square(s[2]))>>
  <2>1. t \in Turns(m) /\ t \in Turns(n)
    BY TurnsDown
  <2>2. t[1] = e \div 2
    OBVIOUS
  <2>3. f[t] = g[t]
    BY <1>2, <2>1, <2>2
  <2> QED
    BY <1>0, <2>3 DEF Turned
<1> HIDE DEF T
<1>3. \A e \in Nat : e \in T
  BY <1>1, <1>2, HalvingInduction
<1> QED
  BY <1>0, <1>3 DEF T

LEMMA LoopExists == IsLoop(Loop)
<1> DEFINE To(n) == CHOOSE f : IsLoopTo(n, f)
           f == [s \in Nat \X Int \X Int |-> To(s[1])[s]]
<1>1. \A n \in Nat : IsLoopTo(n, To(n))
  BY LoopsToExist
<1> HIDE DEF To
<1>2. ASSUME NEW s \in Nat \X Int \X Int PROVE f[s] = Turned(f, s)
  <2> DEFINE n == s[1]
             t == <<s[1] \div 2, Square(s[2]), Times(s[3], s[1] \div 2, Square(s[2]))>>
  <2>1. n \in Nat /\ s \in Turns(n) /\ IsLoopTo(n, To(n))
    BY <1>1 DEF Turns
  <2>2. f[s] = Turned(To(n), s)
    BY <2>1 DEF IsLoopTo
  <2>3. CASE n = 0
    BY <2>2, <2>3 DEF Turned
  <2>4. CASE n # 0
    <3>1. t \in Turns(n) /\ t[1] = n \div 2 /\ n \div 2 \in Nat
      BY <2>1, <2>4, TurnsDown, Halves
    <3>2. t \in Turns(n \div 2) /\ t \in Nat \X Int \X Int
      BY <3>1 DEF Turns
    <3>3. IsLoopTo(n \div 2, To(n \div 2))
      BY <1>1, <3>1
    <3>4. To(n)[t] = To(n \div 2)[t]
      BY <2>1, <3>1, <3>2, <3>3, LoopsAgree
    <3>5. f[t] = To(n)[t]
      BY <3>1, <3>2, <3>4
    <3> HIDE DEF f
    <3> QED
      BY <2>2, <3>5 DEF Turned
  <2> QED
    BY <2>3, <2>4
<1>3. f = [s \in Nat \X Int \X Int |-> Turned(f, s)]
  BY <1>2
<1> HIDE DEF f
<1>4. IsLoop(f)
  BY <1>3 DEF IsLoop
<1> QED
  BY <1>4 DEF Loop

\* A turn of the loop.
LEMMA LoopTurns ==
  ASSUME NEW e \in Nat, NEW b \in Int, NEW r \in Int
  PROVE  Loop[<<e, b, r>>] =
           IF e = 0 THEN r
           ELSE IF Square(b) = Err THEN Err
           ELSE Loop[<<e \div 2, Square(b), Times(r, e \div 2, Square(b))>>]
<1>1. Loop[<<e, b, r>>] = Turned(Loop, <<e, b, r>>)
  BY LoopExists DEF IsLoop
<1> QED
  BY <1>1 DEF Turned

LEMMA TimesErr ==
  ASSUME NEW e \in Nat, NEW b \in Int
  PROVE  Times(Err, e, b) = Err
  BY DEF Times, TryMul

\* An overflow in the result is not forgotten.
LEMMA LoopOfErr == \A e \in Nat : \A b \in Int : Loop[<<e, b, Err>>] = Err
<1> DEFINE T == {e \in Nat : \A b \in Int : Loop[<<e, b, Err>>] = Err}
<1>0. Err \in Int
  BY DEF Err
<1>1. 0 \in T
  BY <1>0, LoopTurns
<1>2. ASSUME NEW e \in Nat \ {0}, e \div 2 \in T PROVE e \in T
  <2> SUFFICES ASSUME NEW b \in Int PROVE Loop[<<e, b, Err>>] = Err
    OBVIOUS
  <2>1. e \div 2 \in Nat /\ Square(b) \in Int
    BY Halves, TurnTyped, <1>0
  <2>2. Times(Err, e \div 2, Square(b)) = Err
    BY <2>1, TimesErr
  <2>3. Loop[<<e \div 2, Square(b), Err>>] = Err
    BY <1>2, <2>1
  <2> QED
    BY <1>0, <2>2, <2>3, LoopTurns
<1> HIDE DEF T
<1>3. \A e \in Nat : e \in T
  BY <1>1, <1>2, HalvingInduction
<1> QED
  BY <1>3 DEF T

-----------------------------------------------------------------------------
(***************************************************************************)
(* What a turn rounds                                                      *)
(***************************************************************************)

\* A product of the loop is the exact one, scaled back and rounded down.
LEMMA ProductTruncated ==
  ASSUME NEW a \in Nat, NEW b \in Nat, TryMul(a, b, RateMax) # Err,
         NEW c, c = TryMul(a, b, RateMax)
  PROVE  c \in Nat /\ a * b \in Nat /\ c * Wad <= a * b /\ a * b < c * Wad + Wad
<1>1. c = (a * b) \div Wad /\ Wad \in Nat \ {0}
  BY ProductRange, Widths
<1>2. a * b \in Nat
  BY Z3
<1>3. \A y \in Nat, w \in Nat \ {0} :
        y \div w \in Nat /\ (y \div w) * w <= y /\ y < (y \div w) * w + w
  BY Z3
<1> QED
  BY <1>1, <1>2, <1>3

\* What a product of the loop is when it is no error.
Truncated(a, b, c) == c * Wad <= a * b /\ a * b < c * Wad + Wad

\* A turn that fails nowhere, from e, b and r to h, q and t.
Turn(e, b, r, h, q, t) ==
  /\ h = e \div 2 /\ Truncated(b, b, q)
  /\ \/ h = 2 * (h \div 2) /\ t = r
     \/ h = 2 * (h \div 2) + 1 /\ Truncated(r, q, t)

LEMMA GoodTurn ==
  ASSUME NEW e \in Nat \ {0}, NEW b \in Nat, NEW r \in Nat, Loop[<<e, b, r>>] # Err
  PROVE  \E h, q, t \in Nat :
           Turn(e, b, r, h, q, t) /\ Loop[<<e, b, r>>] = Loop[<<h, q, t>>]
<1> PICK h, q, t : h = e \div 2 /\ q = Square(b) /\ t = Times(r, h, q)
  OBVIOUS
<1>1. h \in Nat /\ h \div 2 \in Nat /\ h % 2 \in {0, 1} /\ h = 2 * (h \div 2) + (h % 2)
  BY Halves
<1>2. q # Err /\ Loop[<<e, b, r>>] = Loop[<<h, q, t>>]
  BY LoopTurns
<1>3. q \in Nat /\ Truncated(b, b, q)
  BY <1>2, ProductTruncated DEF Square, Truncated
<1>4. t # Err
  BY <1>1, <1>2, <1>3, LoopOfErr
<1>5. CASE h % 2 = 1
  <2>1. t = TryMul(r, q, RateMax)
    BY <1>5 DEF Times
  <2>2. t \in Nat /\ Truncated(r, q, t)
    BY <1>3, <1>4, <2>1, ProductTruncated DEF Truncated
  <2>3. Turn(e, b, r, h, q, t)
    BY <1>1, <1>3, <1>5, <2>2 DEF Turn
  <2> QED
    BY <1>1, <1>2, <1>3, <2>2, <2>3
<1>6. CASE h % 2 = 0
  <2>1. t = r
    BY <1>6 DEF Times
  <2>2. Turn(e, b, r, h, q, t)
    BY <1>1, <1>3, <1>6, <2>1 DEF Turn
  <2> QED
    BY <1>1, <1>2, <1>3, <2>1, <2>2
<1> QED
  BY <1>1, <1>5, <1>6

\* The powers of a turn.
LEMMA TurnPowers ==
  ASSUME NEW b \in Nat, NEW h \in Nat, NEW k \in Nat
  PROVE  /\ Pow(b, h) \in Nat /\ Pow(b, 2 * k) \in Nat
         /\ h = 2 * k => Pow(b, h) = Pow(b, 2 * k)
         /\ h = 2 * k + 1 => Pow(b, h) = Pow(b, 2 * k) * b
         /\ Pow(b, 2 * h) = Pow(b, h) * Pow(b, h)
         /\ b * b \in Nat /\ Pow(b, 2 * h) = Pow(b * b, h)
<1>1. 2 * k \in Nat /\ 2 * h = h + h
  OBVIOUS
<1>2. Pow(b, 2 * h) = Pow(b, h) * Pow(b, h)
  BY <1>1, PowPlus
<1>3. b * b \in Nat /\ Pow(b * b, h) = Pow(b, h) * Pow(b, h)
  BY PowTimes
<1> QED
  BY <1>1, <1>2, <1>3, PowNext

-----------------------------------------------------------------------------
(***************************************************************************)
(* The power is never above the exact one: x, the result of the loop on e, *)
(* b and r, is at most r * (b / Wad)^(2 * (e \div 2)).                     *)
(***************************************************************************)
LEMMA BelowStep ==
  ASSUME NEW e \in Nat, NEW b \in Nat, NEW r \in Nat,
         NEW h \in Nat, NEW q \in Nat, NEW t \in Nat, Turn(e, b, r, h, q, t),
         NEW x \in Nat,
         x * Pow(Wad, 2 * (h \div 2)) <= t * Pow(q, 2 * (h \div 2))
  PROVE  x * Pow(Wad, 2 * h) <= r * Pow(b, 2 * h)
<1> PICK k \in Nat : k = h \div 2
  BY Halves
<1>0. /\ Wad \in Nat
      /\ q * Wad <= b * b
      /\ (h = 2 * k /\ t = r) \/ (h = 2 * k + 1 /\ t * Wad <= r * q)
  BY Widths DEF Turn, Truncated
<1> DEFINE wk == Pow(Wad, 2 * k)
           qk == Pow(q, 2 * k)
           wh == Pow(Wad, h)
           qh == Pow(q, h)
<1>1. wk \in Nat /\ qk \in Nat /\ wh \in Nat /\ qh \in Nat
  BY <1>0, TurnPowers
<1>2. x * wh <= r * qh
  <2>1. CASE h = 2 * k /\ t = r
    BY <1>0, <2>1
  <2>2. CASE h = 2 * k + 1 /\ t * Wad <= r * q
    <3>1. wh = wk * Wad /\ qh = qk * q
      <4>1. h = 2 * k + 1 /\ h \in Nat /\ k \in Nat /\ q \in Nat /\ Wad \in Nat
        BY <2>2, Widths
      <4> QED
        BY ONLY <4>1, TurnPowers
    <3>2. \A u, v \in Nat : x * u <= t * v => (x * u) * Wad <= (t * v) * Wad
      BY <1>0, Z3
    <3>3. \A v \in Nat : (t * v) * Wad = (t * Wad) * v /\ (t * Wad) * v <= (r * q) * v
      BY <1>0, <2>2, Z3
    <3>4. \A u, v \in Nat : (x * u) * Wad = x * (u * Wad) /\ (r * q) * v = r * (v * q)
      BY <1>0, Z3
    <3>5. /\ (x * wk) * Wad <= (t * qk) * Wad
          /\ (t * qk) * Wad <= (r * q) * qk
      BY <1>1, <3>2, <3>3
    <3>6. (x * wk) * Wad = x * wh /\ (r * q) * qk = r * qh
      BY <1>1, <3>1, <3>4
    <3>7. (x * wk) * Wad \in Nat /\ (t * qk) * Wad \in Nat /\ (r * q) * qk \in Nat
      BY <1>0, <1>1, Z3
    <3> QED
      BY <3>5, <3>6, <3>7
  <2> QED
    BY <1>0, <2>1, <2>2
<1>3. q * Wad \in Nat /\ b * b \in Nat
  BY <1>0, Z3
<1>4. qh * wh <= Pow(b, 2 * h) /\ Pow(b, 2 * h) \in Nat /\ Pow(Wad, 2 * h) = wh * wh
  <2>1. Pow(q * Wad, h) = qh * wh
    BY <1>0, PowTimes
  <2>2. Pow(q * Wad, h) <= Pow(b * b, h)
    BY <1>0, <1>3, PowMonotone
  <2>3. Pow(b, 2 * h) = Pow(b * b, h)
    BY TurnPowers
  <2>4. Pow(b * b, h) \in Nat
    BY <1>3, PowNext
  <2>5. Pow(Wad, 2 * h) = wh * wh
    <3>1. Wad \in Nat /\ h \in Nat
      BY <1>0
    <3> QED
      BY ONLY <3>1, TurnPowers
  <2> HIDE DEF wh, qh
  <2> QED
    BY <2>1, <2>2, <2>3, <2>4, <2>5
<1>5. \A u, v, y \in Nat : x * u <= r * v /\ v * u <= y => x * (u * u) <= r * y
  <2> SUFFICES ASSUME NEW u \in Nat, NEW v \in Nat, NEW y \in Nat,
                      x * u <= r * v, v * u <= y
               PROVE  x * (u * u) <= r * y
    OBVIOUS
  <2>1. (x * u) * u <= (r * v) * u
    BY Z3
  <2>2. r * (v * u) <= r * y
    BY Z3
  <2>3. (x * u) * u = x * (u * u) /\ (r * v) * u = r * (v * u)
    BY Z3
  <2>4. x * (u * u) \in Nat /\ r * (v * u) \in Nat /\ r * y \in Nat
    BY Z3
  <2> QED
    BY <2>1, <2>2, <2>3, <2>4
<1> QED
  BY <1>1, <1>2, <1>4, <1>5

LEMMA LoopBelow ==
  \A e \in Nat : \A b, r \in Nat :
    Loop[<<e, b, r>>] # Err =>
      /\ Loop[<<e, b, r>>] \in Nat
      /\ Loop[<<e, b, r>>] * Pow(Wad, 2 * (e \div 2)) <= r * Pow(b, 2 * (e \div 2))
<1> DEFINE Claim(e, b, r) ==
             Loop[<<e, b, r>>] # Err =>
               /\ Loop[<<e, b, r>>] \in Nat
               /\ Loop[<<e, b, r>>] * Pow(Wad, 2 * (e \div 2)) <= r * Pow(b, 2 * (e \div 2))
           T == {e \in Nat : \A b, r \in Nat : Claim(e, b, r)}
<1>1. 0 \in T
  <2> SUFFICES ASSUME NEW b \in Nat, NEW r \in Nat PROVE Claim(0, b, r)
    OBVIOUS
  <2>1. Loop[<<0, b, r>>] = r
    <3>1. 0 \in Nat /\ b \in Int /\ r \in Int
      OBVIOUS
    <3> QED
      BY ONLY <3>1, LoopTurns
  <2>2. 2 * (0 \div 2) = 0
    BY SMT
  <2>3. Pow(Wad, 0) = 1 /\ Pow(b, 0) = 1
    BY Widths, PowNext
  <2> QED
    BY <2>1, <2>2, <2>3
<1>2. ASSUME NEW e \in Nat \ {0}, e \div 2 \in T PROVE e \in T
  <2> SUFFICES ASSUME NEW b \in Nat, NEW r \in Nat, Loop[<<e, b, r>>] # Err
               PROVE  Claim(e, b, r)
    OBVIOUS
  <2>1. PICK h, q, t \in Nat :
          Turn(e, b, r, h, q, t) /\ Loop[<<e, b, r>>] = Loop[<<h, q, t>>]
    BY GoodTurn
  <2>2. h = e \div 2
    BY <2>1 DEF Turn
  <2> PICK x : x = Loop[<<h, q, t>>]
    OBVIOUS
  <2>3. x \in Nat /\ x * Pow(Wad, 2 * (h \div 2)) <= t * Pow(q, 2 * (h \div 2))
    BY <1>2, <2>1, <2>2
  <2>4. x * Pow(Wad, 2 * h) <= r * Pow(b, 2 * h)
    BY <2>1, <2>3, BelowStep
  <2> QED
    BY <2>1, <2>2, <2>3, <2>4
<1> HIDE DEF T
<1>3. \A e \in Nat : e \in T
  BY <1>1, <1>2, HalvingInduction
<1> QED
  BY <1>3 DEF T

-----------------------------------------------------------------------------
(***************************************************************************)
(* Slot by slot, most stays above the exact power: above                   *)
(* Wad * (base / Wad)^slots.                                               *)
(***************************************************************************)
MostCovers ==
  /\ base \in 0..RateMax /\ slots \in Nat /\ most \in Nat
  /\ Pow(base, slots) * Wad <= most * Pow(Wad, slots)

\* A slot rounds up.
LEMMA UpRoundsUp ==
  ASSUME NEW b \in Nat, NEW m \in Nat, NEW u, u = (m * b + Wad - 1) \div Wad
  PROVE  u \in Nat /\ m * b \in Nat /\ m * b <= u * Wad /\ u * Wad <= m * b + Wad - 1
<1>1. m * b \in Nat
  BY Z3
<1>2. \A z \in Nat, w \in Nat \ {0} :
        LET v == (z + w - 1) \div w IN v \in Nat /\ z <= v * w /\ v * w <= z + w - 1
  BY Z3
<1> QED
  BY <1>1, <1>2, Widths

LEMMA SlotKeepsCover == MostCovers /\ [SlotNext]_slotVars => MostCovers'
<1> SUFFICES ASSUME MostCovers, [SlotNext]_slotVars PROVE MostCovers'
  OBVIOUS
<1>0. RateMax \in Nat /\ Wad \in Nat
  BY Widths DEF RateMax
<1>1. CASE UNCHANGED slotVars
  BY <1>1 DEF slotVars, MostCovers
<1>2. CASE Slot
  <2> PICK b, n, m, u : b = base /\ n = slots /\ m = most /\ u = most'
    OBVIOUS
  <2>1. b \in Nat /\ n \in Nat /\ m \in Nat /\ base' = b /\ slots' = n + 1
    BY <1>0, <1>2 DEF MostCovers, Slot
  <2>2. u = (m * b + Wad - 1) \div Wad
    BY <1>2 DEF Slot, Up
  <2>3. u \in Nat /\ m * b <= u * Wad
    BY <2>1, <2>2, UpRoundsUp
  <2> DEFINE p == Pow(b, n)
             w == Pow(Wad, n)
  <2>4. p \in Nat /\ w \in Nat /\ Pow(b, n + 1) = p * b /\ Pow(Wad, n + 1) = w * Wad
    BY <1>0, <2>1, PowNext
  <2>5. p * Wad <= m * w
    BY DEF MostCovers
  <2> HIDE DEF p, w
  <2>6. (p * b) * Wad <= u * (w * Wad)
    <3>1. (p * Wad) * b <= (m * w) * b
      BY <1>0, <2>1, <2>4, <2>5, Z3
    <3>2. m * b \in Nat /\ u * Wad \in Nat
      <4>1. \A y, z \in Nat : y * z \in Nat
        BY Z3
      <4> QED
        BY <1>0, <2>1, <2>3, <4>1
    <3>3. (m * b) * w <= (u * Wad) * w
      BY <2>3, <2>4, <3>2, ProductMonotone
    <3>4. (p * Wad) * b = (p * b) * Wad /\ (m * w) * b = (m * b) * w
      BY <1>0, <2>1, <2>4, Z3
    <3>5. (u * Wad) * w = u * (w * Wad)
      BY <1>0, <2>3, <2>4, Z3
    <3>6. \A y, z, v \in Nat : (y * z) * v \in Nat /\ y * (z * v) \in Nat
      BY Z3
    <3>7. (p * b) * Wad \in Nat /\ (m * b) * w \in Nat /\ u * (w * Wad) \in Nat
      BY <1>0, <2>1, <2>3, <2>4, <3>6
    <3> QED
      BY <3>1, <3>3, <3>4, <3>5, <3>7
  <2> QED
    BY <2>1, <2>3, <2>4, <2>6 DEF MostCovers
<1> QED
  BY <1>1, <1>2 DEF SlotNext

LEMMA SlotInitCovers == SlotInit => MostCovers
<1> SUFFICES ASSUME SlotInit PROVE MostCovers
  OBVIOUS
<1>1. base \in 0..RateMax /\ slots = 0 /\ most = Wad /\ Wad \in Nat /\ RateMax \in Nat
  BY SlotAssumption, Widths DEF SlotInit, One, RateMax
<1>2. base \in Nat
  BY <1>1
<1>3. Pow(base, 0) = 1 /\ Pow(Wad, 0) = 1
  BY <1>1, <1>2, PowNext
<1> QED
  BY <1>1, <1>3 DEF MostCovers

\* The loop that try_pow starts, by the last bit of the exponent.
LEMMA PowerStarts ==
  ASSUME MostCovers
  PROVE  /\ base \in Nat /\ Power = Loop[<<slots, base, IF slots % 2 = 1 THEN base ELSE One>>]
         /\ slots \div 2 \in Nat
         /\ \/ slots % 2 = 0 /\ slots = 2 * (slots \div 2)
            \/ slots % 2 = 1 /\ slots = 2 * (slots \div 2) + 1
<1>1. base \in Nat /\ base # Err /\ slots \in Nat
  BY Widths DEF MostCovers, Err, RateMax
<1> QED
  BY <1>1, PowerIsLoop, Halves DEF Power

LEMMA CoverIsNeverOvercharged == MostCovers => NeverOvercharged
<1> SUFFICES ASSUME MostCovers, Power # Err PROVE Power <= most
  BY DEF NeverOvercharged
<1> PICK b, n, m, x : b = base /\ n = slots /\ m = most /\ x = Power
  OBVIOUS
<1> DEFINE h == n \div 2
           r == IF n % 2 = 1 THEN b ELSE One
<1>1. /\ b \in Nat /\ n \in Nat /\ m \in Nat /\ Wad \in Nat \ {0}
      /\ x = Loop[<<n, b, r>>] /\ x # Err /\ h \in Nat
      /\ \/ r = Wad /\ n = 2 * h
         \/ r = b /\ n = 2 * h + 1
  BY PowerStarts, Widths DEF MostCovers, One
<1>2. r \in Nat
  BY <1>1
<1>3. x \in Nat /\ x * Pow(Wad, 2 * h) <= r * Pow(b, 2 * h)
  BY <1>1, <1>2, LoopBelow
<1> DEFINE w == Pow(Wad, 2 * h)
           p == Pow(b, 2 * h)
<1>4. Pow(b, n) * Wad <= m * Pow(Wad, n)
  BY DEF MostCovers
<1>5. w \in Nat \ {0} /\ p \in Nat
  <2> HIDE DEF h
  <2>1. 2 * h \in Nat
    BY <1>1
  <2> QED
    BY <1>1, <2>1, PowNext, PowPositive
<1> HIDE DEF w, p, h, r
<1>6. CASE r = Wad /\ n = 2 * h
  <2>1. x * w <= Wad * p /\ p * Wad <= m * w
    BY <1>3, <1>4, <1>6 DEF w, p
  <2>2. x * w <= m * w
    <3>1. Wad * p = p * Wad /\ x * w \in Nat /\ p * Wad \in Nat /\ m * w \in Nat
      BY <1>1, <1>3, <1>5, Z3
    <3> QED
      BY <2>1, <3>1
  <2>3. \A y, z \in Nat, v \in Nat \ {0} : y * v <= z * v => y <= z
    BY Z3
  <2> QED
    BY <1>1, <1>3, <1>5, <2>2, <2>3
<1>7. CASE r = b /\ n = 2 * h + 1
  <2>1. Pow(b, n) = p * b /\ Pow(Wad, n) = w * Wad
    <3>1. 2 * h \in Nat /\ Wad \in Nat
      BY <1>1
    <3> QED
      BY <1>1, <1>7, <3>1, PowNext, ZenonT(60) DEF p, w
  <2>2. x * w <= b * p /\ (p * b) * Wad <= m * (w * Wad)
    BY <1>3, <1>4, <1>7, <2>1 DEF w, p
  <2>3. b * p = p * b /\ (x * w) * Wad <= (b * p) * Wad
    BY <1>1, <1>3, <1>5, <2>2, Z3
  <2>4. (x * w) * Wad = x * (w * Wad) /\ w * Wad \in Nat \ {0}
    BY <1>1, <1>3, <1>5, Z3
  <2>5. x * (w * Wad) \in Nat /\ (p * b) * Wad \in Nat /\ m * (w * Wad) \in Nat
    BY <1>1, <1>3, <1>5, Z3
  <2>6. x * (w * Wad) <= m * (w * Wad)
    BY <2>2, <2>3, <2>4, <2>5
  <2>7. \A y, z \in Nat, v \in Nat \ {0} : y * v <= z * v => y <= z
    BY Z3
  <2> QED
    BY <1>1, <1>3, <2>4, <2>6, <2>7
<1> QED
  BY <1>1, <1>6, <1>7

(***************************************************************************)
(* try_pow is never above the exact power, for any base, any number of     *)
(* slots and any width: no debtor is charged more than compound interest.  *)
(***************************************************************************)
THEOREM InterestNeverOvercharged == SlotSpec => []NeverOvercharged
<1>1. SlotSpec => []MostCovers
  BY SlotInitCovers, SlotKeepsCover, PTL DEF SlotSpec
<1> QED
  BY <1>1, CoverIsNeverOvercharged, PTL

-----------------------------------------------------------------------------
(***************************************************************************)
(* The power loses little.  A product of numbers of at least one, rounded  *)
(* down, keeps the share (Wad - 1) / Wad of its value; a slot of most,     *)
(* rounded up, is within the share (Wad + 1) / Wad.                        *)
(***************************************************************************)
Less == Wad - 1
More == Wad + 1
Wad2 == Wad * Wad

LEMMA SharesTyped == Wad \in Nat \ {0} /\ Less \in Nat /\ More \in Nat \ {0} /\ Wad2 \in Nat \ {0}
<1>1. \A w \in Nat \ {0} : w * w \in Nat \ {0}
  BY Z3
<1> QED
  BY <1>1, Widths DEF Less, More, Wad2

LEMMA ProductLoses ==
  ASSUME NEW a \in Nat, NEW b \in Nat, NEW c \in Nat, a >= Wad, b >= Wad, Truncated(a, b, c)
  PROVE  c >= Wad /\ (a * b) * Less <= c * Wad2
<1>1. Wad \in Nat \ {0} /\ a * b < c * Wad + Wad
  BY Widths DEF Truncated
<1>2. PICK y \in Nat : y = a * b
  BY Z3
<1>3. Wad * Wad <= y
  BY <1>1, <1>2, Z3
<1>4. y < c * Wad + Wad
  BY <1>1, <1>2
<1>5. c >= Wad
  <2>1. \A w \in Nat \ {0} : w * w < c * w + w => w <= c
    BY Z3
  <2>2. Wad * Wad \in Nat /\ c * Wad \in Nat
    BY <1>1, Z3
  <2> QED
    BY <1>1, <1>3, <1>4, <2>1, <2>2
<1>6. y * (Wad - 1) <= c * (Wad * Wad)
  <2>1. \A w \in Nat \ {0} : w * w <= y /\ y < c * w + w => y * (w - 1) <= c * (w * w)
    <3> SUFFICES ASSUME NEW w \in Nat \ {0}, w * w <= y, y < c * w + w
                 PROVE  y * (w - 1) <= c * (w * w)
      OBVIOUS
    <3>1. PICK v \in Nat : v = c * w
      BY Z3
    <3>2. y + 1 <= v + w
      BY <3>1
    <3>3. (y + 1) * w <= (v + w) * w
      BY <3>1, <3>2, Z3
    <3>4. (y + 1) * w = y * w + w /\ (v + w) * w = v * w + w * w /\ y * (w - 1) = y * w - y
      BY <3>1, Z3
    <3>5. v * w = c * (w * w)
      BY <3>1, Z3
    <3>6. y * w \in Nat /\ v * w \in Nat /\ w * w \in Nat
      BY <3>1, Z3
    <3> QED
      BY <3>3, <3>4, <3>5, <3>6
  <2> QED
    BY <1>1, <1>3, <1>4, <2>1
<1> QED
  BY <1>2, <1>5, <1>6 DEF Less, Wad2

LEMMA AboveStep ==
  ASSUME NEW r \in Nat, NEW t \in Nat, NEW x \in Nat, NEW h \in Nat, NEW k \in Nat,
         NEW w \in Nat, NEW q \in Nat, NEW b \in Nat,
         b * b <= q * w,
         (h = 2 * k /\ t = r) \/ (h = 2 * k + 1 /\ r * q <= t * w),
         t * Pow(q, 2 * k) <= x * Pow(w, 2 * k)
  PROVE  r * Pow(b, 2 * h) <= x * Pow(w, 2 * h)
<1> DEFINE wk == Pow(w, 2 * k)
           qk == Pow(q, 2 * k)
           wh == Pow(w, h)
           qh == Pow(q, h)
<1>1. wk \in Nat /\ qk \in Nat /\ wh \in Nat /\ qh \in Nat
  BY TurnPowers
<1>2. r * qh <= x * wh
  <2>1. CASE h = 2 * k /\ t = r
    BY <2>1
  <2>2. CASE h = 2 * k + 1 /\ r * q <= t * w
    <3>1. wh = wk * w /\ qh = qk * q
      <4>1. h = 2 * k + 1 /\ h \in Nat /\ k \in Nat /\ q \in Nat /\ w \in Nat
        BY <2>2
      <4> QED
        BY ONLY <4>1, TurnPowers
    <3>2. \A u, v \in Nat : t * v <= x * u => (t * v) * w <= (x * u) * w
      BY Z3
    <3>3. \A v \in Nat : (r * q) * v <= (t * w) * v /\ (t * w) * v = (t * v) * w
      BY <2>2, Z3
    <3>4. \A u, v \in Nat : (x * u) * w = x * (u * w) /\ (r * q) * v = r * (v * q)
      BY Z3
    <3>5. /\ (t * qk) * w <= (x * wk) * w
          /\ (r * q) * qk <= (t * qk) * w
      BY <1>1, <3>2, <3>3
    <3>6. (x * wk) * w = x * wh /\ (r * q) * qk = r * qh
      BY <1>1, <3>1, <3>4
    <3>7. \A y, z, v \in Nat : (y * z) * v \in Nat
      BY Z3
    <3>8. (x * wk) * w \in Nat /\ (t * qk) * w \in Nat /\ (r * q) * qk \in Nat
      BY <1>1, <3>7
    <3> QED
      BY <3>5, <3>6, <3>8
  <2> QED
    BY <2>1, <2>2
<1>3. q * w \in Nat /\ b * b \in Nat
  BY Z3
<1>4. Pow(b, 2 * h) <= qh * wh /\ Pow(b, 2 * h) \in Nat /\ Pow(w, 2 * h) = wh * wh
  <2>1. Pow(q * w, h) = qh * wh
    BY PowTimes
  <2>2. Pow(b * b, h) <= Pow(q * w, h)
    BY <1>3, PowMonotone
  <2>3. Pow(b, 2 * h) = Pow(b * b, h) /\ Pow(w, 2 * h) = wh * wh
    BY TurnPowers
  <2>4. Pow(b * b, h) \in Nat
    BY <1>3, PowNext
  <2> QED
    BY <2>1, <2>2, <2>3, <2>4
<1>5. \A u, v, y \in Nat : r * v <= x * u /\ y <= v * u => r * y <= x * (u * u)
  <2> SUFFICES ASSUME NEW u \in Nat, NEW v \in Nat, NEW y \in Nat,
                      r * v <= x * u, y <= v * u
               PROVE  r * y <= x * (u * u)
    OBVIOUS
  <2>1. (r * v) * u <= (x * u) * u
    BY Z3
  <2>2. r * y <= r * (v * u)
    BY Z3
  <2>3. (x * u) * u = x * (u * u) /\ (r * v) * u = r * (v * u)
    BY Z3
  <2>4. x * (u * u) \in Nat /\ r * (v * u) \in Nat /\ r * y \in Nat
    BY Z3
  <2> QED
    BY <2>1, <2>2, <2>3, <2>4
<1> QED
  BY <1>1, <1>2, <1>4, <1>5

LEMMA LoopAbove ==
  \A e \in Nat : \A b, r \in Nat :
    b >= Wad /\ r >= Wad /\ Loop[<<e, b, r>>] # Err =>
      /\ Loop[<<e, b, r>>] \in Nat
      /\ r * Pow(b * Less, 2 * (e \div 2)) <= Loop[<<e, b, r>>] * Pow(Wad2, 2 * (e \div 2))
<1> DEFINE Claim(e, b, r) ==
             b >= Wad /\ r >= Wad /\ Loop[<<e, b, r>>] # Err =>
               /\ Loop[<<e, b, r>>] \in Nat
               /\ r * Pow(b * Less, 2 * (e \div 2))
                    <= Loop[<<e, b, r>>] * Pow(Wad2, 2 * (e \div 2))
           T == {e \in Nat : \A b, r \in Nat : Claim(e, b, r)}
<1>0. \A b \in Nat : b * Less \in Nat
  BY SharesTyped, Z3
<1>1. 0 \in T
  <2> SUFFICES ASSUME NEW b \in Nat, NEW r \in Nat PROVE Claim(0, b, r)
    OBVIOUS
  <2>1. Loop[<<0, b, r>>] = r
    <3>1. 0 \in Nat /\ b \in Int /\ r \in Int
      OBVIOUS
    <3> QED
      BY ONLY <3>1, LoopTurns
  <2>2. 2 * (0 \div 2) = 0
    BY SMT
  <2>3. Pow(Wad2, 0) = 1 /\ Pow(b * Less, 0) = 1
    BY <1>0, SharesTyped, PowNext
  <2> QED
    BY <2>1, <2>2, <2>3
<1>2. ASSUME NEW e \in Nat \ {0}, e \div 2 \in T PROVE e \in T
  <2> SUFFICES ASSUME NEW b \in Nat, NEW r \in Nat, b >= Wad, r >= Wad,
                      Loop[<<e, b, r>>] # Err
               PROVE  Claim(e, b, r)
    OBVIOUS
  <2>1. PICK h, q, t \in Nat :
          Turn(e, b, r, h, q, t) /\ Loop[<<e, b, r>>] = Loop[<<h, q, t>>]
    BY GoodTurn
  <2>2. h = e \div 2
    BY <2>1 DEF Turn
  <2> PICK x, k : x = Loop[<<h, q, t>>] /\ k = h \div 2
    OBVIOUS
  <2>3. k \in Nat /\ q >= Wad /\ (b * b) * Less <= q * Wad2
    BY <2>1, ProductLoses, Halves DEF Turn
  <2>4. \/ h = 2 * k /\ t = r
        \/ h = 2 * k + 1 /\ t >= Wad /\ (r * q) * Less <= t * Wad2
    BY <2>1, <2>3, ProductLoses DEF Turn
  <2>5. x \in Nat /\ t * Pow(q * Less, 2 * k) <= x * Pow(Wad2, 2 * k)
    <3>1. t >= Wad
      BY <2>4
    <3>2. Claim(h, q, t)
      BY <1>2, <2>1, <2>2
    <3> QED
      BY <2>1, <2>3, <3>1, <3>2
  <2> PICK c, d \in Nat : c = b * Less /\ d = q * Less
    BY <1>0
  <2>6. c * c <= d * Wad2
    <3>1. (b * Less) * (b * Less) = ((b * b) * Less) * Less
      BY SharesTyped, Z3
    <3>2. ((b * b) * Less) * Less <= (q * Wad2) * Less
      <4>1. \A y, z, l \in Nat : y <= z => y * l <= z * l
        BY Z3
      <4>2. \A y, z \in Nat : y * z \in Nat
        BY Z3
      <4> QED
        BY <2>3, <4>1, <4>2, SharesTyped
    <3>3. (q * Wad2) * Less = (q * Less) * Wad2
      BY SharesTyped, Z3
    <3> QED
      BY <3>1, <3>2, <3>3
  <2>7. \/ h = 2 * k /\ t = r
        \/ h = 2 * k + 1 /\ r * d <= t * Wad2
    <3>1. r * (q * Less) = (r * q) * Less
      BY SharesTyped, Z3
    <3> QED
      BY <2>4, <3>1
  <2>8. r * Pow(c, 2 * h) <= x * Pow(Wad2, 2 * h)
    <3>1. /\ r \in Nat /\ t \in Nat /\ x \in Nat /\ h \in Nat /\ k \in Nat
          /\ Wad2 \in Nat /\ d \in Nat /\ c \in Nat
      BY <2>3, <2>5, SharesTyped
    <3>2. t * Pow(d, 2 * k) <= x * Pow(Wad2, 2 * k)
      BY <2>5
    <3> QED
      BY ONLY <2>6, <2>7, <3>1, <3>2, AboveStep
  <2> QED
    BY <2>1, <2>2, <2>5, <2>8
<1> HIDE DEF T
<1>3. \A e \in Nat : e \in T
  BY <1>1, <1>2, HalvingInduction
<1> QED
  BY <1>3 DEF T

MostClose ==
  base >= Wad =>
    /\ most >= Wad
    /\ most * Pow(Wad2, slots) <= Wad * Pow(base * More, slots)

LEMMA SlotKeepsClose == MostCovers /\ MostClose /\ [SlotNext]_slotVars => MostClose'
<1> SUFFICES ASSUME MostCovers, MostClose, [SlotNext]_slotVars, base' >= Wad
             PROVE  /\ most' >= Wad
                    /\ most' * Pow(Wad2, slots') <= Wad * Pow(base' * More, slots')
  BY DEF MostClose
<1>1. CASE UNCHANGED slotVars
  BY <1>1 DEF slotVars, MostClose
<1>2. CASE Slot
  <2> PICK b, n, m, u : b = base /\ n = slots /\ m = most /\ u = most'
    OBVIOUS
  <2>1. b \in Nat /\ n \in Nat /\ m \in Nat /\ base' = b /\ slots' = n + 1 /\ b >= Wad
    BY <1>2, Widths DEF MostCovers, Slot, RateMax
  <2>2. u = (m * b + Wad - 1) \div Wad
    BY <1>2 DEF Slot, Up
  <2>3. u \in Nat /\ m * b \in Nat /\ m * b <= u * Wad /\ u * Wad <= m * b + Wad - 1
    BY <2>1, <2>2, UpRoundsUp
  <2>4. m >= Wad /\ m * Pow(Wad2, n) <= Wad * Pow(b * More, n)
    BY <2>1 DEF MostClose
  <2>5. b * More \in Nat
    BY <2>1, SharesTyped, Z3
  <2> PICK c \in Nat : c = b * More
    BY <2>5
  <2> DEFINE w == Pow(Wad2, n)
             p == Pow(c, n)
  <2>6. /\ w \in Nat /\ p \in Nat
        /\ Pow(Wad2, n + 1) = w * Wad2 /\ Pow(c, n + 1) = p * c
    BY <2>1, SharesTyped, PowNext
  <2> HIDE DEF w, p
  <2>7. u >= Wad /\ u * Wad2 <= m * c
    <3> PICK z \in Nat : z = m * b
      BY <2>3
    <3>0. Wad \in Nat \ {0}
      BY Widths
    <3>1. Wad * Wad <= z
      BY <2>1, <2>4, <3>0, Z3
    <3>2. z <= u * Wad /\ u * Wad <= z + Wad - 1
      BY <2>3
    <3>3. u >= Wad
      <4>1. \A v \in Nat \ {0} : v * v <= z /\ z <= u * v => v <= u
        BY <2>3, Z3
      <4> QED
        BY <3>0, <3>1, <3>2, <4>1
    <3>4. \A v \in Nat \ {0} : v * v <= z /\ u * v <= z + v - 1 => u * (v * v) <= z * (v + 1)
      <4> SUFFICES ASSUME NEW v \in Nat \ {0}, v * v <= z, u * v <= z + v - 1
                   PROVE  u * (v * v) <= z * (v + 1)
        OBVIOUS
      <4>0. \A i, j \in Nat : i * j \in Nat
        BY Z3
      <4> PICK y \in Nat : y = u * v
        BY <2>3, <4>0
      <4>1. y <= z + v
        OBVIOUS
      <4>2. y * v <= (z + v) * v
        BY <4>1, Z3
      <4>3. y * v = u * (v * v) /\ (z + v) * v = z * v + v * v /\ z * (v + 1) = z * v + z
        BY <2>3, Z3
      <4>4. y * v \in Nat /\ z * v \in Nat /\ v * v \in Nat
        BY Z3
      <4> QED
        BY <4>2, <4>3, <4>4
    <3>5. u * (Wad * Wad) <= z * (Wad + 1)
      BY <3>0, <3>1, <3>2, <3>4
    <3>6. (m * b) * (Wad + 1) = m * (b * (Wad + 1))
      BY <2>1, <3>0, Z3
    <3> QED
      BY <3>3, <3>5, <3>6 DEF Wad2, More
  <2>8. u * (w * Wad2) <= Wad * (p * c)
    <3>0. Wad \in Nat /\ Wad2 \in Nat
      BY SharesTyped
    <3>1. u * (w * Wad2) = (u * Wad2) * w /\ (m * c) * w = (m * w) * c
      BY <2>1, <2>3, <2>6, <3>0, Z3
    <3>2. (Wad * p) * c = Wad * (p * c)
      BY <2>6, <3>0, Z3
    <3>3. \A y, z \in Nat : y * z \in Nat
      BY Z3
    <3>4. (u * Wad2) * w <= (m * c) * w
      BY <2>1, <2>3, <2>6, <2>7, <3>0, <3>3, ProductMonotone
    <3>5. (m * w) * c <= (Wad * p) * c
      <4>1. m * w <= Wad * p
        BY <2>4 DEF w, p
      <4> QED
        BY <2>1, <2>6, <3>0, <3>3, <4>1, ProductMonotone
    <3>6. /\ (u * Wad2) * w \in Nat /\ (m * c) * w \in Nat
          /\ (m * w) * c \in Nat /\ (Wad * p) * c \in Nat
      BY <2>1, <2>3, <2>6, <3>0, <3>3
    <3> QED
      BY <3>1, <3>2, <3>4, <3>5, <3>6
  <2> QED
    BY <2>1, <2>6, <2>7, <2>8
<1> QED
  BY <1>1, <1>2 DEF SlotNext

LEMMA SlotInitClose == SlotInit => MostClose
<1> SUFFICES ASSUME SlotInit PROVE MostClose
  OBVIOUS
<1>1. base \in 0..RateMax /\ slots = 0 /\ most = Wad /\ RateMax \in Nat
  BY SlotAssumption, Widths DEF SlotInit, One, RateMax
<1>2. base \in Nat
  BY <1>1
<1>3. base * More \in Nat
  BY <1>2, SharesTyped, Z3
<1>4. Pow(base * More, 0) = 1 /\ Pow(Wad2, 0) = 1
  BY <1>3, SharesTyped, PowNext
<1> QED
  BY <1>1, <1>4, SharesTyped DEF MostClose

\* The two shares, over n slots, differ by at most 2 n / Wad (Bernoulli).
LEMMA SharesOfSlots ==
  \A n \in Nat : (Wad - 2 * n) * Pow(More, n) <= Wad * Pow(Less, n)
<1> DEFINE T == {n \in Nat : (Wad - 2 * n) * Pow(More, n) <= Wad * Pow(Less, n)}
<1>1. 0 \in T
  BY SharesTyped, PowNext
<1>2. ASSUME NEW n \in Nat, n \in T PROVE n + 1 \in T
  <2> PICK u, v : u = Pow(More, n) /\ v = Pow(Less, n)
    OBVIOUS
  <2>1. /\ u \in Nat /\ v \in Nat
        /\ Pow(More, n + 1) = u * More /\ Pow(Less, n + 1) = v * Less
    BY SharesTyped, PowNext
  <2>2. (Wad - 2 * n) * u <= Wad * v
    BY <1>2
  <2>3. \A w \in Nat \ {0}, l \in Nat, y \in Nat, z \in Nat, i \in Int :
          i * y <= w * z => (i * y) * l <= (w * z) * l
    BY Z3
  <2>4. ((Wad - 2 * n) * u) * Less <= (Wad * v) * Less
    BY <2>1, <2>2, <2>3, SharesTyped
  <2>5. (Wad * v) * Less = Wad * (v * Less)
    BY <2>1, SharesTyped, Z3
  <2>6. (Wad - 2 * (n + 1)) * (u * More) <= ((Wad - 2 * n) * u) * Less
    <3>1. (Wad - 2 * (n + 1)) * More <= (Wad - 2 * n) * Less
      <4>1. \A w \in Nat : (w - 2 * (n + 1)) * (w + 1) = w * w - w - 2 * (n * w) - 2 * n - 2
        BY Z3
      <4>2. \A w \in Nat : (w - 2 * n) * (w - 1) = w * w - w - 2 * (n * w) + 2 * n
        BY Z3
      <4>3. \A w \in Nat : w * w \in Nat /\ n * w \in Nat
        BY Z3
      <4>4. Wad \in Nat
        BY Widths
      <4> QED
        BY <4>1, <4>2, <4>3, <4>4 DEF Less, More
    <3>2. \A i, j \in Int : i <= j => i * u <= j * u
      BY <2>1, Z3
    <3>3. \A i, l \in Int : (i * u) * l = (i * l) * u /\ i * (u * l) = (i * l) * u
      BY <2>1, Z3
    <3>4. \A i, j \in Int : i * j \in Int
      BY Z3
    <3>5. /\ Wad - 2 * (n + 1) \in Int /\ Wad - 2 * n \in Int /\ More \in Int /\ Less \in Int
      BY SharesTyped
    <3>6. ((Wad - 2 * (n + 1)) * More) * u <= ((Wad - 2 * n) * Less) * u
      BY <3>1, <3>2, <3>4, <3>5
    <3> QED
      BY <3>3, <3>5, <3>6
  <2>7. \A i, j \in Int : i * j \in Int
    BY Z3
  <2>8. /\ (Wad - 2 * (n + 1)) * (u * More) \in Int
        /\ ((Wad - 2 * n) * u) * Less \in Int /\ Wad * (v * Less) \in Int
    BY <2>1, <2>7, SharesTyped
  <2>9. (Wad - 2 * (n + 1)) * (u * More) <= Wad * (v * Less)
    BY <2>4, <2>5, <2>6, <2>8
  <2> QED
    BY <2>1, <2>9
<1> HIDE DEF T
<1>3. \A n \in Nat : n \in T
  BY <1>1, <1>2, Induction
<1> QED
  BY <1>3 DEF T

LEMMA CloseLosesLittle == MostCovers /\ MostClose => LosesLittle
<1> SUFFICES ASSUME MostCovers, MostClose, base >= Wad, Power # Err
             PROVE  (most - Power) * Wad <= 2 * slots * most
  BY DEF LosesLittle, One
<1> PICK b, n, m, x : b = base /\ n = slots /\ m = most /\ x = Power
  OBVIOUS
<1> PICK h, r : h = n \div 2 /\ r = (IF n % 2 = 1 THEN b ELSE One)
  OBVIOUS
<1>1. /\ b \in Nat /\ n \in Nat /\ m \in Nat /\ b >= Wad
      /\ x = Loop[<<n, b, r>>] /\ x # Err /\ h \in Nat
      /\ \/ r = Wad /\ n = 2 * h
         \/ r = b /\ n = 2 * h + 1
  BY PowerStarts DEF MostCovers, One
<1>2. m * Pow(Wad2, n) <= Wad * Pow(b * More, n)
  BY <1>1 DEF MostClose
<1>3. r \in Nat /\ r >= Wad
  BY <1>1, SharesTyped
<1>4. x \in Nat /\ r * Pow(b * Less, 2 * h) <= x * Pow(Wad2, 2 * h)
  BY <1>1, <1>3, LoopAbove
<1>5. b * Less \in Nat /\ b * More \in Nat
  BY <1>1, SharesTyped, Z3
<1> PICK c \in Nat : c = b * Less
  BY <1>5
<1>6. Wad * Pow(c, n) <= x * Pow(Wad2, n)
  <2>1. CASE r = Wad /\ n = 2 * h
    BY <1>4, <2>1
  <2>2. CASE r = b /\ n = 2 * h + 1
    <3> PICK p, w : p = Pow(c, 2 * h) /\ w = Pow(Wad2, 2 * h)
      OBVIOUS
    <3>1. /\ p \in Nat /\ w \in Nat /\ Pow(c, n) = p * c /\ Pow(Wad2, n) = w * Wad2
      <4>1. 2 * h \in Nat /\ n = 2 * h + 1
        BY <1>1, <2>2
      <4>2. Wad2 \in Nat /\ c \in Nat /\ p = Pow(c, 2 * h) /\ w = Pow(Wad2, 2 * h)
        BY SharesTyped
      <4> QED
        BY ONLY <4>1, <4>2, PowNext
    <3>2. b * p <= x * w
      BY <1>4, <2>2
    <3>3. Wad * c <= b * Wad2
      <4>1. Wad * c = b * (Wad * Less) /\ Wad * Less <= Wad * Wad
            /\ Wad * Less \in Nat /\ Wad * Wad \in Nat
        BY <1>1, SharesTyped, Z3 DEF Less
      <4>2. b * (Wad * Less) <= b * (Wad * Wad)
        BY <1>1, <4>1, Z3
      <4> QED
        BY <4>1, <4>2 DEF Wad2
    <3>4. Wad * (p * c) <= x * (w * Wad2)
      <4>0. Wad \in Nat /\ Wad2 \in Nat /\ Less \in Nat
        BY SharesTyped
      <4>1. \A i, j \in Nat : i * j \in Nat
        BY Z3
      <4>2. /\ Wad * (p * c) = (Wad * c) * p /\ (b * Wad2) * p = (b * p) * Wad2
            /\ (x * w) * Wad2 = x * (w * Wad2)
        <5>1. \A i, j, k \in Nat : /\ i * (j * k) = (i * k) * j
                                  /\ (i * j) * k = (i * k) * j
                                  /\ (i * j) * k = i * (j * k)
          BY Z3
        <5> QED
          BY <1>1, <1>4, <3>1, <4>0, <5>1
      <4>3. (Wad * c) * p <= (b * Wad2) * p
        BY <1>1, <3>1, <3>3, <4>0, <4>1, ProductMonotone
      <4>4. (b * p) * Wad2 <= (x * w) * Wad2
        BY <1>1, <1>4, <3>1, <3>2, <4>0, <4>1, ProductMonotone
      <4>5. /\ (Wad * c) * p \in Nat /\ (b * Wad2) * p \in Nat /\ (x * w) * Wad2 \in Nat
        BY <1>1, <1>4, <3>1, <4>0, <4>1
      <4> QED
        BY <4>2, <4>3, <4>4, <4>5
    <3> QED
      BY <3>1, <3>4
  <2> QED
    BY <1>1, <2>1, <2>2
<1> PICK p, l, u, w : p = Pow(b, n) /\ l = Pow(Less, n) /\ u = Pow(More, n) /\ w = Pow(Wad2, n)
  OBVIOUS
<1>7. /\ p \in Nat /\ l \in Nat /\ u \in Nat \ {0} /\ w \in Nat \ {0}
      /\ Pow(c, n) = p * l /\ Pow(b * More, n) = p * u
  <2>1. n \in Nat /\ b \in Nat /\ c = b * Less /\ Less \in Nat /\ More \in Nat \ {0}
        /\ Wad2 \in Nat \ {0}
    BY <1>1, SharesTyped
  <2>2. p \in Nat /\ l \in Nat /\ u \in Nat \ {0} /\ w \in Nat \ {0}
    BY <2>1, PowNext, PowPositive
  <2>3. Pow(b * Less, n) = p * l /\ Pow(b * More, n) = p * u
    <3>1. More \in Nat
      BY <2>1
    <3> QED
      BY <2>1, <3>1, PowTimes
  <2> QED
    BY <2>1, <2>2, <2>3
<1>8. m * l <= x * u
  <2>1. m * w <= Wad * (p * u) /\ Wad * (p * l) <= x * w
    BY <1>2, <1>6, <1>7
  <2>2. \A i, j \in Nat : i * j \in Nat
    BY Z3
  <2>3. Wad \in Nat
    BY Widths
  <2>4. (m * w) * l <= (Wad * (p * u)) * l /\ (Wad * (p * l)) * u <= (x * w) * u
    BY <1>1, <1>4, <1>7, <2>1, <2>2, <2>3, ProductMonotone
  <2>5. (Wad * (p * u)) * l = (Wad * (p * l)) * u
    BY <1>7, <2>3, Z3
  <2>6. (m * w) * l = (m * l) * w /\ (x * w) * u = (x * u) * w
    BY <1>1, <1>4, <1>7, Z3
  <2>7. /\ (m * w) * l \in Nat /\ (Wad * (p * u)) * l \in Nat /\ (x * w) * u \in Nat
        /\ m * l \in Nat /\ x * u \in Nat
    BY <1>1, <1>4, <1>7, <2>2, <2>3
  <2>8. (m * l) * w <= (x * u) * w
    BY <2>4, <2>5, <2>6, <2>7
  <2>9. \A i, j \in Nat, k \in Nat \ {0} : i * k <= j * k => i <= j
    BY Z3
  <2> QED
    BY <1>7, <2>7, <2>8, <2>9
<1>9. (Wad - 2 * n) * u <= Wad * l
  BY <1>1, SharesOfSlots
<1>10. (m * (Wad - 2 * n)) * u <= (x * Wad) * u
  <2>1. Wad \in Nat /\ Wad - 2 * n \in Int
    BY <1>1, Widths
  <2>2. \A i, j \in Int : i * j \in Int
    BY Z3
  <2>3. \A i, j \in Int : i <= j => m * i <= m * j
    BY <1>1, Z3
  <2>4. m * ((Wad - 2 * n) * u) <= m * (Wad * l)
    BY <1>7, <1>9, <2>1, <2>2, <2>3
  <2>5. \A i \in Int : m * (i * u) = (m * i) * u
    BY <1>1, <1>7, Z3
  <2>6. m * (Wad * l) = (m * l) * Wad /\ (x * u) * Wad = (x * Wad) * u
    BY <1>1, <1>4, <1>7, <2>1, Z3
  <2>7. (m * l) * Wad <= (x * u) * Wad
    <3>1. m * l \in Nat /\ x * u \in Nat
      BY <1>1, <1>4, <1>7, Z3
    <3> QED
      BY <1>8, <2>1, <3>1, ProductMonotone
  <2>8. /\ m * ((Wad - 2 * n) * u) \in Int /\ m * (Wad * l) \in Int /\ (x * u) * Wad \in Int
    BY <1>1, <1>4, <1>7, <2>1, <2>2
  <2> QED
    BY <2>1, <2>4, <2>5, <2>6, <2>7, <2>8
<1>11. m * (Wad - 2 * n) <= x * Wad
  <2>1. \A i, j \in Int, k \in Nat \ {0} : i * k <= j * k => i <= j
    BY Z3
  <2>2. \A i, j \in Int : i * j \in Int
    BY Z3
  <2>3. m * (Wad - 2 * n) \in Int /\ x * Wad \in Int
    BY <1>1, <1>4, <2>2, Widths
  <2> QED
    BY <1>7, <1>10, <2>1, <2>3
<1>12. (m - x) * Wad <= 2 * n * m
  <2>1. Wad \in Nat
    BY Widths
  <2>2. m * (Wad - 2 * n) = m * Wad - 2 * n * m /\ (m - x) * Wad = m * Wad - x * Wad
    BY <1>1, <1>4, <2>1, Z3
  <2>3. m * Wad \in Nat /\ x * Wad \in Nat /\ 2 * n * m \in Nat
    BY <1>1, <1>4, <2>1, Z3
  <2> QED
    BY <1>11, <2>2, <2>3
<1> QED
  BY <1>12

(***************************************************************************)
(* try_pow loses less than two units of precision for each slot, relative  *)
(* to the power, for any base of at least one, any number of slots and any *)
(* width: no debtor escapes more interest than that by the rounding.       *)
(***************************************************************************)
THEOREM LittleInterestIsLost == SlotSpec => []LosesLittle
<1>1. SlotSpec => [](MostCovers /\ MostClose)
  BY SlotInitCovers, SlotKeepsCover, SlotInitClose, SlotKeepsClose, PTL DEF SlotSpec
<1> QED
  BY <1>1, CloseLosesLittle, PTL

-----------------------------------------------------------------------------
(***************************************************************************)
(* Waiting a slot.  A larger result going into the loop comes out larger.  *)
(* From an odd exponent to the even one below it the loop is the same but  *)
(* for the result it starts with; from an even one to the odd one below,   *)
(* the lower exponent has a factor at every trailing zero of the higher,   *)
(* and these factors together are at most the next square.                 *)
(***************************************************************************)

\* y is a power that is at most the power x.
Within(y, x) == y \in Nat /\ x \in Nat /\ Wad <= y /\ y <= x

LEMMA LoopSquares ==
  ASSUME NEW e \in Nat, e # 0, NEW b \in Nat, NEW r \in Nat, Loop[<<e, b, r>>] # Err
  PROVE  Square(b) # Err
<1>1. b \in Int /\ r \in Int
  OBVIOUS
<1> QED
  BY <1>1, LoopTurns

LEMMA SquareGrows ==
  ASSUME NEW b \in Nat, b >= Wad, Square(b) # Err
  PROVE  /\ Square(b) \in Nat /\ Square(b) >= b /\ Square(b) >= Wad
         /\ TryMul(Wad, Square(b), RateMax) = Square(b)
<1> PICK s : s = Square(b)
  OBVIOUS
<1>1. /\ s \in Nat /\ b * b \in Nat /\ s * Wad <= b * b /\ b * b < s * Wad + Wad
      /\ b * b \in 0..RateMax /\ Wad \in Nat \ {0} /\ RateMax \in Nat
  BY ProductTruncated, ProductRange, Widths DEF Square, RateMax
<1>2. s >= b
  <2>1. \A w \in Nat \ {0} : b >= w /\ b * b < s * w + w => s >= b
    <3> SUFFICES ASSUME NEW w \in Nat \ {0}, b >= w, b * b < s * w + w PROVE s >= b
      OBVIOUS
    <3>1. b * w <= b * b
      BY Z3
    <3>2. b * w < s * w + w /\ s * w + w = (s + 1) * w
      <4>1. \A i, j \in Nat : i * j \in Nat /\ i * j + j = (i + 1) * j
        BY Z3
      <4>2. s \in Nat /\ w \in Nat /\ b \in Nat
        BY <1>1
      <4>3. b * b \in Nat /\ b * w \in Nat /\ s * w \in Nat /\ s * w + w = (s + 1) * w
        BY ONLY <4>1, <4>2
      <4> QED
        BY <3>1, <4>3
    <3>3. \A i, j \in Nat : i * w < j * w => i < j
      BY Z3
    <3> QED
      BY <1>1, <3>2, <3>3
  <2> QED
    BY <1>1, <2>1
<1>3. Wad * s \in 0..RateMax /\ Wad * s = s * Wad
  <2>1. Wad * s = s * Wad /\ s * Wad \in Nat
    BY <1>1, Z3
  <2> QED
    BY <1>1, <2>1
<1>4. (s * Wad) \div Wad = s
  BY <1>1, DivideProductExact
<1>5. Wad # Err /\ s # Err
  BY <1>1 DEF Err
<1>6. TryMul(Wad, s, RateMax) = s
  BY <1>1, <1>3, <1>4, <1>5, ProductRange
<1> QED
  BY <1>1, <1>2, <1>6

LEMMA TimesMonotone ==
  ASSUME NEW h \in Nat, NEW s \in Nat, s >= Wad, NEW r, NEW q, Within(r, q),
         Times(q, h, s) # Err
  PROVE  Within(Times(r, h, s), Times(q, h, s))
<1>1. CASE h % 2 = 1
  <2> PICK u, v : u = TryMul(r, s, RateMax) /\ v = TryMul(q, s, RateMax)
    OBVIOUS
  <2>1. v # Err /\ r \in Nat /\ q \in Nat /\ Wad <= r /\ r <= q /\ Wad \in Nat \ {0}
    BY <1>1, Widths DEF Times, Within
  <2>2. q * s \in 0..RateMax /\ v = (q * s) \div Wad /\ v \in Nat
    BY <2>1, ProductRange, ProductTruncated
  <2>3. r * s \in Nat /\ r * s <= q * s
    BY <2>1, ProductMonotone
  <2>4. r * s \in 0..RateMax /\ RateMax \in Nat
    BY <2>2, <2>3, Widths DEF RateMax
  <2>5. u # Err /\ u = (r * s) \div Wad
    <3>1. r # Err /\ s # Err
      BY <2>1 DEF Err
    <3> QED
      BY <2>1, <2>4, <3>1, ProductRange
  <2>6. u \in Nat /\ r * s < u * Wad + Wad
    BY <2>1, <2>5, ProductTruncated
  <2>7. u <= v
    <3>1. \A y, z \in Nat, w \in Nat \ {0} : y <= z => y \div w <= z \div w
      BY Z3
    <3> QED
      BY <2>1, <2>2, <2>3, <2>5, <3>1
  <2>8. Wad <= u
    <3>1. \A w \in Nat \ {0} : w <= r /\ w <= s /\ r * s < u * w + w => w <= u
      <4> SUFFICES ASSUME NEW w \in Nat \ {0}, w <= r, w <= s, r * s < u * w + w
                   PROVE  w <= u
        OBVIOUS
      <4>1. w * w <= r * s
        BY <2>1, Z3
      <4>2. w * w < (u + 1) * w
        BY <2>6, <4>1, <2>3, Z3
      <4>3. \A i, j \in Nat : i * w < j * w => i < j
        BY Z3
      <4> QED
        BY <2>6, <4>2, <4>3
    <3> QED
      BY <2>1, <2>6, <3>1
  <2> QED
    BY <1>1, <2>2, <2>6, <2>7, <2>8 DEF Times, Within
<1>2. CASE h % 2 # 1
  BY <1>2 DEF Times
<1> QED
  BY <1>1, <1>2

LEMMA LoopMonotone ==
  \A e \in Nat : \A b, r, q \in Nat :
    b >= Wad /\ Within(r, q) /\ Loop[<<e, b, q>>] # Err =>
      Within(Loop[<<e, b, r>>], Loop[<<e, b, q>>])
<1> DEFINE Claim(e, b, r, q) ==
             b >= Wad /\ Within(r, q) /\ Loop[<<e, b, q>>] # Err =>
               Within(Loop[<<e, b, r>>], Loop[<<e, b, q>>])
           T == {e \in Nat : \A b, r, q \in Nat : Claim(e, b, r, q)}
<1>1. 0 \in T
  <2> SUFFICES ASSUME NEW b \in Nat, NEW r \in Nat, NEW q \in Nat PROVE Claim(0, b, r, q)
    OBVIOUS
  <2>1. 0 \in Nat /\ b \in Int /\ r \in Int /\ q \in Int
    OBVIOUS
  <2>2. Loop[<<0, b, r>>] = r /\ Loop[<<0, b, q>>] = q
    BY ONLY <2>1, LoopTurns
  <2> QED
    BY <2>2
<1>2. ASSUME NEW e \in Nat \ {0}, e \div 2 \in T PROVE e \in T
  <2> SUFFICES ASSUME NEW b \in Nat, NEW r \in Nat, NEW q \in Nat,
                      b >= Wad, Within(r, q), Loop[<<e, b, q>>] # Err
               PROVE  Within(Loop[<<e, b, r>>], Loop[<<e, b, q>>])
    OBVIOUS
  <2> PICK h, s : h = e \div 2 /\ s = Square(b)
    OBVIOUS
  <2> PICK u, v : u = Times(r, h, s) /\ v = Times(q, h, s)
    OBVIOUS
  <2>1. h \in Nat /\ b \in Int /\ r \in Int /\ q \in Int /\ e \in Nat /\ e # 0
    BY Halves
  <2>2. /\ s # Err
        /\ Loop[<<e, b, r>>] = Loop[<<h, s, u>>] /\ Loop[<<e, b, q>>] = Loop[<<h, s, v>>]
    BY <2>1, LoopTurns
  <2>3. s \in Nat /\ s >= Wad
    BY <2>2, SquareGrows
  <2>4. v # Err
    BY <2>1, <2>2, <2>3, LoopOfErr
  <2>5. Within(u, v)
    BY <2>1, <2>3, <2>4, TimesMonotone
  <2>6. u \in Nat /\ v \in Nat
    BY <2>5 DEF Within
  <2>7. Claim(h, s, u, v)
    BY <1>2, <2>3, <2>6
  <2> QED
    BY <2>2, <2>3, <2>5, <2>7
<1> HIDE DEF T
<1>3. \A e \in Nat : e \in T
  BY <1>1, <1>2, HalvingInduction
<1> QED
  BY <1>3 DEF T

LEMMA OddLoop ==
  ASSUME NEW e \in Nat, e % 2 = 1, NEW b \in Nat, b >= Wad, NEW r, Within(r, b),
         Loop[<<e, b, b>>] # Err
  PROVE  Within(Loop[<<e - 1, b, r>>], Loop[<<e, b, b>>])
<1>0. r \in Nat /\ r \in Int /\ b \in Int /\ e # 0 /\ e - 1 \in Nat
  BY SMT DEF Within
<1> PICK s : s = Square(b)
  OBVIOUS
<1>1. s # Err
  BY <1>0, LoopTurns
<1>2. s \in Nat
  BY <1>1, SquareGrows
<1>3. CASE e = 1
  <2>1. e \div 2 = 0 /\ 0 % 2 = 0 /\ e - 1 = 0
    BY <1>3, SMT
  <2>2. Times(b, 0, s) = b
    BY <2>1 DEF Times
  <2>3. 0 \in Nat /\ s \in Int
    BY <1>2
  <2>4. Loop[<<0, b, r>>] = r /\ Loop[<<0, s, b>>] = b
    BY ONLY <1>0, <2>3, LoopTurns
  <2>5. Loop[<<e, b, b>>] = b
    BY <1>0, <1>1, <2>1, <2>2, <2>4, LoopTurns
  <2> QED
    BY <2>1, <2>4, <2>5
<1>4. CASE e # 1
  <2>1. e - 1 # 0 /\ (e - 1) \div 2 = e \div 2
    BY <1>4, SMT
  <2>2. Loop[<<e - 1, b, r>>] = Loop[<<e, b, r>>]
    <3> PICK d \in Nat : d = e - 1
      BY <1>0
    <3>1. d # 0 /\ d \div 2 = e \div 2
      BY <2>1
    <3>2. Loop[<<d, b, r>>] = Loop[<<d \div 2, s, Times(r, d \div 2, s)>>]
      BY <1>0, <1>1, <3>1, LoopTurns
    <3>3. Loop[<<e, b, r>>] = Loop[<<e \div 2, s, Times(r, e \div 2, s)>>]
      BY <1>0, <1>1, LoopTurns
    <3> QED
      BY <3>1, <3>2, <3>3
  <2> QED
    BY <1>0, <2>2, LoopMonotone
<1> QED
  BY <1>3, <1>4

LEMMA EvenLoop ==
  \A e \in Nat : \A b, r \in Nat :
    e # 0 /\ e % 2 = 0 /\ b >= Wad /\ Within(r, Square(b)) /\ Loop[<<e, b, Wad>>] # Err =>
      Within(Loop[<<e - 1, b, r>>], Loop[<<e, b, Wad>>])
<1> DEFINE Claim(e, b, r) ==
             e # 0 /\ e % 2 = 0 /\ b >= Wad /\ Within(r, Square(b))
               /\ Loop[<<e, b, Wad>>] # Err =>
               Within(Loop[<<e - 1, b, r>>], Loop[<<e, b, Wad>>])
           T == {e \in Nat : \A b, r \in Nat : Claim(e, b, r)}
<1>0. Wad \in Nat \ {0}
  BY Widths
<1>1. 0 \in T
  OBVIOUS
<1>2. ASSUME NEW e \in Nat \ {0}, e \div 2 \in T PROVE e \in T
  <2> SUFFICES ASSUME NEW b \in Nat, NEW r \in Nat,
                      e % 2 = 0, b >= Wad, Within(r, Square(b)), Loop[<<e, b, Wad>>] # Err
               PROVE  Within(Loop[<<e - 1, b, r>>], Loop[<<e, b, Wad>>])
    OBVIOUS
  <2> PICK h, s : h = e \div 2 /\ s = Square(b)
    OBVIOUS
  <2> PICK u, v : u = Times(r, h - 1, s) /\ v = Times(Wad, h, s)
    OBVIOUS
  <2>1. /\ h \in Nat /\ h # 0 /\ h - 1 \in Nat /\ e - 1 \in Nat /\ e - 1 # 0
        /\ (e - 1) \div 2 = h - 1 /\ e \in Nat /\ e # 0 /\ Wad \in Int
    BY <1>0, SMT
  <2>2. s # Err /\ Loop[<<e, b, Wad>>] = Loop[<<h, s, v>>]
    BY <2>1, LoopTurns
  <2>3. s \in Nat /\ s >= Wad /\ TryMul(Wad, s, RateMax) = s /\ Within(r, s)
    BY <2>2, SquareGrows
  <2>4. Loop[<<e - 1, b, r>>] = Loop[<<h - 1, s, u>>]
    <3> PICK d \in Nat : d = e - 1
      BY <2>1
    <3>1. d # 0 /\ d \div 2 = h - 1 /\ b \in Int /\ r \in Int
      BY <2>1
    <3>2. Loop[<<d, b, r>>] = Loop[<<d \div 2, s, Times(r, d \div 2, s)>>]
      BY <2>2, <3>1, LoopTurns
    <3> QED
      BY <3>1, <3>2
  <2>5. CASE h % 2 = 1
    <3>1. (h - 1) % 2 # 1
      BY <2>1, <2>5, SMT
    <3>2. u = r /\ v = s
      BY <2>3, <2>5, <3>1 DEF Times
    <3> QED
      BY <2>1, <2>2, <2>3, <2>4, <2>5, <3>2, OddLoop
  <2>6. CASE h % 2 = 0
    <3>1. (h - 1) % 2 = 1
      BY <2>1, <2>6, SMT
    <3>2. v = Wad
      BY <2>6 DEF Times
    <3>3. Square(s) # Err
      <4>1. Loop[<<h, s, Wad>>] # Err
        BY <2>2, <3>2
      <4> QED
        BY <1>0, <2>1, <2>3, <4>1, LoopSquares
    <3>4. Times(s, h - 1, s) = Square(s)
      BY <3>1 DEF Times, Square
    <3>5. Within(u, Square(s))
      BY <2>1, <2>3, <3>3, <3>4, TimesMonotone
    <3>6. u \in Nat
      BY <3>5 DEF Within
    <3>7. Claim(h, s, u)
      BY <1>2, <2>3, <3>6
    <3> QED
      BY <2>1, <2>2, <2>3, <2>4, <2>6, <3>2, <3>5, <3>7
  <2>7. h % 2 \in {0, 1}
    BY <2>1, SMT
  <2> QED
    BY <2>5, <2>6, <2>7
<1> HIDE DEF T
<1>3. \A e \in Nat : e \in T
  BY <1>1, <1>2, HalvingInduction
<1> QED
  BY <1>3 DEF T

LEMMA CoverGrows == MostCovers => InterestGrows
<1> SUFFICES ASSUME MostCovers, base >= Wad, slots > 0, Power # Err
             PROVE  TryPow(base, slots - 1) \in Wad..Power
  BY DEF InterestGrows, One
<1> PICK b, n, x, y : b = base /\ n = slots /\ x = Power /\ y = TryPow(base, slots - 1)
  OBVIOUS
<1>1. /\ b \in Nat /\ n \in Nat /\ n # 0 /\ b >= Wad /\ Wad \in Nat
      /\ x = Loop[<<n, b, IF n % 2 = 1 THEN b ELSE Wad>>] /\ x # Err
  BY PowerStarts, Widths DEF MostCovers, One
<1>2. y = Loop[<<n - 1, b, IF (n - 1) % 2 = 1 THEN b ELSE Wad>>]
  <2>1. b # Err
    BY <1>1 DEF Err
  <2> QED
    BY <2>1, PowerIsLoop DEF One
<1>3. CASE n % 2 = 1
  <2>1. (n - 1) % 2 # 1
    BY <1>1, <1>3, SMT
  <2>2. Within(Wad, b)
    BY <1>1 DEF Within
  <2>3. x = Loop[<<n, b, b>>] /\ y = Loop[<<n - 1, b, Wad>>]
    BY <1>1, <1>2, <1>3, <2>1
  <2>4. Within(y, x)
    BY <1>1, <1>3, <2>2, <2>3, OddLoop
  <2> QED
    BY <1>1, <2>4 DEF Within
<1>4. CASE n % 2 = 0
  <2>1. (n - 1) % 2 = 1
    BY <1>1, <1>4, SMT
  <2>2. x = Loop[<<n, b, Wad>>] /\ y = Loop[<<n - 1, b, b>>]
    BY <1>1, <1>2, <1>4, <2>1
  <2>3. Square(b) # Err
    BY <1>1, <2>2, LoopSquares
  <2>4. Within(b, Square(b))
    BY <1>1, <2>3, SquareGrows DEF Within
  <2>5. Within(y, x)
    BY <1>1, <1>4, <2>2, <2>4, EvenLoop
  <2> QED
    BY <1>1, <2>5 DEF Within
<1>5. n % 2 \in {0, 1}
  BY <1>1, SMT
<1> QED
  BY <1>3, <1>4, <1>5

(***************************************************************************)
(* Compounded over one slot less, interest is never higher, for any base   *)
(* of at least one and any width: however the truncations of the different *)
(* sequences of squares fall, waiting never lowers a debt.                 *)
(***************************************************************************)
THEOREM WaitingNeverPays == SlotSpec => []InterestGrows
<1>1. SlotSpec => []MostCovers
  BY SlotInitCovers, SlotKeepsCover, PTL DEF SlotSpec
<1> QED
  BY <1>1, CoverGrows, PTL

-----------------------------------------------------------------------------
(***************************************************************************)
(* When it fails.  If y is at least the exact power, then it is at least   *)
(* every base and every result of the loop, so no product is above y * y.  *)
(***************************************************************************)

\* c * (b / Wad)^n <= y
Bounded(c, b, n, y) == c * Pow(b, n) <= y * Pow(Wad, n)

LEMMA NaturalProducts ==
  /\ \A i, j \in Nat : i * j \in Nat /\ i * j = j * i
  /\ \A i, j, k \in Nat : i * (j * k) = (i * j) * k /\ (i * j) * k = (i * k) * j
  /\ \A i, j \in Nat, k \in Nat \ {0} : i * k <= j * k => i <= j
<1>1. \A i, j \in Nat : i * j \in Nat /\ i * j = j * i
  BY Z3
<1>2. \A i, j, k \in Nat : i * (j * k) = (i * j) * k /\ (i * j) * k = (i * k) * j
  BY Z3
<1>3. \A i, j \in Nat, k \in Nat \ {0} : i * k <= j * k => i <= j
  BY Z3
<1> QED
  BY <1>1, <1>2, <1>3

\* A bound on a power is one on each lower power.
LEMMA LowerPower ==
  ASSUME NEW c \in Nat, NEW b \in Nat, NEW y \in Nat, NEW n \in Nat, NEW m \in Nat,
         b >= Wad, m <= n, Bounded(c, b, n, y)
  PROVE  Bounded(c, b, m, y)
<1>0. Wad \in Nat \ {0} /\ n - m \in Nat /\ n = m + (n - m)
  BY Widths
<1> PICK d \in Nat : d = n - m
  BY <1>0
<1> PICK p, u, w, v : /\ p = Pow(b, m) /\ u = Pow(b, d)
                      /\ w = Pow(Wad, m) /\ v = Pow(Wad, d)
  OBVIOUS
<1>1. /\ p \in Nat /\ u \in Nat /\ w \in Nat /\ v \in Nat \ {0} /\ v <= u
      /\ Pow(b, n) = p * u /\ Pow(Wad, n) = w * v
  <2>1. p \in Nat /\ u \in Nat /\ w \in Nat /\ v \in Nat \ {0}
    BY <1>0, PowNext, PowPositive
  <2>2. v <= u
    BY <1>0, PowMonotone
  <2>3. Pow(b, m + d) = p * u /\ Pow(Wad, m + d) = w * v /\ n = m + d
    BY <1>0, PowPlus
  <2> QED
    BY <2>1, <2>2, <2>3
<1>2. c * (p * u) <= y * (w * v)
  BY <1>1 DEF Bounded
<1>3. (c * p) * v <= (c * p) * u
  <2>1. v * (c * p) <= u * (c * p)
    BY <1>1, NaturalProducts, ProductMonotone
  <2> QED
    BY <1>1, <2>1, NaturalProducts
<1>4. (c * p) * v <= (y * w) * v
  <2>1. c * (p * u) = (c * p) * u /\ y * (w * v) = (y * w) * v
    BY <1>1, NaturalProducts
  <2>2. (c * p) * v \in Nat /\ (c * p) * u \in Nat /\ (y * w) * v \in Nat
    BY <1>1, NaturalProducts
  <2> QED
    BY <1>2, <1>3, <2>1, <2>2
<1>5. c * p <= y * w
  <2>1. c * p \in Nat /\ y * w \in Nat
    BY <1>1, NaturalProducts
  <2> QED
    BY <1>1, <1>4, <2>1, NaturalProducts
<1> QED
  BY <1>5 DEF Bounded

\* Squaring the base and halving the exponent keeps the bound.
LEMMA SquaredPower ==
  ASSUME NEW c \in Nat, NEW b \in Nat, NEW q \in Nat, NEW y \in Nat, NEW h \in Nat,
         q * Wad <= b * b, Bounded(c, b, 2 * h, y)
  PROVE  Bounded(c, q, h, y)
<1>0. Wad \in Nat \ {0} /\ q * Wad \in Nat /\ b * b \in Nat
  BY Widths, NaturalProducts
<1> PICK p, u, w : p = Pow(b, 2 * h) /\ u = Pow(q, h) /\ w = Pow(Wad, h)
  OBVIOUS
<1>1. /\ p \in Nat /\ u \in Nat /\ w \in Nat \ {0}
      /\ u * w <= p /\ Pow(Wad, 2 * h) = w * w
  <2>1. u \in Nat /\ w \in Nat \ {0}
    BY <1>0, PowNext, PowPositive
  <2>2. Pow(q * Wad, h) <= Pow(b * b, h) /\ Pow(b * b, h) \in Nat
    BY <1>0, PowMonotone, PowNext
  <2>3. Pow(q * Wad, h) = u * w
    BY <1>0, PowTimes
  <2>4. p = Pow(b * b, h) /\ Pow(Wad, 2 * h) = w * w
    BY <1>0, TurnPowers
  <2> QED
    BY <2>1, <2>2, <2>3, <2>4
<1>2. c * p <= y * (w * w)
  BY <1>1 DEF Bounded
<1>3. (c * u) * w <= c * p
  <2>1. (u * w) * c <= p * c
    BY <1>1, NaturalProducts, ProductMonotone
  <2>2. (c * u) * w = (u * w) * c /\ c * p = p * c
    BY <1>1, NaturalProducts
  <2> QED
    BY <2>1, <2>2
<1>4. (c * u) * w <= (y * w) * w
  <2>1. y * (w * w) = (y * w) * w
    BY <1>1, NaturalProducts
  <2>2. (c * u) * w \in Nat /\ c * p \in Nat /\ (y * w) * w \in Nat
    BY <1>1, NaturalProducts
  <2> QED
    BY <1>2, <1>3, <2>1, <2>2
<1>5. c * u <= y * w
  <2>1. c * u \in Nat /\ y * w \in Nat
    BY <1>1, NaturalProducts
  <2> QED
    BY <1>1, <1>4, <2>1, NaturalProducts
<1> QED
  BY <1>5 DEF Bounded

\* A factor of the power may be taken into the coefficient, rounded down.
LEMMA FactorTaken ==
  ASSUME NEW c \in Nat, NEW q \in Nat, NEW t \in Nat, NEW y \in Nat, NEW n \in Nat,
         t * Wad <= c * q, Bounded(c, q, n + 1, y)
  PROVE  Bounded(t, q, n, y)
<1>0. Wad \in Nat \ {0} /\ t * Wad \in Nat /\ c * q \in Nat
  BY Widths, NaturalProducts
<1> PICK p, w : p = Pow(q, n) /\ w = Pow(Wad, n)
  OBVIOUS
<1>1. p \in Nat /\ w \in Nat /\ Pow(q, n + 1) = p * q /\ Pow(Wad, n + 1) = w * Wad
  BY <1>0, PowNext
<1>2. c * (p * q) <= y * (w * Wad)
  BY <1>1 DEF Bounded
<1>3. (t * Wad) * p <= (c * q) * p
  BY <1>0, <1>1, ProductMonotone
<1>4. (t * p) * Wad <= (y * w) * Wad
  <2>1. (t * Wad) * p = (t * p) * Wad /\ (c * q) * p = (c * p) * q
    BY <1>0, <1>1, NaturalProducts
  <2>2. c * (p * q) = (c * p) * q /\ y * (w * Wad) = (y * w) * Wad
    BY <1>0, <1>1, NaturalProducts
  <2>3. (t * p) * Wad \in Nat /\ (c * p) * q \in Nat /\ (y * w) * Wad \in Nat
    BY <1>0, <1>1, NaturalProducts
  <2> QED
    BY <1>2, <1>3, <2>1, <2>2, <2>3
<1>5. t * p <= y * w
  <2>1. t * p \in Nat /\ y * w \in Nat
    BY <1>1, NaturalProducts
  <2> QED
    BY <1>0, <1>4, <2>1, NaturalProducts
<1> QED
  BY <1>5 DEF Bounded

LEMMA BoundedBases ==
  ASSUME NEW c \in Nat, NEW b \in Nat, NEW y \in Nat
  PROVE  /\ Bounded(c, b, 0, y) => c <= y
         /\ Bounded(Wad, b, 1, y) => b <= y
<1>1. Wad \in Nat \ {0}
  BY Widths
<1>2. Pow(b, 0) = 1 /\ Pow(b, 1) = b /\ Pow(Wad, 0) = 1 /\ Pow(Wad, 1) = Wad
  BY <1>1, PowNext
<1>3. Wad * b <= y * Wad => b <= y
  <2>1. Wad * b = b * Wad
    BY <1>1, NaturalProducts
  <2> QED
    BY <1>1, <2>1, NaturalProducts
<1> QED
  BY <1>2, <1>3 DEF Bounded

\* A product of two numbers up to y does not overflow if y * y does not.
LEMMA ProductFits ==
  ASSUME NEW a \in Nat, NEW b \in Nat, NEW y \in Nat, a <= y, b <= y, y * y <= RateMax
  PROVE  TryMul(a, b, RateMax) # Err
<1>1. a * b <= y * b /\ b * y <= y * y
  BY ProductMonotone
<1>2. a * b \in Nat /\ y * b \in Nat /\ y * b = b * y /\ y * y \in Nat
  BY NaturalProducts
<1>3. a * b \in 0..RateMax
  BY <1>1, <1>2, Widths DEF RateMax
<1> QED
  BY <1>3, ProductRange DEF Err

LEMMA LoopFits ==
  ASSUME NEW y \in Nat, y * y <= RateMax
  PROVE  \A e \in Nat : \A b, r \in Nat :
           b >= Wad /\ Bounded(r, b, 2 * (e \div 2), y) /\ Bounded(Wad, b, e, y) =>
             Loop[<<e, b, r>>] # Err
<1> DEFINE Claim(e, b, r) ==
             b >= Wad /\ Bounded(r, b, 2 * (e \div 2), y) /\ Bounded(Wad, b, e, y) =>
               Loop[<<e, b, r>>] # Err
           T == {e \in Nat : \A b, r \in Nat : Claim(e, b, r)}
<1>0. Wad \in Nat \ {0}
  BY Widths
<1>1. 0 \in T
  <2> SUFFICES ASSUME NEW b \in Nat, NEW r \in Nat PROVE Loop[<<0, b, r>>] # Err
    OBVIOUS
  <2>1. 0 \in Nat /\ b \in Int /\ r \in Int
    OBVIOUS
  <2>2. Loop[<<0, b, r>>] = r
    BY ONLY <2>1, LoopTurns
  <2> QED
    BY <2>2 DEF Err
<1>2. ASSUME NEW e \in Nat \ {0}, e \div 2 \in T PROVE e \in T
  <2> SUFFICES ASSUME NEW b \in Nat, NEW r \in Nat, b >= Wad,
                      Bounded(r, b, 2 * (e \div 2), y), Bounded(Wad, b, e, y)
               PROVE  Loop[<<e, b, r>>] # Err
    OBVIOUS
  <2> PICK h, q, t : h = e \div 2 /\ q = Square(b) /\ t = Times(r, h, q)
    OBVIOUS
  <2> PICK k : k = h \div 2
    OBVIOUS
  <2>1. /\ h \in Nat /\ k \in Nat /\ 2 * h \in Nat /\ 2 * h <= e /\ 2 * k \in Nat
        /\ \/ h % 2 = 0 /\ h = 2 * k
           \/ h % 2 = 1 /\ h = 2 * k + 1
    BY Halves
  <2>2. b <= y
    <3>1. Bounded(Wad, b, 1, y)
      BY <1>0, LowerPower
    <3> QED
      BY <3>1, BoundedBases
  <2>3. q # Err
    BY <2>2, ProductFits DEF Square
  <2>4. q \in Nat /\ q >= Wad /\ q * Wad <= b * b
    BY <2>3, SquareGrows, ProductTruncated DEF Square
  <2>5. Bounded(Wad, q, h, y)
    <3>1. Bounded(Wad, b, 2 * h, y)
      BY <1>0, <2>1, LowerPower
    <3> QED
      BY <1>0, <2>1, <2>4, <3>1, SquaredPower
  <2>6. Bounded(r, q, h, y)
    BY <2>1, <2>4, SquaredPower
  <2>7. t \in Nat /\ Bounded(t, q, 2 * k, y)
    <3>1. CASE h % 2 = 0 /\ h = 2 * k
      BY <2>6, <3>1 DEF Times
    <3>2. CASE h % 2 = 1 /\ h = 2 * k + 1
      <4>1. Bounded(Wad, q, 1, y) /\ Bounded(r, q, 0, y)
        BY <1>0, <2>1, <2>4, <2>5, <2>6, <3>2, LowerPower, SMTT(30)
      <4>2. q <= y /\ r <= y
        BY <2>4, <4>1, BoundedBases
      <4>3. t = TryMul(r, q, RateMax)
        BY <3>2 DEF Times
      <4>4. t \in Nat /\ t * Wad <= r * q
        BY <2>4, <4>2, <4>3, ProductFits, ProductTruncated
      <4>5. Bounded(r, q, 2 * k + 1, y)
        BY <2>6, <3>2
      <4>6. q \in Nat /\ y \in Nat /\ 2 * k \in Nat
        BY <2>1, <2>4
      <4> QED
        BY <4>4, <4>5, <4>6, FactorTaken, SMTT(30)
    <3> QED
      BY <2>1, <3>1, <3>2
  <2>8. Claim(h, q, t)
    BY <1>2, <2>4, <2>7
  <2>9. Loop[<<h, q, t>>] # Err
    BY <2>4, <2>5, <2>7, <2>8
  <2>10. e \in Nat /\ e # 0 /\ b \in Int /\ r \in Int
    OBVIOUS
  <2> QED
    BY <2>3, <2>9, <2>10, LoopTurns
<1> HIDE DEF T
<1>3. \A e \in Nat : e \in T
  BY <1>1, <1>2, HalvingInduction
<1> QED
  BY <1>3 DEF T

LEMMA CoverFits == MostCovers => FailsOnlyWhenLarge
<1> SUFFICES ASSUME MostCovers, base >= Wad, most * most <= RateMax PROVE Power # Err
  BY DEF FailsOnlyWhenLarge, One
<1> PICK b, n, m : b = base /\ n = slots /\ m = most
  OBVIOUS
<1> PICK h, r : h = n \div 2 /\ r = (IF n % 2 = 1 THEN b ELSE One)
  OBVIOUS
<1>1. /\ b \in Nat /\ n \in Nat /\ m \in Nat /\ b >= Wad /\ m * m <= RateMax
      /\ Power = Loop[<<n, b, r>>] /\ h \in Nat /\ 2 * h \in Nat /\ Wad \in Nat \ {0}
      /\ \/ r = Wad /\ n = 2 * h
         \/ r = b /\ n = 2 * h + 1
  BY PowerStarts, Widths DEF MostCovers, One
<1>2. Bounded(Wad, b, n, m)
  <2>1. Pow(b, n) \in Nat
    BY <1>1, PowNext
  <2>2. Pow(b, n) * Wad = Wad * Pow(b, n)
    BY <1>1, <2>1, NaturalProducts
  <2>3. Pow(b, n) * Wad <= m * Pow(Wad, n)
    BY DEF MostCovers
  <2> QED
    BY <2>2, <2>3 DEF Bounded
<1>3. r \in Nat /\ Bounded(r, b, 2 * h, m)
  <2>1. CASE r = Wad /\ n = 2 * h
    BY <1>1, <1>2, <2>1
  <2>2. CASE r = b /\ n = 2 * h + 1
    <3>1. b * Wad <= Wad * b
      BY <1>1, NaturalProducts
    <3>2. Bounded(Wad, b, 2 * h + 1, m)
      BY <1>2, <2>2
    <3>3. Bounded(b, b, 2 * h, m)
      BY <1>1, <3>1, <3>2, FactorTaken
    <3> QED
      BY <1>1, <2>2, <3>3
  <2> QED
    BY <1>1, <2>1, <2>2
<1>4. Loop[<<n, b, r>>] # Err
  BY <1>1, <1>2, <1>3, LoopFits
<1> QED
  BY <1>1, <1>4

(***************************************************************************)
(* try_pow fails only when the square of the power would not fit, for any  *)
(* base of at least one, any number of slots and any width.                *)
(***************************************************************************)
THEOREM OnlyLargePowersFail == SlotSpec => []FailsOnlyWhenLarge
<1>1. SlotSpec => []MostCovers
  BY SlotInitCovers, SlotKeepsCover, PTL DEF SlotSpec
<1> QED
  BY <1>1, CoverFits, PTL

=============================================================================
