---------------------------- MODULE KernelProofs ----------------------------
(* Theorems about the permutation and its device implementations, for every  *)
(* word size, schedule, input and number of lanes (KkPermutation), and about *)
(* the buffers the CUDA kernel runs on (CudaBuffers, at the end).            *)
EXTENDS KkPermutation, CudaBuffers, WellFoundedInduction, TLAPS

-----------------------------------------------------------------------------
(* Induction, as a statement about sets: the smallest number outside a set   *)
(* that is closed under successors would have a predecessor in it.           *)

Less == {p \in Nat \X Nat : p[1] < p[2]}

\* There is no infinite descent in the naturals.
LEMMA LessIsWellFounded == IsWellFoundedOn(Less, Nat)
  <1>1. OpToRel(<, Nat) = Less
    BY DEF OpToRel, Less
  <1> QED  BY <1>1, NatLessThanWellFounded

\* A set with 0 that is closed under successors has all naturals.
LEMMA Induction ==
    ASSUME NEW S, 0 \in S, \A n \in Nat : n \in S => n + 1 \in S
    PROVE  Nat \subseteq S
  <1> DEFINE T == {n \in Nat : n \notin S}
  <1>1. SUFFICES ASSUME T # {}  PROVE FALSE
    OBVIOUS
  <1>2. T \subseteq Nat
    OBVIOUS
  <1>3. PICK x \in T : \A y \in T : <<y, x>> \notin Less
    <2> HIDE DEF T
    <2> QED  BY <1>1, <1>2, WFMin, LessIsWellFounded
  <1>4. x \in Nat \ {0} /\ x - 1 \in Nat
    OBVIOUS
  <1>5. x - 1 \in T
    BY <1>4
  <1>6. <<x - 1, x>> \in Less
    BY <1>4 DEF Less
  <1> QED  BY <1>3, <1>5, <1>6

\* A product of positive numbers is at least its factors.
LEMMA ProductAtLeast ==
    ASSUME NEW c \in Nat \ {0}, NEW d \in Int, d >= 1
    PROVE  c * d >= c
  <1>1. d - 1 \in Nat /\ c * (d - 1) \in Nat
    OBVIOUS
  <1>2. c * d = c * (d - 1) + c
    OBVIOUS
  <1> QED  BY <1>1, <1>2

\* The same with a factor of two or more.
LEMMA ProductAtLeastTwo ==
    ASSUME NEW c \in Nat \ {0}, NEW d \in Int, d >= 2
    PROVE  c * d >= c + c
  <1>1. d - 2 \in Nat /\ c * (d - 2) \in Nat
    OBVIOUS
  <1>2. c * d = c * (d - 2) + c + c
    OBVIOUS
  <1> QED  BY <1>1, <1>2

\* Division with remainder, also of negative numbers.
LEMMA QuotientRemainder ==
    ASSUME NEW c \in Nat \ {0}, NEW b \in Int
    PROVE  b \div c \in Int /\ b % c \in 0..(c - 1) /\ b = c * (b \div c) + (b % c)
  OBVIOUS

\* They are the only ones.
LEMMA QuotientUnique ==
    ASSUME NEW c \in Nat \ {0}, NEW b \in Int, NEW q \in Int, NEW r \in 0..(c - 1),
           b = c * q + r
    PROVE  b \div c = q /\ b % c = r
  <1> DEFINE k == b \div c
             s == b % c
  <1>1. k \in Int /\ s \in 0..(c - 1) /\ b = c * k + s
    BY QuotientRemainder
  <1> HIDE DEF k, s
  <1>2. c * (q - k) = s - r /\ c * (k - q) = r - s
    BY <1>1
  <1>3. ~(q - k >= 1)
    BY <1>1, <1>2, ProductAtLeast
  <1>4. ~(k - q >= 1)
    BY <1>1, <1>2, ProductAtLeast
  <1>5. q = k
    BY <1>1, <1>3, <1>4
  <1>6. s = r
    BY <1>1, <1>5
  <1> QED  BY <1>5, <1>6 DEF k, s

\* A number below the divisor is its own remainder.
LEMMA SmallRemainder ==
    ASSUME NEW c \in Nat \ {0}, NEW x \in 0..(c - 1)
    PROVE  x % c = x /\ x \div c = 0
  <1>1. x \in Int /\ 0 \in Int /\ x = c * 0 + x
    OBVIOUS
  <1> QED  BY <1>1, QuotientUnique

\* Quotients do not exceed the number divided.
LEMMA NatQuotient ==
    ASSUME NEW c \in Nat \ {0}, NEW x \in Nat
    PROVE  x \div c \in 0..x
  <1> DEFINE k == x \div c
             r == x % c
  <1>1. k \in Int /\ r \in 0..(c - 1) /\ x = c * k + r
    BY QuotientRemainder
  <1> HIDE DEF k, r
  <1>2. ~(-k >= 1)
    <2>1. SUFFICES ASSUME -k >= 1  PROVE FALSE
      OBVIOUS
    <2>2. c * (-k) >= c /\ c * (-k) = -(c * k) /\ c * k \in Int
      BY <1>1, <2>1, ProductAtLeast
    <2> DEFINE z == c * k
    <2> HIDE DEF z
    <2>3. z \in Int /\ -z >= c /\ x = z + r
      BY <1>1, <2>2 DEF z
    <2> QED  BY <1>1, <2>3
  <1>3. k = 0 \/ k \in Nat \ {0}
    BY <1>1, <1>2
  <1>4. CASE k \in Nat \ {0}
    <2>1. k * c >= k /\ k * c = c * k
      BY <1>1, <1>4, ProductAtLeast
    <2> DEFINE z == c * k
    <2>2. z \in Int /\ z >= k /\ x = z + r
      BY <1>1, <2>1
    <2> HIDE DEF z
    <2>3. k <= x
      BY <1>1, <1>4, <2>2
    <2> QED  BY <1>4, <2>3 DEF k
  <1>5. CASE k = 0
    BY <1>5 DEF k
  <1> QED  BY <1>3, <1>4, <1>5

\* Nor do remainders.
LEMMA RemainderAtMost ==
    ASSUME NEW c \in Nat \ {0}, NEW x \in Nat
    PROVE  x % c \in Nat /\ x % c <= x
  <1> DEFINE k == x \div c
             r == x % c
  <1>1. r \in 0..(c - 1) /\ x = c * k + r
    BY QuotientRemainder
  <1>2. k \in 0..x
    BY NatQuotient
  <1> HIDE DEF k, r
  <1>3. c * k \in Nat /\ r \in Nat
    BY <1>1, <1>2
  <1> DEFINE z == c * k
  <1> HIDE DEF z
  <1>4. z \in Nat /\ x = z + r
    BY <1>1, <1>3 DEF z
  <1> QED  BY <1>3, <1>4 DEF r

-----------------------------------------------------------------------------
(* Functions defined by recursion exist. *)

\* g is built from base by n steps.
Steps(g, n, S, base, step) ==
    g \in [0..n -> S] /\ g[0] = base /\ \A k \in 1..n : g[k] = step[<<g[k - 1], k>>]

\* Every recursion over 0..n has a solution.
LEMMA RecursionExists ==
    ASSUME NEW n \in Nat, NEW S, NEW base \in S, NEW step \in [S \X (1..n) -> S]
    PROVE  \E g : Steps(g, n, S, base, step)
  <1> DEFINE Built(g, m) == /\ g \in [0..m -> S]
                            /\ g[0] = base /\ \A k \in 1..m : g[k] = step[<<g[k - 1], k>>]
             T == {m \in Nat : m <= n => \E g : Built(g, m)}
  <1>1. 0 \in T
    <2> DEFINE g == [k \in 0..0 |-> base]
    <2>1. Built(g, 0)
      OBVIOUS
    <2> QED  BY <2>1
  <1>2. ASSUME NEW m \in Nat, m \in T  PROVE m + 1 \in T
    <2>0. SUFFICES ASSUME m + 1 <= n  PROVE \E g : Built(g, m + 1)
      BY <1>2
    <2>1. PICK g : Built(g, m)
      BY <1>2, <2>0
    <2> DEFINE h == [k \in 0..(m + 1) |-> IF k = m + 1 THEN step[<<g[m], m + 1>>] ELSE g[k]]
    <2>2. g[m] \in S /\ step[<<g[m], m + 1>>] \in S
      BY <2>0, <2>1
    <2>3. h \in [0..(m + 1) -> S]
      BY <2>1, <2>2
    <2>4. \A k \in 0..m : h[k] = g[k]
      OBVIOUS
    <2>5. h[m + 1] = step[<<g[m], m + 1>>]
      OBVIOUS
    <2>6. h[0] = base
      BY <2>1, <2>4
    <2>7. ASSUME NEW k \in 1..(m + 1)  PROVE h[k] = step[<<h[k - 1], k>>]
      <3>1. h[k - 1] = g[k - 1]
        BY <2>4
      <3> HIDE DEF h
      <3>2. CASE k = m + 1
        BY <2>5, <3>1, <3>2
      <3>3. CASE k # m + 1
        BY <2>1, <2>4, <3>1, <3>3
      <3> QED  BY <3>2, <3>3
    <2> HIDE DEF h
    <2>8. Built(h, m + 1)
      BY <2>3, <2>6, <2>7
    <2> QED  BY <2>8
  <1> HIDE DEF T
  <1>3. Nat \subseteq T
    BY <1>1, <1>2, Induction
  <1>4. n \in T
    BY <1>3
  <1> QED  BY <1>4 DEF T, Steps

-----------------------------------------------------------------------------
(* Powers of two. *)

\* Power is what its recursive definition says.
LEMMA Powers ==
    ASSUME WordAssumption
    PROVE  /\ Power[0] = 1
           /\ \A n \in 1..WordBits : Power[n] = 2 * Power[n - 1]
           /\ \A n \in 0..WordBits : Power[n] \in Nat \ {0}
  <1> DEFINE step == [p \in (Nat \ {0}) \X (1..WordBits) |-> 2 * p[1]]
             to(g) == g = [k \in 0..WordBits |-> IF k = 0 THEN 1 ELSE 2 * g[k - 1]]
  <1>1. WordBits \in Nat
    BY DEF WordAssumption
  <1>2. step \in [(Nat \ {0}) \X (1..WordBits) -> Nat \ {0}]
    OBVIOUS
  <1>3. PICK g \in [0..WordBits -> Nat \ {0}] :
            g[0] = 1 /\ \A k \in 1..WordBits : g[k] = step[<<g[k - 1], k>>]
    <2> DEFINE S == Nat \ {0}
               base == 1
               n == WordBits
    <2>1. step \in [S \X (1..n) -> S] /\ base \in S /\ n \in Nat
      BY <1>1, <1>2
    <2> HIDE DEF step, S, base, n
    <2>2. \E g : Steps(g, n, S, base, step)
      BY <2>1, RecursionExists
    <2> QED  BY <2>2 DEF Steps, S, base, n
  <1>4. ASSUME NEW k \in 1..WordBits  PROVE g[k] = 2 * g[k - 1]
    <2>1. g[k - 1] \in Nat \ {0} /\ k \in 1..WordBits
      <3>1. k - 1 \in 0..WordBits
        BY <1>1
      <3>2. g \in [0..WordBits -> Nat \ {0}]
        BY <1>3
      <3> QED  BY <3>1, <3>2
    <2>2. step[<<g[k - 1], k>>] = 2 * g[k - 1]
      BY <2>1
    <2> HIDE DEF step
    <2> QED  BY <1>3, <2>2
  <1> HIDE DEF step
  <1>5. to(g)
    <2>1. ASSUME NEW k \in 0..WordBits  PROVE g[k] = IF k = 0 THEN 1 ELSE 2 * g[k - 1]
      <3>1. k # 0 => k \in 1..WordBits
        BY <1>1
      <3> QED  BY <1>3, <1>4, <3>1
    <2>2. g = [k \in 0..WordBits |-> g[k]]
      BY <1>3
    <2> QED  BY <2>1, <2>2
  <1>6. Power = CHOOSE f : to(f)
    BY DEF Power
  <1>7. to(Power)
    <2> HIDE DEF to
    <2> QED  BY <1>5, <1>6
  <1>8. Power[0] = 1 /\ \A n \in 1..WordBits : Power[n] = 2 * Power[n - 1]
    <2>1. ASSUME NEW n \in 0..WordBits
          PROVE  Power[n] = IF n = 0 THEN 1 ELSE 2 * Power[n - 1]
      BY <1>7
    <2> HIDE DEF to
    <2> QED  BY <1>1, <2>1
  <1> DEFINE T == {n \in Nat : n <= WordBits => Power[n] \in Nat \ {0}}
  <1>9. 0 \in T
    BY <1>8
  <1>10. ASSUME NEW n \in Nat, n \in T  PROVE n + 1 \in T
    <2>1. SUFFICES ASSUME n + 1 <= WordBits  PROVE Power[n + 1] \in Nat \ {0}
      OBVIOUS
    <2>2. Power[n] \in Nat \ {0}
      BY <1>1, <1>10, <2>1
    <2>3. n + 1 \in 1..WordBits /\ (n + 1) - 1 = n
      BY <1>1, <2>1
    <2>4. Power[n + 1] = 2 * Power[n]
      BY <1>8, <2>3
    <2> QED  BY <2>2, <2>4
  <1> HIDE DEF T
  <1>11. Nat \subseteq T
    BY <1>9, <1>10, Induction
  <1>12. \A n \in 0..WordBits : Power[n] \in Nat \ {0}
    BY <1>1, <1>11 DEF T
  <1> QED  BY <1>8, <1>12

\* 2^(m + n) = 2^m * 2^n.
LEMMA PowerSum ==
    ASSUME WordAssumption, NEW m \in Nat, NEW n \in Nat, m + n <= WordBits
    PROVE  /\ Power[m + n] = Power[m] * Power[n]
           /\ Power[m] \in Nat \ {0} /\ Power[n] \in Nat \ {0}
  <1> DEFINE T == {k \in Nat : m + k <= WordBits => Power[m + k] = Power[m] * Power[k]}
  <1>0. WordBits \in Nat
    BY DEF WordAssumption
  <1>1. 0 \in T
    BY <1>0, Powers
  <1>2. ASSUME NEW k \in Nat, k \in T  PROVE k + 1 \in T
    <2>1. SUFFICES ASSUME m + (k + 1) <= WordBits
                   PROVE  Power[m + (k + 1)] = Power[m] * Power[k + 1]
      OBVIOUS
    <2>2. /\ k + 1 \in 1..WordBits /\ (k + 1) - 1 = k
          /\ m + (k + 1) \in 1..WordBits /\ (m + (k + 1)) - 1 = m + k
          /\ m \in 0..WordBits /\ k \in 0..WordBits
      BY <1>0, <2>1
    <2>3. Power[k + 1] = 2 * Power[k] /\ Power[m + (k + 1)] = 2 * Power[m + k]
      BY <2>2, Powers
    <2>4. Power[m + k] = Power[m] * Power[k]
      BY <1>2, <2>1
    <2>5. Power[m] \in Nat /\ Power[k] \in Nat
      BY <2>2, Powers
    <2> QED  BY <2>3, <2>4, <2>5
  <1> HIDE DEF T
  <1>3. Nat \subseteq T
    BY <1>1, <1>2, Induction
  <1>4. m \in 0..WordBits /\ n \in 0..WordBits
    BY <1>0
  <1> QED  BY <1>3, <1>4, Powers DEF T

\* The sizes of words and half words.
LEMMA Sizes ==
    ASSUME WordAssumption
    PROVE  /\ WordBits \in Nat \ {0} /\ HalfBits \in Nat /\ HalfBits + HalfBits = WordBits
           /\ Half \in Nat \ {0} /\ Modulus = Half * Half /\ Modulus \in Nat \ {0}
  <1>1. WordBits \in Nat /\ SelectorBits \in 0..WordBits /\ Power[SelectorBits] = WordBits
    BY DEF WordAssumption
  <1>2. WordBits \in Nat \ {0}
    BY <1>1, Powers
  <1>3. HalfBits \in Nat /\ HalfBits + HalfBits = WordBits
    <2>1. WordBits % 8 = 0
      BY DEF WordAssumption
    <2>2. HalfBits = WordBits \div 2
      BY DEF HalfBits
    <2> QED  BY <1>1, <2>1, <2>2
  <1>4. Power[HalfBits + HalfBits] = Power[HalfBits] * Power[HalfBits] /\ Power[HalfBits] \in Nat \ {0}
    BY <1>1, <1>3, PowerSum
  <1> QED  BY <1>2, <1>3, <1>4 DEF Half, Modulus

\* A number below c * d has a quotient below d.
LEMMA Divided ==
    ASSUME NEW c \in Nat \ {0}, NEW d \in Nat, NEW a \in 0..(c * d - 1)
    PROVE  /\ a \div c \in 0..(d - 1) /\ a % c \in 0..(c - 1)
           /\ a = c * (a \div c) + (a % c)
  <1> DEFINE k == a \div c
             s == a % c
  <1>0. c * d \in Nat /\ a \in Nat /\ a < c * d
    OBVIOUS
  <1>1. k \in Int /\ s \in 0..(c - 1) /\ a = c * k + s
    BY <1>0, QuotientRemainder
  <1> HIDE DEF k, s
  <1>2. ~(-k >= 1)
    <2>1. SUFFICES ASSUME -k >= 1  PROVE FALSE
      OBVIOUS
    <2>2. c * (-k) >= c
      BY <1>1, <2>1, ProductAtLeast
    <2>3. c * (-k) = -(c * k)
      BY <1>1
    <2> QED  BY <1>0, <1>1, <2>2, <2>3
  <1>3. ~(k - d + 1 >= 1)
    <2>1. SUFFICES ASSUME k - d + 1 >= 1  PROVE FALSE
      OBVIOUS
    <2>2. c * (k - d + 1) >= c
      BY <1>1, <2>1, ProductAtLeast
    <2>3. c * (k - d + 1) = c * k - c * d + c
      BY <1>1
    <2> QED  BY <1>0, <1>1, <2>2, <2>3
  <1>4. k \in 0..(d - 1)
    BY <1>1, <1>2, <1>3
  <1> QED  BY <1>1, <1>4 DEF k, s

\* And is made of any quotient below d and remainder below c.
LEMMA Composed ==
    ASSUME NEW c \in Nat \ {0}, NEW d \in Nat \ {0}, NEW q \in 0..(d - 1), NEW r \in 0..(c - 1)
    PROVE  /\ c * q + r \in 0..(c * d - 1)
           /\ (c * q + r) \div c = q /\ (c * q + r) % c = r
  <1>1. c * q \in Nat /\ c * d \in Nat
    OBVIOUS
  <1>2. c * (d - q) >= c
    BY ProductAtLeast
  <1>3. c * (d - q) = c * d - c * q
    OBVIOUS
  <1>4. c * q + r \in 0..(c * d - 1)
    BY <1>1, <1>2, <1>3
  <1> DEFINE b == c * q + r
  <1>5. b \in Int /\ q \in Int
    BY <1>1
  <1> HIDE DEF b
  <1>6. b = c * q + r
    BY DEF b
  <1>7. b \div c = q /\ b % c = r
    BY <1>5, <1>6, QuotientUnique
  <1> QED  BY <1>4, <1>7 DEF b

-----------------------------------------------------------------------------
(* Rotations. *)

\* The bits of a word above and below a rotation change places.
LEMMA RotatedParts ==
    ASSUME WordAssumption, NEW r \in 0..(WordBits - 1),
           NEW hi \in 0..(Power[r] - 1), NEW lo \in 0..(Power[WordBits - r] - 1)
    PROVE  /\ Power[WordBits - r] * hi + lo \in Word /\ Power[r] * lo + hi \in Word
           /\ RotateLeft(Power[WordBits - r] * hi + lo, r) = Power[r] * lo + hi
  <1> DEFINE A == Power[r]
             B == Power[WordBits - r]
             v == B * hi + lo
  <1>1. WordBits \in Nat \ {0} /\ r \in Nat /\ WordBits - r \in Nat /\ r + (WordBits - r) = WordBits
    BY Sizes
  <1>2. Power[r + (WordBits - r)] = A * B /\ A \in Nat \ {0} /\ B \in Nat \ {0}
    <2>1. r + (WordBits - r) <= WordBits
      BY <1>1
    <2> QED  BY <1>1, <2>1, PowerSum
  <1>3. Modulus = A * B /\ Modulus = B * A
    BY <1>1, <1>2 DEF Modulus
  <1>4. r % WordBits = r
    BY <1>1
  <1>5. hi \in 0..(A - 1) /\ lo \in 0..(B - 1)
    OBVIOUS
  <1> HIDE DEF A, B
  <1>6. v \in 0..(B * A - 1) /\ v \div B = hi /\ v % B = lo
    BY <1>2, <1>5, Composed
  <1>7. A * lo + hi \in 0..(A * B - 1)
    BY <1>2, <1>5, Composed
  <1> HIDE DEF v
  <1>8. RotateLeft(v, r) = (v % B) * A + (v \div B)
    BY <1>4 DEF RotateLeft, A, B
  <1>9. RotateLeft(v, r) = A * lo + hi
    BY <1>2, <1>5, <1>6, <1>8
  <1> QED  BY <1>3, <1>6, <1>7, <1>9 DEF Word, v, A, B

\* A word is its top r bits and the rest.
LEMMA WordParts ==
    ASSUME WordAssumption, NEW v \in Word, NEW r \in 0..(WordBits - 1)
    PROVE  \E hi \in 0..(Power[r] - 1), lo \in 0..(Power[WordBits - r] - 1) :
               v = Power[WordBits - r] * hi + lo
  <1> DEFINE A == Power[r]
             B == Power[WordBits - r]
  <1>1. WordBits \in Nat \ {0} /\ r \in Nat /\ WordBits - r \in Nat
        /\ r + (WordBits - r) = WordBits /\ r + (WordBits - r) <= WordBits
    BY Sizes
  <1>2. Power[r + (WordBits - r)] = A * B /\ A \in Nat \ {0} /\ B \in Nat \ {0}
    BY <1>1, PowerSum
  <1>3. v \in 0..(B * A - 1)
    <2>1. Modulus = A * B
      BY <1>1, <1>2 DEF Modulus
    <2> HIDE DEF A, B
    <2>2. Modulus = B * A
      BY <1>2, <2>1
    <2> QED  BY <2>2 DEF Word
  <1> HIDE DEF A, B
  <1>4. /\ v \div B \in 0..(A - 1) /\ v % B \in 0..(B - 1)
        /\ v = B * (v \div B) + (v % B)
    BY <1>2, <1>3, Divided
  <1> QED  BY <1>4 DEF A, B

\* Rotations depend on their distance modulo the width.
LEMMA Distance ==
    ASSUME WordAssumption, NEW v, NEW n \in Int
    PROVE  n % WordBits \in 0..(WordBits - 1) /\ RotateLeft(v, n) = RotateLeft(v, n % WordBits)
  <1> DEFINE r == n % WordBits
  <1>1. WordBits \in Nat \ {0}
    BY Sizes
  <1>2. r \in 0..(WordBits - 1)
    BY <1>1, QuotientRemainder
  <1>3. r % WordBits = r
    <2> HIDE DEF r
    <2> QED  BY <1>1, <1>2, SmallRemainder
  <1> QED  BY <1>2, <1>3 DEF RotateLeft

\* A rotated word is a word.
LEMMA RotateType ==
    ASSUME WordAssumption, NEW v \in Word, NEW n \in Int  PROVE RotateLeft(v, n) \in Word
  <1> DEFINE r == n % WordBits
  <1>1. r \in 0..(WordBits - 1) /\ RotateLeft(v, n) = RotateLeft(v, r)
    BY Distance
  <1> HIDE DEF r
  <1>2. PICK hi \in 0..(Power[r] - 1), lo \in 0..(Power[WordBits - r] - 1) :
            v = Power[WordBits - r] * hi + lo
    BY <1>1, WordParts
  <1> QED  BY <1>1, <1>2, RotatedParts

\* A rotation is undone by the one that completes the turn.
LEMMA RotateBack ==
    ASSUME WordAssumption, NEW v \in Word, NEW n \in Int
    PROVE  RotateLeft(RotateLeft(v, n), WordBits - n) = v
  <1> DEFINE r == n % WordBits
             x == RotateLeft(v, n)
             m == (WordBits - n) % WordBits
  <1>1. r \in 0..(WordBits - 1) /\ x = RotateLeft(v, r)
    BY Distance
  <1>2. WordBits \in Nat \ {0}
    BY Sizes
  <1>3. m \in 0..(WordBits - 1) /\ RotateLeft(x, WordBits - n) = RotateLeft(x, m)
    <2>1. WordBits - n \in Int
      BY <1>2
    <2> HIDE DEF x
    <2> QED  BY <2>1, Distance
  <1>4. m = IF r = 0 THEN 0 ELSE WordBits - r
    <2> DEFINE q == n \div WordBits
    <2>1. q \in Int /\ n = WordBits * q + r
      BY <1>2, QuotientRemainder
    <2> HIDE DEF q, r
    <2>2. CASE r = 0
      <3>1. WordBits - n = WordBits * (1 - q) + 0
        BY <1>2, <2>1, <2>2
      <3>2. 1 - q \in Int /\ 0 \in 0..(WordBits - 1) /\ WordBits - n \in Int
        BY <1>2, <2>1
      <3>3. (WordBits - n) % WordBits = 0
        BY <1>2, <3>1, <3>2, QuotientUnique
      <3> QED  BY <2>2, <3>3
    <2>3. CASE r # 0
      <3>1. WordBits - n = WordBits * (-q) + (WordBits - r)
        BY <1>1, <1>2, <2>1, <2>3
      <3>2. -q \in Int /\ WordBits - r \in 0..(WordBits - 1) /\ WordBits - n \in Int
        BY <1>1, <1>2, <2>1, <2>3
      <3>3. (WordBits - n) % WordBits = WordBits - r
        <4> DEFINE a == WordBits - n
                   b == WordBits - r
                   c == -q
        <4>1. a \in Int /\ b \in 0..(WordBits - 1) /\ c \in Int /\ a = WordBits * c + b
          BY <3>1, <3>2
        <4> HIDE DEF a, b, c
        <4>2. a % WordBits = b
          BY <1>2, <4>1, QuotientUnique
        <4> QED  BY <4>2 DEF a, b
      <3> QED  BY <2>3, <3>3
    <2> QED  BY <2>2, <2>3
  <1> HIDE DEF r, m, x
  <1>5. PICK hi \in 0..(Power[r] - 1), lo \in 0..(Power[WordBits - r] - 1) :
            v = Power[WordBits - r] * hi + lo
    BY <1>1, WordParts
  <1>6. x = Power[r] * lo + hi
    BY <1>1, <1>5, RotatedParts
  <1>7. CASE r = 0
    <2>1. Power[0] = 1 /\ WordBits - 0 = WordBits /\ Power[WordBits] \in Nat
      <3>1. WordBits \in 0..WordBits /\ WordBits - 0 = WordBits
        BY <1>2
      <3> QED  BY <3>1, Powers
    <2>2. hi = 0 /\ v = lo /\ lo \in Nat
      <3>1. /\ hi \in 0..(Power[0] - 1) /\ lo \in 0..(Power[WordBits] - 1)
            /\ v = Power[WordBits] * hi + lo
        <4>1. WordBits - r = WordBits
          BY <1>2, <1>7
        <4> QED  BY <1>5, <1>7, <4>1
      <3>2. hi = 0 /\ lo \in Nat
        BY <2>1, <3>1
      <3>3. Power[WordBits] * 0 = 0
        BY <2>1
      <3> QED  BY <3>1, <3>2, <3>3
    <2>3. x = v
      BY <1>6, <1>7, <2>1, <2>2
    <2>4. RotateLeft(v, 0) = v
      BY <1>1, <1>7, <2>3
    <2> QED  BY <1>3, <1>4, <1>7, <2>3, <2>4 DEF x
  <1>8. CASE r # 0
    <2>1. m = WordBits - r /\ WordBits - m = r
      BY <1>1, <1>2, <1>4, <1>8
    <2>2. RotateLeft(Power[WordBits - m] * lo + hi, m) = Power[m] * hi + lo
      <3>1. lo \in 0..(Power[m] - 1) /\ hi \in 0..(Power[WordBits - m] - 1)
        BY <2>1
      <3> QED  BY <1>3, <3>1, RotatedParts
    <2> QED  BY <1>3, <1>5, <1>6, <2>1, <2>2 DEF x
  <1> QED  BY <1>7, <1>8

\* Rotations compose, short of a whole turn.
LEMMA RotateTwice ==
    ASSUME WordAssumption, NEW v \in Word, NEW m \in Nat, NEW n \in Nat, m + n < WordBits
    PROVE  RotateLeft(RotateLeft(v, m), n) = RotateLeft(v, m + n)
  <1> DEFINE l == WordBits - (m + n)
             A == Power[m]
             B == Power[n]
             C == Power[l]
  <1>1. /\ WordBits \in Nat \ {0} /\ l \in Nat /\ m + n \in 0..(WordBits - 1)
        /\ m \in 0..(WordBits - 1) /\ n \in 0..(WordBits - 1)
        /\ WordBits - m = n + l /\ WordBits - n = m + l /\ WordBits - (m + n) = l
        /\ m + n <= WordBits /\ n + l <= WordBits /\ m + l <= WordBits
    BY Sizes
  <1> HIDE DEF l
  <1>2. /\ Power[m + n] = A * B /\ Power[n + l] = B * C /\ Power[m + l] = A * C
        /\ A \in Nat \ {0} /\ B \in Nat \ {0} /\ C \in Nat \ {0}
    BY <1>1, PowerSum
  <1>3. PICK hi \in 0..(Power[m] - 1), w \in 0..(Power[WordBits - m] - 1) :
            v = Power[WordBits - m] * hi + w
    BY <1>1, WordParts
  <1>4. RotateLeft(v, m) = A * w + hi
    BY <1>1, <1>3, RotatedParts
  <1>5. w \in 0..(C * B - 1) /\ hi \in 0..(A - 1)
    BY <1>1, <1>2, <1>3
  <1> DEFINE b == w \div C
             c == w % C
  <1> HIDE DEF A, B, C
  <1>6. b \in 0..(B - 1) /\ c \in 0..(C - 1) /\ w = C * b + c
    BY <1>2, <1>5, Divided
  <1> HIDE DEF b, c
  <1>7. A * w + hi = (A * C) * b + (A * c + hi) /\ v = C * (B * hi + b) + c
    <2>1. v = (B * C) * hi + w
      BY <1>1, <1>2, <1>3
    <2>2. A * (C * b + c) + hi = (A * C) * b + (A * c + hi)
      BY <1>2, <1>5, <1>6
    <2>3. (B * C) * hi + (C * b + c) = C * (B * hi + b) + c
      BY <1>2, <1>5, <1>6
    <2> QED  BY <1>6, <2>1, <2>2, <2>3
  <1>8. A * c + hi \in 0..(A * C - 1) /\ B * hi + b \in 0..(B * A - 1)
    BY <1>2, <1>5, <1>6, Composed
  <1>9. RotateLeft(A * w + hi, n) = B * (A * c + hi) + b
    <2>1. Power[WordBits - n] = A * C /\ Power[n] = B
      BY <1>1, <1>2 DEF B
    <2>2. RotateLeft(Power[WordBits - n] * b + (A * c + hi), n) = Power[n] * (A * c + hi) + b
      BY <1>1, <1>6, <1>8, <2>1, RotatedParts
    <2> QED  BY <1>7, <2>1, <2>2
  <1>10. RotateLeft(v, m + n) = (A * B) * c + (B * hi + b)
    <2>1. Power[WordBits - (m + n)] = C /\ Power[m + n] = A * B /\ A * B = B * A
      BY <1>1, <1>2 DEF C
    <2>2. RotateLeft(Power[WordBits - (m + n)] * (B * hi + b) + c, m + n)
             = Power[m + n] * c + (B * hi + b)
      BY <1>1, <1>6, <1>8, <2>1, RotatedParts
    <2> QED  BY <1>7, <2>1, <2>2
  <1>11. B * (A * c + hi) + b = (A * B) * c + (B * hi + b)
    BY <1>2, <1>5, <1>6
  <1> QED  BY <1>4, <1>9, <1>10, <1>11

-----------------------------------------------------------------------------
(* Bits. *)

\* The n + 1 low bits are bit n and the n low bits.
LEMMA LowBits ==
    ASSUME WordAssumption, NEW s \in Nat, NEW n \in Nat, n + 1 <= WordBits
    PROVE  /\ Bit(s, n) \in {0, 1} /\ Power[n] \in Nat \ {0} /\ Power[n + 1] = 2 * Power[n]
           /\ s % Power[n + 1] = Power[n] * Bit(s, n) + (s % Power[n])
  <1> DEFINE P == Power[n]
             q == s \div P
             r == s % P
             b == q % 2
             k == q \div 2
  <1>1. WordBits \in Nat
    BY DEF WordAssumption
  <1>2. n + 1 \in 1..WordBits /\ (n + 1) - 1 = n /\ n \in 0..WordBits
    BY <1>1
  <1>3. Power[n + 1] = 2 * P /\ P \in Nat \ {0}
    BY <1>2, Powers
  <1>4. b = Bit(s, n)
    BY DEF Bit
  <1> HIDE DEF P
  <1>5. q \in Int /\ r \in 0..(P - 1) /\ s = P * q + r
    <2>1. s \in Int
      OBVIOUS
    <2> QED  BY <1>3, <2>1, QuotientRemainder
  <1> HIDE DEF q, r
  <1>6. b \in {0, 1} /\ k \in Int /\ q = 2 * k + b
    BY <1>5
  <1> HIDE DEF b, k
  <1>7. s = (2 * P) * k + (P * b + r)
    BY <1>3, <1>5, <1>6
  <1>8. P * b + r \in 0..(2 * P - 1)
    BY <1>3, <1>5, <1>6
  <1>9. s % (2 * P) = P * b + r
    <2> DEFINE c == 2 * P
               d == P * b + r
    <2>1. c \in Nat \ {0} /\ s \in Int
      BY <1>3
    <2> HIDE DEF c, d
    <2>2. s = c * k + d /\ d \in 0..(c - 1)
      BY <1>7, <1>8 DEF c, d
    <2>3. s % c = d
      BY <1>6, <2>1, <2>2, QuotientUnique
    <2> QED  BY <2>3 DEF c, d
  <1> QED  BY <1>3, <1>4, <1>6, <1>9 DEF P, r

\* A rotation by nothing.
LEMMA RotateNone == ASSUME WordAssumption, NEW v \in Word  PROVE RotateLeft(v, 0) = v
  <1>1. 0 \in 0..(WordBits - 1) /\ Power[0] = 1 /\ WordBits - 0 = WordBits /\ WordBits \in 0..WordBits
    BY Sizes, Powers
  <1>2. PICK hi \in 0..(Power[0] - 1), lo \in 0..(Power[WordBits - 0] - 1) :
            v = Power[WordBits - 0] * hi + lo
    BY <1>1, WordParts
  <1>3. RotateLeft(v, 0) = Power[0] * lo + hi
    BY <1>1, <1>2, RotatedParts
  <1>4. hi = 0 /\ lo \in Nat /\ Power[WordBits - 0] \in Nat
    <2> DEFINE A == Power[0]
               B == Power[WordBits - 0]
    <2>1. Power[WordBits] \in Nat
      BY <1>1, Powers
    <2>2. A = 1 /\ B \in Nat
      BY <1>1, <2>1
    <2>3. hi \in 0..(A - 1) /\ lo \in 0..(B - 1)
      BY <1>2
    <2> HIDE DEF A, B
    <2>4. hi = 0 /\ lo \in Nat
      BY <2>2, <2>3
    <2> QED  BY <2>2, <2>4 DEF B
  <1> QED  BY <1>1, <1>2, <1>3, <1>4

\* Rotating by the set bits of a selector is rotating by the selector.
LEMMA RotatedByBits ==
    ASSUME WordAssumption, NEW v \in Word, NEW s \in 0..(WordBits - 1)
    PROVE  RotateByBits(RotateLeft, v, s) = RotateLeft(v, s)
  <1> DEFINE next(x, k) == IF Bit(s, k - 1) = 1 THEN RotateLeft(x, Power[k - 1]) ELSE x
             step == [p \in Word \X (1..SelectorBits) |-> next(p[1], p[2])]
             to(g) == g = [k \in 0..SelectorBits |-> IF k = 0 THEN v ELSE next(g[k - 1], k)]
  <1>1. /\ WordBits \in Nat \ {0} /\ SelectorBits \in Nat /\ SelectorBits <= WordBits
        /\ Power[SelectorBits] = WordBits /\ s \in Nat
    BY Sizes DEF WordAssumption
  <1>2. step \in [Word \X (1..SelectorBits) -> Word]
    <2>1. ASSUME NEW x \in Word, NEW k \in 1..SelectorBits  PROVE next(x, k) \in Word
      <3>1. k - 1 \in 0..WordBits
        BY <1>1
      <3>2. Power[k - 1] \in Int
        BY <3>1, Powers
      <3> QED  BY <3>2, RotateType
    <2> HIDE DEF next
    <2> QED  BY <2>1
  <1>3. PICK g : Steps(g, SelectorBits, Word, v, step)
    <2> HIDE DEF step
    <2> QED  BY <1>1, <1>2, RecursionExists
  <1>4. /\ g \in [0..SelectorBits -> Word] /\ g[0] = v
        /\ \A k \in 1..SelectorBits : g[k] = next(g[k - 1], k)
    <2>1. /\ g \in [0..SelectorBits -> Word] /\ g[0] = v
          /\ \A k \in 1..SelectorBits : g[k] = step[<<g[k - 1], k>>]
      <3> HIDE DEF step
      <3> QED  BY <1>3 DEF Steps
    <2>2. ASSUME NEW k \in 1..SelectorBits  PROVE g[k] = next(g[k - 1], k)
      <3>1. g[k - 1] \in Word
        BY <1>1, <2>1
      <3>2. step[<<g[k - 1], k>>] = next(g[k - 1], k)
        <4> HIDE DEF next
        <4> QED  BY <3>1
      <3> HIDE DEF step, next
      <3> QED  BY <2>1, <3>2
    <2> HIDE DEF step, next
    <2> QED  BY <2>1, <2>2
  <1>5. to(g)
    <2> HIDE DEF next
    <2>1. ASSUME NEW k \in 0..SelectorBits  PROVE g[k] = IF k = 0 THEN v ELSE next(g[k - 1], k)
      <3>1. k # 0 => k \in 1..SelectorBits
        BY <1>1
      <3> QED  BY <1>4, <3>1
    <2>2. g = [k \in 0..SelectorBits |-> g[k]]
      BY <1>4
    <2> QED  BY <2>1, <2>2
  <1> DEFINE h == CHOOSE f : to(f)
  <1>6. RotateByBits(RotateLeft, v, s) = h[SelectorBits]
    BY DEF RotateByBits
  <1>7. to(h)
    <2> HIDE DEF to
    <2> QED  BY <1>5
  <1> HIDE DEF h
  <1>8. h[0] = v /\ \A k \in 1..SelectorBits : h[k] = next(h[k - 1], k)
    <2> HIDE DEF next
    <2>1. ASSUME NEW k \in 0..SelectorBits  PROVE h[k] = IF k = 0 THEN v ELSE next(h[k - 1], k)
      BY <1>7
    <2> HIDE DEF to
    <2>2. 0 \in 0..SelectorBits /\ 1..SelectorBits \subseteq 0..SelectorBits
          /\ \A k \in 1..SelectorBits : k # 0
      BY <1>1
    <2> QED  BY <2>1, <2>2
  <1> DEFINE T == {n \in Nat : n <= SelectorBits => h[n] = RotateLeft(v, s % Power[n])}
  <1>9. 0 \in T
    <2>1. s % Power[0] = 0
      BY <1>1, Powers
    <2>2. RotateLeft(v, 0) = v
      BY RotateNone
    <2> HIDE DEF next
    <2> QED  BY <1>8, <2>1, <2>2
  <1>10. ASSUME NEW n \in Nat, n \in T  PROVE n + 1 \in T
    <2>1. SUFFICES ASSUME n + 1 <= SelectorBits
                   PROVE  h[n + 1] = RotateLeft(v, s % Power[n + 1])
      OBVIOUS
    <2>2. h[n] = RotateLeft(v, s % Power[n])
      BY <1>1, <1>10, <2>1
    <2>3. n + 1 \in 1..SelectorBits /\ (n + 1) - 1 = n /\ n + 1 <= WordBits
      BY <1>1, <2>1
    <2> DEFINE P == Power[n]
               low == s % P
    <2>4. /\ Bit(s, n) \in {0, 1} /\ P \in Nat \ {0}
          /\ s % Power[n + 1] = P * Bit(s, n) + low
      BY <1>1, <2>3, LowBits
    <2>5. low \in Nat
      BY <1>1, <2>4
    <2>6. s % Power[n + 1] <= s /\ s % Power[n + 1] \in Nat
      <3>1. n + 1 \in 0..WordBits
        BY <2>3
      <3>2. Power[n + 1] \in Nat \ {0}
        BY <3>1, Powers
      <3> QED  BY <1>1, <3>2, RemainderAtMost
    <2>7. h[n + 1] = next(h[n], n + 1)
      <3> HIDE DEF next
      <3> QED  BY <1>8, <2>3
    <2>8. h[n + 1] = IF Bit(s, n) = 1 THEN RotateLeft(h[n], P) ELSE h[n]
      BY <2>3, <2>7
    <2> HIDE DEF P, low
    <2>9. CASE Bit(s, n) = 1
      <3>1. s % Power[n + 1] = low + P /\ low + P < WordBits
        BY <1>1, <2>4, <2>5, <2>6, <2>9
      <3>2. RotateLeft(RotateLeft(v, low), P) = RotateLeft(v, low + P)
        BY <2>4, <2>5, <3>1, RotateTwice
      <3> QED  BY <2>2, <2>8, <2>9, <3>1, <3>2 DEF low, P
    <2>10. CASE Bit(s, n) = 0
      <3>1. s % Power[n + 1] = low
        BY <2>4, <2>5, <2>10
      <3> QED  BY <2>2, <2>8, <2>10, <3>1 DEF low, P
    <2> QED  BY <2>4, <2>9, <2>10
  <1> HIDE DEF T
  <1>11. Nat \subseteq T
    BY <1>9, <1>10, Induction
  <1>12. h[SelectorBits] = RotateLeft(v, s % Power[SelectorBits])
    BY <1>1, <1>11 DEF T
  <1>13. s % WordBits = s
    BY <1>1
  <1> QED  BY <1>1, <1>6, <1>12, <1>13

\* Setting bit n of a number below 2^n leaves the bits below it alone.
LEMMA NewBit ==
    ASSUME WordAssumption, NEW n \in Nat, n + 1 <= WordBits,
           NEW x \in 0..(Power[n] - 1), NEW d \in {0, 1}
    PROVE  /\ x + Power[n] * d \in 0..(Power[n + 1] - 1)
           /\ Bit(x + Power[n] * d, n) = d
           /\ \A i \in 0..(n - 1) : Bit(x + Power[n] * d, i) = Bit(x, i)
  <1> DEFINE P == Power[n]
             y == x + P * d
  <1>0. WordBits \in Nat
    BY DEF WordAssumption
  <1>1. P \in Nat \ {0} /\ Power[n + 1] = 2 * P
    <2>1. n + 1 \in 1..WordBits /\ (n + 1) - 1 = n /\ n \in 0..WordBits
      BY <1>0
    <2> QED  BY <2>1, Powers
  <1>2. x \in 0..(P - 1)
    OBVIOUS
  <1> HIDE DEF P
  <1>3. y \in 0..(2 * P - 1) /\ y \in Int /\ y = P * d + x
    BY <1>1, <1>2
  <1> HIDE DEF y
  <1>4. Bit(y, n) = d
    <2>1. d \in Int
      OBVIOUS
    <2>2. y \div P = d
      BY <1>1, <1>2, <1>3, <2>1, QuotientUnique
    <2>3. d % 2 = d
      OBVIOUS
    <2> QED  BY <2>2, <2>3 DEF Bit, P
  <1>5. ASSUME NEW i \in 0..(n - 1)  PROVE Bit(y, i) = Bit(x, i)
    <2> DEFINE Q == Power[i]
               R == Power[n - (i + 1)]
               q == x \div Q
               r == x % Q
    <2>1. /\ i \in Nat /\ i + 1 \in Nat /\ n - (i + 1) \in Nat
          /\ (i + 1) + (n - (i + 1)) = n /\ n <= WordBits
          /\ i + 1 \in 1..WordBits /\ (i + 1) - 1 = i /\ i \in 0..WordBits
      BY <1>0
    <2>2. P = Power[i + 1] * R /\ R \in Nat \ {0}
      BY <2>1, PowerSum DEF P
    <2>3. Power[i + 1] = 2 * Q /\ Q \in Nat \ {0}
      BY <2>1, Powers
    <2> HIDE DEF Q, R
    <2>4. x \in Int
      BY <1>1, <1>2
    <2>5. q \in Int /\ r \in 0..(Q - 1) /\ x = Q * q + r
      BY <2>3, <2>4, QuotientRemainder
    <2> HIDE DEF q, r
    <2>6. y = Q * (q + 2 * (R * d)) + r
      BY <1>1, <1>3, <2>2, <2>3, <2>5
    <2>7. q + 2 * (R * d) \in Int
      BY <2>2, <2>5
    <2>8. y \div Q = q + 2 * (R * d)
      <3> DEFINE k == q + 2 * (R * d)
      <3> HIDE DEF k
      <3>1. y = Q * k + r /\ k \in Int
        BY <2>6, <2>7 DEF k
      <3>2. y \in Int /\ Q \in Nat \ {0} /\ r \in 0..(Q - 1)
        BY <1>3, <2>3, <2>5
      <3>3. y \div Q = k
        BY <3>1, <3>2, QuotientUnique
      <3> QED  BY <3>3 DEF k
    <2>9. (q + 2 * (R * d)) % 2 = q % 2
      <3> DEFINE m == R * d
      <3>1. m \in Int
        BY <2>2
      <3> HIDE DEF m
      <3>2. (q + 2 * m) % 2 = q % 2
        BY <2>5, <3>1
      <3> QED  BY <3>2 DEF m
    <2> QED  BY <2>8, <2>9 DEF Bit, Q, q
  <1> QED  BY <1>1, <1>3, <1>4, <1>5 DEF P, y

\* A half word is its bits.
LEMMA SameBits ==
    ASSUME WordAssumption, NEW a \in HalfWord, NEW b \in HalfWord,
           \A i \in 0..(HalfBits - 1) : Bit(a, i) = Bit(b, i)
    PROVE  a = b
  <1> DEFINE T == {n \in Nat : n <= HalfBits => a % Power[n] = b % Power[n]}
  <1>1. /\ HalfBits \in Nat /\ WordBits \in Nat /\ HalfBits <= WordBits
        /\ a \in Nat /\ b \in Nat /\ Half \in Nat \ {0}
    BY Sizes DEF HalfWord
  <1>2. 0 \in T
    <2>1. Power[0] = 1
      BY Powers
    <2> QED  BY <1>1, <2>1
  <1>3. ASSUME NEW n \in Nat, n \in T  PROVE n + 1 \in T
    <2>1. SUFFICES ASSUME n + 1 <= HalfBits  PROVE a % Power[n + 1] = b % Power[n + 1]
      OBVIOUS
    <2>2. n + 1 <= WordBits /\ n \in 0..(HalfBits - 1) /\ n <= HalfBits
      BY <1>1, <2>1
    <2>3. /\ a % Power[n + 1] = Power[n] * Bit(a, n) + (a % Power[n])
          /\ b % Power[n + 1] = Power[n] * Bit(b, n) + (b % Power[n])
      BY <1>1, <2>2, LowBits
    <2> QED  BY <1>3, <2>2, <2>3
  <1> HIDE DEF T
  <1>4. Nat \subseteq T
    BY <1>2, <1>3, Induction
  <1>5. a % Half = b % Half
    BY <1>1, <1>4 DEF T, Half
  <1>6. a % Half = a /\ b % Half = b
    BY <1>1 DEF HalfWord
  <1> QED  BY <1>5, <1>6

\* Bits are 0 or 1.
LEMMA BitType == ASSUME WordAssumption, NEW a \in Nat, NEW i \in 0..(WordBits - 1)
                 PROVE  Bit(a, i) \in {0, 1}
  <1>1. i \in Nat /\ i + 1 <= WordBits
    BY Sizes
  <1> QED  BY <1>1, LowBits

\* Bit i of the exclusive or is the exclusive or of the bits i.
LEMMA XorBitsOf ==
    ASSUME WordAssumption, NEW a \in HalfWord, NEW b \in HalfWord
    PROVE  /\ XorBits(a, b) \in HalfWord
           /\ \A i \in 0..(HalfBits - 1) : Bit(XorBits(a, b), i) = (Bit(a, i) + Bit(b, i)) % 2
  <1> DEFINE d(i) == (Bit(a, i) + Bit(b, i)) % 2
             next(x, k) == x + Power[k - 1] * d(k - 1)
             step == [p \in Nat \X (1..HalfBits) |-> next(p[1], p[2])]
             to(g) == g = [k \in 0..HalfBits |-> IF k = 0 THEN 0 ELSE next(g[k - 1], k)]
  <1>1. /\ HalfBits \in Nat /\ WordBits \in Nat \ {0} /\ HalfBits <= WordBits
        /\ a \in Nat /\ b \in Nat /\ HalfBits < WordBits
    BY Sizes DEF HalfWord
  <1>2. \A i \in 0..(HalfBits - 1) : d(i) \in {0, 1} /\ Power[i] \in Nat
    <2>1. ASSUME NEW i \in 0..(HalfBits - 1)  PROVE d(i) \in {0, 1} /\ Power[i] \in Nat
      <3>1. i \in 0..(WordBits - 1) /\ i \in 0..WordBits
        BY <1>1
      <3>2. Bit(a, i) \in {0, 1} /\ Bit(b, i) \in {0, 1}
        BY <1>1, <3>1, BitType
      <3>3. Power[i] \in Nat
        BY <3>1, Powers
      <3> QED  BY <3>2, <3>3
    <2> QED  BY <2>1
  <1> HIDE DEF d
  <1>3. step \in [Nat \X (1..HalfBits) -> Nat]
    <2>1. ASSUME NEW x \in Nat, NEW k \in 1..HalfBits  PROVE next(x, k) \in Nat
      <3>1. k - 1 \in 0..(HalfBits - 1)
        BY <1>1
      <3>2. d(k - 1) \in {0, 1} /\ Power[k - 1] \in Nat
        BY <1>2, <3>1
      <3> QED  BY <3>2
    <2> HIDE DEF next
    <2> QED  BY <2>1
  <1>4. PICK g : Steps(g, HalfBits, Nat, 0, step)
    <2> DEFINE n == HalfBits
               S == Nat
               base == 0
    <2>1. n \in Nat /\ step \in [S \X (1..n) -> S] /\ base \in S
      BY <1>1, <1>3
    <2> HIDE DEF step, n, S, base
    <2>2. \E g : Steps(g, n, S, base, step)
      BY <2>1, RecursionExists
    <2> QED  BY <2>2 DEF n, S, base
  <1>5. /\ g \in [0..HalfBits -> Nat] /\ g[0] = 0
        /\ \A k \in 1..HalfBits : g[k] = next(g[k - 1], k)
    <2>1. /\ g \in [0..HalfBits -> Nat] /\ g[0] = 0
          /\ \A k \in 1..HalfBits : g[k] = step[<<g[k - 1], k>>]
      <3> HIDE DEF step
      <3> QED  BY <1>4 DEF Steps
    <2>2. ASSUME NEW k \in 1..HalfBits  PROVE g[k] = next(g[k - 1], k)
      <3>1. g[k - 1] \in Nat
        <4>1. k - 1 \in 0..HalfBits
          BY <1>1
        <4> HIDE DEF step
        <4> QED  BY <2>1, <4>1
      <3>2. step[<<g[k - 1], k>>] = next(g[k - 1], k)
        <4> HIDE DEF next
        <4> QED  BY <3>1
      <3> HIDE DEF step, next
      <3> QED  BY <2>1, <3>2
    <2> HIDE DEF step, next
    <2> QED  BY <2>1, <2>2
  <1>6. to(g)
    <2> HIDE DEF next
    <2>1. ASSUME NEW k \in 0..HalfBits  PROVE g[k] = IF k = 0 THEN 0 ELSE next(g[k - 1], k)
      <3>1. k # 0 => k \in 1..HalfBits
        BY <1>1
      <3> QED  BY <1>5, <3>1
    <2>2. g = [k \in 0..HalfBits |-> g[k]]
      BY <1>5
    <2> QED  BY <2>1, <2>2
  <1> DEFINE h == CHOOSE f : to(f)
  <1>7. XorBits(a, b) = h[HalfBits]
    BY DEF XorBits, d
  <1>8. to(h)
    <2> HIDE DEF to
    <2> QED  BY <1>6
  <1> HIDE DEF h
  <1>9. h[0] = 0 /\ \A k \in 1..HalfBits : h[k] = next(h[k - 1], k)
    <2> HIDE DEF next
    <2>1. ASSUME NEW k \in 0..HalfBits  PROVE h[k] = IF k = 0 THEN 0 ELSE next(h[k - 1], k)
      BY <1>8
    <2> HIDE DEF to
    <2>2. 0 \in 0..HalfBits /\ 1..HalfBits \subseteq 0..HalfBits
          /\ \A k \in 1..HalfBits : k # 0
      BY <1>1
    <2> QED  BY <2>1, <2>2
  <1> DEFINE has(n) == /\ h[n] \in 0..(Power[n] - 1)
                       /\ \A i \in 0..(n - 1) : Bit(h[n], i) = d(i)
             T == {n \in Nat : n <= HalfBits => has(n)}
  <1>10. 0 \in T
    <2>1. Power[0] = 1
      BY <1>1, Powers
    <2> HIDE DEF next
    <2> QED  BY <1>9, <2>1
  <1>11. ASSUME NEW n \in Nat, n \in T  PROVE n + 1 \in T
    <2>1. SUFFICES ASSUME n + 1 <= HalfBits  PROVE has(n + 1)
      OBVIOUS
    <2>2. has(n)
      <3> HIDE DEF has
      <3> QED  BY <1>1, <1>11, <2>1
    <2>3. n + 1 \in 1..HalfBits /\ (n + 1) - 1 = n /\ n + 1 <= WordBits /\ n \in 0..(HalfBits - 1)
      BY <1>1, <2>1
    <2>4. h[n + 1] = h[n] + Power[n] * d(n)
      BY <1>9, <2>3
    <2>5. d(n) \in {0, 1}
      BY <1>2, <2>3
    <2>6. /\ h[n + 1] \in 0..(Power[n + 1] - 1) /\ Bit(h[n + 1], n) = d(n)
          /\ \A i \in 0..(n - 1) : Bit(h[n + 1], i) = Bit(h[n], i)
      BY <2>2, <2>3, <2>4, <2>5, NewBit
    <2>7. ASSUME NEW i \in 0..((n + 1) - 1)  PROVE Bit(h[n + 1], i) = d(i)
      <3>1. CASE i = n
        BY <2>6, <3>1
      <3>2. CASE i # n
        <4>1. i \in 0..(n - 1)
          BY <3>2
        <4> QED  BY <2>2, <2>6, <4>1
      <3> QED  BY <3>1, <3>2
    <2> QED  BY <2>6, <2>7
  <1> HIDE DEF T
  <1>12. Nat \subseteq T
    BY <1>10, <1>11, Induction
  <1>13. has(HalfBits)
    <2> HIDE DEF has
    <2> QED  BY <1>1, <1>12 DEF T
  <1>14. HalfWord = 0..(Power[HalfBits] - 1)
    BY DEF HalfWord, Half
  <1> QED  BY <1>7, <1>13, <1>14 DEF d

\* The exclusive or of half words commutes and is undone by itself.
LEMMA XorHalves ==
    ASSUME WordAssumption, NEW a \in HalfWord, NEW b \in HalfWord
    PROVE  /\ XorHalf[<<a, b>>] \in HalfWord
           /\ XorHalf[<<XorHalf[<<a, b>>], b>>] = a
           /\ XorHalf[<<a, b>>] = XorHalf[<<b, a>>]
  <1>1. XorHalf[<<a, b>>] = XorBits(a, b) /\ XorHalf[<<b, a>>] = XorBits(b, a)
    BY DEF XorHalf
  <1> DEFINE x == XorBits(a, b)
             y == XorBits(b, a)
             z == XorBits(x, b)
  <1>2. x \in HalfWord /\ \A i \in 0..(HalfBits - 1) : Bit(x, i) = (Bit(a, i) + Bit(b, i)) % 2
    BY XorBitsOf
  <1>3. y \in HalfWord /\ \A i \in 0..(HalfBits - 1) : Bit(y, i) = (Bit(b, i) + Bit(a, i)) % 2
    BY XorBitsOf
  <1> HIDE DEF x, y
  <1>4. z \in HalfWord /\ \A i \in 0..(HalfBits - 1) : Bit(z, i) = (Bit(x, i) + Bit(b, i)) % 2
    BY <1>2, XorBitsOf
  <1>5. XorHalf[<<x, b>>] = z
    BY <1>2 DEF XorHalf
  <1> HIDE DEF z
  <1>6. ASSUME NEW i \in 0..(HalfBits - 1)
        PROVE  Bit(a, i) \in {0, 1} /\ Bit(b, i) \in {0, 1}
    <2>1. i \in 0..(WordBits - 1) /\ a \in Nat /\ b \in Nat
      BY Sizes DEF HalfWord
    <2> QED  BY <2>1, BitType
  <1>7. \A i \in 0..(HalfBits - 1) : Bit(x, i) = Bit(y, i) /\ Bit(z, i) = Bit(a, i)
    <2>1. SUFFICES ASSUME NEW i \in 0..(HalfBits - 1)
                   PROVE  Bit(x, i) = Bit(y, i) /\ Bit(z, i) = Bit(a, i)
      OBVIOUS
    <2>2. /\ Bit(x, i) = (Bit(a, i) + Bit(b, i)) % 2 /\ Bit(y, i) = (Bit(b, i) + Bit(a, i)) % 2
          /\ Bit(z, i) = (Bit(x, i) + Bit(b, i)) % 2
      BY <1>2, <1>3, <1>4
    <2> QED  BY <1>6, <2>2
  <1>8. x = y /\ z = a
    BY <1>2, <1>3, <1>4, <1>7, SameBits
  <1> QED  BY <1>1, <1>2, <1>5, <1>8 DEF x, y

\* The halves of a word.
LEMMA HalvesOf ==
    ASSUME WordAssumption, NEW a \in Word
    PROVE  /\ a \div Half \in HalfWord /\ a % Half \in HalfWord
           /\ a = Half * (a \div Half) + (a % Half)
  <1>1. Half \in Nat \ {0} /\ a \in 0..(Half * Half - 1)
    BY Sizes DEF Word
  <1> QED  BY <1>1, Divided DEF HalfWord

\* Two half words make a word, and are read back from it.
LEMMA WordOf ==
    ASSUME WordAssumption, NEW h \in HalfWord, NEW l \in HalfWord
    PROVE  /\ Half * h + l \in Word
           /\ (Half * h + l) \div Half = h /\ (Half * h + l) % Half = l
  <1>1. Half \in Nat \ {0} /\ Modulus = Half * Half
    BY Sizes
  <1> QED  BY <1>1, Composed DEF HalfWord, Word

\* Exclusive or, half by half.
LEMMA XorOfHalves ==
    ASSUME WordAssumption, NEW a \in Word, NEW b \in Word
    PROVE  /\ Xor(a, b) \in Word
           /\ Xor(a, b) \div Half = XorHalf[<<a \div Half, b \div Half>>]
           /\ Xor(a, b) % Half = XorHalf[<<a % Half, b % Half>>]
  <1> DEFINE h == XorHalf[<<a \div Half, b \div Half>>]
             l == XorHalf[<<a % Half, b % Half>>]
  <1>1. h \in HalfWord /\ l \in HalfWord
    BY HalvesOf, XorHalves
  <1>2. Xor(a, b) = Half * h + l
    BY DEF Xor
  <1> HIDE DEF h, l
  <1>3. Half * h + l \in Word /\ (Half * h + l) \div Half = h /\ (Half * h + l) % Half = l
    BY <1>1, WordOf
  <1> QED  BY <1>2, <1>3 DEF h, l

\* A word is determined by its halves.
LEMMA SameHalves ==
    ASSUME WordAssumption, NEW a \in Word, NEW b \in Word,
           a \div Half = b \div Half, a % Half = b % Half
    PROVE  a = b
  <1>1. a = Half * (a \div Half) + (a % Half) /\ b = Half * (b \div Half) + (b % Half)
    BY HalvesOf
  <1> QED  BY <1>1

\* It undoes itself.
LEMMA XorTwice ==
    ASSUME WordAssumption, NEW a \in Word, NEW b \in Word
    PROVE  Xor(a, b) \in Word /\ Xor(Xor(a, b), b) = a
  <1> DEFINE x == Xor(a, b)
             y == Xor(x, b)
             p == a \div Half
             q == a % Half
             s == b \div Half
             t == b % Half
  <1>1. x \in Word /\ x \div Half = XorHalf[<<p, s>>] /\ x % Half = XorHalf[<<q, t>>]
    BY XorOfHalves
  <1> HIDE DEF x
  <1>2. y \in Word /\ y \div Half = XorHalf[<<x \div Half, s>>] /\ y % Half = XorHalf[<<x % Half, t>>]
    BY <1>1, XorOfHalves
  <1> HIDE DEF y
  <1>3. p \in HalfWord /\ q \in HalfWord /\ s \in HalfWord /\ t \in HalfWord
    BY HalvesOf
  <1> HIDE DEF p, q, s, t
  <1>4. XorHalf[<<XorHalf[<<p, s>>], s>>] = p /\ XorHalf[<<XorHalf[<<q, t>>], t>>] = q
    BY <1>3, XorHalves
  <1>5. y \div Half = p /\ y % Half = q
    BY <1>1, <1>2, <1>4
  <1>6. y = a
    BY <1>2, <1>5, SameHalves DEF p, q
  <1> QED  BY <1>1, <1>6 DEF x, y

\* So does folding the high half into the low one.
LEMMA FoldTwice ==
    ASSUME WordAssumption, NEW a \in Word
    PROVE  /\ a \div Half \in Word /\ Xor(a, a \div Half) \in Word
           /\ Xor(Xor(a, a \div Half), Xor(a, a \div Half) \div Half) = a
  <1> DEFINE p == a \div Half
             q == a % Half
             f == Xor(a, p)
             g == f \div Half
             b == Xor(f, g)
  <1>0. Half \in Nat \ {0} /\ 0 \in HalfWord
    BY Sizes DEF HalfWord
  <1>1. p \in HalfWord /\ q \in HalfWord
    BY HalvesOf
  <1>2. \A x \in HalfWord : x \in Word /\ x \div Half = 0 /\ x % Half = x
    <2>1. SUFFICES ASSUME NEW x \in HalfWord  PROVE x \in Word /\ x \div Half = 0 /\ x % Half = x
      OBVIOUS
    <2>2. Half * 0 + x = x
      BY <1>0 DEF HalfWord
    <2> QED  BY <1>0, <2>2, WordOf
  <1>3. \A x \in HalfWord : XorHalf[<<x, 0>>] = x
    <2>1. SUFFICES ASSUME NEW x \in HalfWord  PROVE XorHalf[<<x, 0>>] = x
      OBVIOUS
    <2> DEFINE y == XorHalf[<<x, 0>>]
    <2>2. XorHalf[<<0, x>>] = y /\ XorHalf[<<XorHalf[<<0, x>>], x>>] = 0 /\ y \in HalfWord
          /\ XorHalf[<<y, 0>>] = x
      BY <1>0, XorHalves
    <2>3. y = XorBits(x, 0) /\ \A i \in 0..(HalfBits - 1) : Bit(y, i) = (Bit(x, i) + Bit(0, i)) % 2
      BY <1>0, XorBitsOf DEF XorHalf
    <2>4. ASSUME NEW i \in 0..(HalfBits - 1)  PROVE Bit(y, i) = Bit(x, i)
      <3>1. i \in 0..(WordBits - 1) /\ x \in Nat /\ i \in 0..WordBits
        BY Sizes DEF HalfWord
      <3>2. Bit(x, i) \in {0, 1}
        BY <3>1, BitType
      <3>3. Bit(0, i) = 0
        <4>1. Power[i] \in Nat \ {0}
          BY <3>1, Powers
        <4>2. 0 = Power[i] * 0 + 0 /\ 0 \in 0..(Power[i] - 1)
          BY <4>1
        <4>3. 0 \div Power[i] = 0
          BY <4>1, <4>2, QuotientUnique
        <4> QED  BY <4>3 DEF Bit
      <3>4. Bit(y, i) = (Bit(x, i) + Bit(0, i)) % 2
        BY <2>3
      <3> HIDE DEF y
      <3> QED  BY <3>2, <3>3, <3>4
    <2> HIDE DEF y
    <2>5. y = x
      BY <2>2, <2>4, SameBits
    <2> QED  BY <2>5 DEF y
  <1>4. p \in Word /\ p \div Half = 0 /\ p % Half = p
    BY <1>1, <1>2
  <1>5. f \in Word /\ f \div Half = XorHalf[<<p, 0>>] /\ f % Half = XorHalf[<<q, p>>]
    <2>1. f \in Word /\ f \div Half = XorHalf[<<a \div Half, p \div Half>>]
          /\ f % Half = XorHalf[<<a % Half, p % Half>>]
      <3> HIDE DEF p
      <3> QED  BY <1>4, XorOfHalves
    <2>2. a \div Half = p /\ a % Half = q
      OBVIOUS
    <2> HIDE DEF p, q, f
    <2> QED  BY <1>4, <2>1, <2>2
  <1>6. a \div Half = p /\ a % Half = q
    OBVIOUS
  <1> HIDE DEF p, q, f
  <1>7. g = p
    BY <1>1, <1>3, <1>5
  <1>8. b \in Word /\ b \div Half = XorHalf[<<p, 0>>] /\ b % Half = XorHalf[<<XorHalf[<<q, p>>], p>>]
    <2>1. Xor(f, p) \in Word /\ Xor(f, p) \div Half = XorHalf[<<f \div Half, p \div Half>>]
          /\ Xor(f, p) % Half = XorHalf[<<f % Half, p % Half>>]
      BY <1>4, <1>5, XorOfHalves
    <2>2. XorHalf[<<p, 0>>] = p
      BY <1>1, <1>3
    <2> HIDE DEF g
    <2> QED  BY <1>4, <1>5, <1>7, <2>1, <2>2
  <1> HIDE DEF b, g
  <1>9. b \div Half = p /\ b % Half = q
    BY <1>1, <1>3, <1>8, XorHalves
  <1>10. b = a
    BY <1>6, <1>8, <1>9, SameHalves
  <1> QED  BY <1>4, <1>5, <1>10 DEF b, g, f, p


-----------------------------------------------------------------------------
(* Products and sums modulo a number. *)

\* x and y differ by a multiple of e.
Same(x, y, e) == \E m \in Int : x = y + e * m

\* Congruence is equality of remainders.
LEMMA SameModulo ==
    ASSUME NEW e \in Nat \ {0}, NEW x \in Int, NEW y \in Int
    PROVE  /\ x % e \in 0..(e - 1) /\ Same(x % e, x, e)
           /\ Same(x, y, e) => x % e = y % e
           /\ Same(x, y, e) => Same(y, x, e)
  <1>1. x % e \in 0..(e - 1) /\ Same(x % e, x, e)
    <2> DEFINE q == x \div e
               r == x % e
    <2>1. q \in Int /\ r \in 0..(e - 1) /\ x = e * q + r
      BY QuotientRemainder
    <2> HIDE DEF q, r
    <2>2. -q \in Int /\ r = x + e * (-q)
      BY <2>1
    <2> QED  BY <2>1, <2>2 DEF Same, r
  <1>2. ASSUME Same(x, y, e)  PROVE x % e = y % e /\ Same(y, x, e)
    <2>1. PICK m \in Int : x = y + e * m
      BY <1>2 DEF Same
    <2> DEFINE q == y \div e
               r == y % e
    <2>2. q \in Int /\ r \in 0..(e - 1) /\ y = e * q + r
      BY QuotientRemainder
    <2> HIDE DEF q, r
    <2>3. q + m \in Int /\ x = e * (q + m) + r
      BY <2>1, <2>2
    <2> DEFINE k == q + m
    <2> HIDE DEF k
    <2>4. k \in Int /\ x = e * k + r
      BY <2>3 DEF k
    <2>5. x % e = r
      BY <2>2, <2>4, QuotientUnique
    <2>6. -m \in Int /\ y = x + e * (-m)
      BY <2>1
    <2> QED  BY <2>5, <2>6 DEF r, Same
  <1> QED  BY <1>1, <1>2

\* Congruence is transitive.
LEMMA SameSame ==
    ASSUME NEW e \in Nat \ {0}, NEW x \in Int, NEW y \in Int, NEW z \in Int,
           Same(x, y, e), Same(y, z, e)
    PROVE  Same(x, z, e)
  <1>1. PICK m \in Int : x = y + e * m
    BY DEF Same
  <1>2. PICK n \in Int : y = z + e * n
    BY DEF Same
  <1>3. m + n \in Int /\ x = z + e * (m + n)
    BY <1>1, <1>2
  <1> QED  BY <1>3 DEF Same

\* Congruence is kept by products, sums and differences.
LEMMA SameProduct ==
    ASSUME NEW e \in Nat \ {0}, NEW x \in Int, NEW y \in Int, NEW z \in Int, Same(x, y, e)
    PROVE  Same(z * x, z * y, e) /\ Same(x * z, y * z, e)
           /\ Same(x + z, y + z, e) /\ Same(z - x, z - y, e)
  <1>1. PICK m \in Int : x = y + e * m
    BY DEF Same
  <1>2. z * m \in Int /\ z * x = z * y + e * (z * m) /\ x * z = y * z + e * (z * m)
    BY <1>1
  <1>3. x + z = (y + z) + e * m
    BY <1>1
  <1>4. -m \in Int /\ z - x = (z - y) + e * (-m)
    BY <1>1
  <1> QED  BY <1>2, <1>3, <1>4 DEF Same

\* The product by halves is the product.
LEMMA TimesProduct ==
    ASSUME WordAssumption, NEW a \in Int, NEW b \in Int
    PROVE  /\ Times(a, b) \in Word /\ Times(a, b) = (a * b) % Modulus
           /\ Same(Times(a, b), a * b, Modulus)
  <1>1. Half \in Nat \ {0} /\ Modulus = Half * Half /\ Modulus \in Nat \ {0}
    BY Sizes
  <1> DEFINE h == b \div Half
             l == b % Half
             t == (a * h) % Half
             x == a * l + Half * t
  <1>2. h \in Int /\ l \in Int /\ b = Half * h + l
    BY <1>1, QuotientRemainder
  <1>3. Times(a, b) = x % Modulus
    BY DEF Times
  <1> HIDE DEF h, l
  <1>4. a * h \in Int
    BY <1>2
  <1>5. t \in Int /\ Same(t, a * h, Half)
    <2> DEFINE y == a * h
    <2> HIDE DEF y
    <2>1. y \in Int
      BY <1>4 DEF y
    <2>2. y % Half \in 0..(Half - 1) /\ Same(y % Half, y, Half)
      BY <1>1, <2>1, SameModulo
    <2>3. y % Half \in Int
      BY <1>1, <2>2
    <2> QED  BY <2>2, <2>3 DEF y
  <1> HIDE DEF t
  <1>6. PICK m \in Int : t = a * h + Half * m
    BY <1>5 DEF Same
  <1>7. x = a * b + Modulus * m
    <2>1. x = a * l + Half * (a * h + Half * m)
      BY <1>6
    <2>2. a * l + Half * (a * h + Half * m) = a * (Half * h + l) + (Half * Half) * m
      BY <1>1, <1>2
    <2> HIDE DEF x
    <2> QED  BY <1>1, <1>2, <2>1, <2>2
  <1>8. x \in Int /\ a * b \in Int
    BY <1>1, <1>2, <1>5
  <1> DEFINE p == a * b
  <1> HIDE DEF x, p
  <1>9. x \in Int /\ p \in Int /\ Same(x, p, Modulus)
    BY <1>7, <1>8 DEF Same, p
  <1>10. /\ x % Modulus = p % Modulus /\ p % Modulus \in 0..(Modulus - 1)
         /\ Same(p % Modulus, p, Modulus)
    BY <1>1, <1>9, SameModulo
  <1> QED  BY <1>3, <1>10 DEF Word, p

\* b | 1 is an odd word.
LEMMA OddWord ==
    ASSUME WordAssumption, NEW b \in Word
    PROVE  Odd(b) \in Word /\ \E k \in Int : Odd(b) = 2 * k + 1
  <1> DEFINE k == b \div 2
  <1>1. WordBits \in 1..WordBits /\ WordBits - 1 \in 0..WordBits
    BY Sizes
  <1>2. Modulus = 2 * Power[WordBits - 1] /\ Power[WordBits - 1] \in Nat \ {0}
    BY <1>1, Powers DEF Modulus
  <1> DEFINE P == Power[WordBits - 1]
  <1> HIDE DEF P
  <1>3. Modulus = 2 * P /\ P \in Nat \ {0} /\ b \in 0..(2 * P - 1)
    BY <1>2 DEF P, Word
  <1>4. k \in 0..(P - 1)
    BY <1>3
  <1>5. Odd(b) = 2 * k + 1
    BY DEF Odd
  <1> HIDE DEF k
  <1>6. 2 * k + 1 \in 0..(2 * P - 1) /\ k \in Int
    BY <1>3, <1>4
  <1> QED  BY <1>3, <1>5, <1>6 DEF Word

\* Every odd word has a reciprocal: each step of Newton's iteration doubles the
\* number of bits that are right.
LEMMA Reciprocals ==
    ASSUME WordAssumption, NEW n \in Word, NEW c \in Int, n = 2 * c + 1
    PROVE  Reciprocal(n) \in Word /\ Same(n * Reciprocal(n), 1, Modulus)
  <1> DEFINE next(x) == Times(x, (Modulus + 2 - Times(n, x)) % Modulus)
             step == [p \in Word \X (1..SelectorBits) |-> next(p[1])]
             to(g) == g = [k \in 0..SelectorBits |-> IF k = 0 THEN n ELSE next(g[k - 1])]
  <1>1. /\ WordBits \in Nat \ {0} /\ SelectorBits \in Nat /\ SelectorBits <= WordBits
        /\ Power[SelectorBits] = WordBits /\ Modulus \in Nat \ {0}
    BY Sizes DEF WordAssumption
  <1>2. ASSUME NEW x \in Word
        PROVE  next(x) \in Word /\ Same(next(x), x * (2 - n * x), Modulus)
    <2> DEFINE t == Times(n, x)
               u == Modulus + 2 - t
               v == u % Modulus
    <2>1. x \in Int /\ n \in Int
      BY <1>1 DEF Word
    <2>2. t \in Word /\ Same(t, n * x, Modulus)
      BY <2>1, TimesProduct
    <2> HIDE DEF t
    <2>3. t \in Int
      BY <1>1, <2>2 DEF Word
    <2>4. u \in Int
      BY <1>1, <2>3
    <2> HIDE DEF u
    <2>5. v \in Int /\ Same(v, u, Modulus)
      <3>1. v \in 0..(Modulus - 1) /\ Same(v, u, Modulus)
        BY <1>1, <2>4, SameModulo
      <3> HIDE DEF v
      <3> QED  BY <1>1, <3>1
    <2> HIDE DEF v
    <2>6. PICK i \in Int : t = n * x + Modulus * i
      BY <2>2 DEF Same
    <2>7. PICK j \in Int : v = u + Modulus * j
      BY <2>5 DEF Same
    <2> DEFINE w == 2 - n * x
    <2>8. w \in Int
      BY <2>1
    <2>9. 1 - i + j \in Int /\ v = w + Modulus * (1 - i + j)
      <3>1. v = (Modulus + 2 - t) + Modulus * j
        BY <2>7 DEF u
      <3> DEFINE y == n * x
      <3>2. y \in Int
        BY <2>1
      <3> HIDE DEF y
      <3>3. t = y + Modulus * i
        BY <2>6 DEF y
      <3>4. v = (2 - y) + Modulus * (1 - i + j)
        BY <1>1, <3>1, <3>2, <3>3
      <3> QED  BY <3>4 DEF y
    <2> HIDE DEF w
    <2>10. Same(v, w, Modulus)
      BY <2>9 DEF Same
    <2>11. Times(x, v) \in Word /\ Same(Times(x, v), x * v, Modulus)
      BY <2>1, <2>5, TimesProduct
    <2>12. Same(x * v, x * w, Modulus)
      BY <1>1, <2>1, <2>5, <2>8, <2>10, SameProduct
    <2>13. Times(x, v) \in Int /\ x * v \in Int /\ x * w \in Int
      <3>1. \A k \in Word : k \in Int
        BY <1>1 DEF Word
      <3>2. x \in Int /\ v \in Int /\ w \in Int
        BY <2>1, <2>5, <2>8
      <3>3. x * v \in Int /\ x * w \in Int
        BY <3>2
      <3> QED  BY <2>11, <3>1, <3>3
    <2> DEFINE A == Times(x, v)
               B == x * v
               C == x * w
    <2> HIDE DEF A, B, C
    <2>14. Same(A, C, Modulus)
      <3>1. A \in Int /\ B \in Int /\ C \in Int /\ Same(A, B, Modulus) /\ Same(B, C, Modulus)
        BY <2>11, <2>12, <2>13 DEF A, B, C
      <3> QED  BY <1>1, <3>1, SameSame
    <2>15. next(x) = A
      BY DEF A, v, u, t
    <2> QED  BY <2>11, <2>14, <2>15 DEF A, C, w
  <1> HIDE DEF next
  <1>3. step \in [Word \X (1..SelectorBits) -> Word]
    BY <1>2
  <1>4. PICK g : Steps(g, SelectorBits, Word, n, step)
    <2> HIDE DEF step
    <2> QED  BY <1>1, <1>3, RecursionExists
  <1>5. /\ g \in [0..SelectorBits -> Word] /\ g[0] = n
        /\ \A k \in 1..SelectorBits : g[k] = next(g[k - 1])
    <2>1. /\ g \in [0..SelectorBits -> Word] /\ g[0] = n
          /\ \A k \in 1..SelectorBits : g[k] = step[<<g[k - 1], k>>]
      <3> HIDE DEF step
      <3> QED  BY <1>4 DEF Steps
    <2>2. ASSUME NEW k \in 1..SelectorBits  PROVE g[k] = next(g[k - 1])
      <3>1. g[k - 1] \in Word
        <4>1. k - 1 \in 0..SelectorBits
          BY <1>1
        <4> HIDE DEF step
        <4> QED  BY <2>1, <4>1
      <3>2. step[<<g[k - 1], k>>] = next(g[k - 1])
        BY <3>1
      <3> HIDE DEF step
      <3> QED  BY <2>1, <3>2
    <2> HIDE DEF step
    <2> QED  BY <2>1, <2>2
  <1>6. to(g)
    <2>1. ASSUME NEW k \in 0..SelectorBits  PROVE g[k] = IF k = 0 THEN n ELSE next(g[k - 1])
      <3>1. k # 0 => k \in 1..SelectorBits
        BY <1>1
      <3> QED  BY <1>5, <3>1
    <2>2. g = [k \in 0..SelectorBits |-> g[k]]
      BY <1>5
    <2> QED  BY <2>1, <2>2
  <1> DEFINE h == CHOOSE f : to(f)
  <1>7. Reciprocal(n) = h[SelectorBits]
    BY DEF Reciprocal, next
  <1>8. to(h)
    <2> HIDE DEF to
    <2> QED  BY <1>6
  <1> HIDE DEF h
  <1>9. h[0] = n /\ \A k \in 1..SelectorBits : h[k] = next(h[k - 1])
    <2>1. ASSUME NEW k \in 0..SelectorBits  PROVE h[k] = IF k = 0 THEN n ELSE next(h[k - 1])
      BY <1>8
    <2> HIDE DEF to
    <2>2. 0 \in 0..SelectorBits /\ 1..SelectorBits \subseteq 0..SelectorBits
          /\ \A k \in 1..SelectorBits : k # 0
      BY <1>1
    <2> QED  BY <2>1, <2>2
  <1> DEFINE right(k) == h[k] \in Word /\ Same(n * h[k], 1, Power[Power[k]])
             T == {k \in Nat : k <= SelectorBits => right(k)}
  <1>10. 0 \in T
    <2>1. Power[Power[0]] = 2
      <3>1. Power[0] = 1 /\ 1 \in 1..WordBits /\ 1 - 1 = 0
        BY <1>1, Powers
      <3>2. Power[1] = 2 * Power[0]
        BY <3>1, Powers
      <3> QED  BY <3>1, <3>2
    <2>2. n * n = 1 + 2 * (2 * c * c + 2 * c) /\ 2 * c * c + 2 * c \in Int
      OBVIOUS
    <2>3. Same(n * n, 1, 2)
      BY <2>2 DEF Same
    <2> QED  BY <1>9, <2>1, <2>3
  <1>11. ASSUME NEW k \in Nat, k \in T  PROVE k + 1 \in T
    <2>1. SUFFICES ASSUME k + 1 <= SelectorBits  PROVE right(k + 1)
      OBVIOUS
    <2>2. right(k)
      <3> HIDE DEF right
      <3> QED  BY <1>1, <1>11, <2>1
    <2> DEFINE E == Power[k]
               e == Power[E]
               x == h[k]
               y == h[k + 1]
    <2>3. /\ k + 1 \in 1..WordBits /\ (k + 1) - 1 = k /\ k \in 0..WordBits
          /\ k + 1 \in 1..SelectorBits /\ k + 1 \in Nat /\ SelectorBits - (k + 1) \in Nat
          /\ (k + 1) + (SelectorBits - (k + 1)) = SelectorBits
      BY <1>1, <2>1
    <2>4. E \in Nat \ {0} /\ Power[k + 1] = E + E
      <3>1. E \in Nat \ {0} /\ Power[k + 1] = 2 * E
        BY <2>3, Powers
      <3> QED  BY <3>1
    <2>5. Power[k + 1] <= WordBits
      <3> DEFINE A == Power[k + 1]
                 B == Power[SelectorBits - (k + 1)]
      <3>1. Power[(k + 1) + (SelectorBits - (k + 1))] = A * B /\ A \in Nat \ {0} /\ B \in Nat \ {0}
        BY <1>1, <2>3, PowerSum
      <3>2. Power[(k + 1) + (SelectorBits - (k + 1))] = WordBits
        BY <1>1, <2>3
      <3> HIDE DEF A, B
      <3>3. A * B >= A
        BY <3>1, ProductAtLeast
      <3> QED  BY <3>1, <3>2, <3>3 DEF A
    <2> DEFINE R == Power[WordBits - (E + E)]
    <2>6. /\ Power[E + E] = e * e /\ e \in Nat \ {0}
          /\ Modulus = (e * e) * R /\ R \in Nat \ {0}
      <3>1. /\ E \in Nat /\ E + E \in Nat /\ E + E <= WordBits /\ WordBits - (E + E) \in Nat
            /\ (E + E) + (WordBits - (E + E)) = WordBits
        <4>1. E \in Nat
          BY <2>4
        <4>2. E + E <= WordBits
          BY <2>4, <2>5
        <4>3. WordBits \in Nat
          BY <1>1
        <4>4. \A p, q \in Nat : p + p <= q => /\ p + p \in Nat /\ q - (p + p) \in Nat
                                              /\ (p + p) + (q - (p + p)) = q
          OBVIOUS
        <4> HIDE DEF E
        <4> QED  BY <4>1, <4>2, <4>3, <4>4
      <3>2. Power[E + E] = e * e /\ e \in Nat \ {0}
        BY <3>1, PowerSum
      <3>3. Power[(E + E) + (WordBits - (E + E))] = Power[E + E] * R /\ R \in Nat \ {0}
        <4> DEFINE D == E + E
                   F == WordBits - D
        <4>1. D \in Nat /\ F \in Nat /\ D + F <= WordBits
          BY <1>1, <3>1
        <4> HIDE DEF D, F
        <4>2. Power[D + F] = Power[D] * Power[F] /\ Power[F] \in Nat \ {0}
          BY <4>1, PowerSum
        <4> QED  BY <4>2 DEF D, F
      <3> QED  BY <3>1, <3>2, <3>3 DEF Modulus
    <2>7. x \in Word /\ Same(n * x, 1, e)
      BY <2>2
    <2>8. y = next(x)
      BY <1>9, <2>3
    <2> HIDE DEF x, y, e, R
    <2>9. y \in Word /\ Same(y, x * (2 - n * x), Modulus)
      BY <1>2, <2>7, <2>8
    <2>10. PICK m \in Int : n * x = 1 + e * m
      BY <2>7 DEF Same
    <2>11. PICK i \in Int : y = x * (2 - n * x) + Modulus * i
      BY <2>9 DEF Same
    <2>12. x \in Int /\ y \in Int /\ n \in Int
      BY <1>1, <2>7, <2>9 DEF Word
    <2>13. n * y = 1 + (e * e) * (R * (n * i) - m * m)
      <3>1. n * y = (n * x) * (2 - n * x) + n * (((e * e) * R) * i)
        <4>1. n * y = n * (x * (2 - n * x) + ((e * e) * R) * i)
          BY <2>6, <2>11
        <4> DEFINE u == 2 - n * x
                   v == ((e * e) * R) * i
        <4>2. u \in Int /\ v \in Int
          BY <2>6, <2>12
        <4> HIDE DEF u, v
        <4>3. n * (x * u + v) = (n * x) * u + n * v
          BY <2>12, <4>2
        <4> QED  BY <4>1, <4>3 DEF u, v
      <3>2. (1 + e * m) * (2 - (1 + e * m)) = 1 - (e * e) * (m * m)
        BY <2>6
      <3>3. n * (((e * e) * R) * i) = (e * e) * (R * (n * i))
        BY <2>6, <2>12
      <3>4. (e * e) * (R * (n * i) - m * m) = (e * e) * (R * (n * i)) - (e * e) * (m * m)
        BY <2>6, <2>12
      <3>5. (e * e) * (m * m) \in Int /\ (e * e) * (R * (n * i)) \in Int
        BY <2>6, <2>12
      <3>6. n * y = (1 + e * m) * (2 - (1 + e * m)) + n * (((e * e) * R) * i)
        BY <2>10, <3>1
      <3> DEFINE p == (e * e) * (m * m)
                 q == (e * e) * (R * (n * i))
      <3>7. n * y = (1 - p) + q /\ p \in Int /\ q \in Int
        BY <3>2, <3>3, <3>5, <3>6
      <3>8. (e * e) * (R * (n * i) - m * m) = q - p
        BY <3>4
      <3> HIDE DEF p, q
      <3> QED  BY <3>7, <3>8
    <2>14. R * (n * i) - m * m \in Int
      BY <2>6, <2>12
    <2>15. Same(n * y, 1, e * e)
      BY <2>13, <2>14 DEF Same
    <2>16. Power[Power[k + 1]] = e * e
      BY <2>4, <2>6
    <2> QED  BY <2>9, <2>15, <2>16 DEF y
  <1> HIDE DEF T
  <1>12. Nat \subseteq T
    BY <1>10, <1>11, Induction
  <1>13. right(SelectorBits)
    <2> HIDE DEF right
    <2> QED  BY <1>1, <1>12 DEF T
  <1> QED  BY <1>1, <1>7, <1>13 DEF Modulus

\* The product with b | 1 is undone by the product with its reciprocal.
LEMMA TimesBack ==
    ASSUME WordAssumption, NEW a \in Word, NEW b \in Word
    PROVE  Times(Times(a, Odd(b)), Reciprocal(Odd(b))) = a
  <1> DEFINE n == Odd(b)
             r == Reciprocal(n)
             p == Times(a, n)
  <1>1. Modulus \in Nat \ {0} /\ a \in Int
    BY Sizes DEF Word
  <1>2. n \in Word /\ \E k \in Int : n = 2 * k + 1
    BY OddWord
  <1> HIDE DEF n
  <1>3. r \in Word /\ Same(n * r, 1, Modulus)
    BY <1>2, Reciprocals
  <1>4. n \in Int /\ r \in Int
    BY <1>1, <1>2, <1>3 DEF Word
  <1> HIDE DEF r
  <1>5. p \in Word /\ Same(p, a * n, Modulus)
    BY <1>1, <1>4, TimesProduct
  <1>6. p \in Int
    BY <1>1, <1>5 DEF Word
  <1> HIDE DEF p
  <1>7. Times(p, r) = (p * r) % Modulus
    BY <1>4, <1>6, TimesProduct
  <1>8. Same(p * r, a, Modulus)
    <2>1. PICK i \in Int : p = a * n + Modulus * i
      BY <1>5 DEF Same
    <2>2. PICK j \in Int : n * r = 1 + Modulus * j
      BY <1>3 DEF Same
    <2>3. p * r = a * (n * r) + Modulus * (i * r)
      BY <1>1, <1>4, <2>1
    <2>4. a * (1 + Modulus * j) + Modulus * (i * r) = a + Modulus * (a * j + i * r)
      BY <1>1, <1>4
    <2>5. a * j + i * r \in Int
      BY <1>1, <1>4
    <2>6. p * r = a + Modulus * (a * j + i * r)
      BY <2>2, <2>3, <2>4
    <2> QED  BY <2>5, <2>6 DEF Same
  <1>9. (p * r) % Modulus = a % Modulus
    <2> DEFINE x == p * r
    <2>1. x \in Int
      BY <1>4, <1>6
    <2> HIDE DEF x
    <2>2. Same(x, a, Modulus)
      BY <1>8 DEF x
    <2>3. x % Modulus = a % Modulus
      BY <1>1, <2>1, <2>2, SameModulo
    <2> QED  BY <2>3 DEF x
  <1>10. a % Modulus = a
    <2>1. a \in 0..(Modulus - 1)
      BY DEF Word
    <2> QED  BY <1>1, <2>1, SmallRemainder
  <1> QED  BY <1>7, <1>9, <1>10 DEF p, r, n


-----------------------------------------------------------------------------
(* The operations of a quintet-round, and what undoes them. *)

\* The selector is a distance.
LEMMA SelectorType ==
    ASSUME WordAssumption, NEW b \in Word  PROVE Selector(b) \in 0..(WordBits - 1)
  <1> DEFINE m == WordBits - SelectorBits
             A == Power[m]
             t == Times(b, DdrMix)
  <1>1. /\ WordBits \in Nat \ {0} /\ SelectorBits \in Nat /\ m \in Nat
        /\ m + SelectorBits = WordBits /\ m + SelectorBits <= WordBits
        /\ Power[SelectorBits] = WordBits /\ DdrMix \in Int /\ b \in Int
    BY Sizes DEF WordAssumption, Word
  <1> HIDE DEF m
  <1>2. Power[m + SelectorBits] = A * WordBits /\ A \in Nat \ {0}
    BY <1>1, PowerSum
  <1>3. t \in Word
    BY <1>1, TimesProduct
  <1> HIDE DEF A, t
  <1>4. t \in 0..(A * WordBits - 1)
    BY <1>1, <1>2, <1>3 DEF Word, Modulus
  <1>5. t \div A \in 0..(WordBits - 1)
    BY <1>1, <1>2, <1>4, Divided
  <1> QED  BY <1>5 DEF Selector, A, t, m

\* multiply-fold-rotate is undone by UnMfr.
LEMMA MfrBack ==
    ASSUME WordAssumption, NEW a \in Word, NEW b \in Word, NEW n \in Int
    PROVE  Mfr(a, b, n) \in Word /\ UnMfr(Mfr(a, b, n), b, n) = a
  <1> DEFINE p == Times(a, Odd(b))
             f == Xor(p, p \div Half)
             g == Xor(f, b)
             x == RotateLeft(g, n)
  <1>1. p \in Word
    <2>1. Odd(b) \in Word
      BY OddWord
    <2>2. a \in Int /\ Odd(b) \in Int
      BY <2>1, Sizes DEF Word
    <2> QED  BY <2>2, TimesProduct
  <1>2. Times(p, Reciprocal(Odd(b))) = a
    BY TimesBack
  <1> HIDE DEF p
  <1>3. f \in Word /\ Xor(f, f \div Half) = p
    BY <1>1, FoldTwice
  <1> HIDE DEF f
  <1>4. g \in Word /\ Xor(g, b) = f
    BY <1>3, XorTwice
  <1> HIDE DEF g
  <1>5. x \in Word /\ RotateLeft(x, WordBits - n) = g
    BY <1>4, RotateType, RotateBack
  <1>6. Mfr(a, b, n) = x
    BY DEF Mfr, p, f, g
  <1> HIDE DEF x
  <1>7. UnMfr(x, b, n) = Times(Xor(Xor(g, b), Xor(g, b) \div Half), Reciprocal(Odd(b)))
    BY <1>5 DEF UnMfr
  <1> QED  BY <1>2, <1>3, <1>4, <1>5, <1>6, <1>7

\* The data-dependent rotation is one rotation by the selector, and undone by
\* another.
LEMMA DdrBack ==
    ASSUME WordAssumption, NEW a \in Word, NEW b \in Word
    PROVE  /\ Ddr(a, b) = RotateLeft(a, Selector(b)) /\ Ddr(a, b) \in Word
           /\ RotateLeft(Ddr(a, b), WordBits - Selector(b)) = a
  <1>1. Selector(b) \in 0..(WordBits - 1)
    BY SelectorType
  <1>2. Selector(b) \in Int
    BY <1>1, Sizes
  <1>3. Ddr(a, b) = RotateLeft(a, Selector(b))
    BY <1>1, RotatedByBits DEF Ddr
  <1> QED  BY <1>2, <1>3, RotateType, RotateBack

\* The places of a quintet: five different words.
FiveWords(q) == /\ \A i \in 1..5 : q[i] \in Index
             /\ \A i, j \in 1..5 : q[i] = q[j] => i = j

\* Five different numbers of words are the places of a quintet.
LEMMA FivePlaces ==
    ASSUME NEW q, NEW u, NEW v, NEW w, NEW x, NEW y,
           q[1] = u, q[2] = v, q[3] = w, q[4] = x, q[5] = y,
           u \in Index, v \in Index, w \in Index, x \in Index, y \in Index,
           u # v, u # w, u # x, u # y, v # w, v # x, v # y, w # x, w # y, x # y
    PROVE  FiveWords(q)
  <1>1. \A i \in 1..5 : i = 1 \/ i = 2 \/ i = 3 \/ i = 4 \/ i = 5
    OBVIOUS
  <1> QED  BY <1>1 DEF FiveWords

\* The rows, columns and diagonals of the CPU's grid are quintets.
LEMMA WordsPlaces == ASSUME NEW n \in 0..14  PROVE FiveWords(Words(Diags, n))
  <1>1. CASE n < 5
    <2>1. Words(Diags, n) = Rows(n)
      BY <1>1 DEF Words
    <2> DEFINE q == Rows(n)
    <2>2. /\ q[1] = 5 * n /\ q[2] = 5 * n + 1 /\ q[3] = 5 * n + 2
          /\ q[4] = 5 * n + 3 /\ q[5] = 5 * n + 4
      BY <1>1 DEF Rows
    <2> HIDE DEF q
    <2>3. FiveWords(q)
      <3>1. /\ 5 * n \in Index /\ 5 * n + 1 \in Index /\ 5 * n + 2 \in Index
            /\ 5 * n + 3 \in Index /\ 5 * n + 4 \in Index
        BY <1>1 DEF Index, StateWords
      <3> QED  BY <2>2, <3>1, FivePlaces
    <2> QED  BY <2>1, <2>3 DEF q
  <1>2. CASE n \in 5..9
    <2> DEFINE k == n - 5
               q == Columns(k)
    <2>1. Words(Diags, n) = q
      BY <1>2 DEF Words
    <2>2. k \in 0..4
      BY <1>2
    <2> HIDE DEF k
    <2>3. q[1] = k /\ q[2] = k + 5 /\ q[3] = k + 10 /\ q[4] = k + 15 /\ q[5] = k + 20
      BY <2>2 DEF Columns
    <2> HIDE DEF q
    <2>4. /\ k \in Index /\ k + 5 \in Index /\ k + 10 \in Index
          /\ k + 15 \in Index /\ k + 20 \in Index
      BY <2>2 DEF Index, StateWords
    <2>5. FiveWords(q)
      BY <2>2, <2>3, <2>4, FivePlaces
    <2> QED  BY <2>1, <2>5
  <1>3. CASE n \in 10..14
    <2>1. Words(Diags, n) = Diags[n - 9]
      BY <1>3 DEF Words
    <2>2. n - 9 = 1 \/ n - 9 = 2 \/ n - 9 = 3 \/ n - 9 = 4 \/ n - 9 = 5
      BY <1>3
    <2>3. /\ Diags[1] = <<24, 0, 6, 12, 18>> /\ Diags[2] = <<20, 1, 7, 13, 19>>
          /\ Diags[3] = <<21, 2, 8, 14, 15>> /\ Diags[4] = <<22, 3, 9, 10, 16>>
          /\ Diags[5] = <<23, 4, 5, 11, 17>>
      BY DEF Diags
    <2>4. FiveWords(<<24, 0, 6, 12, 18>>) /\ FiveWords(<<20, 1, 7, 13, 19>>)
      BY FivePlaces DEF Index, StateWords
    <2>5. FiveWords(<<21, 2, 8, 14, 15>>) /\ FiveWords(<<22, 3, 9, 10, 16>>)
      BY FivePlaces DEF Index, StateWords
    <2>6. FiveWords(<<23, 4, 5, 11, 17>>)
      BY FivePlaces DEF Index, StateWords
    <2> QED  BY <2>1, <2>2, <2>3, <2>4, <2>5, <2>6
  <1> QED  BY <1>1, <1>2, <1>3

State == [Index -> Word]

\* What a quintet-round puts where.
QuintetFacts(z, s, q, r) ==
    /\ z \in State
    /\ z[q[1]] = Mfr(s[q[1]], s[q[2]], r[1])
    /\ z[q[3]] = Xor(s[q[3]], z[q[1]])
    /\ z[q[4]] = Ddr(s[q[4]], z[q[3]])
    /\ z[q[5]] = Mfr(s[q[5]], z[q[4]], r[2])
    /\ z[q[2]] = Xor(s[q[2]], z[q[5]])
    /\ \A w \in Index \ {q[i] : i \in 1..5} : z[w] = s[w]

\* A quintet-round in terms of its five words.
LEMMA QuintetWords ==
    ASSUME WordAssumption, NEW s \in State, NEW q, FiveWords(q),
           NEW r, r[1] \in Int, r[2] \in Int
    PROVE  QuintetFacts(QuintetRound(Mfr, Ddr, Xor, s, q, r), s, q, r)
  <1> DEFINE a == Mfr(s[q[1]], s[q[2]], r[1])
             c == Xor(s[q[3]], a)
             d == Ddr(s[q[4]], c)
             e == Mfr(s[q[5]], d, r[2])
             b == Xor(s[q[2]], e)
             z == QuintetRound(Mfr, Ddr, Xor, s, q, r)
  <1>1. /\ q[1] \in Index /\ q[2] \in Index /\ q[3] \in Index /\ q[4] \in Index /\ q[5] \in Index
        /\ q[1] # q[2] /\ q[1] # q[3] /\ q[1] # q[4] /\ q[1] # q[5] /\ q[2] # q[3]
        /\ q[2] # q[4] /\ q[2] # q[5] /\ q[3] # q[4] /\ q[3] # q[5] /\ q[4] # q[5]
    BY DEF FiveWords
  <1>2. /\ s[q[1]] \in Word /\ s[q[2]] \in Word /\ s[q[3]] \in Word
        /\ s[q[4]] \in Word /\ s[q[5]] \in Word
    BY <1>1 DEF State
  <1>3. z = [s EXCEPT ![q[1]] = a, ![q[2]] = b, ![q[3]] = c, ![q[4]] = d, ![q[5]] = e]
    BY DEF QuintetRound
  <1>4. a \in Word
    BY <1>2, MfrBack
  <1> HIDE DEF a
  <1>5. c \in Word
    BY <1>2, <1>4, XorTwice
  <1> HIDE DEF c
  <1>6. d \in Word
    BY <1>2, <1>5, DdrBack
  <1> HIDE DEF d
  <1>7. e \in Word
    BY <1>2, <1>6, MfrBack
  <1> HIDE DEF e
  <1>8. b \in Word
    BY <1>2, <1>7, XorTwice
  <1> HIDE DEF b, z
  <1>9. z \in State
    BY <1>1, <1>3, <1>4, <1>5, <1>6, <1>7, <1>8 DEF State
  <1>10. z[q[1]] = a /\ z[q[2]] = b /\ z[q[3]] = c /\ z[q[4]] = d /\ z[q[5]] = e
    BY <1>1, <1>3 DEF State
  <1>11. \A w \in Index \ {q[i] : i \in 1..5} : z[w] = s[w]
    <2>1. SUFFICES ASSUME NEW w \in Index, w # q[1], w # q[2], w # q[3], w # q[4], w # q[5]
                   PROVE  z[w] = s[w]
      OBVIOUS
    <2> QED  BY <1>1, <1>3, <2>1 DEF State
  <1>12. QuintetFacts(z, s, q, r)
    BY <1>9, <1>10, <1>11 DEF a, b, c, d, e, QuintetFacts
  <1> QED  BY <1>12 DEF z

\* UnQuintet undoes a quintet-round.
LEMMA QuintetBack ==
    ASSUME WordAssumption, NEW s \in State, NEW q, FiveWords(q),
           NEW r, r[1] \in Int, r[2] \in Int
    PROVE  UnQuintet(QuintetRound(Mfr, Ddr, Xor, s, q, r), q, r) = s
  <1> DEFINE z == QuintetRound(Mfr, Ddr, Xor, s, q, r)
             b == Xor(z[q[2]], z[q[5]])
             e == UnMfr(z[q[5]], z[q[4]], r[2])
             d == RotateLeft(z[q[4]], WordBits - Selector(z[q[3]]))
             c == Xor(z[q[3]], z[q[1]])
             a == UnMfr(z[q[1]], b, r[1])
             u == [z EXCEPT ![q[1]] = a, ![q[2]] = b, ![q[3]] = c, ![q[4]] = d, ![q[5]] = e]
  <1>1. /\ z \in State
        /\ z[q[1]] = Mfr(s[q[1]], s[q[2]], r[1])
        /\ z[q[3]] = Xor(s[q[3]], z[q[1]])
        /\ z[q[4]] = Ddr(s[q[4]], z[q[3]])
        /\ z[q[5]] = Mfr(s[q[5]], z[q[4]], r[2])
        /\ z[q[2]] = Xor(s[q[2]], z[q[5]])
        /\ \A w \in Index \ {q[i] : i \in 1..5} : z[w] = s[w]
    <2>1. QuintetFacts(z, s, q, r)
      BY QuintetWords
    <2> HIDE DEF z
    <2> QED  BY <2>1 DEF QuintetFacts
  <1>2. UnQuintet(z, q, r) = u
    BY DEF UnQuintet
  <1> HIDE DEF z
  <1>3. /\ q[1] \in Index /\ q[2] \in Index /\ q[3] \in Index /\ q[4] \in Index /\ q[5] \in Index
    BY DEF FiveWords
  <1>4. /\ s[q[1]] \in Word /\ s[q[2]] \in Word /\ s[q[3]] \in Word
        /\ s[q[4]] \in Word /\ s[q[5]] \in Word
        /\ z[q[1]] \in Word /\ z[q[2]] \in Word /\ z[q[3]] \in Word
        /\ z[q[4]] \in Word /\ z[q[5]] \in Word
    BY <1>1, <1>3 DEF State
  <1>5. b = s[q[2]]
    BY <1>1, <1>4, XorTwice
  <1>6. e = s[q[5]]
    <2>1. UnMfr(Mfr(s[q[5]], z[q[4]], r[2]), z[q[4]], r[2]) = s[q[5]]
      BY <1>4, MfrBack
    <2> QED  BY <1>1, <2>1
  <1>7. d = s[q[4]]
    BY <1>1, <1>4, DdrBack
  <1>8. c = s[q[3]]
    BY <1>1, <1>4, XorTwice
  <1>9. a = s[q[1]]
    <2>1. UnMfr(Mfr(s[q[1]], s[q[2]], r[1]), s[q[2]], r[1]) = s[q[1]]
      BY <1>4, MfrBack
    <2> HIDE DEF b
    <2> QED  BY <1>1, <1>5, <2>1
  <1> HIDE DEF a, b, c, d, e
  <1>10. ASSUME NEW w \in Index  PROVE u[w] = s[w]
    <2>1. CASE w \in {q[i] : i \in 1..5}
      <3>1. w = q[1] \/ w = q[2] \/ w = q[3] \/ w = q[4] \/ w = q[5]
        BY <2>1
      <3> QED  BY <1>1, <1>3, <1>5, <1>6, <1>7, <1>8, <1>9, <3>1 DEF State
    <2>2. CASE w \notin {q[i] : i \in 1..5}
      <3>1. w # q[1] /\ w # q[2] /\ w # q[3] /\ w # q[4] /\ w # q[5]
        BY <2>2
      <3> QED  BY <1>1, <1>3, <2>2, <3>1 DEF State
    <2> QED  BY <2>1, <2>2
  <1>11. u = s
    <2>1. DOMAIN u = Index /\ u = [w \in Index |-> u[w]]
      BY <1>1 DEF State
    <2>2. s = [w \in Index |-> s[w]]
      BY DEF State
    <2> HIDE DEF u
    <2> QED  BY <1>10, <2>1, <2>2
  <1> QED  BY <1>2, <1>11 DEF z

\* The end of a round: the addends, then the re-keying.
Added(s, r) == [i \in Index |-> IF i \in Injected THEN WrappingAdd(s[i], Addends(r)[i]) ELSE s[i]]
Rekeyed(t, r) == [i \in Index |-> IF i < RateWords
    THEN Xor(t[i], RotateLeft(t[RateWords + (i % CapacityWords)], r)) ELSE t[i]]

\* The constants injected at the end of a round are words.
LEMMA AddendType ==
    ASSUME WordAssumption, NEW r \in Nat, NEW w \in Injected
    PROVE  RoundConstant[w] \in Word /\ Addends(r)[w] \in Word
           /\ Addends(r)[w] = (r * RoundConstant[w]) % Modulus
  <1>1. w = 0 \/ w = 4 \/ w = 12 \/ w = 20 \/ w = 24
    BY DEF Injected
  <1>2. Modulus \in Nat \ {0} /\ Modulus = Half * Half /\ Half \in Nat \ {0}
    BY Sizes
  <1>3. 1 \in Word \/ Modulus = 1
    BY <1>2 DEF Word
  <1>4. Modulus # 1
    <2>1. WordBits \in 1..WordBits /\ WordBits - 1 \in 0..WordBits
      BY Sizes
    <2>2. Modulus = 2 * Power[WordBits - 1] /\ Power[WordBits - 1] \in Nat
      BY <2>1, Powers DEF Modulus
    <2> QED  BY <2>2
  <1>5. C4 \in Word /\ C12 \in Word /\ C20 \in Word /\ C24 \in Word
    BY DEF WordAssumption
  <1>6. RoundConstant[w] \in Word
    BY <1>1, <1>3, <1>4, <1>5 DEF RoundConstant
  <1>7. RoundConstant[w] \in Int /\ r \in Int
    BY <1>2, <1>6 DEF Word
  <1>8. Addends(r)[w] = Times(r, RoundConstant[w])
    BY DEF Addends
  <1> QED  BY <1>6, <1>7, <1>8, TimesProduct

\* A wrapping addition is undone by a wrapping subtraction.
LEMMA AddBack ==
    ASSUME WordAssumption, NEW a \in Word, NEW b \in Word
    PROVE  WrappingAdd(a, b) \in Word /\ (WrappingAdd(a, b) + Modulus - b) % Modulus = a
  <1> DEFINE M == Modulus
             t == (a + b) % M
             k == (a + b) \div M
             back == t + M - b
  <1>1. M \in Nat \ {0} /\ a \in 0..(M - 1) /\ b \in 0..(M - 1) /\ Word = 0..(M - 1)
    BY Sizes DEF Word
  <1>2. WrappingAdd(a, b) = t
    BY DEF WrappingAdd
  <1> HIDE DEF M
  <1>3. a + b \in Int
    BY <1>1
  <1>4. k \in Int /\ t \in 0..(M - 1) /\ a + b = M * k + t
    BY <1>1, <1>3, QuotientRemainder
  <1> HIDE DEF k, t
  <1> DEFINE m == 1 - k
  <1>5. back \in Int /\ m \in Int /\ back = M * m + a
    BY <1>1, <1>4
  <1> HIDE DEF back, m
  <1>6. back % M = a
    BY <1>1, <1>5, QuotientUnique
  <1> QED  BY <1>1, <1>2, <1>4, <1>6 DEF back, M

\* Re-keying undoes itself.
LEMMA RekeyBack ==
    ASSUME WordAssumption, NEW t \in State, NEW r \in Nat
    PROVE  Rekeyed(t, r) \in State /\ Rekeyed(Rekeyed(t, r), r) = t
  <1> DEFINE c(i) == RateWords + (i % CapacityWords)
             k(i) == RotateLeft(t[c(i)], r)
             z == Rekeyed(t, r)
  <1>1. ASSUME NEW i \in Index, i < RateWords
        PROVE  c(i) \in Index /\ ~(c(i) < RateWords) /\ k(i) \in Word /\ t[i] \in Word
    <2>1. c(i) \in Index /\ ~(c(i) < RateWords)
      BY DEF Index, RateWords, CapacityWords, StateWords
    <2> HIDE DEF c
    <2> QED  BY <2>1, RotateType DEF State
  <1>2. \A i \in Index : z[i] = IF i < RateWords THEN Xor(t[i], k(i)) ELSE t[i]
    BY DEF Rekeyed
  <1>3. \A i \in Index : i < RateWords => z[c(i)] = t[c(i)]
    BY <1>1, <1>2
  <1>4. z \in State
    <2>1. \A i \in Index : i < RateWords => Xor(t[i], k(i)) \in Word
      BY <1>1, XorTwice
    <2> HIDE DEF c, k
    <2>2. \A i \in Index : z[i] \in Word
      BY <1>2, <2>1 DEF State
    <2> QED  BY <2>2 DEF State, Rekeyed
  <1>5. \A i \in Index : Rekeyed(z, r)[i] = t[i]
    <2>1. SUFFICES ASSUME NEW i \in Index  PROVE Rekeyed(z, r)[i] = t[i]
      OBVIOUS
    <2>2. Rekeyed(z, r)[i] = IF i < RateWords THEN Xor(z[i], RotateLeft(z[c(i)], r)) ELSE z[i]
      BY DEF Rekeyed
    <2>3. CASE i < RateWords
      <3>1. z[i] = Xor(t[i], k(i)) /\ z[c(i)] = t[c(i)]
        BY <1>2, <1>3, <2>3
      <3>2. Rekeyed(z, r)[i] = Xor(Xor(t[i], k(i)), k(i))
        BY <2>2, <2>3, <3>1
      <3> QED  BY <1>1, <2>3, <3>2, XorTwice
    <2>4. CASE ~(i < RateWords)
      BY <1>2, <2>2, <2>4
    <2> QED  BY <2>3, <2>4
  <1>6. Rekeyed(z, r) = [i \in Index |-> Rekeyed(z, r)[i]] /\ t = [i \in Index |-> t[i]]
    BY DEF Rekeyed, State
  <1> QED  BY <1>4, <1>5, <1>6

\* UnFinish undoes the end of a round.
LEMMA FinishBack ==
    ASSUME WordAssumption, NEW s \in State, NEW r \in Nat
    PROVE  /\ EndOfRound(WrappingAdd, Xor, RotateLeft, s, Addends(r), r) \in State
           /\ UnFinish(EndOfRound(WrappingAdd, Xor, RotateLeft, s, Addends(r), r), r) = s
  <1> DEFINE t == Added(s, r)
             z == EndOfRound(WrappingAdd, Xor, RotateLeft, s, Addends(r), r)
             u == IF r % 8 = 7 THEN Rekeyed(z, r) ELSE z
  <1>1. z = IF r % 8 = 7 THEN Rekeyed(t, r) ELSE t
    BY DEF EndOfRound, Added, Rekeyed
  <1>2. \A i \in Index : s[i] \in Word
    BY DEF State
  <1>3. \A i \in Injected : i \in Index /\ Addends(r)[i] \in Word
    BY AddendType DEF Injected, Index, StateWords
  <1>4. \A i \in Index : i \in Injected =>
            /\ t[i] \in Word /\ (t[i] + Modulus - Addends(r)[i]) % Modulus = s[i]
    <2>1. \A i \in Injected : t[i] = WrappingAdd(s[i], Addends(r)[i])
      BY <1>3 DEF Added
    <2> QED  BY <1>2, <1>3, <2>1, AddBack
  <1>5. \A i \in Index : i \notin Injected => t[i] = s[i]
    BY DEF Added
  <1>6. t \in State
    BY <1>2, <1>4, <1>5 DEF State, Added
  <1> HIDE DEF z, t
  <1>7. z \in State /\ u = t
    BY <1>1, <1>6, RekeyBack
  <1>8. UnFinish(z, r) = [i \in Index |-> IF i \in Injected
            THEN (u[i] + Modulus - Addends(r)[i]) % Modulus ELSE u[i]]
    BY DEF UnFinish, Rekeyed
  <1>9. UnFinish(z, r) = [i \in Index |-> s[i]]
    BY <1>4, <1>5, <1>7, <1>8
  <1>10. s = [i \in Index |-> s[i]]
    BY DEF State
  <1> QED  BY <1>7, <1>9, <1>10 DEF z

-----------------------------------------------------------------------------
(* The state: the scalar states are words, the rotations are distances.      *)

PermutationTyped ==
    /\ cpu \in [Lanes -> State]
    /\ rot \in Rotations
    /\ round \in Nat /\ at \in 0..15

\* Rotations derived from entropy are a schedule.
LEMMA RotationsType ==
    ASSUME WordAssumption, NEW entropy \in Seq(Nat)
    PROVE  RotationsFromEntropy(entropy) \in Rotations
  <1> DEFINE taken(idx) == Odd(entropy[idx] % WordBits)
             distance(i, j) == LET idx == 2 * i + j
                               IN  IF idx <= Len(entropy) THEN taken(idx) ELSE DefaultRotations[i][j]
  <1>1. WordBits \in Nat \ {0} /\ DefaultRotations \in Rotations
    BY Sizes DEF WordAssumption
  <1>2. ASSUME NEW i \in 0..14, NEW j \in 1..2  PROVE distance(i, j) \in Nat
    <2> DEFINE idx == 2 * i + j
    <2>1. idx \in Nat \ {0}
      OBVIOUS
    <2> HIDE DEF idx
    <2>2. ASSUME idx <= Len(entropy)  PROVE taken(idx) \in Nat
      <3>1. entropy[idx] \in Nat
        BY <2>1, <2>2
      <3>2. entropy[idx] % WordBits \in Nat
        BY <1>1, <3>1
      <3> QED  BY <3>2 DEF Odd
    <2>3. DefaultRotations[i][j] \in Nat
      BY <1>1 DEF Rotations
    <2> HIDE DEF taken
    <2>4. (IF idx <= Len(entropy) THEN taken(idx) ELSE DefaultRotations[i][j]) \in Nat
      BY <2>2, <2>3
    <2> QED  BY <2>4 DEF idx
  <1> HIDE DEF distance
  <1>3. [i \in 0..14 |-> [j \in 1..2 |-> distance(i, j)]] \in Rotations
    BY <1>2 DEF Rotations
  <1> QED  BY <1>3 DEF RotationsFromEntropy, distance

\* The distances of a schedule are numbers.
LEMMA Distances ==
    ASSUME rot \in Rotations, NEW n \in 0..14
    PROVE  rot[n][1] \in Int /\ rot[n][2] \in Int
  <1>1. rot[n] \in [1..2 -> Nat]
    BY DEF Rotations
  <1> QED  BY <1>1

\* A quintet-round works on five different words of every lane.
LEMMA CpuStepType ==
    ASSUME WordAssumption, PermutationTyped, NEW n \in 0..14, CpuStep(n)
    PROVE  /\ cpu' \in [Lanes -> State]
           /\ \A l \in Lanes : UnQuintet(cpu'[l], Words(Diags, n), rot[n]) = cpu[l]
  <1> DEFINE q == Words(Diags, n)
             r == rot[n]
             z(l) == QuintetRound(Mfr, Ddr, Xor, cpu[l], q, r)
  <1>1. FiveWords(q) /\ r[1] \in Int /\ r[2] \in Int
    BY WordsPlaces, Distances DEF PermutationTyped
  <1>2. cpu' = [l \in Lanes |-> z(l)]
    BY DEF CpuStep
  <1> HIDE DEF q, r
  <1>3. ASSUME NEW l \in Lanes  PROVE z(l) \in State /\ UnQuintet(z(l), q, r) = cpu[l]
    <2>1. cpu[l] \in State
      BY DEF PermutationTyped
    <2>2. UnQuintet(z(l), q, r) = cpu[l]
      BY <1>1, <2>1, QuintetBack
    <2>3. QuintetFacts(z(l), cpu[l], q, r)
      BY <1>1, <2>1, QuintetWords
    <2> HIDE DEF z
    <2> QED  BY <2>2, <2>3 DEF QuintetFacts
  <1> HIDE DEF z
  <1>4. \A l \in Lanes : UnQuintet(cpu'[l], q, r) = cpu[l]
    BY <1>2, <1>3
  <1>5. cpu' \in [Lanes -> State]
    BY <1>2, <1>3
  <1> QED  BY <1>4, <1>5 DEF q, r

\* The end of a round keeps states states and can be undone.
LEMMA CpuFinishType ==
    ASSUME WordAssumption, PermutationTyped, FinishRound
    PROVE  /\ cpu' \in [Lanes -> State]
           /\ \A l \in Lanes : UnFinish(cpu'[l], round) = cpu[l]
  <1> DEFINE z(l) == EndOfRound(WrappingAdd, Xor, RotateLeft, cpu[l], Addends(round), round)
  <1>1. cpu' = [l \in Lanes |-> z(l)]
    BY DEF FinishRound
  <1>2. ASSUME NEW l \in Lanes  PROVE z(l) \in State /\ UnFinish(z(l), round) = cpu[l]
    <2>1. cpu[l] \in State /\ round \in Nat
      BY DEF PermutationTyped
    <2> QED  BY <2>1, FinishBack
  <1> HIDE DEF z
  <1> QED  BY <1>1, <1>2

\* PermutationTyped holds at first.
LEMMA PermutationTypedInit == ASSUME WordAssumption, Init  PROVE PermutationTyped
  <1>1. host \in [Lanes -> State] /\ cpu = host
    BY DEF Init, WordAssumption, State
  <1>2. PICK entropy \in Entropies : rot = RotationsFromEntropy(entropy)
    BY DEF Init
  <1>3. rot \in Rotations
    BY <1>2, RotationsType DEF WordAssumption
  <1> QED  BY <1>1, <1>3 DEF PermutationTyped, Init

\* What the three phases have in common.
LEMMA QuintetNumbers ==
    ASSUME NEW numbers \in SUBSET (0..14), Quintet(numbers)
    PROVE  /\ at \in 0..14 /\ at' = at + 1 /\ round' = round /\ rot' = rot /\ acc' = acc
           /\ CpuStep(at) /\ AvxStep(at) /\ CudaStep(at) /\ WgslStep(at)
           /\ phase' = phase /\ phase = "run" /\ buffer' = buffer
  BY DEF Quintet

\* Every step is the load, the quintet-round `at', the end of a round or the store.
LEMMA StepKinds ==
    ASSUME Next
    PROVE  LoadWords \/ Quintet(0..4) \/ Quintet(5..9) \/ Quintet(10..14) \/ FinishRound \/ StoreWords
  BY DEF Next, RowPhase, ColumnPhase, DiagonalPhase

\* Every step keeps PermutationTyped, and is undone by its inverse.
LEMMA PermutationTypedStep ==
    ASSUME WordAssumption, PermutationTyped, [Next]_vars
    PROVE  /\ PermutationTyped'
           /\ \A l \in Lanes :
                /\ at' = at + 1 => UnQuintet(cpu'[l], Words(Diags, at), rot[at]) = cpu[l]
                /\ round' = round + 1 => UnFinish(cpu'[l], round) = cpu[l]
  <1>0. round \in Nat /\ at \in Nat
    BY DEF PermutationTyped
  <1>1. ASSUME NEW numbers \in SUBSET (0..14), Quintet(numbers)  PROVE PermutationTyped'
               /\ \A l \in Lanes :
                /\ at' = at + 1 => UnQuintet(cpu'[l], Words(Diags, at), rot[at]) = cpu[l]
                /\ round' = round + 1 => UnFinish(cpu'[l], round) = cpu[l]
    <2>1. at \in 0..14 /\ at' = at + 1 /\ round' = round /\ rot' = rot /\ CpuStep(at)
      BY <1>1, QuintetNumbers
    <2>2. /\ cpu' \in [Lanes -> State]
          /\ \A l \in Lanes : UnQuintet(cpu'[l], Words(Diags, at), rot[at]) = cpu[l]
      BY <2>1, CpuStepType
    <2>3. PermutationTyped'
      BY <2>1, <2>2 DEF PermutationTyped
    <2> QED  BY <1>0, <2>1, <2>2, <2>3
  <1>2. CASE FinishRound
    <2>1. /\ cpu' \in [Lanes -> State]
          /\ \A l \in Lanes : UnFinish(cpu'[l], round) = cpu[l]
      BY <1>2, CpuFinishType
    <2>2. rot' = rot /\ round' = round + 1 /\ at' = 0
      BY <1>2 DEF FinishRound
    <2>3. PermutationTyped'
      BY <2>1, <2>2 DEF PermutationTyped
    <2> QED  BY <1>0, <2>1, <2>2, <2>3
  <1>3. ASSUME UNCHANGED <<cpu, rot, round, at>>  PROVE PermutationTyped'
               /\ \A l \in Lanes :
                /\ at' = at + 1 => UnQuintet(cpu'[l], Words(Diags, at), rot[at]) = cpu[l]
                /\ round' = round + 1 => UnFinish(cpu'[l], round) = cpu[l]
    <2>1. PermutationTyped'
      BY <1>3 DEF PermutationTyped
    <2> QED  BY <1>0, <1>3, <2>1
  <1>4. CASE LoadWords
    BY <1>3, <1>4 DEF LoadWords
  <1>5. CASE StoreWords
    BY <1>3, <1>5 DEF StoreWords
  <1>6. CASE UNCHANGED vars
    BY <1>3, <1>6 DEF vars
  <1>7. 0..4 \in SUBSET (0..14) /\ 5..9 \in SUBSET (0..14) /\ 10..14 \in SUBSET (0..14)
    OBVIOUS
  <1>8. CASE Quintet(0..4)
    BY <1>1, <1>7, <1>8
  <1>9. CASE Quintet(5..9)
    BY <1>1, <1>7, <1>9
  <1>10. CASE Quintet(10..14)
    BY <1>1, <1>7, <1>10
  <1>11. CASE Next
    BY <1>2, <1>4, <1>5, <1>8, <1>9, <1>10, <1>11, StepKinds
  <1> QED  BY <1>6, <1>11

\* Whatever the word size, the rotations and the number of lanes, each step of
\* the scalar permutation is undone by the inverse operations
\* (kk_mix.rs:196-210, "| 1 ensures odd (bijective)").
THEOREM StepsUndone == Spec => Reversible
  <1>1. Init => PermutationTyped
    BY WordAssumption, PermutationTypedInit
  <1>2. PermutationTyped /\ [Next]_vars => PermutationTyped'
    BY WordAssumption, PermutationTypedStep
  <1>3. PermutationTyped /\ [Next]_vars =>
          [\A l \in Lanes :
             /\ at' = at + 1 => UnQuintet(cpu'[l], Words(Diags, at), rot[at]) = cpu[l]
             /\ round' = round + 1 => UnFinish(cpu'[l], round) = cpu[l]]_vars
    BY WordAssumption, PermutationTypedStep
  <1> QED  BY <1>1, <1>2, <1>3, PTL DEF Spec, Reversible

-----------------------------------------------------------------------------
(* The vector permutation: each register holds one word of every lane, and   *)
(* every vector operation is the scalar one in each lane.                    *)

Register == [Lanes -> Word]

\* The vector operations act lane by lane.
LEMMA LanewiseOps ==
    ASSUME WordAssumption, NEW a \in Register, NEW b \in Register, NEW n \in Int
    PROVE  /\ MfrX8(a, b, n) = [l \in Lanes |-> Mfr(a[l], b[l], n)] /\ MfrX8(a, b, n) \in Register
           /\ DdrX8(a, b) = [l \in Lanes |-> Ddr(a[l], b[l])] /\ DdrX8(a, b) \in Register
           /\ XorX8(a, b) = [l \in Lanes |-> Xor(a[l], b[l])] /\ XorX8(a, b) \in Register
           /\ AddX8(a, b) = [l \in Lanes |-> WrappingAdd(a[l], b[l])] /\ AddX8(a, b) \in Register
  <1>1. \A l \in Lanes : a[l] \in Word /\ b[l] \in Word
    BY DEF Register
  <1>2. MfrX8(a, b, n) = [l \in Lanes |-> Mfr(a[l], b[l], n)]
    <2> DEFINE p == [l \in Lanes |-> Times(a[l], Odd(b[l]))]
               h == [l \in Lanes |-> p[l] \div Half]
               x == XorX8(p, h)
               y == XorX8(x, b)
    <2>1. MfrX8(a, b, n) = [l \in Lanes |-> RotateLeft(y[l], n)]
      BY DEF MfrX8, RotateX8
    <2>2. \A l \in Lanes : y[l] = Xor(Xor(p[l], h[l]), b[l])
      BY DEF XorX8
    <2>3. \A l \in Lanes : p[l] = Times(a[l], Odd(b[l])) /\ h[l] = p[l] \div Half
      OBVIOUS
    <2> HIDE DEF y, p, h
    <2>4. \A l \in Lanes : RotateLeft(y[l], n) = Mfr(a[l], b[l], n)
      BY <2>2, <2>3 DEF Mfr
    <2> QED  BY <2>1, <2>4
  <1>3. \A l \in Lanes : Mfr(a[l], b[l], n) \in Word
    BY <1>1, MfrBack
  <1>4. \A l \in Lanes : Ddr(a[l], b[l]) = RotateLeft(a[l], Selector(b[l])) /\ Ddr(a[l], b[l]) \in Word
    BY <1>1, DdrBack
  <1>5. DdrX8(a, b) = [l \in Lanes |-> RotateLeft(a[l], Selector(b[l]))]
    BY DEF DdrX8, Selector
  <1>6. \A l \in Lanes : Xor(a[l], b[l]) \in Word
    BY <1>1, XorTwice
  <1>7. AddX8(a, b) = [l \in Lanes |-> WrappingAdd(a[l], b[l])]
    BY DEF AddX8, WrappingAdd
  <1>8. \A l \in Lanes : WrappingAdd(a[l], b[l]) \in Word
    BY <1>1, AddBack
  <1>9. MfrX8(a, b, n) \in Register
    BY <1>2, <1>3 DEF Register
  <1>10. DdrX8(a, b) = [l \in Lanes |-> Ddr(a[l], b[l])] /\ DdrX8(a, b) \in Register
    BY <1>4, <1>5 DEF Register
  <1>11. XorX8(a, b) = [l \in Lanes |-> Xor(a[l], b[l])] /\ XorX8(a, b) \in Register
    BY <1>6 DEF Register, XorX8
  <1>12. AddX8(a, b) \in Register
    BY <1>7, <1>8 DEF Register
  <1> QED  BY <1>2, <1>7, <1>9, <1>10, <1>11, <1>12

\* MfrX8 in a lane is Mfr.
LEMMA MfrLanes ==
    ASSUME WordAssumption, NEW a \in Register, NEW b \in Register, NEW n \in Int
    PROVE  MfrX8(a, b, n) \in Register /\ \A l \in Lanes : MfrX8(a, b, n)[l] = Mfr(a[l], b[l], n)
  <1>1. MfrX8(a, b, n) = [l \in Lanes |-> Mfr(a[l], b[l], n)] /\ MfrX8(a, b, n) \in Register
    BY LanewiseOps
  <1> QED  BY <1>1

\* RotateX8 in a lane is RotateLeft.
LEMMA RotateLanes ==
    ASSUME WordAssumption, NEW a \in Register, NEW n \in Int
    PROVE  RotateX8(a, n) = [l \in Lanes |-> RotateLeft(a[l], n)] /\ RotateX8(a, n) \in Register
  <1>1. \A l \in Lanes : RotateLeft(a[l], n) \in Word
    BY RotateType DEF Register
  <1> QED  BY <1>1 DEF Register, RotateX8

\* LoadStates transposes.
LEMMA Loaded ==
    ASSUME WordAssumption, NEW f \in [Lanes -> State]
    PROVE  /\ DOMAIN LoadStates(f) = Index
           /\ \A w \in Index : /\ LoadStates(f)[w] \in Register
                               /\ \A l \in Lanes : LoadStates(f)[w][l] = f[l][w]
  BY DEF LoadStates, Register, State


\* A vector quintet-round is the transposed scalar one.
LEMMA QuintetLanes ==
    ASSUME WordAssumption, NEW f \in [Lanes -> State], NEW q, FiveWords(q),
           NEW r, r[1] \in Int, r[2] \in Int
    PROVE  QuintetRound(MfrX8, DdrX8, XorX8, LoadStates(f), q, r)
             = LoadStates([l \in Lanes |-> QuintetRound(Mfr, Ddr, Xor, f[l], q, r)])
  <1> DEFINE s == LoadStates(f)
             a == MfrX8(s[q[1]], s[q[2]], r[1])
             c == XorX8(s[q[3]], a)
             d == DdrX8(s[q[4]], c)
             e == MfrX8(s[q[5]], d, r[2])
             b == XorX8(s[q[2]], e)
             y == QuintetRound(MfrX8, DdrX8, XorX8, s, q, r)
             z(l) == QuintetRound(Mfr, Ddr, Xor, f[l], q, r)
             g == [l \in Lanes |-> z(l)]
  <1>1. /\ q[1] \in Index /\ q[2] \in Index /\ q[3] \in Index /\ q[4] \in Index /\ q[5] \in Index
        /\ q[1] # q[2] /\ q[1] # q[3] /\ q[1] # q[4] /\ q[1] # q[5] /\ q[2] # q[3]
        /\ q[2] # q[4] /\ q[2] # q[5] /\ q[3] # q[4] /\ q[3] # q[5] /\ q[4] # q[5]
    BY DEF FiveWords
  <1>2. y = [s EXCEPT ![q[1]] = a, ![q[2]] = b, ![q[3]] = c, ![q[4]] = d, ![q[5]] = e]
    BY DEF QuintetRound
  <1>3. ASSUME NEW l \in Lanes
        PROVE  /\ z(l) \in State
               /\ z(l)[q[1]] = Mfr(f[l][q[1]], f[l][q[2]], r[1])
               /\ z(l)[q[3]] = Xor(f[l][q[3]], z(l)[q[1]])
               /\ z(l)[q[4]] = Ddr(f[l][q[4]], z(l)[q[3]])
               /\ z(l)[q[5]] = Mfr(f[l][q[5]], z(l)[q[4]], r[2])
               /\ z(l)[q[2]] = Xor(f[l][q[2]], z(l)[q[5]])
               /\ \A w \in Index \ {q[i] : i \in 1..5} : z(l)[w] = f[l][w]
    <2>1. QuintetFacts(z(l), f[l], q, r)
      BY QuintetWords
    <2> HIDE DEF z
    <2> QED  BY <2>1 DEF QuintetFacts
  <1> HIDE DEF z
  <1>4. /\ DOMAIN s = Index
        /\ \A w \in Index : s[w] \in Register /\ \A l \in Lanes : s[w][l] = f[l][w]
    BY Loaded
  <1> HIDE DEF s
  <1>5. a \in Register /\ \A l \in Lanes : a[l] = z(l)[q[1]]
    <2>0. s[q[1]] \in Register /\ s[q[2]] \in Register
      BY <1>1, <1>4
    <2>1. a \in Register /\ \A l \in Lanes : a[l] = Mfr(s[q[1]][l], s[q[2]][l], r[1])
      BY <2>0, MfrLanes
    <2> HIDE DEF a
    <2> QED  BY <1>1, <1>3, <1>4, <2>1
  <1> HIDE DEF a
  <1>6. c \in Register /\ \A l \in Lanes : c[l] = z(l)[q[3]]
    <2>1. c = [l \in Lanes |-> Xor(s[q[3]][l], a[l])] /\ c \in Register
      BY <1>1, <1>4, <1>5, LanewiseOps, 0 \in Int
    <2> HIDE DEF c
    <2> QED  BY <1>1, <1>3, <1>4, <1>5, <2>1
  <1> HIDE DEF c
  <1>7. d \in Register /\ \A l \in Lanes : d[l] = z(l)[q[4]]
    <2>1. d = [l \in Lanes |-> Ddr(s[q[4]][l], c[l])] /\ d \in Register
      BY <1>1, <1>4, <1>6, LanewiseOps, 0 \in Int
    <2> HIDE DEF d
    <2> QED  BY <1>1, <1>3, <1>4, <1>6, <2>1
  <1> HIDE DEF d
  <1>8. e \in Register /\ \A l \in Lanes : e[l] = z(l)[q[5]]
    <2>0. s[q[5]] \in Register
      BY <1>1, <1>4
    <2>1. e \in Register /\ \A l \in Lanes : e[l] = Mfr(s[q[5]][l], d[l], r[2])
      BY <1>7, <2>0, MfrLanes
    <2> HIDE DEF e
    <2> QED  BY <1>1, <1>3, <1>4, <1>7, <2>1
  <1> HIDE DEF e
  <1>9. b \in Register /\ \A l \in Lanes : b[l] = z(l)[q[2]]
    <2>1. b = [l \in Lanes |-> Xor(s[q[2]][l], e[l])] /\ b \in Register
      BY <1>1, <1>4, <1>8, LanewiseOps, 0 \in Int
    <2> HIDE DEF b
    <2> QED  BY <1>1, <1>3, <1>4, <1>8, <2>1
  <1> HIDE DEF b, y
  <1>10. /\ y[q[1]] = a /\ y[q[2]] = b /\ y[q[3]] = c /\ y[q[4]] = d /\ y[q[5]] = e
         /\ \A w \in Index \ {q[i] : i \in 1..5} : y[w] = s[w]
    <2>1. \A w \in Index \ {q[i] : i \in 1..5} :
              w # q[1] /\ w # q[2] /\ w # q[3] /\ w # q[4] /\ w # q[5]
      OBVIOUS
    <2> QED  BY <1>1, <1>2, <1>4, <2>1
  <1>11. \A w \in Index : y[w] \in Register /\ \A l \in Lanes : y[w][l] = z(l)[w]
    <2>1. SUFFICES ASSUME NEW w \in Index
                   PROVE  y[w] \in Register /\ \A l \in Lanes : y[w][l] = z(l)[w]
      OBVIOUS
    <2>2. CASE w \in {q[i] : i \in 1..5}
      <3>1. w = q[1] \/ w = q[2] \/ w = q[3] \/ w = q[4] \/ w = q[5]
        BY <2>2
      <3> QED  BY <1>5, <1>6, <1>7, <1>8, <1>9, <1>10, <3>1
    <2>3. CASE w \notin {q[i] : i \in 1..5}
      <3>1. y[w] = s[w]
        BY <1>10, <2>3
      <3>2. \A l \in Lanes : z(l)[w] = f[l][w]
        BY <1>3, <2>3
      <3> QED  BY <1>4, <3>1, <3>2
    <2> QED  BY <2>2, <2>3
  <1>12. y = [w \in Index |-> y[w]]
    BY <1>2, <1>4
  <1>13. \A w \in Index : y[w] = [l \in Lanes |-> z(l)[w]]
    BY <1>11 DEF Register
  <1>14. y = [w \in Index |-> [l \in Lanes |-> z(l)[w]]]
    BY <1>12, <1>13
  <1>15. LoadStates(g) = [w \in Index |-> [l \in Lanes |-> z(l)[w]]]
    BY DEF LoadStates
  <1> QED  BY <1>14, <1>15 DEF y, z, s

\* So is the end of a round, given the addends in every lane.
LEMMA EndLanes ==
    ASSUME WordAssumption, NEW f \in [Lanes -> State], NEW r \in Nat
    PROVE  EndOfRound(AddX8, XorX8, RotateX8, LoadStates(f),
                      [w \in Injected |-> [l \in Lanes |-> Addends(r)[w]]], r)
             = LoadStates([l \in Lanes |->
                   EndOfRound(WrappingAdd, Xor, RotateLeft, f[l], Addends(r), r)])
  <1> DEFINE s == LoadStates(f)
             ad == [w \in Injected |-> [l \in Lanes |-> Addends(r)[w]]]
             k(i) == RateWords + (i % CapacityWords)
             p == [i \in Index |-> IF i \in Injected THEN AddX8(s[i], ad[i]) ELSE s[i]]
             u(l) == Added(f[l], r)
             z(l) == EndOfRound(WrappingAdd, Xor, RotateLeft, f[l], Addends(r), r)
             x(i) == XorX8(p[i], RotateX8(p[k(i)], r))
             rk == [i \in Index |-> IF i < RateWords THEN x(i) ELSE p[i]]
             y == EndOfRound(AddX8, XorX8, RotateX8, s, ad, r)
             g == [l \in Lanes |-> z(l)]
  <1>1. y = IF r % 8 = 7 THEN rk ELSE p
    BY DEF EndOfRound
  <1>2. \A l \in Lanes : z(l) = IF r % 8 = 7 THEN Rekeyed(u(l), r) ELSE u(l)
    BY DEF EndOfRound, Added, Rekeyed
  <1>3. \A i \in Index : s[i] \in Register /\ \A l \in Lanes : s[i][l] = f[l][i]
    BY Loaded
  <1>4. \A i \in Injected : i \in Index /\ ad[i] \in Register
                            /\ \A l \in Lanes : ad[i][l] = Addends(r)[i]
    BY AddendType DEF Injected, Index, StateWords, Register
  <1> HIDE DEF s, ad
  <1>5. \A i \in Index : p[i] \in Register /\ \A l \in Lanes : p[i][l] = u(l)[i]
    <2>1. SUFFICES ASSUME NEW i \in Index
                   PROVE  p[i] \in Register /\ \A l \in Lanes : p[i][l] = u(l)[i]
      OBVIOUS
    <2>2. CASE i \in Injected
      <3>1. s[i] \in Register /\ ad[i] \in Register
        BY <1>3, <1>4, <2>2
      <3>2. /\ AddX8(s[i], ad[i]) = [l \in Lanes |-> WrappingAdd(s[i][l], ad[i][l])]
            /\ AddX8(s[i], ad[i]) \in Register
        BY <3>1, LanewiseOps, 0 \in Int
      <3>3. p[i] = AddX8(s[i], ad[i])
        BY <2>2
      <3>4. \A l \in Lanes : u(l)[i] = WrappingAdd(f[l][i], Addends(r)[i])
        BY <2>2 DEF Added
      <3> HIDE DEF p, u
      <3> QED  BY <1>3, <1>4, <2>2, <3>2, <3>3, <3>4
    <2>3. CASE i \notin Injected
      <3>1. p[i] = s[i] /\ \A l \in Lanes : u(l)[i] = f[l][i]
        BY <2>3 DEF Added
      <3> QED  BY <1>3, <3>1
    <2> QED  BY <2>2, <2>3
  <1>6. p = [i \in Index |-> p[i]]
    OBVIOUS
  <1> HIDE DEF p
  <1>7. \A i \in Index : rk[i] \in Register /\ \A l \in Lanes : rk[i][l] = Rekeyed(u(l), r)[i]
    <2>1. SUFFICES ASSUME NEW i \in Index
                   PROVE  rk[i] \in Register /\ \A l \in Lanes : rk[i][l] = Rekeyed(u(l), r)[i]
      OBVIOUS
    <2>2. CASE i < RateWords
      <3>1. k(i) \in Index
        BY <2>2 DEF Index, RateWords, CapacityWords, StateWords
      <3>2. \A l \in Lanes : Rekeyed(u(l), r)[i] = Xor(u(l)[i], RotateLeft(u(l)[k(i)], r))
        BY <2>2 DEF Rekeyed
      <3> DEFINE v == RotateX8(p[k(i)], r)
      <3>3. rk[i] = XorX8(p[i], v)
        BY <2>2
      <3> HIDE DEF k, u, rk
      <3>4. v = [l \in Lanes |-> RotateLeft(p[k(i)][l], r)] /\ v \in Register
        <4> DEFINE w == p[k(i)]
        <4>1. w \in Register /\ r \in Int
          BY <1>5, <3>1
        <4> HIDE DEF w
        <4>2. RotateX8(w, r) = [l \in Lanes |-> RotateLeft(w[l], r)] /\ RotateX8(w, r) \in Register
          BY <4>1, RotateLanes
        <4> QED  BY <4>2 DEF w, v
      <3> HIDE DEF v
      <3>5. XorX8(p[i], v) = [l \in Lanes |-> Xor(p[i][l], v[l])] /\ XorX8(p[i], v) \in Register
        BY <1>5, <3>4, LanewiseOps, 0 \in Int
      <3>6. \A l \in Lanes : v[l] = RotateLeft(u(l)[k(i)], r) /\ p[i][l] = u(l)[i]
        BY <1>5, <3>1, <3>4
      <3> QED  BY <3>2, <3>3, <3>5, <3>6
    <2>3. CASE ~(i < RateWords)
      <3>1. rk[i] = p[i] /\ \A l \in Lanes : Rekeyed(u(l), r)[i] = u(l)[i]
        BY <2>3 DEF Rekeyed
      <3> HIDE DEF rk, u
      <3> QED  BY <1>5, <3>1
    <2> QED  BY <2>2, <2>3
  <1>8. rk = [i \in Index |-> rk[i]]
    OBVIOUS
  <1> HIDE DEF rk, u, z
  <1>9. y = [i \in Index |-> y[i]]
    BY <1>1, <1>6, <1>8
  <1> HIDE DEF y
  <1>10. \A i \in Index : y[i] \in Register /\ \A l \in Lanes : y[i][l] = z(l)[i]
    BY <1>1, <1>2, <1>5, <1>7
  <1>11. \A i \in Index : y[i] = [l \in Lanes |-> z(l)[i]]
    BY <1>10 DEF Register
  <1>12. y = [i \in Index |-> [l \in Lanes |-> z(l)[i]]]
    BY <1>9, <1>11
  <1>13. LoadStates(g) = [i \in Index |-> [l \in Lanes |-> z(l)[i]]]
    BY DEF LoadStates
  <1> QED  BY <1>12, <1>13 DEF y, z, s, ad

\* The accumulators hold the multiples that the scalar code computes.
LEMMA NextAddends ==
    ASSUME WordAssumption, NEW r \in Nat
    PROVE  [w \in Injected |-> (Addends(r)[w] + RoundConstant[w]) % Modulus] = Addends(r + 1)
  <1>1. ASSUME NEW w \in Injected
        PROVE  (Addends(r)[w] + RoundConstant[w]) % Modulus = Addends(r + 1)[w]
    <2> DEFINE c == RoundConstant[w]
               a == Addends(r)[w]
               x == r * c
               y == (r + 1) * c
    <2>1. Modulus \in Nat \ {0}
      BY Sizes
    <2>2. c \in Word /\ a \in Word /\ a = x % Modulus /\ Addends(r + 1)[w] = y % Modulus
      BY AddendType
    <2>3. c \in Int /\ a \in Int
      BY <2>1, <2>2 DEF Word
    <2> HIDE DEF c, a
    <2>4. x \in Int /\ y = x + c /\ y \in Int
      BY <2>3
    <2> HIDE DEF x, y
    <2>5. Same(a, x, Modulus)
      BY <2>1, <2>2, <2>4, SameModulo
    <2>6. Same(a + c, y, Modulus)
      BY <2>1, <2>3, <2>4, <2>5, SameProduct
    <2>7. (a + c) % Modulus = y % Modulus
      <3> DEFINE e == a + c
      <3>1. e \in Int /\ Same(e, y, Modulus)
        BY <2>3, <2>6
      <3> HIDE DEF e
      <3>2. e % Modulus = y % Modulus
        BY <2>1, <2>4, <3>1, SameModulo
      <3> QED  BY <3>2 DEF e
    <2> QED  BY <2>2, <2>4, <2>7 DEF a, c
  <1>2. Addends(r + 1) = [w \in Injected |-> Addends(r + 1)[w]]
    BY DEF Addends
  <1> QED  BY <1>1, <1>2

\* The registers are the scalar states, transposed, and the accumulators the
\* addends of the round.
LanesInv == avx = LoadStates(cpu) /\ acc = Addends(round)

\* LanesInv holds at first: the accumulators are zero times the constants.
LEMMA LanesInvInit == ASSUME WordAssumption, Init  PROVE LanesInv
  <1>1. ASSUME NEW w \in Injected  PROVE Addends(0)[w] = 0
    <2>1. RoundConstant[w] \in Word /\ Addends(0)[w] = (0 * RoundConstant[w]) % Modulus
      BY AddendType
    <2>2. Modulus \in Nat \ {0}
      BY Sizes
    <2>3. RoundConstant[w] \in Int
      BY <2>1, <2>2 DEF Word
    <2> QED  BY <2>1, <2>2, <2>3
  <1>2. Addends(0) = [w \in Injected |-> Addends(0)[w]]
    BY DEF Addends
  <1>3. Addends(0) = [w \in Injected |-> 0]
    BY <1>1, <1>2
  <1> QED  BY <1>3 DEF Init, LanesInv

\* Every step keeps LanesInv; the accumulators move on by one constant each.
LEMMA LanesInvStep ==
    ASSUME WordAssumption, PermutationTyped, LanesInv, [Next]_vars
    PROVE  LanesInv'
  <1>1. ASSUME NEW numbers \in SUBSET (0..14), Quintet(numbers)  PROVE LanesInv'
    <2>1. at \in 0..14 /\ round' = round /\ acc' = acc /\ CpuStep(at) /\ AvxStep(at)
      BY <1>1, QuintetNumbers
    <2> DEFINE q == Words(Diags, at)
               r == rot[at]
    <2>2. FiveWords(q) /\ r[1] \in Int /\ r[2] \in Int /\ cpu \in [Lanes -> State]
      BY <2>1, WordsPlaces, Distances DEF PermutationTyped
    <2>3. /\ avx' = QuintetRound(MfrX8, DdrX8, XorX8, LoadStates(cpu), q, r)
          /\ cpu' = [l \in Lanes |-> QuintetRound(Mfr, Ddr, Xor, cpu[l], q, r)]
      BY <2>1 DEF AvxStep, CpuStep, LanesInv
    <2> HIDE DEF q, r
    <2>4. avx' = LoadStates(cpu')
      BY <2>2, <2>3, QuintetLanes
    <2> QED  BY <2>1, <2>4 DEF LanesInv
  <1>2. CASE FinishRound
    <2>1. round \in Nat /\ cpu \in [Lanes -> State]
      BY DEF PermutationTyped
    <2>2. /\ round' = round + 1 /\ AvxEndOfRound
          /\ cpu' = [l \in Lanes |->
                 EndOfRound(WrappingAdd, Xor, RotateLeft, cpu[l], Addends(round), round)]
      BY <1>2 DEF FinishRound
    <2>3. avx' = EndOfRound(AddX8, XorX8, RotateX8, LoadStates(cpu),
                            [w \in Injected |-> [l \in Lanes |-> Addends(round)[w]]], round)
      BY <2>2 DEF AvxEndOfRound, LanesInv
    <2>4. avx' = LoadStates(cpu')
      BY <2>1, <2>2, <2>3, EndLanes
    <2>5. acc' = [w \in Injected |-> (Addends(round)[w] + RoundConstant[w]) % Modulus]
      BY <2>2 DEF AvxEndOfRound, LanesInv
    <2>6. acc' = Addends(round')
      BY <2>1, <2>2, <2>5, NextAddends
    <2> QED  BY <2>4, <2>6 DEF LanesInv
  <1>3. ASSUME UNCHANGED <<cpu, avx, acc, round>>  PROVE LanesInv'
    BY <1>3 DEF LanesInv
  <1>4. CASE LoadWords
    BY <1>3, <1>4 DEF LoadWords
  <1>5. CASE StoreWords
    BY <1>3, <1>5 DEF StoreWords
  <1>6. CASE UNCHANGED vars
    BY <1>3, <1>6 DEF vars
  <1>7. 0..4 \in SUBSET (0..14) /\ 5..9 \in SUBSET (0..14) /\ 10..14 \in SUBSET (0..14)
    OBVIOUS
  <1>8. CASE Next
    BY <1>1, <1>2, <1>4, <1>5, <1>7, <1>8, StepKinds
  <1> QED  BY <1>6, <1>8

\* What LanesInv means for each lane.
LEMMA LanesInvMatch == ASSUME PermutationTyped, LanesInv  PROVE LanesMatchScalar
  <1>1. cpu \in [Lanes -> State] /\ avx = LoadStates(cpu)
    BY DEF PermutationTyped, LanesInv
  <1>2. StoreStates(avx) = [l \in Lanes |-> [w \in Index |-> cpu[l][w]]]
    BY <1>1 DEF StoreStates, LoadStates
  <1>3. \A l \in Lanes : [w \in Index |-> cpu[l][w]] = cpu[l]
    BY <1>1 DEF State
  <1>4. cpu = [l \in Lanes |-> cpu[l]]
    BY <1>1
  <1> QED  BY <1>2, <1>3, <1>4 DEF LanesMatchScalar

\* The vector permutation computes in every lane what the scalar one computes
\* on that lane's state (kk_mix_avx512.rs:202-206), for every word size.
THEOREM LanesAgree == Spec => []LanesMatchScalar
  <1> DEFINE I == PermutationTyped /\ LanesInv
  <1>1. Init => I
    BY WordAssumption, PermutationTypedInit, LanesInvInit
  <1>2. I /\ [Next]_vars => I'
    BY WordAssumption, PermutationTypedStep, LanesInvStep
  <1>3. I => LanesMatchScalar
    BY LanesInvMatch
  <1> QED  BY <1>1, <1>2, <1>3, PTL DEF Spec

-----------------------------------------------------------------------------
(* The shader's words: pairs of half words, low half first.                  *)

Halves == HalfWord \X HalfWord
Value(p) == Half * p[2] + p[1]

\* Zero has no bits.
LEMMA ZeroBits == ASSUME WordAssumption, NEW i \in 0..WordBits  PROVE Bit(0, i) = 0
  <1> DEFINE P == Power[i]
  <1>1. P \in Nat \ {0}
    BY Powers
  <1> HIDE DEF P
  <1>2. 0 \in 0..(P - 1) /\ 0 \in Int /\ 0 = P * 0 + 0
    BY <1>1
  <1>3. 0 \div P = 0
    BY <1>1
  <1> QED  BY <1>3 DEF Bit, P

\* The bits of a number made of two parts.
LEMMA BitsOfParts ==
    ASSUME WordAssumption, NEW k \in 0..WordBits, NEW h \in Nat, NEW l \in 0..(Power[k] - 1)
    PROVE  /\ \A i \in 0..(k - 1) : Bit(Power[k] * h + l, i) = Bit(l, i)
           /\ \A i \in k..WordBits : Bit(Power[k] * h + l, i) = Bit(h, i - k)
  <1> DEFINE P == Power[k]
             y == P * h + l
  <1>0. WordBits \in Nat /\ k \in Nat
    BY DEF WordAssumption
  <1>1. P \in Nat \ {0}
    BY Powers
  <1>2. l \in 0..(P - 1)
    OBVIOUS
  <1> HIDE DEF P
  <1>3. y \in Int /\ y = P * h + l /\ l \in Int
    BY <1>1, <1>2
  <1> HIDE DEF y
  <1>4. ASSUME NEW i \in 0..(k - 1)  PROVE Bit(y, i) = Bit(l, i)
    <2> DEFINE Q == Power[i]
               R == Power[k - (i + 1)]
               q == l \div Q
               r == l % Q
    <2>1. /\ i \in Nat /\ i + 1 \in Nat /\ k - (i + 1) \in Nat
          /\ (i + 1) + (k - (i + 1)) = k /\ k <= WordBits
          /\ i + 1 \in 1..WordBits /\ (i + 1) - 1 = i /\ i \in 0..WordBits
      BY <1>0
    <2>2. P = Power[i + 1] * R /\ R \in Nat \ {0}
      BY <2>1, PowerSum DEF P
    <2>3. Power[i + 1] = 2 * Q /\ Q \in Nat \ {0}
      BY <2>1, Powers
    <2> HIDE DEF Q, R
    <2>4. q \in Int /\ r \in 0..(Q - 1) /\ l = Q * q + r
      BY <1>3, <2>3, QuotientRemainder
    <2> HIDE DEF q, r
    <2> DEFINE m == R * h
               n == q + 2 * m
    <2>5. m \in Int
      BY <2>2
    <2>6. y = Q * n + r
      <3>1. P * h = Q * (2 * m)
        BY <2>2, <2>3
      <3> HIDE DEF m
      <3> QED  BY <1>3, <2>3, <2>4, <2>5, <3>1
    <2> HIDE DEF m
    <2>7. n \in Int /\ n % 2 = q % 2
      BY <2>4, <2>5
    <2> HIDE DEF n
    <2>8. y \div Q = n
      <3>1. y \in Int /\ n \in Int /\ Q \in Nat \ {0} /\ r \in 0..(Q - 1) /\ y = Q * n + r
        BY <1>3, <2>3, <2>4, <2>6, <2>7
      <3> QED  BY <3>1, QuotientUnique
    <2> QED  BY <2>7, <2>8 DEF Bit, Q, q
  <1>5. ASSUME NEW i \in k..WordBits  PROVE Bit(y, i) = Bit(h, i - k)
    <2> DEFINE Q == Power[i]
               R == Power[i - k]
               q == h \div R
               r == h % R
    <2>1. i - k \in Nat /\ k + (i - k) = i /\ i <= WordBits
      BY <1>0
    <2>2. Q = P * R /\ R \in Nat \ {0}
      BY <1>0, <2>1, PowerSum DEF P
    <2> HIDE DEF R
    <2>3. q \in Int /\ r \in 0..(R - 1) /\ h = R * q + r
      <3>1. h \in Int
        OBVIOUS
      <3> QED  BY <2>2, <3>1, QuotientRemainder
    <2> HIDE DEF q, r
    <2> DEFINE t == P * r + l
    <2>4. t \in 0..(P * R - 1)
      BY <1>1, <1>2, <2>2, <2>3, Composed
    <2>5. y = Q * q + t
      <3>1. P * h = (P * R) * q + P * r
        BY <1>1, <2>2, <2>3
      <3> QED  BY <1>1, <1>3, <2>2, <2>3, <3>1
    <2>6. Q \in Nat \ {0}
      BY <1>1, <2>2
    <2> HIDE DEF t, Q
    <2>7. y \div Q = q
      BY <1>3, <2>2, <2>3, <2>4, <2>5, <2>6, QuotientUnique
    <2> QED  BY <2>7 DEF Bit, Q, q, R
  <1> QED  BY <1>4, <1>5 DEF y, P

\* XorBitsOf, for the function.
LEMMA XorHalfBits ==
    ASSUME WordAssumption, NEW a \in HalfWord, NEW b \in HalfWord
    PROVE  /\ XorHalf[<<a, b>>] \in HalfWord
           /\ \A i \in 0..(HalfBits - 1) : Bit(XorHalf[<<a, b>>], i) = (Bit(a, i) + Bit(b, i)) % 2
  <1>1. XorHalf[<<a, b>>] = XorBits(a, b)
    BY DEF XorHalf
  <1> QED  BY <1>1, XorBitsOf

\* Exclusive or of numbers without a bit in common is their sum.
LEMMA XorDisjoint ==
    ASSUME WordAssumption, NEW k \in 0..HalfBits,
           NEW h \in 0..(Power[HalfBits - k] - 1), NEW l \in 0..(Power[k] - 1)
    PROVE  /\ Power[k] * h \in HalfWord /\ l \in HalfWord /\ Power[k] * h + l \in HalfWord
           /\ XorHalf[<<Power[k] * h, l>>] = Power[k] * h + l
  <1> DEFINE P == Power[k]
             R == Power[HalfBits - k]
             a == P * h
             y == a + l
             x == XorHalf[<<a, l>>]
  <1>0. /\ HalfBits \in Nat /\ WordBits \in Nat \ {0} /\ HalfBits < WordBits
        /\ k \in Nat /\ HalfBits - k \in Nat /\ k + (HalfBits - k) = HalfBits
        /\ HalfBits <= WordBits /\ k \in 0..WordBits
    BY Sizes
  <1>1. Half = P * R /\ P \in Nat \ {0} /\ R \in Nat \ {0}
    BY <1>0, PowerSum DEF Half
  <1>2. 0 \in 0..(P - 1) /\ h \in Nat
    BY <1>1
  <1>3. a \in HalfWord /\ y \in HalfWord /\ l \in HalfWord
    <2> HIDE DEF P, R
    <2>1. h \in 0..(R - 1) /\ l \in 0..(P - 1)
      BY DEF P, R
    <2>2. P * h + l \in 0..(P * R - 1) /\ P * h + 0 \in 0..(P * R - 1)
      BY <1>1, <1>2, <2>1, Composed
    <2>3. a \in Nat /\ a + 0 = a
      BY <1>1, <1>2
    <2> QED  BY <1>1, <2>1, <2>2, <2>3 DEF HalfWord
  <1>4. x \in HalfWord /\ \A i \in 0..(HalfBits - 1) : Bit(x, i) = (Bit(a, i) + Bit(l, i)) % 2
    BY <1>3, XorHalfBits
  <1>5. ASSUME NEW i \in 0..(HalfBits - 1)  PROVE Bit(x, i) = Bit(y, i)
    <2>0. a + 0 = a /\ P * 0 + l = l /\ i \in 0..WordBits /\ i \in 0..(WordBits - 1) /\ 0 \in Nat
      BY <1>0, <1>1, <1>2
    <2>1. Bit(x, i) = (Bit(a, i) + Bit(l, i)) % 2
      BY <1>4
    <2> HIDE DEF x
    <2>2. CASE i < k
      <3>1. i \in 0..(k - 1)
        BY <1>0, <2>2
      <3>2. Bit(P * h + l, i) = Bit(l, i) /\ Bit(P * h + 0, i) = Bit(0, i)
        BY <1>0, <1>2, <3>1, BitsOfParts
      <3>3. Bit(0, i) = 0 /\ Bit(l, i) \in {0, 1}
        BY <1>3, <2>0, ZeroBits, BitType, Sizes DEF HalfWord
      <3> QED  BY <2>0, <2>1, <3>2, <3>3
    <2>3. CASE ~(i < k)
      <3>1. i \in k..WordBits /\ i - k \in 0..WordBits /\ i - k \in 0..(WordBits - 1)
        BY <1>0, <2>3
      <3>2. Bit(P * h + l, i) = Bit(h, i - k) /\ Bit(P * h + 0, i) = Bit(h, i - k)
            /\ Bit(P * 0 + l, i) = Bit(0, i - k)
        BY <1>0, <1>2, <3>1, BitsOfParts
      <3>3. Bit(0, i - k) = 0 /\ Bit(h, i - k) \in {0, 1}
        BY <1>2, <3>1, ZeroBits, BitType
      <3> QED  BY <2>0, <2>1, <3>2, <3>3
    <2> QED  BY <2>2, <2>3
  <1>6. x = y
    <2> HIDE DEF x, y
    <2> QED  BY <1>3, <1>4, <1>5, SameBits
  <1> QED  BY <1>3, <1>6

\* Zero is neutral.
LEMMA XorZero ==
    ASSUME WordAssumption, NEW a \in HalfWord
    PROVE  0 \in HalfWord /\ XorHalf[<<0, a>>] = a /\ XorHalf[<<a, 0>>] = a
  <1>1. /\ HalfBits \in Nat /\ HalfBits \in 0..HalfBits /\ HalfBits - HalfBits = 0
        /\ Power[0] = 1 /\ Half \in Nat \ {0}
    BY Sizes, Powers
  <1>2. a \in 0..(Power[HalfBits] - 1) /\ 0 \in 0..(Power[HalfBits - HalfBits] - 1)
    BY <1>1 DEF HalfWord, Half
  <1>3. XorHalf[<<Power[HalfBits] * 0, a>>] = Power[HalfBits] * 0 + a
    BY <1>1, <1>2, XorDisjoint
  <1>4. Power[HalfBits] * 0 = 0 /\ 0 + a = a /\ 0 \in HalfWord
    BY <1>1 DEF HalfWord, Half
  <1>5. XorHalf[<<0, a>>] = a
    BY <1>3, <1>4
  <1> QED  BY <1>4, <1>5, XorHalves

\* The value of a pair, taken apart.
LEMMA PairOf ==
    ASSUME WordAssumption, NEW p \in Halves
    PROVE  /\ p[1] \in HalfWord /\ p[2] \in HalfWord /\ p = <<p[1], p[2]>>
           /\ Value(p) \in Word /\ Value(p) \div Half = p[2] /\ Value(p) % Half = p[1]
  <1>1. p[1] \in HalfWord /\ p[2] \in HalfWord /\ p = <<p[1], p[2]>>
    BY DEF Halves
  <1> QED  BY <1>1, WordOf DEF Value

\* The value of a pair, put together.
LEMMA PairIs ==
    ASSUME NEW l \in HalfWord, NEW h \in HalfWord
    PROVE  <<l, h>> \in Halves /\ Value(<<l, h>>) = Half * h + l
  BY DEF Halves, Value

\* A half word, split at m bits from the top.
LEMMA HalfParts ==
    ASSUME WordAssumption, NEW m \in 0..HalfBits, NEW a \in HalfWord
    PROVE  /\ Half = Power[m] * Power[HalfBits - m]
           /\ Power[m] \in Nat \ {0} /\ Power[HalfBits - m] \in Nat \ {0}
           /\ a \div Power[HalfBits - m] \in 0..(Power[m] - 1)
           /\ a % Power[HalfBits - m] \in 0..(Power[HalfBits - m] - 1)
           /\ a = Power[HalfBits - m] * (a \div Power[HalfBits - m]) + (a % Power[HalfBits - m])
           /\ (a * Power[m]) % Half = Power[m] * (a % Power[HalfBits - m])
  <1> DEFINE A == Power[m]
             B == Power[HalfBits - m]
             h == a \div B
             l == a % B
  <1>1. /\ HalfBits \in Nat /\ m \in Nat /\ HalfBits - m \in Nat /\ m + (HalfBits - m) = HalfBits
        /\ HalfBits <= WordBits
    BY Sizes
  <1>2. Half = A * B /\ A \in Nat \ {0} /\ B \in Nat \ {0}
    BY <1>1, PowerSum DEF Half
  <1> HIDE DEF A, B
  <1>3. Half = B * A
    BY <1>2
  <1>4. a \in 0..(B * A - 1)
    BY <1>3 DEF HalfWord
  <1>5. h \in 0..(A - 1) /\ l \in 0..(B - 1) /\ a = B * h + l
    BY <1>2, <1>4, Divided
  <1> HIDE DEF h, l
  <1> DEFINE t == A * l
             y == a * A
  <1>6. 0 \in 0..(A - 1) /\ t + 0 = t
    BY <1>2, <1>5
  <1>7. t + 0 \in 0..(A * B - 1)
    BY <1>2, <1>5, <1>6, Composed
  <1>8. y \in Int /\ y = Half * h + t
    <2>1. a * A = (A * B) * h + A * l
      BY <1>2, <1>5
    <2> QED  BY <1>2, <1>5, <2>1
  <1>9. Half \in Nat \ {0} /\ h \in Int /\ t \in 0..(Half - 1)
    BY <1>2, <1>5, <1>6, <1>7
  <1> HIDE DEF t, y
  <1>10. y % Half = t
    BY <1>8, <1>9, QuotientUnique
  <1> QED  BY <1>2, <1>5, <1>10 DEF A, B, h, l, t, y

\* Products of sums.
LEMMA Distributed ==
    ASSUME NEW a \in Int, NEW b \in Int, NEW c \in Int, NEW d \in Int
    PROVE  a * (b * c + d) = (a * b) * c + a * d /\ a * (c + d) = a * c + a * d
           /\ a * (b * c) = b * (a * c) /\ a * (b * c) = (a * b) * c
  OBVIOUS

\* A rotation by less than a half word, half by half.
Turned(p, m) ==
    << Power[m] * (p[1] % Power[HalfBits - m]) + (p[2] \div Power[HalfBits - m]),
       Power[m] * (p[2] % Power[HalfBits - m]) + (p[1] \div Power[HalfBits - m]) >>

\* Turning a pair by less than half a word rotates its value.
LEMMA TurnedValue ==
    ASSUME WordAssumption, NEW m \in 0..(HalfBits - 1), NEW p \in Halves
    PROVE  /\ Turned(p, m) \in Halves
           /\ Value(Turned(p, m)) = RotateLeft(Value(p), m)
  <1> DEFINE A == Power[m]
             B == Power[HalfBits - m]
             h1 == p[1] \div B
             l1 == p[1] % B
             h2 == p[2] \div B
             l2 == p[2] % B
             x == A * l1 + h2
             y == A * l2 + h1
  <1>0. /\ HalfBits \in Nat \ {0} /\ m \in Nat /\ WordBits \in Nat \ {0} /\ HalfBits + HalfBits = WordBits
        /\ m \in 0..HalfBits /\ m \in 0..(WordBits - 1) /\ HalfBits - m \in Nat /\ WordBits - m \in Nat
        /\ HalfBits + (HalfBits - m) = WordBits - m /\ HalfBits + (HalfBits - m) <= WordBits
    BY Sizes
  <1>1. p[1] \in HalfWord /\ p[2] \in HalfWord
    BY PairOf
  <1>2. /\ Half = A * B /\ A \in Nat \ {0} /\ B \in Nat \ {0}
        /\ h1 \in 0..(A - 1) /\ l1 \in 0..(B - 1) /\ p[1] = B * h1 + l1
        /\ h2 \in 0..(A - 1) /\ l2 \in 0..(B - 1) /\ p[2] = B * h2 + l2
    BY <1>0, <1>1, HalfParts
  <1>3. Power[WordBits - m] = Half * B
    BY <1>0, PowerSum DEF Half
  <1>4. Turned(p, m) = <<x, y>>
    BY DEF Turned
  <1> HIDE DEF h1, l1, h2, l2
  <1>5. x \in HalfWord /\ y \in HalfWord
    <2> HIDE DEF A, B
    <2>1. x \in 0..(A * B - 1) /\ y \in 0..(A * B - 1)
      BY <1>2, Composed
    <2> QED  BY <1>2, <2>1 DEF HalfWord
  <1> DEFINE hi == h2
             lo == Half * l2 + p[1]
             K == Half * B
  <1>6. hi \in 0..(Power[m] - 1) /\ lo \in 0..(K - 1)
    <2>1. p[1] \in 0..(Half - 1) /\ Half \in Nat \ {0} /\ B \in Nat \ {0} /\ l2 \in 0..(B - 1)
      BY <1>1, <1>2, Sizes DEF HalfWord
    <2> HIDE DEF B
    <2>2. Half * l2 + p[1] \in 0..(Half * B - 1)
      BY <2>1, Composed
    <2> QED  BY <1>2, <2>2
  <1>7. RotateLeft(Power[WordBits - m] * hi + lo, m) = Power[m] * lo + hi
    <2>1. lo \in 0..(Power[WordBits - m] - 1)
      BY <1>3, <1>6
    <2> HIDE DEF lo, hi
    <2> QED  BY <1>0, <1>6, <2>1, RotatedParts
  <1>8. /\ Half \in Int /\ A \in Int /\ B \in Int /\ h1 \in Int /\ l1 \in Int
        /\ h2 \in Int /\ l2 \in Int /\ p[1] \in Int /\ p[2] \in Int
    <2>1. Half \in Int
      BY Sizes
    <2>2. p[1] \in Int /\ p[2] \in Int
      BY <1>1, <2>1 DEF HalfWord
    <2> HIDE DEF A, B
    <2>3. A \in Int /\ B \in Int /\ h1 \in Int /\ l1 \in Int /\ h2 \in Int /\ l2 \in Int
      BY <1>2
    <2> QED  BY <2>1, <2>2, <2>3
  <1>9. Value(p) = K * hi + lo /\ A * lo + hi = Half * y + x
    <2> HIDE DEF A, B
    <2>1. Half * p[2] = K * h2 + Half * l2
      BY <1>2, <1>8, Distributed
    <2>2. K * h2 \in Int /\ Half * l2 \in Int
      BY <1>8
    <2>3. Value(p) = K * hi + lo
      <3> DEFINE a == K * h2
                 b == Half * l2
      <3> HIDE DEF a, b
      <3>1. Value(p) = (a + b) + p[1] /\ a \in Int /\ b \in Int
        BY <2>1, <2>2 DEF Value, a, b
      <3>2. Value(p) = a + (b + p[1])
        BY <1>8, <3>1
      <3> QED  BY <3>2 DEF a, b
    <2> DEFINE e == Half * (A * l2)
               f == Half * h1
               g == A * l1
    <2>4. A * lo = A * (Half * l2) + A * p[1]
      BY <1>8, <2>2, Distributed
    <2>5. A * (Half * l2) = e /\ A * p[1] = (A * B) * h1 + A * l1
      BY <1>2, <1>8, Distributed
    <2>6. A * lo = e + (f + g)
      BY <1>2, <2>4, <2>5
    <2>7. A * l2 \in Int
      BY <1>8
    <2>8. Half * y = e + f
      BY <1>8, <2>7, Distributed
    <2>9. e \in Int /\ f \in Int /\ g \in Int
      BY <1>8
    <2> HIDE DEF e, f, lo
    <2>10. A * lo + hi = Half * y + x
      BY <1>8, <2>6, <2>8, <2>9
    <2> QED  BY <2>3, <2>10 DEF lo
  <1>10. Value(Turned(p, m)) = Half * y + x /\ Turned(p, m) \in Halves
    BY <1>4, <1>5, PairIs
  <1> QED  BY <1>3, <1>7, <1>8, <1>9, <1>10

\* The two shifts of the shader's rotation, joined by exclusive or, turn a pair.
LEMMA ShiftedUp ==
    ASSUME WordAssumption, NEW m \in 1..(HalfBits - 1), NEW p \in Halves
    PROVE  U64Xor(U64Shl(p, m), U64Shr(p, WordBits - m)) = Turned(p, m)
  <1> DEFINE A == Power[m]
             B == Power[HalfBits - m]
             h1 == p[1] \div B
             l1 == p[1] % B
             h2 == p[2] \div B
             l2 == p[2] % B
             y == A * l2 + h1
  <1>0. /\ HalfBits \in Nat /\ HalfBits + HalfBits = WordBits /\ m \in 0..HalfBits
        /\ m # 0 /\ ~(m >= HalfBits) /\ WordBits - m # 0 /\ WordBits - m >= HalfBits
        /\ (WordBits - m) - HalfBits = HalfBits - m
    BY Sizes
  <1>1. p[1] \in HalfWord /\ p[2] \in HalfWord
    BY PairOf
  <1>2. /\ Half = A * B /\ A \in Nat \ {0} /\ B \in Nat \ {0}
        /\ h1 \in 0..(A - 1) /\ l1 \in 0..(B - 1) /\ (p[1] * A) % Half = A * l1
        /\ h2 \in 0..(A - 1) /\ l2 \in 0..(B - 1) /\ (p[2] * A) % Half = A * l2
    BY <1>0, <1>1, HalfParts
  <1>3. U64Shl(p, m) = <<A * l1, y>>
    BY <1>0, <1>2 DEF U64Shl
  <1>4. U64Shr(p, WordBits - m) = <<h2, 0>>
    BY <1>0 DEF U64Shr
  <1>5. y \in HalfWord /\ XorHalf[<<A * l1, h2>>] = A * l1 + h2
    <2> HIDE DEF h1, h2, l1, l2
    <2>1. l1 \in 0..(Power[HalfBits - m] - 1) /\ h2 \in 0..(Power[m] - 1)
          /\ l2 \in 0..(Power[HalfBits - m] - 1) /\ h1 \in 0..(Power[m] - 1)
      BY <1>2
    <2> QED  BY <1>0, <2>1, XorDisjoint
  <1> HIDE DEF y
  <1>6. XorHalf[<<y, 0>>] = y
    BY <1>5, XorZero
  <1>7. U64Xor(<<A * l1, y>>, <<h2, 0>>) = <<XorHalf[<<A * l1, h2>>], XorHalf[<<y, 0>>]>>
    BY DEF U64Xor
  <1> QED  BY <1>3, <1>4, <1>5, <1>6, <1>7 DEF Turned, y

\* A rotation by a half word or more: the halves change places first.
LEMMA ShiftedOver ==
    ASSUME WordAssumption, NEW m \in 0..(HalfBits - 1), NEW p \in Halves
    PROVE  U64Xor(U64Shl(p, HalfBits + m), U64Shr(p, WordBits - (HalfBits + m)))
             = Turned(<<p[2], p[1]>>, m)
  <1> DEFINE A == Power[m]
             B == Power[HalfBits - m]
             h1 == p[1] \div B
             l1 == p[1] % B
             h2 == p[2] \div B
             l2 == p[2] % B
             x == A * l2 + h1
  <1>0. /\ HalfBits \in Nat \ {0} /\ HalfBits + HalfBits = WordBits /\ m \in 0..HalfBits
        /\ HalfBits + m # 0 /\ HalfBits + m >= HalfBits /\ (HalfBits + m) - HalfBits = m
        /\ WordBits - (HalfBits + m) = HalfBits - m /\ HalfBits - m # 0
        /\ HalfBits - (HalfBits - m) = m /\ Power[0] = 1 /\ Half \in Nat \ {0}
    <2>1. HalfBits \in Nat /\ HalfBits + HalfBits = WordBits /\ Half \in Nat \ {0}
      BY Sizes
    <2>2. Power[0] = 1
      BY Powers
    <2> QED  BY <2>1, <2>2
  <1>1. p[1] \in HalfWord /\ p[2] \in HalfWord
    BY PairOf
  <1>2. /\ Half = A * B /\ A \in Nat \ {0} /\ B \in Nat \ {0}
        /\ h1 \in 0..(A - 1) /\ l1 \in 0..(B - 1) /\ (p[1] * A) % Half = A * l1
        /\ h2 \in 0..(A - 1) /\ l2 \in 0..(B - 1) /\ (p[2] * A) % Half = A * l2
    BY <1>0, <1>1, HalfParts
  <1>3. U64Shl(p, HalfBits + m) = <<0, A * l1>>
    BY <1>0, <1>2 DEF U64Shl
  <1>4. U64Shr(p, HalfBits - m) = <<x, h2>>
    <2>1. CASE m = 0
      <3>1. HalfBits - m = HalfBits /\ HalfBits >= HalfBits /\ HalfBits - HalfBits = 0
            /\ B = Half /\ A = 1
        BY <1>0, <2>1 DEF Half
      <3>2. U64Shr(p, HalfBits - m) = <<p[2] \div 1, 0>>
        BY <1>0, <3>1 DEF U64Shr
      <3>3. p[1] \in 0..(Half - 1) /\ p[2] \in 0..(Half - 1)
        BY <1>1 DEF HalfWord
      <3>4. p[1] \div Half = 0 /\ p[2] \div Half = 0 /\ p[2] % Half = p[2]
        BY <1>0, <3>3, SmallRemainder
      <3>5. h1 = 0 /\ h2 = 0 /\ l2 = p[2]
        BY <3>1, <3>4
      <3>6. p[2] \in Int /\ p[2] \div 1 = p[2]
        BY <1>0, <3>3
      <3> HIDE DEF A, h1, h2, l2
      <3> QED  BY <3>1, <3>2, <3>5, <3>6
    <2>2. CASE m # 0
      <3>1. ~(HalfBits - m >= HalfBits)
        BY <1>0, <2>2
      <3>2. U64Shr(p, HalfBits - m) = <<h1 + A * l2, h2>>
        BY <1>0, <1>2, <3>1 DEF U64Shr
      <3> HIDE DEF A, B, h1, l2, h2
      <3>3. h1 + A * l2 = A * l2 + h1
        BY <1>2
      <3> QED  BY <3>2, <3>3
    <2> QED  BY <2>1, <2>2
  <1>5. x \in HalfWord /\ XorHalf[<<A * l1, h2>>] = A * l1 + h2
    <2> HIDE DEF h1, h2, l1, l2
    <2>1. l1 \in 0..(Power[HalfBits - m] - 1) /\ h2 \in 0..(Power[m] - 1)
          /\ l2 \in 0..(Power[HalfBits - m] - 1) /\ h1 \in 0..(Power[m] - 1)
      BY <1>2
    <2> QED  BY <1>0, <2>1, XorDisjoint
  <1> HIDE DEF x
  <1>6. XorHalf[<<0, x>>] = x
    BY <1>5, XorZero
  <1>7. U64Xor(<<0, A * l1>>, <<x, h2>>) = <<XorHalf[<<0, x>>], XorHalf[<<A * l1, h2>>]>>
    BY DEF U64Xor
  <1> QED  BY <1>0, <1>3, <1>4, <1>5, <1>6, <1>7 DEF Turned, x

\* Swapping the halves rotates by half a word.
LEMMA Swapped ==
    ASSUME WordAssumption, NEW p \in Halves
    PROVE  <<p[2], p[1]>> \in Halves /\ Value(<<p[2], p[1]>>) = RotateLeft(Value(p), HalfBits)
  <1>1. p[1] \in HalfWord /\ p[2] \in HalfWord
    BY PairOf
  <1>2. /\ HalfBits \in 0..(WordBits - 1) /\ WordBits - HalfBits = HalfBits
        /\ p[1] \in 0..(Power[HalfBits] - 1) /\ p[2] \in 0..(Power[HalfBits] - 1)
    BY <1>1, Sizes DEF HalfWord, Half
  <1>3. RotateLeft(Power[WordBits - HalfBits] * p[2] + p[1], HalfBits) = Power[HalfBits] * p[1] + p[2]
    BY <1>2, RotatedParts
  <1> QED  BY <1>1, <1>2, <1>3, PairIs DEF Value, Half

\* u64_rotl rotates the value, for every distance.
LEMMA RotlValue ==
    ASSUME WordAssumption, NEW p \in Halves, NEW s \in Int
    PROVE  U64Rotl(p, s) \in Halves /\ Value(U64Rotl(p, s)) = RotateLeft(Value(p), s)
  <1> DEFINE r == s % WordBits
  <1>1. r \in 0..(WordBits - 1) /\ RotateLeft(Value(p), s) = RotateLeft(Value(p), r)
    BY Distance
  <1>2. U64Rotl(p, s) = IF r = 0 THEN p ELSE U64Xor(U64Shl(p, r), U64Shr(p, WordBits - r))
    BY DEF U64Rotl
  <1> HIDE DEF r
  <1>3. HalfBits \in Nat /\ HalfBits + HalfBits = WordBits
    BY Sizes
  <1>4. Value(p) \in Word
    BY PairOf
  <1>5. CASE r = 0
    BY <1>1, <1>2, <1>4, <1>5, RotateNone
  <1>6. CASE r \in 1..(HalfBits - 1)
    <2>1. r \in 0..(HalfBits - 1) /\ r # 0
      BY <1>3, <1>6
    <2>2. U64Rotl(p, s) = Turned(p, r)
      BY <1>2, <1>6, <2>1, ShiftedUp
    <2> QED  BY <1>1, <2>1, <2>2, TurnedValue
  <1>7. CASE r \in HalfBits..(WordBits - 1) /\ r # 0
    <2> DEFINE m == r - HalfBits
               q == <<p[2], p[1]>>
    <2>1. m \in 0..(HalfBits - 1) /\ HalfBits + m = r /\ m \in Nat /\ HalfBits + m < WordBits
      BY <1>3, <1>7
    <2> HIDE DEF m
    <2>2. U64Rotl(p, s) = Turned(q, m)
      BY <1>2, <1>7, <2>1, ShiftedOver
    <2>3. q \in Halves /\ Value(q) = RotateLeft(Value(p), HalfBits)
      BY Swapped
    <2> HIDE DEF q
    <2>4. Turned(q, m) \in Halves /\ Value(Turned(q, m)) = RotateLeft(Value(q), m)
      BY <2>1, <2>3, TurnedValue
    <2>5. RotateLeft(RotateLeft(Value(p), HalfBits), m) = RotateLeft(Value(p), HalfBits + m)
      BY <1>3, <1>4, <2>1, RotateTwice
    <2> QED  BY <1>1, <2>1, <2>2, <2>3, <2>4, <2>5
  <1> QED  BY <1>1, <1>3, <1>5, <1>6, <1>7

\* u64_xor is the exclusive or of the values.
LEMMA XorValue ==
    ASSUME WordAssumption, NEW a \in Halves, NEW b \in Halves
    PROVE  U64Xor(a, b) \in Halves /\ Value(U64Xor(a, b)) = Xor(Value(a), Value(b))
  <1> DEFINE l == XorHalf[<<a[1], b[1]>>]
             h == XorHalf[<<a[2], b[2]>>]
  <1>1. /\ a[1] \in HalfWord /\ a[2] \in HalfWord /\ Value(a) \div Half = a[2] /\ Value(a) % Half = a[1]
        /\ b[1] \in HalfWord /\ b[2] \in HalfWord /\ Value(b) \div Half = b[2] /\ Value(b) % Half = b[1]
    BY PairOf
  <1>2. l \in HalfWord /\ h \in HalfWord
    BY <1>1, XorHalves
  <1>3. U64Xor(a, b) = <<l, h>>
    BY DEF U64Xor
  <1>4. Xor(Value(a), Value(b)) = Half * h + l
    BY <1>1 DEF Xor
  <1> HIDE DEF l, h
  <1> QED  BY <1>2, <1>3, <1>4, PairIs

\* A pair that differs from x by a multiple of the modulus is x, wrapped.
LEMMA ValueIs ==
    ASSUME WordAssumption, NEW l \in HalfWord, NEW h \in HalfWord, NEW x \in Int, NEW k \in Int,
           x = Modulus * k + (Half * h + l)
    PROVE  Value(<<l, h>>) = x % Modulus /\ <<l, h>> \in Halves
  <1> DEFINE w == Half * h + l
  <1>1. w \in Word /\ Modulus \in Nat \ {0}
    BY WordOf, Sizes
  <1>2. w \in 0..(Modulus - 1) /\ x = Modulus * k + w
    BY <1>1 DEF Word
  <1>3. Value(<<l, h>>) = w /\ <<l, h>> \in Halves
    BY PairIs
  <1> HIDE DEF w
  <1>4. x % Modulus = w
    BY <1>1, <1>2, QuotientUnique
  <1> QED  BY <1>3, <1>4

\* u64_add, with its carry, is the wrapping sum of the values.
LEMMA AddValue ==
    ASSUME WordAssumption, NEW a \in Halves, NEW b \in Halves
    PROVE  U64Add(a, b) \in Halves /\ Value(U64Add(a, b)) = WrappingAdd(Value(a), Value(b))
  <1> DEFINE lo == (a[1] + b[1]) % Half
             carry == IF lo < a[1] THEN 1 ELSE 0
             top == a[2] + b[2] + carry
             t == top % Half
             k == top \div Half
             c == (a[1] + b[1]) \div Half
  <1>1. Half \in Nat \ {0} /\ Modulus = Half * Half /\ HalfWord = 0..(Half - 1)
    BY Sizes DEF HalfWord
  <1>2. a[1] \in HalfWord /\ a[2] \in HalfWord /\ b[1] \in HalfWord /\ b[2] \in HalfWord
    BY PairOf
  <1>3. a[1] \in Nat /\ a[2] \in Nat /\ b[1] \in Nat /\ b[2] \in Nat /\ a[1] < Half /\ b[1] < Half
    BY <1>1, <1>2
  <1>4. U64Add(a, b) = <<lo, t>>
    BY DEF U64Add
  <1>5. lo \in 0..(Half - 1) /\ c \in Int /\ a[1] + b[1] = Half * c + lo
    <2>1. a[1] + b[1] \in Int
      BY <1>3
    <2> QED  BY <1>1, <2>1, QuotientRemainder
  <1> HIDE DEF lo, c
  <1>6. carry = c
    <2>1. ~(c >= 2)
      <3>1. SUFFICES ASSUME c >= 2  PROVE FALSE
        OBVIOUS
      <3> DEFINE z == Half * c
      <3>2. z >= Half + Half
        BY <1>1, <1>5, <3>1, ProductAtLeastTwo
      <3>3. a[1] + b[1] = z + lo /\ z \in Int /\ lo \in Nat /\ Half \in Nat
        BY <1>1, <1>5
      <3> HIDE DEF z
      <3> QED  BY <1>3, <3>2, <3>3
    <2>2. ~(-c >= 1)
      <3>1. SUFFICES ASSUME -c >= 1  PROVE FALSE
        BY <1>5
      <3>2. Half * (-c) >= Half /\ Half * (-c) = -(Half * c)
        BY <1>1, <1>5, <3>1, ProductAtLeast
      <3> QED  BY <1>1, <1>3, <1>5, <3>2
    <2>3. c = 0 \/ c = 1
      BY <1>5, <2>1, <2>2
    <2>4. CASE c = 0
      <3>1. a[1] + b[1] = lo
        BY <1>1, <1>5, <2>4
      <3> QED  BY <1>3, <1>5, <2>4, <3>1
    <2>5. CASE c = 1
      <3>1. a[1] + b[1] = Half + lo
        BY <1>1, <1>5, <2>5
      <3> QED  BY <1>1, <1>3, <1>5, <2>5, <3>1
    <2> QED  BY <2>3, <2>4, <2>5
  <1> HIDE DEF carry
  <1>7. top \in Int
    BY <1>3, <1>5, <1>6
  <1>8. t \in 0..(Half - 1) /\ k \in Int /\ top = Half * k + t
    <2> HIDE DEF top
    <2> QED  BY <1>1, <1>7, QuotientRemainder
  <1> HIDE DEF t, k
  <1> DEFINE x == Value(a) + Value(b)
  <1>9. x = Half * (a[2] + b[2]) + (a[1] + b[1]) /\ x \in Int
    <2> DEFINE u == Half * a[2]
               v == Half * b[2]
    <2>1. u \in Int /\ v \in Int /\ Half * (a[2] + b[2]) = u + v
      BY <1>1, <1>3, Distributed
    <2>2. x = (u + a[1]) + (v + b[1])
      BY DEF Value
    <2> HIDE DEF u, v, x
    <2> QED  BY <1>3, <2>1, <2>2
  <1>10. Half * top = Half * (a[2] + b[2]) + Half * c
    BY <1>1, <1>3, <1>5, <1>6
  <1>11. Half * top = Modulus * k + Half * t
    <2>1. Half * (Half * k + t) = (Half * Half) * k + Half * t
      BY <1>1, <1>8, Distributed
    <2> QED  BY <1>1, <1>8, <2>1
  <1>12. x = Modulus * k + (Half * t + lo)
    <2> DEFINE u == Half * (a[2] + b[2])
               v == Half * c
               y == Modulus * k
               z == Half * t
    <2>1. u \in Int /\ v \in Int /\ y \in Int /\ z \in Int /\ lo \in Int
      BY <1>1, <1>3, <1>5, <1>8
    <2>2. x = u + (v + lo) /\ u + v = y + z
      BY <1>5, <1>9, <1>10, <1>11
    <2> HIDE DEF u, v, y, z, x
    <2>3. x = y + (z + lo)
      BY <2>1, <2>2
    <2> QED  BY <2>3 DEF y, z
  <1> HIDE DEF x
  <1>13. Value(<<lo, t>>) = x % Modulus /\ <<lo, t>> \in Halves
    <2>1. lo \in HalfWord /\ t \in HalfWord /\ x \in Int /\ k \in Int
      BY <1>1, <1>5, <1>8, <1>9 DEF x
    <2> QED  BY <1>12, <2>1, ValueIs
  <1> QED  BY <1>4, <1>13 DEF WrappingAdd, x

\* The product of two half words by quarters, column by column.
LEMMA QuarterProduct ==
    ASSUME NEW q \in Int, NEW ah \in Int, NEW al \in Int, NEW bh \in Int, NEW bl \in Int,
           NEW ll0 \in Int, NEW ll1 \in Int, NEW lh0 \in Int, NEW lh1 \in Int,
           NEW hl0 \in Int, NEW hl1 \in Int, NEW hh0 \in Int, NEW hh1 \in Int,
           NEW m10 \in Int, NEW m11 \in Int, NEW m20 \in Int, NEW m21 \in Int,
           al * bl = q * ll1 + ll0, al * bh = q * lh1 + lh0,
           ah * bl = q * hl1 + hl0, ah * bh = q * hh1 + hh0,
           ll1 + lh0 + hl0 = q * m11 + m10, hh0 + lh1 + hl1 + m11 = q * m21 + m20
    PROVE  (q * ah + al) * (q * bh + bl)
             = (q * q) * (m20 + q * (hh1 + m21)) + (q * m10 + ll0)
  <1> DEFINE A == ah * bh
             B == al * bh
             C == ah * bl
             D == al * bl
  <1>1. (q * ah + al) * (q * bh + bl) = (q * q) * A + q * (B + C) + D
    OBVIOUS
  <1>2. A \in Int /\ B \in Int /\ C \in Int /\ D \in Int
    OBVIOUS
  <1> HIDE DEF A, B, C, D
  <1>3. A = q * hh1 + hh0 /\ B = q * lh1 + lh0 /\ C = q * hl1 + hl0 /\ D = q * ll1 + ll0
    BY DEF A, B, C, D
  <1>4. m20 = hh0 + lh1 + hl1 + m11 - q * m21 /\ m10 = ll1 + lh0 + hl0 - q * m11
    OBVIOUS
  <1>5. (q * q) * A + q * (B + C) + D
          = (q * q) * (q * hh1 + hh0) + q * ((q * lh1 + lh0) + (q * hl1 + hl0)) + (q * ll1 + ll0)
    BY <1>3
  <1>6. (q * q) * (m20 + q * (hh1 + m21)) + (q * m10 + ll0)
          = (q * q) * ((hh0 + lh1 + hl1 + m11 - q * m21) + q * (hh1 + m21))
              + (q * (ll1 + lh0 + hl0 - q * m11) + ll0)
    BY <1>4
  <1>7. (q * q) * (q * hh1 + hh0) + q * ((q * lh1 + lh0) + (q * hl1 + hl0)) + (q * ll1 + ll0)
          = (q * q) * ((hh0 + lh1 + hl1 + m11 - q * m21) + q * (hh1 + m21))
              + (q * (ll1 + lh0 + hl0 - q * m11) + ll0)
    OBVIOUS
  <1> QED  BY <1>1, <1>5, <1>6, <1>7

\* Half words have halves.
LEMMA Quarters ==
    ASSUME WordAssumption
    PROVE  /\ WordBits \div 4 \in Nat /\ (WordBits \div 4) + (WordBits \div 4) = HalfBits
           /\ Half = Power[WordBits \div 4] * Power[WordBits \div 4]
           /\ Power[WordBits \div 4] \in Nat \ {0}
  <1> DEFINE n == WordBits \div 4
  <1>1. WordBits \in Nat /\ WordBits % 8 = 0 /\ HalfBits = WordBits \div 2
    BY DEF WordAssumption, HalfBits
  <1>2. n \in Nat /\ n + n = HalfBits /\ n + n <= WordBits
    BY <1>1
  <1> HIDE DEF n
  <1>3. Power[n + n] = Power[n] * Power[n] /\ Power[n] \in Nat \ {0}
    BY <1>2, PowerSum
  <1> QED  BY <1>2, <1>3 DEF n, Half

\* The product of two numbers in two digits.
LEMMA BinomialProduct ==
    ASSUME NEW h \in Int, NEW a \in Int, NEW b \in Int, NEW c \in Int, NEW d \in Int
    PROVE  (h * a + b) * (h * c + d) = (h * h) * (a * c) + h * (b * c + a * d) + b * d
  OBVIOUS

\* u64_mul, from products of quarters, is the wrapping product of the values.
LEMMA MulValue ==
    ASSUME WordAssumption, NEW a \in Halves, NEW b \in Halves
    PROVE  U64Mul(a, b) \in Halves /\ Value(U64Mul(a, b)) = Times(Value(a), Value(b))
  <1> DEFINE Q == Power[WordBits \div 4]
             al == a[1] % Q
             ah == a[1] \div Q
             bl == b[1] % Q
             bh == b[1] \div Q
             ll == al * bl
             lh == al * bh
             hl == ah * bl
             hh == ah * bh
             mid1 == (ll \div Q) + (lh % Q) + (hl % Q)
             mid2 == (hh % Q) + (lh \div Q) + (hl \div Q) + (mid1 \div Q)
             r3 == (hh \div Q) + (mid2 \div Q)
             cross == a[1] * b[2] + a[2] * b[1]
             low == (ll % Q) + (mid1 % Q) * Q
             top == (mid2 % Q) + r3 * Q + cross
             t == top % Half
             k == top \div Half
  <1>1. Half \in Nat \ {0} /\ Modulus = Half * Half /\ HalfWord = 0..(Half - 1)
    BY Sizes DEF HalfWord
  <1>2. Q \in Nat \ {0} /\ Half = Q * Q
    BY Quarters
  <1>3. a[1] \in HalfWord /\ a[2] \in HalfWord /\ b[1] \in HalfWord /\ b[2] \in HalfWord
    BY PairOf
  <1>4. a[1] \in Int /\ a[2] \in Int /\ b[1] \in Int /\ b[2] \in Int
    BY <1>1, <1>3
  <1>5. U64Mul(a, b) = <<low, t>>
    BY DEF U64Mul
  <1> HIDE DEF Q
  <1>6. /\ ah \in Int /\ al \in Int /\ a[1] = Q * ah + al
        /\ bh \in Int /\ bl \in Int /\ b[1] = Q * bh + bl
    <2>1. /\ ah \in Int /\ al \in 0..(Q - 1) /\ a[1] = Q * ah + al
          /\ bh \in Int /\ bl \in 0..(Q - 1) /\ b[1] = Q * bh + bl
      BY <1>2, <1>4, QuotientRemainder
    <2> HIDE DEF ah, al, bh, bl
    <2> QED  BY <1>2, <2>1
  <1> HIDE DEF ah, al, bh, bl
  <1>7. ll \in Int /\ lh \in Int /\ hl \in Int /\ hh \in Int
    BY <1>6
  <1> DEFINE ll0 == ll % Q
             ll1 == ll \div Q
             lh0 == lh % Q
             lh1 == lh \div Q
             hl0 == hl % Q
             hl1 == hl \div Q
             hh0 == hh % Q
             hh1 == hh \div Q
  <1>8. /\ al * bl = ll /\ al * bh = lh /\ ah * bl = hl /\ ah * bh = hh
    OBVIOUS
  <1> HIDE DEF ll, lh, hl, hh
  <1>9. /\ ll0 \in 0..(Q - 1) /\ ll1 \in Int /\ ll = Q * ll1 + ll0
        /\ lh0 \in 0..(Q - 1) /\ lh1 \in Int /\ lh = Q * lh1 + lh0
        /\ hl0 \in 0..(Q - 1) /\ hl1 \in Int /\ hl = Q * hl1 + hl0
        /\ hh0 \in 0..(Q - 1) /\ hh1 \in Int /\ hh = Q * hh1 + hh0
    BY <1>2, <1>7, QuotientRemainder
  <1>10. mid1 = ll1 + lh0 + hl0 /\ mid2 = hh0 + lh1 + hl1 + (mid1 \div Q) /\ r3 = hh1 + (mid2 \div Q)
         /\ low = ll0 + (mid1 % Q) * Q
    OBVIOUS
  <1> HIDE DEF ll0, ll1, lh0, lh1, hl0, hl1, hh0, hh1, mid1, mid2, r3, low
  <1>11. /\ ll0 \in Int /\ ll1 \in Int /\ lh0 \in Int /\ lh1 \in Int
         /\ hl0 \in Int /\ hl1 \in Int /\ hh0 \in Int /\ hh1 \in Int /\ Q \in Int
    BY <1>2, <1>9
  <1> DEFINE m10 == mid1 % Q
             m11 == mid1 \div Q
             m20 == mid2 % Q
             m21 == mid2 \div Q
  <1>12. m10 \in 0..(Q - 1) /\ m10 \in Int /\ m11 \in Int /\ mid1 = Q * m11 + m10
    <2>1. mid1 \in Int
      BY <1>10, <1>11
    <2>2. m10 \in 0..(Q - 1) /\ m11 \in Int /\ mid1 = Q * m11 + m10
      BY <1>2, <2>1, QuotientRemainder
    <2> HIDE DEF m10
    <2> QED  BY <1>2, <2>2
  <1>13. mid2 = hh0 + lh1 + hl1 + m11 /\ low = ll0 + m10 * Q
    BY <1>10
  <1> HIDE DEF m10, m11
  <1>14. m20 \in Int /\ m21 \in Int /\ mid2 = Q * m21 + m20
    <2>1. mid2 \in Int
      BY <1>11, <1>12, <1>13
    <2>2. m20 \in 0..(Q - 1) /\ m21 \in Int /\ mid2 = Q * m21 + m20
      BY <1>2, <2>1, QuotientRemainder
    <2> HIDE DEF m20
    <2> QED  BY <1>2, <2>2
  <1>15. r3 = hh1 + m21 /\ top = m20 + r3 * Q + cross
    BY <1>10
  <1> HIDE DEF m20, m21, top
  <1>16. (Q * ah + al) * (Q * bh + bl) = (Q * Q) * (m20 + Q * (hh1 + m21)) + (Q * m10 + ll0)
    <2>1. /\ al * bl = Q * ll1 + ll0 /\ al * bh = Q * lh1 + lh0
          /\ ah * bl = Q * hl1 + hl0 /\ ah * bh = Q * hh1 + hh0
          /\ ll1 + lh0 + hl0 = Q * m11 + m10 /\ hh0 + lh1 + hl1 + m11 = Q * m21 + m20
      BY <1>8, <1>9, <1>10, <1>12, <1>13, <1>14
    <2> QED  BY <1>6, <1>11, <1>12, <1>14, <2>1, QuarterProduct
  <1>17. low = Q * m10 + ll0 /\ low \in 0..(Half - 1)
    <2>1. low = Q * m10 + ll0
      BY <1>11, <1>12, <1>13
    <2>2. Q * m10 + ll0 \in 0..(Q * Q - 1)
      BY <1>2, <1>9, <1>12, Composed
    <2> QED  BY <1>2, <2>1, <2>2
  <1> DEFINE u == m20 + Q * r3
  <1>18. u \in Int /\ top = u + cross /\ cross \in Int
    <2>1. r3 \in Int /\ r3 * Q = Q * r3
      BY <1>11, <1>14, <1>15
    <2>2. Q * r3 \in Int
      BY <1>11, <2>1
    <2>3. cross \in Int
      BY <1>4
    <2> HIDE DEF cross
    <2> QED  BY <1>14, <1>15, <2>1, <2>2, <2>3
  <1>19. a[1] * b[1] = Half * u + low
    BY <1>2, <1>6, <1>15, <1>16, <1>17
  <1> HIDE DEF u
  <1>20. t \in 0..(Half - 1) /\ k \in Int /\ top = Half * k + t
    <2>1. top \in Int
      BY <1>18
    <2> QED  BY <1>1, <2>1, QuotientRemainder
  <1> HIDE DEF t, k
  <1> DEFINE x == Value(a) * Value(b)
             n == a[2] * b[2] + k
  <1>21. x = Modulus * n + (Half * t + low) /\ x \in Int /\ n \in Int
    <2> DEFINE e == a[2] * b[2]
    <2>1. e \in Int /\ Half \in Int /\ low \in Int /\ t \in Int
      BY <1>1, <1>4, <1>17, <1>20
    <2>2. x = (Half * Half) * e + Half * cross + a[1] * b[1]
      <3>1. (Half * a[2] + a[1]) * (Half * b[2] + b[1])
              = (Half * Half) * (a[2] * b[2]) + Half * (a[1] * b[2] + a[2] * b[1]) + a[1] * b[1]
        <4> DEFINE H == Half
                   a1 == a[1]
                   a2 == a[2]
                   b1 == b[1]
                   b2 == b[2]
        <4>1. H \in Int /\ a1 \in Int /\ a2 \in Int /\ b1 \in Int /\ b2 \in Int
          BY <1>1, <1>4
        <4> HIDE DEF H, a1, a2, b1, b2
        <4>2. (H * a2 + a1) * (H * b2 + b1) = (H * H) * (a2 * b2) + H * (a1 * b2 + a2 * b1) + a1 * b1
          BY <4>1, BinomialProduct
        <4> QED  BY <4>2 DEF H, a1, a2, b1, b2
      <3> QED  BY <3>1 DEF Value
    <2>3. Half * cross + Half * u = Half * (Half * k + t)
      <3> HIDE DEF cross
      <3>1. Half * (u + cross) = Half * u + Half * cross
        BY <1>18, <2>1, Distributed
      <3>2. Half * cross \in Int /\ Half * u \in Int
        BY <1>18, <2>1
      <3> QED  BY <1>18, <1>20, <3>1, <3>2
    <2>4. Half * (Half * k + t) = (Half * Half) * k + Half * t
      BY <1>20, <2>1, Distributed
    <2>5. (Half * Half) * (e + k) = (Half * Half) * e + (Half * Half) * k
      BY <1>20, <2>1, Distributed
    <2> DEFINE M == Half * Half
               c1 == M * e
               c2 == M * k
               c3 == Half * cross
               c4 == Half * u
               c5 == Half * t
    <2>6. c1 \in Int /\ c2 \in Int /\ c3 \in Int /\ c4 \in Int /\ c5 \in Int
      BY <1>18, <1>20, <2>1
    <2>7. x = c1 + c3 + (c4 + low) /\ c3 + c4 = c2 + c5 /\ Modulus * n = c1 + c2
      BY <1>1, <1>19, <2>2, <2>3, <2>4, <2>5
    <2>8. n \in Int
      BY <1>20, <2>1
    <2> HIDE DEF c1, c2, c3, c4, c5, x, n
    <2>9. x = Modulus * n + (c5 + low) /\ x \in Int
      BY <2>1, <2>6, <2>7
    <2> QED  BY <2>8, <2>9 DEF c5
  <1> HIDE DEF x, n
  <1>22. Value(<<low, t>>) = x % Modulus /\ <<low, t>> \in Halves
    <2>1. low \in HalfWord /\ t \in HalfWord
      BY <1>1, <1>17, <1>20
    <2> QED  BY <1>21, <2>1, ValueIs
  <1>23. Times(Value(a), Value(b)) = x % Modulus
    <2>1. Value(a) \in Word /\ Value(b) \in Word
      BY PairOf
    <2>2. Value(a) \in Int /\ Value(b) \in Int
      BY <2>1, Sizes DEF Word
    <2> QED  BY <2>2, TimesProduct DEF x
  <1> QED  BY <1>5, <1>22, <1>23

\* Setting the lowest bit of the low half sets that of the value.
LEMMA OddValue ==
    ASSUME WordAssumption, NEW b \in Halves
    PROVE  <<Odd(b[1]), b[2]>> \in Halves /\ Value(<<Odd(b[1]), b[2]>>) = Odd(Value(b))
  <1> DEFINE P == Power[HalfBits - 1]
             l == b[1]
             h == b[2]
             q == l \div 2
             r == l % 2
             m == P * h + q
  <1>1. HalfBits \in 1..WordBits /\ HalfBits - 1 \in 0..WordBits
    BY Sizes
  <1>2. Half = 2 * P /\ P \in Nat \ {0}
    BY <1>1, Powers DEF Half
  <1>3. l \in HalfWord /\ h \in HalfWord
    BY PairOf
  <1> HIDE DEF P, l, h
  <1>4. l \in 0..(2 * P - 1) /\ h \in Nat
    BY <1>2, <1>3 DEF HalfWord
  <1>5. q \in 0..(P - 1) /\ r \in 0..1 /\ l = 2 * q + r
    BY <1>2, <1>4, Divided
  <1> HIDE DEF q, r
  <1>6. Odd(l) = 2 * q + 1
    BY DEF Odd, q
  <1>7. Odd(l) \in HalfWord
    BY <1>2, <1>5, <1>6 DEF HalfWord
  <1>8. m \in Int /\ Half * h + l = 2 * m + r /\ Half * h + l \in Int
    <2>1. P * h \in Int /\ Half * h = 2 * (P * h)
      BY <1>2, <1>4
    <2> DEFINE z == P * h
    <2> HIDE DEF z
    <2>2. z \in Int /\ Half * h = 2 * z /\ m = z + q
      BY <2>1 DEF z
    <2> HIDE DEF m
    <2> QED  BY <1>2, <1>5, <2>2
  <1>9. (Half * h + l) \div 2 = m
    <2> HIDE DEF m
    <2> QED  BY <1>5, <1>8
  <1>10. Value(<<Odd(l), h>>) = Half * h + Odd(l) /\ <<Odd(l), h>> \in Halves
    BY <1>3, <1>7, PairIs
  <1>11. Half * h + Odd(l) = 2 * m + 1
    <2> HIDE DEF m
    <2> DEFINE z == Half * h
    <2>1. z \in Int
      BY <1>2, <1>4
    <2>2. z + l = 2 * m + r
      BY <1>8
    <2> HIDE DEF z
    <2>3. z + (2 * q + 1) = 2 * m + 1
      BY <1>5, <1>8, <2>1, <2>2
    <2> QED  BY <1>6, <2>3 DEF z
  <1>12. Odd(Value(b)) = 2 * m + 1
    BY <1>9 DEF Odd, Value, l, h
  <1> QED  BY <1>10, <1>11, <1>12 DEF l, h

\* Folding the high half into the low one leaves the high one.
LEMMA FoldValue ==
    ASSUME WordAssumption, NEW p \in Halves
    PROVE  /\ <<XorHalf[<<p[1], p[2]>>], p[2]>> \in Halves
           /\ Value(<<XorHalf[<<p[1], p[2]>>], p[2]>>) = Xor(Value(p), Value(p) \div Half)
           /\ Value(p) \div Half \in Word
  <1> DEFINE l == p[1]
             h == p[2]
             x == XorHalf[<<l, h>>]
  <1>1. l \in HalfWord /\ h \in HalfWord /\ Value(p) \div Half = h /\ Value(p) % Half = l
    BY PairOf
  <1>2. Half \in Nat \ {0} /\ Modulus = Half * Half
    BY Sizes
  <1>3. h \div Half = 0 /\ h % Half = h
    BY <1>1, <1>2, SmallRemainder DEF HalfWord
  <1>4. x \in HalfWord /\ XorHalf[<<h, 0>>] = h
    BY <1>1, XorHalves, XorZero
  <1>5. Xor(Value(p), h) = Half * XorHalf[<<h, 0>>] + x
    BY <1>1, <1>3 DEF Xor
  <1> HIDE DEF x
  <1>6. Value(<<x, h>>) = Half * h + x /\ <<x, h>> \in Halves
    BY <1>1, <1>4, PairIs
  <1>7. h \in Word
    <2>1. 0 \in HalfWord /\ Half * 0 + h = h
      BY <1>1, <1>2 DEF HalfWord
    <2>2. Half * 0 + h \in Word
      BY <1>1, <2>1, WordOf
    <2> QED  BY <2>1, <2>2
  <1> QED  BY <1>1, <1>4, <1>5, <1>6, <1>7 DEF x

\* The shader's mfr is the kernel's on the values.
LEMMA MfrValue ==
    ASSUME WordAssumption, NEW a \in Halves, NEW b \in Halves, NEW n \in Int
    PROVE  /\ WgslMfr(a, b, n) \in Halves
           /\ Value(WgslMfr(a, b, n)) = CudaMfr(Value(a), Value(b), n)
  <1> DEFINE o == <<Odd(b[1]), b[2]>>
             p == U64Mul(a, o)
             f == <<XorHalf[<<p[1], p[2]>>], p[2]>>
  <1>1. o \in Halves /\ Value(o) = Odd(Value(b))
    BY OddValue
  <1>2. WgslMfr(a, b, n) = U64Rotl(f, n)
    BY DEF WgslMfr
  <1> HIDE DEF o
  <1>3. p \in Halves /\ Value(p) = Times(Value(a), Value(o))
    BY <1>1, MulValue
  <1> HIDE DEF p
  <1>4. f \in Halves /\ Value(f) = Xor(Value(p), Value(p) \div Half)
    BY <1>3, FoldValue
  <1> HIDE DEF f
  <1>5. U64Rotl(f, n) \in Halves /\ Value(U64Rotl(f, n)) = RotateLeft(Value(f), n)
    BY <1>4, RotlValue
  <1>6. CudaMfr(Value(a), Value(b), n) = RotateLeft(Xor(Value(p), Value(p) \div Half), n)
    BY <1>1, <1>3 DEF CudaMfr
  <1> QED  BY <1>2, <1>4, <1>5, <1>6

\* The low bits of an exclusive or are those of its operands.
LEMMA LowBitsSame ==
    ASSUME WordAssumption, NEW n \in 0..WordBits, NEW a \in Nat, NEW b \in Nat
    PROVE  /\ (\A i \in 0..(n - 1) : Bit(a, i) = Bit(b, i)) => a % Power[n] = b % Power[n]
           /\ a % Power[n] = b % Power[n] => \A i \in 0..(n - 1) : Bit(a, i) = Bit(b, i)
  <1>0. WordBits \in Nat /\ n \in Nat /\ Power[n] \in Nat \ {0}
    BY Powers DEF WordAssumption
  <1>1. ASSUME \A i \in 0..(n - 1) : Bit(a, i) = Bit(b, i)
        PROVE  a % Power[n] = b % Power[n]
    <2> DEFINE T == {k \in Nat : k <= n => a % Power[k] = b % Power[k]}
    <2>1. 0 \in T
      <3>1. Power[0] = 1
        BY Powers
      <3> QED  BY <3>1
    <2>2. ASSUME NEW k \in Nat, k \in T  PROVE k + 1 \in T
      <3>1. SUFFICES ASSUME k + 1 <= n  PROVE a % Power[k + 1] = b % Power[k + 1]
        OBVIOUS
      <3>2. k + 1 <= WordBits /\ k \in 0..(n - 1) /\ k <= n
        BY <1>0, <3>1
      <3>3. /\ a % Power[k + 1] = Power[k] * Bit(a, k) + (a % Power[k])
            /\ b % Power[k + 1] = Power[k] * Bit(b, k) + (b % Power[k])
        BY <3>2, LowBits
      <3> QED  BY <1>1, <2>2, <3>2, <3>3
    <2> HIDE DEF T
    <2>3. Nat \subseteq T
      BY <2>1, <2>2, Induction
    <2> QED  BY <1>0, <2>3 DEF T
  <1>2. ASSUME NEW x \in Nat  PROVE \A i \in 0..(n - 1) : Bit(x, i) = Bit(x % Power[n], i)
    <2> DEFINE P == Power[n]
               h == x \div P
               l == x % P
    <2>1. h \in Int /\ l \in 0..(P - 1) /\ x = P * h + l
      <3>1. x \in Int /\ P \in Nat \ {0}
        BY <1>0
      <3> HIDE DEF P
      <3> QED  BY <3>1, QuotientRemainder
    <2>2. h \in Nat
      BY <1>0, NatQuotient
    <2> HIDE DEF h, l
    <2>3. \A i \in 0..(n - 1) : Bit(P * h + l, i) = Bit(l, i)
      BY <2>1, <2>2, BitsOfParts
    <2> QED  BY <2>1, <2>3 DEF l
  <1> QED  BY <1>1, <1>2

\* The low bits of an exclusive or depend on low bits only.
LEMMA XorLow ==
    ASSUME WordAssumption, NEW a \in HalfWord, NEW b \in HalfWord, NEW c \in HalfWord, NEW d \in HalfWord,
           a % WordBits = c % WordBits, b % WordBits = d % WordBits, SelectorBits <= HalfBits
    PROVE  XorHalf[<<a, b>>] % WordBits = XorHalf[<<c, d>>] % WordBits
  <1> DEFINE n == SelectorBits
             x == XorHalf[<<a, b>>]
             y == XorHalf[<<c, d>>]
  <1>1. n \in Nat /\ n \in 0..WordBits /\ Power[n] = WordBits /\ HalfBits \in Nat /\ Half \in Nat \ {0}
    BY Sizes DEF WordAssumption
  <1>2. a \in Nat /\ b \in Nat /\ c \in Nat /\ d \in Nat
    BY <1>1 DEF HalfWord
  <1>3. /\ x \in HalfWord /\ \A i \in 0..(HalfBits - 1) : Bit(x, i) = (Bit(a, i) + Bit(b, i)) % 2
        /\ y \in HalfWord /\ \A i \in 0..(HalfBits - 1) : Bit(y, i) = (Bit(c, i) + Bit(d, i)) % 2
    BY XorHalfBits
  <1> HIDE DEF x, y, n
  <1>4. \A i \in 0..(n - 1) : Bit(a, i) = Bit(c, i) /\ Bit(b, i) = Bit(d, i)
    <2>1. a % Power[n] = c % Power[n] /\ b % Power[n] = d % Power[n]
      BY <1>1
    <2>2. \A i \in 0..(n - 1) : Bit(a, i) = Bit(c, i)
      BY <1>1, <1>2, <2>1, LowBitsSame
    <2>3. \A i \in 0..(n - 1) : Bit(b, i) = Bit(d, i)
      BY <1>1, <1>2, <2>1, LowBitsSame
    <2> QED  BY <2>2, <2>3
  <1>5. \A i \in 0..(n - 1) : i \in 0..(HalfBits - 1)
    BY <1>1 DEF n
  <1>6. \A i \in 0..(n - 1) : Bit(x, i) = Bit(y, i)
    BY <1>3, <1>4, <1>5
  <1>7. x \in Nat /\ y \in Nat
    BY <1>1, <1>3 DEF HalfWord
  <1>8. x % Power[n] = y % Power[n]
    BY <1>1, <1>6, <1>7, LowBitsSame
  <1> QED  BY <1>1, <1>8 DEF x, y

\* The low bits of a shifted word come from its low half.
LEMMA ShiftedLow ==
    ASSUME WordAssumption, NEW n \in Nat, SelectorBits + n <= HalfBits,
           NEW h \in HalfWord, NEW l \in HalfWord
    PROVE  /\ (Half * h + l) \div Power[n] \in Word /\ l \div Power[n] \in HalfWord
           /\ ((Half * h + l) \div Power[n]) % Half \in HalfWord
           /\ (((Half * h + l) \div Power[n]) % Half) % WordBits = (l \div Power[n]) % WordBits
  <1> DEFINE m == HalfBits - (SelectorBits + n)
             P == Power[n]
             E == Power[m]
             W == WordBits
             R == W * E
             H == P * E
             f == Half * h + l
             q == l \div P
             r == l % P
             x == f \div P
             k == x \div Half
             y == x % Half
  <1>1. /\ SelectorBits \in Nat /\ Power[SelectorBits] = WordBits /\ HalfBits \in Nat
        /\ HalfBits <= WordBits /\ WordBits \in Nat \ {0}
    BY Sizes DEF WordAssumption
  <1>2. m \in Nat /\ n + (SelectorBits + m) = HalfBits /\ SelectorBits + m \in Nat
        /\ SelectorBits + m <= WordBits /\ n + (SelectorBits + m) <= WordBits
    BY <1>1
  <1> HIDE DEF m
  <1>3. Power[SelectorBits + m] = Power[SelectorBits] * E /\ E \in Nat \ {0}
    BY <1>1, <1>2, PowerSum
  <1>4. Power[n + (SelectorBits + m)] = P * Power[SelectorBits + m] /\ P \in Nat \ {0}
    BY <1>1, <1>2, PowerSum
  <1> HIDE DEF P, E
  <1>5. Half = P * R /\ W \in Nat \ {0} /\ R \in Nat \ {0} /\ Half = W * H
    <2>1. Half = P * (W * E) /\ W \in Nat \ {0}
      BY <1>1, <1>2, <1>3, <1>4 DEF Half
    <2> HIDE DEF W
    <2> QED  BY <1>3, <1>4, <2>1
  <1> HIDE DEF W
  <1>6. h \in Nat /\ l \in Nat /\ Half \in Nat \ {0} /\ h \in 0..(Half - 1) /\ l \in 0..(Half - 1)
    <2>1. Half \in Nat \ {0}
      BY Sizes
    <2> QED  BY <2>1 DEF HalfWord
  <1>7. q \in Int /\ r \in 0..(P - 1) /\ l = P * q + r /\ q \in 0..l
    <2>1. l \in Int
      BY <1>6
    <2>2. q \in Int /\ r \in 0..(P - 1) /\ l = P * q + r
      BY <1>4, <2>1, QuotientRemainder
    <2>3. q \in 0..l
      BY <1>4, <1>6, NatQuotient
    <2> QED  BY <2>2, <2>3
  <1> HIDE DEF q, r
  <1>8. q \in HalfWord
    BY <1>6, <1>7 DEF HalfWord
  <1>9. f \in Word /\ f \in Nat
    <2>1. f \in Word
      BY WordOf
    <2> HIDE DEF f
    <2> QED  BY <2>1, Sizes DEF Word
  <1>10. x \in Word /\ x \in Nat
    <2>1. x \in 0..f
      <3> HIDE DEF f
      <3> QED  BY <1>4, <1>9, NatQuotient
    <2> HIDE DEF x, f
    <2> QED  BY <1>9, <2>1, Sizes DEF Word
  <1>11. x = R * h + q
    <2> DEFINE z == R * h + q
    <2>1. z \in Int
      BY <1>5, <1>6, <1>7
    <2>2. f = P * z + r
      <3>1. P * z = P * (R * h) + P * q /\ P * (R * h) = (P * R) * h
        <4>1. R * h \in Int
          BY <1>5, <1>6
        <4> HIDE DEF R
        <4> QED  BY <1>4, <1>5, <1>6, <1>7, <4>1, Distributed
      <3> DEFINE u == P * q
                 v == Half * h
      <3>2. u \in Int /\ v \in Int /\ P * z = v + u /\ l = u + r /\ f = v + l
        BY <1>4, <1>5, <1>6, <1>7, <3>1
      <3> HIDE DEF u, v, z, f
      <3> QED  BY <1>4, <1>7, <3>2
    <2>3. f \in Int
      BY <1>9
    <2> HIDE DEF z, f
    <2>4. f \div P = z
      BY <1>4, <1>7, <2>1, <2>2, <2>3, QuotientUnique
    <2> QED  BY <2>4 DEF z
  <1> HIDE DEF x, f
  <1>12. y \in 0..(Half - 1) /\ k \in Int /\ x = Half * k + y
    BY <1>6, <1>10, QuotientRemainder
  <1> HIDE DEF y, k
  <1>13. y % W = q % W
    <2> DEFINE d == E * h - H * k
    <2>1. d \in Int /\ H \in Int
      BY <1>3, <1>4, <1>6, <1>12
    <2>2. y = q + W * d
      <3> DEFINE a == E * h
                 b == H * k
      <3>1. a \in Int /\ b \in Int /\ (W * E) * h = W * a /\ (W * H) * k = W * b
        <4>1. W \in Int /\ E \in Int /\ H \in Int /\ h \in Int /\ k \in Int
          BY <1>3, <1>5, <1>6, <1>12, <2>1
        <4> HIDE DEF H
        <4>2. a \in Int /\ b \in Int
          BY <4>1
        <4>3. (W * E) * h = W * (E * h) /\ (W * H) * k = W * (H * k)
          BY <4>1, Distributed
        <4> QED  BY <4>2, <4>3
      <3>2. W * a + q = W * b + y
        BY <1>5, <1>11, <1>12, <3>1
      <3>3. W * (a - b) = W * a - W * b /\ W * a \in Int /\ W * b \in Int
        BY <1>5, <3>1
      <3> DEFINE u == W * a
                 v == W * b
      <3> HIDE DEF a, b
      <3>4. u \in Int /\ v \in Int /\ u + q = v + y /\ W * (a - b) = u - v
        BY <3>2, <3>3
      <3> HIDE DEF u, v
      <3>5. y = q + W * (a - b)
        BY <1>6, <1>7, <1>12, <3>4
      <3> QED  BY <3>5 DEF a, b
    <2> HIDE DEF d
    <2>3. Same(y, q, W)
      BY <2>1, <2>2 DEF Same
    <2>4. y \in Int
      BY <1>6, <1>12
    <2> QED  BY <1>5, <1>7, <2>3, <2>4, SameModulo
  <1>14. y \in HalfWord
    BY <1>12 DEF HalfWord
  <1> QED  BY <1>8, <1>10, <1>13, <1>14 DEF x, y, q, f, P, W

\* A word and its low half agree in the bits of the selector.
LEMMA LowOfHalf ==
    ASSUME WordAssumption, NEW x \in Word, SelectorBits <= HalfBits
    PROVE  (x % Half) % WordBits = x % WordBits
  <1> DEFINE E == Power[HalfBits - SelectorBits]
             k == x \div Half
             y == x % Half
  <1>1. /\ SelectorBits \in Nat /\ Power[SelectorBits] = WordBits /\ HalfBits \in Nat
        /\ HalfBits <= WordBits /\ WordBits \in Nat \ {0} /\ Half \in Nat \ {0} /\ Modulus \in Nat
    BY Sizes DEF WordAssumption
  <1>2. HalfBits - SelectorBits \in Nat /\ SelectorBits + (HalfBits - SelectorBits) = HalfBits
    BY <1>1
  <1>3. Half = WordBits * E /\ E \in Nat \ {0}
    BY <1>1, <1>2, PowerSum DEF Half
  <1> HIDE DEF E
  <1>4. x \in Int
    BY <1>1 DEF Word
  <1>5. y \in 0..(Half - 1) /\ k \in Int /\ x = Half * k + y
    BY <1>1, <1>4, QuotientRemainder
  <1> HIDE DEF k, y
  <1> DEFINE d == E * k
  <1>6. y \in Int /\ d \in Int
    BY <1>1, <1>3, <1>5
  <1>7. x = y + WordBits * d
    <2>1. (WordBits * E) * k = WordBits * (E * k) /\ WordBits * d \in Int
      BY <1>1, <1>3, <1>5, Distributed
    <2> DEFINE z == WordBits * d
    <2>2. x = z + y /\ z \in Int
      BY <1>3, <1>5, <2>1
    <2> HIDE DEF z
    <2>3. x = y + z
      BY <1>6, <2>2
    <2> QED  BY <2>3 DEF z
  <1> HIDE DEF d
  <1>8. Same(x, y, WordBits)
    BY <1>6, <1>7 DEF Same
  <1>9. x % WordBits = y % WordBits
    BY <1>1, <1>4, <1>6, <1>8, SameModulo
  <1> QED  BY <1>9 DEF y

\* The same with the shader's rotation of pairs.
LEMMA RotatedPairByBits ==
    ASSUME WordAssumption, NEW v \in Halves, NEW s \in 0..(WordBits - 1)
    PROVE  /\ RotateByBits(U64Rotl, v, s) \in Halves
           /\ Value(RotateByBits(U64Rotl, v, s)) = RotateLeft(Value(v), s)
  <1> DEFINE next(x, k) == IF Bit(s, k - 1) = 1 THEN U64Rotl(x, Power[k - 1]) ELSE x
             step == [p \in Halves \X (1..SelectorBits) |-> next(p[1], p[2])]
             to(g) == g = [k \in 0..SelectorBits |-> IF k = 0 THEN v ELSE next(g[k - 1], k)]
  <1>1. /\ WordBits \in Nat \ {0} /\ SelectorBits \in Nat /\ SelectorBits <= WordBits
        /\ Power[SelectorBits] = WordBits /\ s \in Nat
    BY Sizes DEF WordAssumption
  <1>2. step \in [Halves \X (1..SelectorBits) -> Halves]
    <2>1. ASSUME NEW x \in Halves, NEW k \in 1..SelectorBits  PROVE next(x, k) \in Halves
      <3>1. k - 1 \in 0..WordBits
        BY <1>1
      <3>2. Power[k - 1] \in Int
        BY <3>1, Powers
      <3> QED  BY <3>2, RotlValue
    <2> HIDE DEF next
    <2> QED  BY <2>1
  <1>3. PICK g : Steps(g, SelectorBits, Halves, v, step)
    <2> HIDE DEF step
    <2> QED  BY <1>1, <1>2, RecursionExists
  <1>4. /\ g \in [0..SelectorBits -> Halves] /\ g[0] = v
        /\ \A k \in 1..SelectorBits : g[k] = next(g[k - 1], k)
    <2>1. /\ g \in [0..SelectorBits -> Halves] /\ g[0] = v
          /\ \A k \in 1..SelectorBits : g[k] = step[<<g[k - 1], k>>]
      <3> HIDE DEF step
      <3> QED  BY <1>3 DEF Steps
    <2>2. ASSUME NEW k \in 1..SelectorBits  PROVE g[k] = next(g[k - 1], k)
      <3>1. g[k - 1] \in Halves
        BY <1>1, <2>1
      <3>2. step[<<g[k - 1], k>>] = next(g[k - 1], k)
        <4> HIDE DEF next
        <4> QED  BY <3>1
      <3> HIDE DEF step, next
      <3> QED  BY <2>1, <3>2
    <2> HIDE DEF step, next
    <2> QED  BY <2>1, <2>2
  <1>5. to(g)
    <2> HIDE DEF next
    <2>1. ASSUME NEW k \in 0..SelectorBits  PROVE g[k] = IF k = 0 THEN v ELSE next(g[k - 1], k)
      <3>1. k # 0 => k \in 1..SelectorBits
        BY <1>1
      <3> QED  BY <1>4, <3>1
    <2>2. g = [k \in 0..SelectorBits |-> g[k]]
      BY <1>4
    <2> QED  BY <2>1, <2>2
  <1> DEFINE h == CHOOSE f : to(f)
  <1>6. RotateByBits(U64Rotl, v, s) = h[SelectorBits]
    BY DEF RotateByBits
  <1>7. to(h)
    <2> HIDE DEF to
    <2> QED  BY <1>5
  <1> HIDE DEF h
  <1>8. h[0] = v /\ \A k \in 1..SelectorBits : h[k] = next(h[k - 1], k)
    <2> HIDE DEF next
    <2>1. ASSUME NEW k \in 0..SelectorBits  PROVE h[k] = IF k = 0 THEN v ELSE next(h[k - 1], k)
      BY <1>7
    <2> HIDE DEF to
    <2>2. 0 \in 0..SelectorBits /\ 1..SelectorBits \subseteq 0..SelectorBits
          /\ \A k \in 1..SelectorBits : k # 0
      BY <1>1
    <2> QED  BY <2>1, <2>2
  <1> DEFINE V == Value(v)
             T == {n \in Nat : n <= SelectorBits =>
                      h[n] \in Halves /\ Value(h[n]) = RotateLeft(V, s % Power[n])}
  <1>V. V \in Word
    BY PairOf
  <1>9. 0 \in T
    <2>1. s % Power[0] = 0
      BY <1>1, Powers
    <2>2. RotateLeft(V, 0) = V
      BY <1>V, RotateNone
    <2> HIDE DEF next
    <2> QED  BY <1>8, <2>1, <2>2
  <1> HIDE DEF V
  <1>10. ASSUME NEW n \in Nat, n \in T  PROVE n + 1 \in T
    <2>1. SUFFICES ASSUME n + 1 <= SelectorBits
                   PROVE  h[n + 1] \in Halves /\ Value(h[n + 1]) = RotateLeft(V, s % Power[n + 1])
      OBVIOUS
    <2>2. h[n] \in Halves /\ Value(h[n]) = RotateLeft(V, s % Power[n])
      BY <1>1, <1>10, <2>1
    <2>3. n + 1 \in 1..SelectorBits /\ (n + 1) - 1 = n /\ n + 1 <= WordBits
      BY <1>1, <2>1
    <2> DEFINE P == Power[n]
               low == s % P
    <2>4. /\ Bit(s, n) \in {0, 1} /\ P \in Nat \ {0}
          /\ s % Power[n + 1] = P * Bit(s, n) + low
      BY <1>1, <2>3, LowBits
    <2>5. low \in Nat
      BY <1>1, <2>4
    <2>6. s % Power[n + 1] <= s /\ s % Power[n + 1] \in Nat
      <3>1. n + 1 \in 0..WordBits
        BY <2>3
      <3>2. Power[n + 1] \in Nat \ {0}
        BY <3>1, Powers
      <3> QED  BY <1>1, <3>2, RemainderAtMost
    <2>7. h[n + 1] = next(h[n], n + 1)
      <3> HIDE DEF next
      <3> QED  BY <1>8, <2>3
    <2>8. h[n + 1] = IF Bit(s, n) = 1 THEN U64Rotl(h[n], P) ELSE h[n]
      BY <2>3, <2>7
    <2> HIDE DEF P, low
    <2>9. CASE Bit(s, n) = 1
      <3>1. s % Power[n + 1] = low + P /\ low + P < WordBits
        BY <1>1, <2>4, <2>5, <2>6, <2>9
      <3>2. RotateLeft(RotateLeft(V, low), P) = RotateLeft(V, low + P)
        BY <1>V, <2>4, <2>5, <3>1, RotateTwice
      <3>3. U64Rotl(h[n], P) \in Halves /\ Value(U64Rotl(h[n], P)) = RotateLeft(Value(h[n]), P)
        BY <2>2, <2>4, RotlValue
      <3> QED  BY <2>2, <2>8, <2>9, <3>1, <3>2, <3>3 DEF low, P
    <2>10. CASE Bit(s, n) = 0
      <3>1. s % Power[n + 1] = low
        BY <2>4, <2>5, <2>10
      <3> QED  BY <2>2, <2>8, <2>10, <3>1 DEF low, P
    <2> QED  BY <2>4, <2>9, <2>10
  <1> HIDE DEF T
  <1>11. Nat \subseteq T
    BY <1>9, <1>10, Induction
  <1>12. h[SelectorBits] \in Halves /\ Value(h[SelectorBits]) = RotateLeft(V, s % Power[SelectorBits])
    BY <1>1, <1>11 DEF T
  <1>13. s % WordBits = s
    BY <1>1, SmallRemainder
  <1> QED  BY <1>1, <1>6, <1>12, <1>13 DEF V

\* The selectors of the two kernels: the shader folds the low half only.
LEMMA DdrValue ==
    ASSUME WordAssumption, NEW a \in Halves, NEW b \in Halves
    PROVE  WgslDdr(a, b) \in Halves /\ Value(WgslDdr(a, b)) = CudaDdr(Value(a), Value(b))
  <1> DEFINE Q == Power[WordBits \div 4]
             E == Power[WordBits \div 8]
             l == XorHalf[<<b[1], b[2]>>]
             f == Xor(Value(b), Value(b) \div Half)
             lq == l \div Q
             le == l \div E
             fq == f \div Q
             fe == f \div E
             sw == XorHalf[<<XorHalf[<<l, lq>>], le>>]
             sc == Xor(Xor(f, fq), fe)
  <1>1. WgslDdr(a, b) = RotateByBits(U64Rotl, a, sw % WordBits)
    BY DEF WgslDdr
  <1>2. CudaDdr(Value(a), Value(b)) = RotateByBits(RotateLeft, Value(a), sc % WordBits)
    BY DEF CudaDdr
  <1>3. /\ WordBits \in Nat \ {0} /\ WordBits \div 4 \in Nat /\ WordBits \div 8 \in Nat
        /\ SelectorBits + (WordBits \div 4) <= HalfBits /\ SelectorBits + (WordBits \div 8) <= HalfBits
        /\ SelectorBits <= HalfBits
    <2>1. WordBits \in Nat \ {0} /\ SelectorBits \in 0..WordBits
          /\ SelectorBits + (WordBits \div 4) <= WordBits \div 2
      BY Sizes DEF WordAssumption
    <2> QED  BY <2>1 DEF HalfBits
  <1>4. b[2] \in HalfWord /\ l \in HalfWord /\ f = Half * b[2] + l
    <2>1. b[1] \in HalfWord /\ b[2] \in HalfWord
      BY PairOf
    <2>2. l \in HalfWord
      BY <2>1, XorHalves
    <2>3. Value(<<l, b[2]>>) = f
      BY FoldValue
    <2> HIDE DEF l, f
    <2> QED  BY <2>1, <2>2, <2>3, PairIs
  <1>5. f \in Word /\ f % Half = l
    <2> HIDE DEF l, f
    <2> QED  BY <1>4, WordOf
  <1>6. /\ fq \in Word /\ lq \in HalfWord /\ fq % Half \in HalfWord
        /\ (fq % Half) % WordBits = lq % WordBits
    <2> HIDE DEF l, f
    <2> QED  BY <1>3, <1>4, ShiftedLow
  <1>7. /\ fe \in Word /\ le \in HalfWord /\ fe % Half \in HalfWord
        /\ (fe % Half) % WordBits = le % WordBits
    <2> HIDE DEF l, f
    <2> QED  BY <1>3, <1>4, ShiftedLow
  <1> HIDE DEF l, f, lq, le, fq, fe
  <1> DEFINE xw == XorHalf[<<l, lq>>]
             xc == Xor(f, fq)
  <1>8. xw \in HalfWord
    BY <1>4, <1>6, XorHalves
  <1>9. xc \in Word /\ xc % Half = XorHalf[<<l, fq % Half>>]
    BY <1>5, <1>6, XorOfHalves
  <1>10. xc % Half \in HalfWord /\ (xc % Half) % WordBits = xw % WordBits
    <2>1. XorHalf[<<l, fq % Half>>] \in HalfWord
      BY <1>4, <1>6, XorHalves
    <2>2. XorHalf[<<l, fq % Half>>] % WordBits = XorHalf[<<l, lq>>] % WordBits
      BY <1>3, <1>4, <1>6, XorLow
    <2> QED  BY <1>9, <2>1, <2>2
  <1> HIDE DEF xw, xc
  <1>11. sw = XorHalf[<<xw, le>>] /\ sc = Xor(xc, fe)
    BY DEF xw, xc
  <1>12. sw \in HalfWord
    BY <1>7, <1>8, <1>11, XorHalves
  <1>13. sc \in Word /\ sc % Half = XorHalf[<<xc % Half, fe % Half>>]
    <2>1. xc \in Word /\ fe \in Word
      BY <1>7, <1>9
    <2>2. Xor(xc, fe) \in Word /\ Xor(xc, fe) % Half = XorHalf[<<xc % Half, fe % Half>>]
      BY <2>1, XorOfHalves
    <2> HIDE DEF sc
    <2> QED  BY <1>11, <2>2
  <1>14. (sc % Half) % WordBits = sw % WordBits
    BY <1>3, <1>7, <1>8, <1>10, <1>11, <1>13, XorLow
  <1> HIDE DEF sw, sc
  <1>15. sc % WordBits = sw % WordBits
    BY <1>3, <1>13, <1>14, LowOfHalf
  <1> DEFINE s == sw % WordBits
  <1>16. s \in 0..(WordBits - 1)
    <2>1. sw \in Int
      BY <1>12, Sizes DEF HalfWord
    <2> QED  BY <1>3, <2>1, QuotientRemainder
  <1> HIDE DEF s
  <1>17. RotateByBits(RotateLeft, Value(a), s) = RotateLeft(Value(a), s)
    <2>1. Value(a) \in Word
      BY PairOf
    <2> QED  BY <1>16, <2>1, RotatedByBits
  <1>18. RotateByBits(U64Rotl, a, s) \in Halves
         /\ Value(RotateByBits(U64Rotl, a, s)) = RotateLeft(Value(a), s)
    BY <1>16, RotatedPairByBits
  <1> QED  BY <1>1, <1>2, <1>15, <1>17, <1>18 DEF s

-----------------------------------------------------------------------------
(* The shader's threads: each step of a thread on pairs is the kernel's step *)
(* on their values.                                                          *)

Pairs == [Index -> Halves]
ValueOf(p) == [w \in Index |-> Value(p[w])]

\* The rows, columns and diagonals of the GPU's grid are quintets.
LEMMA GpuPlaces == ASSUME NEW n \in 0..14  PROVE FiveWords(Words(GpuDiags, n))
  <1>1. CASE n < 10
    <2>1. Words(GpuDiags, n) = Words(Diags, n)
      BY <1>1 DEF Words
    <2> QED  BY <2>1, WordsPlaces
  <1>2. CASE n \in 10..14
    <2>1. Words(GpuDiags, n) = GpuDiags[n - 9]
      BY <1>2 DEF Words
    <2>2. n - 9 = 1 \/ n - 9 = 2 \/ n - 9 = 3 \/ n - 9 = 4 \/ n - 9 = 5
      BY <1>2
    <2>3. /\ GpuDiags[1] = <<0, 6, 12, 18, 24>> /\ GpuDiags[2] = <<1, 7, 13, 19, 20>>
          /\ GpuDiags[3] = <<2, 8, 14, 15, 21>> /\ GpuDiags[4] = <<3, 9, 10, 16, 22>>
          /\ GpuDiags[5] = <<4, 5, 11, 17, 23>>
      BY DEF GpuDiags
    <2>4. FiveWords(<<0, 6, 12, 18, 24>>) /\ FiveWords(<<1, 7, 13, 19, 20>>)
      BY FivePlaces DEF Index, StateWords
    <2>5. FiveWords(<<2, 8, 14, 15, 21>>) /\ FiveWords(<<3, 9, 10, 16, 22>>)
      BY FivePlaces DEF Index, StateWords
    <2>6. FiveWords(<<4, 5, 11, 17, 23>>)
      BY FivePlaces DEF Index, StateWords
    <2> QED  BY <2>1, <2>2, <2>3, <2>4, <2>5, <2>6
  <1> QED  BY <1>1, <1>2

\* The shader's distances are numbers.
LEMMA PairDistances ==
    ASSUME rot \in Rotations, NEW n \in 0..14
    PROVE  RotationPair(n)[1] \in Int /\ RotationPair(n)[2] \in Int
  <1>1. /\ 2 * n \in 0..29 /\ 2 * n + 1 \in 0..29
        /\ (2 * n) \div 2 = n /\ (2 * n) % 2 = 0
        /\ (2 * n + 1) \div 2 = n /\ (2 * n + 1) % 2 = 1
    OBVIOUS
  <1>2. FlatRotations[2 * n] = rot[n][1] /\ FlatRotations[2 * n + 1] = rot[n][2]
    BY <1>1 DEF FlatRotations
  <1> QED  BY <1>2, Distances DEF RotationPair

\* The threads that pass the bounds check are one for each state.
LEMMA ActiveLanes == ASSUME WordAssumption  PROVE Active = Lanes
  <1> DEFINE k == (NumStates + WorkgroupSize - 1) \div WorkgroupSize
             m == (NumStates + WorkgroupSize - 1) % WorkgroupSize
             e == WorkgroupSize * k
  <1>1. NumStates \in Nat /\ WorkgroupSize \in Nat \ {0}
    BY DEF WordAssumption
  <1>2. NumStates + WorkgroupSize - 1 = e + m /\ m \in 0..(WorkgroupSize - 1)
    BY <1>1, QuotientRemainder
  <1>3. k \in Int
    BY <1>1
  <1>4. e \in Int
    BY <1>1, <1>3
  <1>5. Threads = 0..(e - 1)
    BY DEF Threads
  <1> HIDE DEF e, m
  <1>6. e >= NumStates
    BY <1>1, <1>2, <1>4
  <1> QED  BY <1>1, <1>4, <1>5, <1>6 DEF Active, Lanes

\* The shader's quintet-round is the kernel's on the values.
LEMMA QuintetPairs ==
    ASSUME WordAssumption, NEW p \in Pairs, NEW q, FiveWords(q),
           NEW r, r[1] \in Int, r[2] \in Int
    PROVE  /\ QuintetRound(WgslMfr, WgslDdr, U64Xor, p, q, r) \in Pairs
           /\ ValueOf(QuintetRound(WgslMfr, WgslDdr, U64Xor, p, q, r))
                = QuintetRound(CudaMfr, CudaDdr, Xor, ValueOf(p), q, r)
  <1> DEFINE s == ValueOf(p)
             a == WgslMfr(p[q[1]], p[q[2]], r[1])
             c == U64Xor(p[q[3]], a)
             d == WgslDdr(p[q[4]], c)
             e == WgslMfr(p[q[5]], d, r[2])
             b == U64Xor(p[q[2]], e)
             aa == CudaMfr(s[q[1]], s[q[2]], r[1])
             cc == Xor(s[q[3]], aa)
             dd == CudaDdr(s[q[4]], cc)
             ee == CudaMfr(s[q[5]], dd, r[2])
             bb == Xor(s[q[2]], ee)
             y == QuintetRound(WgslMfr, WgslDdr, U64Xor, p, q, r)
             z == QuintetRound(CudaMfr, CudaDdr, Xor, s, q, r)
  <1>1. /\ q[1] \in Index /\ q[2] \in Index /\ q[3] \in Index /\ q[4] \in Index /\ q[5] \in Index
        /\ q[1] # q[2] /\ q[1] # q[3] /\ q[1] # q[4] /\ q[1] # q[5] /\ q[2] # q[3]
        /\ q[2] # q[4] /\ q[2] # q[5] /\ q[3] # q[4] /\ q[3] # q[5] /\ q[4] # q[5]
    BY DEF FiveWords
  <1>2. /\ y = [p EXCEPT ![q[1]] = a, ![q[2]] = b, ![q[3]] = c, ![q[4]] = d, ![q[5]] = e]
        /\ z = [s EXCEPT ![q[1]] = aa, ![q[2]] = bb, ![q[3]] = cc, ![q[4]] = dd, ![q[5]] = ee]
    BY DEF QuintetRound
  <1> HIDE DEF y, z
  <1>3. /\ s = [w \in Index |-> Value(p[w])]
        /\ p \in [Index -> Halves]
    BY DEF ValueOf, Pairs
  <1>4. /\ p[q[1]] \in Halves /\ s[q[1]] = Value(p[q[1]])
        /\ p[q[2]] \in Halves /\ s[q[2]] = Value(p[q[2]])
        /\ p[q[3]] \in Halves /\ s[q[3]] = Value(p[q[3]])
        /\ p[q[4]] \in Halves /\ s[q[4]] = Value(p[q[4]])
        /\ p[q[5]] \in Halves /\ s[q[5]] = Value(p[q[5]])
    BY <1>1, <1>3
  <1> HIDE DEF s
  <1>5. a \in Halves /\ Value(a) = aa
    <2> DEFINE n == r[1]
               u == p[q[1]]
               v == p[q[2]]
    <2>1. n \in Int /\ u \in Halves /\ v \in Halves
      BY <1>4
    <2>2. a = WgslMfr(u, v, n) /\ aa = CudaMfr(Value(u), Value(v), n)
      BY <1>4
    <2> HIDE DEF n, u, v, a, aa
    <2> QED  BY <2>1, <2>2, MfrValue
  <1> HIDE DEF a, aa
  <1>6. c \in Halves /\ Value(c) = cc
    BY <1>4, <1>5, XorValue
  <1> HIDE DEF c, cc
  <1>7. d \in Halves /\ Value(d) = dd
    BY <1>4, <1>6, DdrValue
  <1> HIDE DEF d, dd
  <1>8. e \in Halves /\ Value(e) = ee
    <2> DEFINE n == r[2]
               u == p[q[5]]
    <2>1. n \in Int /\ u \in Halves
      BY <1>4
    <2>2. e = WgslMfr(u, d, n) /\ ee = CudaMfr(Value(u), Value(d), n)
      BY <1>4, <1>7
    <2> HIDE DEF n, u, e, ee
    <2> QED  BY <1>7, <2>1, <2>2, MfrValue
  <1> HIDE DEF e, ee
  <1>9. b \in Halves /\ Value(b) = bb
    BY <1>4, <1>8, XorValue
  <1> HIDE DEF b, bb
  <1>10. y \in Pairs
    BY <1>1, <1>2, <1>3, <1>5, <1>6, <1>7, <1>8, <1>9 DEF Pairs
  <1>11. ASSUME NEW w \in Index  PROVE z[w] = Value(y[w])
    <2>1. /\ y[q[1]] = a /\ y[q[2]] = b /\ y[q[3]] = c /\ y[q[4]] = d /\ y[q[5]] = e
          /\ z[q[1]] = aa /\ z[q[2]] = bb /\ z[q[3]] = cc /\ z[q[4]] = dd /\ z[q[5]] = ee
      BY <1>1, <1>2, <1>3
    <2>2. CASE w = q[1] \/ w = q[2] \/ w = q[3] \/ w = q[4] \/ w = q[5]
      BY <1>5, <1>6, <1>7, <1>8, <1>9, <2>1, <2>2
    <2>3. CASE w # q[1] /\ w # q[2] /\ w # q[3] /\ w # q[4] /\ w # q[5]
      <3>1. y[w] = p[w] /\ z[w] = s[w] /\ s[w] = Value(p[w])
        BY <1>2, <1>3, <2>3
      <3> QED  BY <3>1
    <2> QED  BY <2>2, <2>3
  <1>12. z = [w \in Index |-> z[w]]
    BY <1>2, <1>3
  <1>13. z = ValueOf(y)
    BY <1>11, <1>12 DEF ValueOf
  <1> QED  BY <1>10, <1>13 DEF y, z, s

\* A round number and a round constant as pairs.
LEMMA PairAddend ==
    ASSUME WordAssumption, NEW r \in HalfWord, NEW w \in Injected
    PROVE  /\ U64Mul(<<r, 0>>, <<RoundConstant[w] % Half, RoundConstant[w] \div Half>>) \in Halves
           /\ Value(U64Mul(<<r, 0>>, <<RoundConstant[w] % Half, RoundConstant[w] \div Half>>))
                = Addends(r)[w]
  <1> DEFINE k == RoundConstant[w]
             a == <<r, 0>>
             b == <<k % Half, k \div Half>>
  <1>1. Half \in Nat \ {0} /\ 0 \in HalfWord /\ r \in Nat
    BY Sizes DEF HalfWord
  <1>2. k \in Word /\ Addends(r)[w] = Times(r, k)
    BY <1>1, AddendType DEF Addends
  <1> HIDE DEF k
  <1>3. k % Half \in HalfWord /\ k \div Half \in HalfWord /\ k = Half * (k \div Half) + (k % Half)
    BY <1>2, HalvesOf
  <1>4. b \in Halves /\ Value(b) = k
    BY <1>3, PairIs
  <1>5. a \in Halves /\ Value(a) = Half * 0 + r
    BY <1>1, PairIs
  <1>6. Value(a) = r
    BY <1>1, <1>5
  <1> HIDE DEF a, b
  <1>7. U64Mul(a, b) \in Halves /\ Value(U64Mul(a, b)) = Times(r, k)
    BY <1>4, <1>5, <1>6, MulValue
  <1> QED  BY <1>2, <1>7 DEF a, b, k

\* So is the end of a round, whose addends the shader multiplies out.
LEMMA EndPairs ==
    ASSUME WordAssumption, NEW p \in Pairs, NEW r \in HalfWord
    PROVE  LET y == EndOfRound(U64Add, U64Xor, U64Rotl, p,
                        [w \in Injected |-> U64Mul(<<r, 0>>,
                             <<RoundConstant[w] % Half, RoundConstant[w] \div Half>>)], r)
           IN  /\ y \in Pairs
               /\ ValueOf(y) = EndOfRound(WrappingAdd, Xor, RotateLeft, ValueOf(p), Addends(r), r)
  <1> DEFINE s == ValueOf(p)
             ad == [w \in Injected |-> U64Mul(<<r, 0>>,
                        <<RoundConstant[w] % Half, RoundConstant[w] \div Half>>)]
             k(i) == RateWords + (i % CapacityWords)
             t == [i \in Index |-> IF i \in Injected THEN U64Add(p[i], ad[i]) ELSE p[i]]
             u == Added(s, r)
             x(i) == U64Xor(t[i], U64Rotl(t[k(i)], r))
             rk == [i \in Index |-> IF i < RateWords THEN x(i) ELSE t[i]]
             y == EndOfRound(U64Add, U64Xor, U64Rotl, p, ad, r)
             z == EndOfRound(WrappingAdd, Xor, RotateLeft, s, Addends(r), r)
  <1>1. y = IF r % 8 = 7 THEN rk ELSE t
    BY DEF EndOfRound
  <1>2. z = IF r % 8 = 7 THEN Rekeyed(u, r) ELSE u
    BY DEF EndOfRound, Added, Rekeyed
  <1>3. p \in [Index -> Halves] /\ \A i \in Index : p[i] \in Halves /\ s[i] = Value(p[i])
    BY DEF ValueOf, Pairs
  <1>4. \A i \in Injected : ad[i] \in Halves /\ Value(ad[i]) = Addends(r)[i]
    BY PairAddend
  <1>5. r \in Int
    BY Sizes DEF HalfWord
  <1> HIDE DEF s, ad, y, z
  <1>6. \A i \in Index : t[i] \in Halves /\ Value(t[i]) = u[i]
    <2>1. SUFFICES ASSUME NEW i \in Index  PROVE t[i] \in Halves /\ Value(t[i]) = u[i]
      OBVIOUS
    <2>2. CASE i \in Injected
      <3>1. p[i] \in Halves /\ ad[i] \in Halves
        BY <1>3, <1>4, <2>2
      <3>2. /\ U64Add(p[i], ad[i]) \in Halves
            /\ Value(U64Add(p[i], ad[i])) = WrappingAdd(Value(p[i]), Value(ad[i]))
        BY <3>1, AddValue
      <3>3. t[i] = U64Add(p[i], ad[i])
        BY <2>2
      <3>4. u[i] = WrappingAdd(s[i], Addends(r)[i])
        BY <2>2 DEF Added
      <3> HIDE DEF t, u
      <3> QED  BY <1>3, <1>4, <2>2, <3>2, <3>3, <3>4
    <2>3. CASE i \notin Injected
      <3>1. t[i] = p[i] /\ u[i] = s[i]
        BY <2>3 DEF Added
      <3> QED  BY <1>3, <3>1
    <2> QED  BY <2>2, <2>3
  <1>7. t = [i \in Index |-> t[i]] /\ u = [i \in Index |-> u[i]]
    BY DEF Added
  <1> HIDE DEF t, u
  <1>8. \A i \in Index : rk[i] \in Halves /\ Value(rk[i]) = Rekeyed(u, r)[i]
    <2>1. SUFFICES ASSUME NEW i \in Index
                   PROVE  rk[i] \in Halves /\ Value(rk[i]) = Rekeyed(u, r)[i]
      OBVIOUS
    <2>2. CASE i < RateWords
      <3>1. k(i) \in Index
        BY <2>2 DEF Index, RateWords, CapacityWords, StateWords
      <3>2. Rekeyed(u, r)[i] = Xor(u[i], RotateLeft(u[k(i)], r))
        BY <2>2 DEF Rekeyed
      <3> DEFINE h == t[k(i)]
                 v == U64Rotl(h, r)
      <3>3. rk[i] = U64Xor(t[i], v)
        BY <2>2
      <3>4. h \in Halves /\ Value(h) = u[k(i)]
        BY <1>6, <3>1
      <3> HIDE DEF k, rk, h
      <3>5. v \in Halves /\ Value(v) = RotateLeft(Value(h), r)
        BY <1>5, <3>4, RotlValue
      <3> HIDE DEF v
      <3>6. U64Xor(t[i], v) \in Halves /\ Value(U64Xor(t[i], v)) = Xor(Value(t[i]), Value(v))
        BY <1>6, <3>5, XorValue
      <3> QED  BY <1>6, <3>2, <3>3, <3>4, <3>5, <3>6
    <2>3. CASE ~(i < RateWords)
      <3>1. rk[i] = t[i] /\ Rekeyed(u, r)[i] = u[i]
        BY <2>3 DEF Rekeyed
      <3> HIDE DEF rk
      <3> QED  BY <1>6, <3>1
    <2> QED  BY <2>2, <2>3
  <1>9. rk = [i \in Index |-> rk[i]] /\ Rekeyed(u, r) = [i \in Index |-> Rekeyed(u, r)[i]]
    BY DEF Rekeyed
  <1> HIDE DEF rk
  <1>10. y = [i \in Index |-> y[i]] /\ z = [i \in Index |-> z[i]]
    BY <1>1, <1>2, <1>7, <1>9
  <1>11. \A i \in Index : y[i] \in Halves /\ Value(y[i]) = z[i]
    BY <1>1, <1>2, <1>6, <1>8
  <1>12. y \in Pairs
    BY <1>10, <1>11 DEF Pairs
  <1>13. ValueOf(y) = z
    BY <1>10, <1>11 DEF ValueOf
  <1> QED  BY <1>12, <1>13 DEF y, z, s, ad

-----------------------------------------------------------------------------
(* The storage buffer: word w of state l takes the half words 50 * l + 2 * w *)
(* (low) and the next one (high).                                            *)

Offsets == 0..(NumStates * 2 * StateWords - 1)

\* Each half of a word of a state has a place of its own in the buffer.
LEMMA OffsetOf ==
    ASSUME WordAssumption, NEW l \in Lanes, NEW w \in Index, NEW b \in 0..1
    PROVE  /\ 50 * l + 2 * w + b \in Offsets
           /\ (50 * l + 2 * w + b) \div 50 = l
           /\ ((50 * l + 2 * w + b) % 50) \div 2 = w
           /\ (50 * l + 2 * w + b) % 2 = b
  <1>1. NumStates \in Nat /\ l \in 0..(NumStates - 1) /\ w \in 0..24
    BY DEF WordAssumption, Lanes, Index, StateWords
  <1>2. Offsets = 0..(NumStates * 50 - 1)
    BY <1>1 DEF Offsets, StateWords
  <1> DEFINE m == 2 * w + b
             o == 50 * l + m
  <1>3. m \in 0..49 /\ m \div 2 = w /\ l \in Int /\ o \in Int
    BY <1>1
  <1> HIDE DEF m
  <1>4. o \div 50 = l /\ o % 50 = m
    BY <1>3, QuotientUnique
  <1>5. o % 2 = b
    BY <1>1 DEF m
  <1>6. o \in Offsets
    BY <1>1, <1>2, <1>3
  <1>7. 50 * l + 2 * w + b = o
    BY <1>1 DEF m
  <1> HIDE DEF o
  <1> QED  BY <1>3, <1>4, <1>5, <1>6, <1>7

\* What the host packs there.
LEMMA PackedWord ==
    ASSUME WordAssumption, NEW f \in [Lanes -> State], NEW l \in Lanes, NEW w \in Index
    PROVE  /\ Pack(f)[50 * l + 2 * w] = f[l][w] % Half
           /\ Pack(f)[50 * l + 2 * w + 1] = f[l][w] \div Half
  <1> DEFINE o == 50 * l + 2 * w
  <1>1. /\ o + 0 \in Offsets /\ (o + 0) \div 50 = l /\ ((o + 0) % 50) \div 2 = w /\ (o + 0) % 2 = 0
        /\ o + 1 \in Offsets /\ (o + 1) \div 50 = l /\ ((o + 1) % 50) \div 2 = w /\ (o + 1) % 2 = 1
    BY OffsetOf
  <1>2. o + 0 = o
    BY DEF Lanes, Index, WordAssumption
  <1> HIDE DEF o
  <1>3. Pack(f) = [off \in Offsets |->
            IF off % 2 = 0 THEN f[off \div 50][(off % 50) \div 2] % Half
                           ELSE f[off \div 50][(off % 50) \div 2] \div Half]
    BY DEF Pack, Offsets, StateWords
  <1> QED  BY <1>1, <1>2, <1>3 DEF o

\* A thread loads the pairs of the words the host packed.
LEMMA LoadedPairs ==
    ASSUME WordAssumption, NEW f \in [Lanes -> State], buffer = Pack(f), NEW l \in Lanes
    PROVE  Load(l) \in Pairs /\ ValueOf(Load(l)) = f[l]
  <1>1. Load(l) = [i \in Index |-> <<buffer[50 * l + 2 * i], buffer[50 * l + 2 * i + 1]>>]
    BY DEF Load
  <1>2. f[l] \in State
    OBVIOUS
  <1>3. ASSUME NEW i \in Index
        PROVE  Load(l)[i] \in Halves /\ Value(Load(l)[i]) = f[l][i]
    <2>1. f[l][i] \in Word
      BY <1>2 DEF State
    <2>2. Load(l)[i] = <<f[l][i] % Half, f[l][i] \div Half>>
      BY <1>1, PackedWord
    <2> DEFINE v == f[l][i]
    <2> HIDE DEF v
    <2>3. v % Half \in HalfWord /\ v \div Half \in HalfWord /\ v = Half * (v \div Half) + (v % Half)
      BY <2>1, HalvesOf DEF v
    <2>4. <<v % Half, v \div Half>> \in Halves /\ Value(<<v % Half, v \div Half>>) = v
      BY <2>3, PairIs
    <2> QED  BY <2>2, <2>4 DEF v
  <1>4. Load(l) \in Pairs
    BY <1>1, <1>3 DEF Pairs
  <1>5. f[l] = [w \in Index |-> f[l][w]]
    BY <1>2 DEF State
  <1> QED  BY <1>3, <1>4, <1>5 DEF ValueOf

\* Halves are numbers.
LEMMA PairNumbers ==
    ASSUME WordAssumption, NEW p \in Halves
    PROVE  p[1] \in Int /\ p[2] \in Int /\ Half \in Int
  <1>1. Half \in Nat \ {0}
    BY Sizes
  <1>2. p[1] \in HalfWord /\ p[2] \in HalfWord
    BY PairOf
  <1> QED  BY <1>1, <1>2 DEF HalfWord

\* The host reads back the values of the pairs the threads stored.
LEMMA StoredPairs ==
    ASSUME WordAssumption, wgsl \in [Lanes -> Pairs], DOMAIN buffer = Offsets
    PROVE  Unpack(Store) = [l \in Lanes |-> ValueOf(wgsl[l])]
  <1>1. Store = [off \in Offsets |-> wgsl[off \div 50][(off % 50) \div 2][1 + (off % 2)]]
    BY DEF Store
  <1>2. ASSUME NEW l \in Lanes, NEW w \in Index
        PROVE  Store[50 * l + 2 * w] + Half * Store[50 * l + 2 * w + 1] = Value(wgsl[l][w])
    <2> DEFINE o == 50 * l + 2 * w
    <2>1. /\ o + 0 \in Offsets /\ (o + 0) \div 50 = l /\ ((o + 0) % 50) \div 2 = w /\ (o + 0) % 2 = 0
          /\ o + 1 \in Offsets /\ (o + 1) \div 50 = l /\ ((o + 1) % 50) \div 2 = w /\ (o + 1) % 2 = 1
      BY OffsetOf
    <2>2. o + 0 = o
      BY DEF Lanes, Index, WordAssumption
    <2> HIDE DEF o
    <2>3. Store[o] = wgsl[l][w][1] /\ Store[o + 1] = wgsl[l][w][2]
      BY <1>1, <2>1, <2>2
    <2>4. wgsl[l][w] \in Halves
      BY DEF Pairs
    <2>5. wgsl[l][w][1] \in Int /\ wgsl[l][w][2] \in Int /\ Half \in Int
      BY <2>4, PairNumbers
    <2> DEFINE h == Half * wgsl[l][w][2]
    <2>6. h \in Int
      BY <2>5
    <2>7. Value(wgsl[l][w]) = h + wgsl[l][w][1] /\ Store[o] + Half * Store[o + 1] = wgsl[l][w][1] + h
      BY <2>3 DEF Value
    <2> HIDE DEF h
    <2> QED  BY <2>5, <2>6, <2>7 DEF o
  <1> DEFINE mem == Store
  <1>3. Unpack(mem) = [l \in Lanes |-> [w \in Index |->
                         mem[50 * l + 2 * w] + Half * mem[50 * l + 2 * w + 1]]]
    BY DEF Unpack, StateWords
  <1>4. \A l \in Lanes, w \in Index :
            mem[50 * l + 2 * w] + Half * mem[50 * l + 2 * w + 1] = Value(wgsl[l][w])
    BY <1>2
  <1> HIDE DEF mem
  <1>5. Unpack(mem) = [l \in Lanes |-> [w \in Index |-> Value(wgsl[l][w])]]
    BY <1>3, <1>4
  <1> QED  BY <1>5 DEF ValueOf, mem

-----------------------------------------------------------------------------
(* The shader and the kernel in lock step.                                   *)

\* Until the load the buffer holds the kernel's states; from then on the
\* threads' pairs are the kernel's words, and the buffer holds them again once
\* they are stored.
PairsInv ==
    /\ phase \in {"load", "run", "stored"}
    /\ at > 0 => round < Rounds
    /\ phase = "load" => cuda \in [Lanes -> State] /\ buffer = Pack(cuda)
    /\ phase # "load" => wgsl \in [Lanes -> Pairs] /\ cuda = [l \in Lanes |-> ValueOf(wgsl[l])]
    /\ DOMAIN buffer = Offsets
    /\ phase = "stored" => Unpack(buffer) = cuda

\* Packing fills the buffer.
LEMMA PackDomain == ASSUME NEW f  PROVE DOMAIN Pack(f) = Offsets
  BY DEF Pack, Offsets

\* PairsInv holds at first.
LEMMA PairsInvInit == ASSUME WordAssumption, Init  PROVE PairsInv
  <1>1. host \in [Lanes -> State] /\ cuda = host /\ buffer = Pack(host)
    BY DEF Init, WordAssumption, State
  <1>2. phase = "load" /\ at = 0
    BY DEF Init
  <1> QED  BY <1>1, <1>2, PackDomain DEF PairsInv

\* It is kept by the load of all words,
LEMMA PairsInvLoad ==
    ASSUME WordAssumption, PairsInv, LoadWords
    PROVE  PairsInv'
  <1>1. /\ phase = "load" /\ phase' = "run" /\ wgsl' = [t \in Active |-> Load(t)]
        /\ cuda' = cuda /\ buffer' = buffer /\ at' = at /\ round' = round
    BY DEF LoadWords
  <1>2. cuda \in [Lanes -> State] /\ buffer = Pack(cuda) /\ Active = Lanes
    BY <1>1, ActiveLanes DEF PairsInv
  <1>3. \A l \in Lanes : Load(l) \in Pairs /\ ValueOf(Load(l)) = cuda[l]
    BY <1>2, LoadedPairs
  <1>4. wgsl' = [l \in Lanes |-> Load(l)]
    BY <1>1, <1>2
  <1>5. wgsl' \in [Lanes -> Pairs]
    BY <1>3, <1>4
  <1>6. cuda = [l \in Lanes |-> cuda[l]]
    BY <1>2
  <1>7. cuda' = [l \in Lanes |-> ValueOf(wgsl'[l])]
    BY <1>1, <1>3, <1>4, <1>6
  <1> QED  BY <1>1, <1>5, <1>7 DEF PairsInv

\* by a quintet-round,
LEMMA PairsInvQuintet ==
    ASSUME WordAssumption, PermutationTyped, PairsInv, NEW numbers \in SUBSET (0..14), Quintet(numbers)
    PROVE  PairsInv'
  <1>1. /\ at \in 0..14 /\ round' = round /\ CudaStep(at) /\ WgslStep(at)
        /\ phase = "run" /\ phase' = "run" /\ buffer' = buffer /\ round < Rounds
    BY QuintetNumbers DEF Quintet
  <1> DEFINE q == Words(GpuDiags, at)
             r == RotationPair(at)
             y(l) == QuintetRound(WgslMfr, WgslDdr, U64Xor, wgsl[l], q, r)
             z(l) == QuintetRound(CudaMfr, CudaDdr, Xor, cuda[l], q, r)
  <1>2. FiveWords(q) /\ r[1] \in Int /\ r[2] \in Int
    BY <1>1, GpuPlaces, PairDistances DEF PermutationTyped
  <1>3. cuda' = [l \in Lanes |-> z(l)] /\ wgsl' = [l \in Lanes |-> y(l)]
    BY <1>1, ActiveLanes DEF CudaStep, WgslStep
  <1> HIDE DEF q, r
  <1>4. wgsl \in [Lanes -> Pairs] /\ cuda = [l \in Lanes |-> ValueOf(wgsl[l])]
    BY <1>1 DEF PairsInv
  <1>5. ASSUME NEW l \in Lanes  PROVE y(l) \in Pairs /\ ValueOf(y(l)) = z(l)
    <2>1. wgsl[l] \in Pairs /\ cuda[l] = ValueOf(wgsl[l])
      BY <1>4
    <2> QED  BY <1>2, <2>1, QuintetPairs
  <1> HIDE DEF y, z
  <1>6. wgsl' \in [Lanes -> Pairs] /\ cuda' = [l \in Lanes |-> ValueOf(wgsl'[l])]
    BY <1>3, <1>5
  <1> QED  BY <1>1, <1>6 DEF PairsInv

\* by the end of a round,
LEMMA PairsInvFinish ==
    ASSUME WordAssumption, PermutationTyped, PairsInv, FinishRound
    PROVE  PairsInv'
  <1>1. /\ at = 15 /\ at' = 0 /\ phase = "run" /\ phase' = "run" /\ buffer' = buffer
        /\ CudaEndOfRound /\ WgslEndOfRound
    BY DEF FinishRound
  <1>2. round \in HalfWord
    <2>1. round \in Nat /\ round < Rounds
      BY <1>1 DEF PermutationTyped, PairsInv
    <2>2. Rounds \in 0..Half /\ Half \in Nat \ {0}
      BY Sizes DEF WordAssumption
    <2> QED  BY <2>1, <2>2 DEF HalfWord
  <1> DEFINE ad == [w \in Injected |-> U64Mul(<<round, 0>>,
                        <<RoundConstant[w] % Half, RoundConstant[w] \div Half>>)]
             y(l) == EndOfRound(U64Add, U64Xor, U64Rotl, wgsl[l], ad, round)
             z(l) == EndOfRound(WrappingAdd, Xor, RotateLeft, cuda[l], Addends(round), round)
  <1>3. cuda' = [l \in Lanes |-> z(l)] /\ wgsl' = [l \in Lanes |-> y(l)]
    BY <1>1, ActiveLanes DEF CudaEndOfRound, WgslEndOfRound
  <1>4. wgsl \in [Lanes -> Pairs] /\ cuda = [l \in Lanes |-> ValueOf(wgsl[l])]
    BY <1>1 DEF PairsInv
  <1>5. ASSUME NEW l \in Lanes  PROVE y(l) \in Pairs /\ ValueOf(y(l)) = z(l)
    <2>1. wgsl[l] \in Pairs /\ cuda[l] = ValueOf(wgsl[l])
      BY <1>4
    <2> QED  BY <1>2, <2>1, EndPairs
  <1> HIDE DEF y, z
  <1>6. wgsl' \in [Lanes -> Pairs] /\ cuda' = [l \in Lanes |-> ValueOf(wgsl'[l])]
    BY <1>3, <1>5
  <1> QED  BY <1>1, <1>6 DEF PairsInv

\* by the store of all words,
LEMMA PairsInvStore ==
    ASSUME WordAssumption, PermutationTyped, PairsInv, StoreWords
    PROVE  PairsInv'
  <1>1. /\ phase = "run" /\ phase' = "stored" /\ buffer' = Store
        /\ wgsl' = wgsl /\ cuda' = cuda /\ at' = at /\ round' = round
    BY DEF StoreWords
  <1>2. /\ wgsl \in [Lanes -> Pairs] /\ cuda = [l \in Lanes |-> ValueOf(wgsl[l])]
        /\ DOMAIN buffer = Offsets
    BY <1>1 DEF PairsInv
  <1>3. Unpack(Store) = cuda
    BY <1>2, StoredPairs
  <1>4. Unpack(buffer') = cuda'
    BY <1>1, <1>3
  <1>5. DOMAIN buffer' = Offsets
    BY <1>1, <1>2 DEF Store
  <1> QED  BY <1>1, <1>2, <1>4, <1>5 DEF PairsInv

\* and so by every step.
LEMMA PairsInvStep ==
    ASSUME WordAssumption, PermutationTyped, PairsInv, [Next]_vars
    PROVE  PairsInv'
  <1>1. CASE UNCHANGED vars
    <2>1. /\ phase' = phase /\ at' = at /\ round' = round /\ cuda' = cuda
          /\ wgsl' = wgsl /\ buffer' = buffer
      BY <1>1 DEF vars
    <2> QED  BY <2>1 DEF PairsInv
  <1>2. 0..4 \in SUBSET (0..14) /\ 5..9 \in SUBSET (0..14) /\ 10..14 \in SUBSET (0..14)
    OBVIOUS
  <1>3. CASE Next
    BY <1>2, <1>3, StepKinds, PairsInvLoad, PairsInvQuintet, PairsInvFinish, PairsInvStore
  <1> QED  BY <1>1, <1>3

\* What PairsInv means for each thread.
LEMMA PairsInvMatch == ASSUME WordAssumption, PairsInv  PROVE EmulationMatchesCuda
  <1>1. ASSUME phase # "load", NEW t \in Active, NEW w \in Index
        PROVE  wgsl[t][w][1] + Half * wgsl[t][w][2] = cuda[t][w]
    <2>1. /\ t \in Lanes /\ wgsl \in [Lanes -> Pairs]
          /\ cuda = [l \in Lanes |-> ValueOf(wgsl[l])]
      BY <1>1, ActiveLanes DEF PairsInv
    <2>2. wgsl[t][w] \in Halves /\ cuda[t][w] = Value(wgsl[t][w])
      BY <2>1 DEF Pairs, ValueOf
    <2>3. wgsl[t][w][1] \in Int /\ wgsl[t][w][2] \in Int /\ Half \in Int
      BY <2>2, PairNumbers
    <2> DEFINE h == Half * wgsl[t][w][2]
    <2>4. h \in Int /\ Value(wgsl[t][w]) = h + wgsl[t][w][1]
      BY <2>3 DEF Value
    <2> HIDE DEF h
    <2>5. wgsl[t][w][1] + h = cuda[t][w]
      BY <2>2, <2>3, <2>4
    <2> QED  BY <2>5 DEF h
  <1>2. phase = "stored" => Unpack(buffer) = cuda
    BY DEF PairsInv
  <1> QED  BY <1>1, <1>2 DEF EmulationMatchesCuda

\* The emulation of words by pairs of half words loses nothing: for every word
\* size, number of threads, schedule and input, the shader's pairs are the
\* kernel's words after every step, and the host reads the kernel's states back
\* (kk_permute.wgsl:17-113).
THEOREM EmulationAgrees == Spec => []EmulationMatchesCuda
  <1> DEFINE I == PermutationTyped /\ PairsInv
  <1>1. Init => I
    BY WordAssumption, PermutationTypedInit, PairsInvInit
  <1>2. I /\ [Next]_vars => I'
    BY WordAssumption, PermutationTypedStep, PairsInvStep
  <1>3. I => EmulationMatchesCuda
    BY WordAssumption, PairsInvMatch
  <1> QED  BY <1>1, <1>2, <1>3, PTL DEF Spec

-----------------------------------------------------------------------------
(* Diffusion: what the words depend on only grows, and a quintet-round that  *)
(* starts on a word depending on everything hands that on.                   *)

Spread(s, q, r) ==
    QuintetRound(LAMBDA a, b, n : a \cup b, LAMBDA a, b : a \cup b, LAMBDA a, b : a \cup b, s, q, r)

\* A quintet-round adds dependencies along its words.
LEMMA SpreadWords ==
    ASSUME NEW s \in [Index -> SUBSET Index], NEW q, FiveWords(q), NEW r
    PROVE  /\ Spread(s, q, r) \in [Index -> SUBSET Index]
           /\ \A w \in Index : s[w] \subseteq Spread(s, q, r)[w]
           /\ Spread(s, q, r)[q[1]] = s[q[1]] \cup s[q[2]]
           /\ Spread(s, q, r)[q[3]] = Spread(s, q, r)[q[1]] \cup s[q[3]]
           /\ Spread(s, q, r)[q[4]] = Spread(s, q, r)[q[3]] \cup s[q[4]]
           /\ Spread(s, q, r)[q[5]] = Spread(s, q, r)[q[4]] \cup s[q[5]]
           /\ Spread(s, q, r)[q[2]] = Spread(s, q, r)[q[5]]
  <1> DEFINE a == s[q[1]] \cup s[q[2]]
             c == s[q[3]] \cup a
             d == s[q[4]] \cup c
             e == s[q[5]] \cup d
             b == s[q[2]] \cup e
             y == Spread(s, q, r)
  <1>1. /\ q[1] \in Index /\ q[2] \in Index /\ q[3] \in Index /\ q[4] \in Index /\ q[5] \in Index
        /\ q[1] # q[2] /\ q[1] # q[3] /\ q[1] # q[4] /\ q[1] # q[5] /\ q[2] # q[3]
        /\ q[2] # q[4] /\ q[2] # q[5] /\ q[3] # q[4] /\ q[3] # q[5] /\ q[4] # q[5]
    BY DEF FiveWords
  <1>2. y = [s EXCEPT ![q[1]] = a, ![q[2]] = b, ![q[3]] = c, ![q[4]] = d, ![q[5]] = e]
    BY DEF Spread, QuintetRound
  <1>3. a \subseteq Index /\ b \subseteq Index /\ c \subseteq Index /\ d \subseteq Index /\ e \subseteq Index
    BY <1>1
  <1>4. b = e /\ e = d \cup s[q[5]] /\ d = c \cup s[q[4]] /\ c = a \cup s[q[3]]
    OBVIOUS
  <1>5. s[q[1]] \subseteq a /\ s[q[2]] \subseteq b /\ s[q[3]] \subseteq c
        /\ s[q[4]] \subseteq d /\ s[q[5]] \subseteq e
    OBVIOUS
  <1>6. a = s[q[1]] \cup s[q[2]]
    OBVIOUS
  <1> HIDE DEF a, b, c, d, e, y
  <1>7. y[q[1]] = a /\ y[q[2]] = b /\ y[q[3]] = c /\ y[q[4]] = d /\ y[q[5]] = e
    BY <1>1, <1>2
  <1>8. y \in [Index -> SUBSET Index]
    BY <1>1, <1>2, <1>3
  <1>9. ASSUME NEW w \in Index  PROVE s[w] \subseteq y[w]
    <2>1. CASE w = q[1] \/ w = q[2] \/ w = q[3] \/ w = q[4] \/ w = q[5]
      BY <1>5, <1>7, <2>1
    <2>2. CASE w # q[1] /\ w # q[2] /\ w # q[3] /\ w # q[4] /\ w # q[5]
      <3>1. y[w] = s[w]
        BY <1>2, <2>2
      <3> QED  BY <3>1
    <2> QED  BY <2>1, <2>2
  <1> QED  BY <1>4, <1>6, <1>7, <1>8, <1>9 DEF y

\* What a word that depends on everything does to the others of its quintet.
LEMMA SpreadFull ==
    ASSUME NEW s \in [Index -> SUBSET Index], NEW q, FiveWords(q), NEW r
    PROVE  /\ \A w \in Index : s[w] = Index => Spread(s, q, r)[w] = Index
           /\ s[q[1]] = Index \/ s[q[2]] = Index => \A i \in 1..5 : Spread(s, q, r)[q[i]] = Index
           /\ s[q[3]] = Index => \A i \in 2..5 : Spread(s, q, r)[q[i]] = Index
           /\ \A i \in 1..5 : /\ s[q[i]] \subseteq Spread(s, q, r)[q[5]]
                              /\ s[q[i]] \subseteq Spread(s, q, r)[q[2]]
  <1> DEFINE y == Spread(s, q, r)
  <1>1. /\ y \in [Index -> SUBSET Index] /\ \A w \in Index : s[w] \subseteq y[w]
        /\ y[q[1]] = s[q[1]] \cup s[q[2]] /\ y[q[3]] = y[q[1]] \cup s[q[3]]
        /\ y[q[4]] = y[q[3]] \cup s[q[4]] /\ y[q[5]] = y[q[4]] \cup s[q[5]]
        /\ y[q[2]] = y[q[5]]
    BY SpreadWords
  <1> HIDE DEF y
  <1>2. \A i \in 1..5 : i = 1 \/ i = 2 \/ i = 3 \/ i = 4 \/ i = 5
    OBVIOUS
  <1>3. \A w \in Index : y[w] \subseteq Index
    BY <1>1
  <1>4. /\ q[1] \in Index /\ q[2] \in Index /\ q[3] \in Index /\ q[4] \in Index /\ q[5] \in Index
    BY DEF FiveWords
  <1>5. \A w \in Index : s[w] = Index => y[w] = Index
    BY <1>1, <1>3
  <1>6. /\ s[q[1]] \subseteq y[q[5]] /\ s[q[2]] \subseteq y[q[5]] /\ s[q[3]] \subseteq y[q[5]]
        /\ s[q[4]] \subseteq y[q[5]] /\ s[q[5]] \subseteq y[q[5]]
    BY <1>1
  <1>7. \A i \in 1..5 : s[q[i]] \subseteq y[q[5]] /\ s[q[i]] \subseteq y[q[2]]
    BY <1>1, <1>2, <1>6
  <1>8. ASSUME s[q[3]] = Index  PROVE \A i \in 2..5 : y[q[i]] = Index
    <2>1. y[q[3]] = Index /\ y[q[4]] = Index /\ y[q[5]] = Index /\ y[q[2]] = Index
      BY <1>1, <1>3, <1>4, <1>8
    <2> QED  BY <2>1
  <1>9. ASSUME s[q[1]] = Index \/ s[q[2]] = Index  PROVE \A i \in 1..5 : y[q[i]] = Index
    <2>1. y[q[1]] = Index
      BY <1>1, <1>3, <1>4, <1>9
    <2>2. y[q[3]] = Index
      BY <1>1, <1>3, <1>4, <2>1
    <2>3. y[q[4]] = Index
      BY <1>1, <1>3, <1>4, <2>2
    <2>4. y[q[5]] = Index /\ y[q[2]] = Index
      BY <1>1, <1>3, <1>4, <2>3
    <2> QED  BY <1>2, <2>1, <2>2, <2>3, <2>4
  <1> QED  BY <1>5, <1>7, <1>8, <1>9 DEF y

\* The words of row k, and what the words of s depend on at quintet-round n of
\* round r: the rows spread along themselves, then the columns 1 and 4 reach
\* words 6, 21 and 9, the diagonals hand that to 0, 15 and 10, and in the next
\* round every row starts on one of 0, 6, 10, 15, 21.
Row(k) == {5 * k, 5 * k + 1, 5 * k + 2, 5 * k + 3, 5 * k + 4}
Diffused(s, r, n) ==
    /\ s \in [Index -> SUBSET Index] /\ \A w \in Index : w \in s[w]
    /\ \A k \in 0..4 : r > 0 \/ n > k => Row(k) \subseteq s[5 * k + 1] /\ Row(k) \subseteq s[5 * k + 4]
    /\ r > 0 \/ n > 6 => s[6] = Index /\ s[21] = Index
    /\ r > 0 \/ n > 9 => s[9] = Index
    /\ r > 0 \/ n > 10 => s[0] = Index
    /\ r > 0 \/ n > 12 => s[15] = Index
    /\ r > 0 \/ n > 13 => s[10] = Index
    /\ \A k \in 0..4 : r > 1 \/ (r = 1 /\ n > k) => \A w \in Row(k) : s[w] = Index

\* The rows make up the grid.
LEMMA AllRows ==
    /\ \A k \in 0..4 : Row(k) \subseteq Index
    /\ \A w \in Index : \E k \in 0..4 : w \in Row(k)
  <1>1. ASSUME NEW w \in Index  PROVE \E k \in 0..4 : w \in Row(k)
    <2>1. w \in 0..24
      BY DEF Index, StateWords
    <2>2. w \div 5 \in 0..4 /\ w \in Row(w \div 5)
      BY <2>1 DEF Row
    <2> QED  BY <2>2
  <1> QED  BY <1>1 DEF Row, Index, StateWords

\* Every word of row n of the result of its quintet-round.
LEMMA SpreadRow ==
    ASSUME NEW n \in 0..4, NEW s \in [Index -> SUBSET Index], \A w \in Index : w \in s[w], NEW r
    PROVE  LET y == Spread(s, Words(Diags, n), r)
           IN  /\ Row(n) \subseteq y[5 * n + 1] /\ Row(n) \subseteq y[5 * n + 4]
               /\ s[5 * n] = Index \/ s[5 * n + 1] = Index => \A w \in Row(n) : y[w] = Index
  <1> DEFINE q == Words(Diags, n)
             y == Spread(s, q, r)
  <1>1. q = Rows(n)
    BY DEF Words
  <1>2. /\ q[1] = 5 * n /\ q[2] = 5 * n + 1 /\ q[3] = 5 * n + 2
        /\ q[4] = 5 * n + 3 /\ q[5] = 5 * n + 4
    BY <1>1 DEF Rows
  <1>3. FiveWords(q)
    BY WordsPlaces
  <1> HIDE DEF q
  <1>4. Row(n) = {q[1], q[2], q[3], q[4], q[5]}
    BY <1>2 DEF Row
  <1>5. /\ s[q[1]] = Index \/ s[q[2]] = Index => \A i \in 1..5 : y[q[i]] = Index
        /\ \A i \in 1..5 : s[q[i]] \subseteq y[q[5]] /\ s[q[i]] \subseteq y[q[2]]
    BY <1>3, SpreadFull
  <1> HIDE DEF y
  <1>6. \A i \in 1..5 : q[i] \in s[q[i]]
    BY <1>3 DEF FiveWords
  <1>7. \A i \in 1..5 : q[i] \in y[q[5]] /\ q[i] \in y[q[2]]
    BY <1>5, <1>6
  <1>8. Row(n) \subseteq y[q[5]] /\ Row(n) \subseteq y[q[2]]
    BY <1>4, <1>7
  <1>9. s[q[1]] = Index \/ s[q[2]] = Index => \A w \in Row(n) : y[w] = Index
    BY <1>4, <1>5
  <1> QED  BY <1>2, <1>8, <1>9 DEF y, q

\* The words of a column.
LEMMA ColumnWords ==
    ASSUME NEW k \in 0..4
    PROVE  LET q == Words(Diags, k + 5)
           IN q[1] = k /\ q[2] = k + 5 /\ q[3] = k + 10 /\ q[4] = k + 15 /\ q[5] = k + 20
  <1>1. k + 5 \in 5..9 /\ ~(k + 5 < 5) /\ (k + 5) - 5 = k
    OBVIOUS
  <1>2. Words(Diags, k + 5) = Columns(k)
    BY <1>1 DEF Words
  <1> QED  BY <1>2 DEF Columns

\* A quintet-round takes Diffused one place on.
LEMMA DiffusedStep ==
    ASSUME NEW s, NEW r \in Nat, NEW n \in 0..14, NEW d, Diffused(s, r, n)
    PROVE  Diffused(Spread(s, Words(Diags, n), d), r, n + 1)
  <1> DEFINE q == Words(Diags, n)
             y == Spread(s, q, d)
  <1>1. s \in [Index -> SUBSET Index] /\ (\A w \in Index : w \in s[w]) /\ FiveWords(q)
    BY WordsPlaces DEF Diffused
  <1>2. y \in [Index -> SUBSET Index] /\ \A w \in Index : s[w] \subseteq y[w]
    BY <1>1, SpreadWords
  <1>3. /\ \A w \in Index : s[w] = Index => y[w] = Index
        /\ s[q[1]] = Index \/ s[q[2]] = Index => \A i \in 1..5 : y[q[i]] = Index
        /\ s[q[3]] = Index => \A i \in 2..5 : y[q[i]] = Index
        /\ \A i \in 1..5 : s[q[i]] \subseteq y[q[5]] /\ s[q[i]] \subseteq y[q[2]]
    BY <1>1, SpreadFull
  <1>4. n \in 0..4 => /\ Row(n) \subseteq y[5 * n + 1] /\ Row(n) \subseteq y[5 * n + 4]
                      /\ s[5 * n] = Index \/ s[5 * n + 1] = Index => \A w \in Row(n) : y[w] = Index
    BY <1>1, SpreadRow
  <1> HIDE DEF y, q
  <1>5. \A w \in Index : w \in y[w]
    BY <1>1, <1>2
  <1>6. ASSUME NEW k \in 0..4, r > 0 \/ n + 1 > k
        PROVE  Row(k) \subseteq y[5 * k + 1] /\ Row(k) \subseteq y[5 * k + 4]
    <2>1. CASE r > 0 \/ n > k
      <3>1. Row(k) \subseteq s[5 * k + 1] /\ Row(k) \subseteq s[5 * k + 4]
        BY <2>1 DEF Diffused
      <3>2. 5 * k + 1 \in Index /\ 5 * k + 4 \in Index
        BY DEF Index, StateWords
      <3> QED  BY <1>2, <3>1, <3>2
    <2>2. CASE n = k
      BY <1>4, <2>2
    <2> QED  BY <1>6, <2>1, <2>2
  <1>7. ASSUME n \in {6, 9}, ~(r > 0)  PROVE y[n] = Index /\ (n = 6 => y[21] = Index)
    <2> DEFINE k == n - 5
    <2>1. k \in {1, 4} /\ n = k + 5 /\ k \in 0..4
      BY <1>7
    <2>2. q[1] = k /\ q[2] = k + 5 /\ q[3] = k + 10 /\ q[4] = k + 15 /\ q[5] = k + 20
      BY <2>1, ColumnWords DEF q
    <2>3. Row(0) \subseteq s[k] /\ Row(1) \subseteq s[k + 5] /\ Row(2) \subseteq s[k + 10]
          /\ Row(3) \subseteq s[k + 15] /\ Row(4) \subseteq s[k + 20]
      <3>1. \A j \in 0..4 : Row(j) \subseteq s[5 * j + 1] /\ Row(j) \subseteq s[5 * j + 4]
        BY <1>7 DEF Diffused
      <3>2. /\ Row(0) \subseteq s[1] /\ Row(0) \subseteq s[4]
            /\ Row(1) \subseteq s[6] /\ Row(1) \subseteq s[9]
        BY <3>1
      <3>3. /\ Row(2) \subseteq s[11] /\ Row(2) \subseteq s[14]
            /\ Row(3) \subseteq s[16] /\ Row(3) \subseteq s[19]
            /\ Row(4) \subseteq s[21] /\ Row(4) \subseteq s[24]
        BY <3>1
      <3>4. CASE k = 1
        BY <3>2, <3>3, <3>4
      <3>5. CASE k = 4
        BY <3>2, <3>3, <3>5
      <3> QED  BY <2>1, <3>4, <3>5
    <2>4. /\ s[q[1]] \subseteq y[q[5]] /\ s[q[2]] \subseteq y[q[5]] /\ s[q[3]] \subseteq y[q[5]]
          /\ s[q[4]] \subseteq y[q[5]] /\ s[q[5]] \subseteq y[q[5]]
          /\ s[q[1]] \subseteq y[q[2]] /\ s[q[2]] \subseteq y[q[2]] /\ s[q[3]] \subseteq y[q[2]]
          /\ s[q[4]] \subseteq y[q[2]] /\ s[q[5]] \subseteq y[q[2]]
      BY <1>3
    <2> HIDE DEF k
    <2>5. /\ Row(0) \subseteq y[k + 20] /\ Row(1) \subseteq y[k + 20] /\ Row(2) \subseteq y[k + 20]
          /\ Row(3) \subseteq y[k + 20] /\ Row(4) \subseteq y[k + 20]
          /\ Row(0) \subseteq y[k + 5] /\ Row(1) \subseteq y[k + 5] /\ Row(2) \subseteq y[k + 5]
          /\ Row(3) \subseteq y[k + 5] /\ Row(4) \subseteq y[k + 5]
      BY <2>2, <2>3, <2>4
    <2>6. \A j \in 0..4 : Row(j) \subseteq y[k + 20] /\ Row(j) \subseteq y[k + 5]
      <3>1. \A j \in 0..4 : j = 0 \/ j = 1 \/ j = 2 \/ j = 3 \/ j = 4
        OBVIOUS
      <3> QED  BY <2>5, <3>1
    <2>7. Index \subseteq y[k + 20] /\ Index \subseteq y[k + 5]
      BY <2>6, AllRows
    <2>8. k + 5 \in Index /\ k + 20 \in Index
      BY <2>1 DEF Index, StateWords
    <2>9. y[k + 5] = Index /\ y[k + 20] = Index
      BY <1>2, <2>7, <2>8
    <2>10. n = 6 => k + 20 = 21
      BY DEF k
    <2> QED  BY <2>1, <2>9, <2>10
  <1>8. 0 \in Index /\ 6 \in Index /\ 9 \in Index /\ 10 \in Index /\ 15 \in Index /\ 21 \in Index
    BY DEF Index, StateWords
  <1>9. r > 0 \/ n + 1 > 6 => y[6] = Index /\ y[21] = Index
    <2>1. CASE r > 0 \/ n > 6
      BY <1>3, <1>8, <2>1 DEF Diffused
    <2>2. CASE n = 6 /\ ~(r > 0)
      BY <1>7, <2>2
    <2> QED  BY <2>1, <2>2
  <1>10. r > 0 \/ n + 1 > 9 => y[9] = Index
    <2>1. CASE r > 0 \/ n > 9
      BY <1>3, <1>8, <2>1 DEF Diffused
    <2>2. CASE n = 9 /\ ~(r > 0)
      BY <1>7, <2>2
    <2> QED  BY <2>1, <2>2
  <1>11. r > 0 \/ n + 1 > 10 => y[0] = Index
    <2>1. CASE r > 0 \/ n > 10
      BY <1>3, <1>8, <2>1 DEF Diffused
    <2>2. CASE n = 10
      <3>1. q = Diags[1] /\ q[2] = 0 /\ q[3] = 6
        BY <2>2 DEF q, Words, Diags
      <3>2. s[6] = Index
        BY <2>2 DEF Diffused
      <3> QED  BY <1>3, <3>1, <3>2
    <2> QED  BY <2>1, <2>2
  <1>12. r > 0 \/ n + 1 > 12 => y[15] = Index
    <2>1. CASE r > 0 \/ n > 12
      BY <1>3, <1>8, <2>1 DEF Diffused
    <2>2. CASE n = 12
      <3>1. q = Diags[3] /\ q[1] = 21 /\ q[5] = 15
        BY <2>2 DEF q, Words, Diags
      <3>2. s[21] = Index
        BY <2>2 DEF Diffused
      <3> QED  BY <1>3, <3>1, <3>2
    <2> QED  BY <2>1, <2>2
  <1>13. r > 0 \/ n + 1 > 13 => y[10] = Index
    <2>1. CASE r > 0 \/ n > 13
      BY <1>3, <1>8, <2>1 DEF Diffused
    <2>2. CASE n = 13
      <3>1. q = Diags[4] /\ q[3] = 9 /\ q[4] = 10
        BY <2>2 DEF q, Words, Diags
      <3>2. s[9] = Index
        BY <2>2 DEF Diffused
      <3> QED  BY <1>3, <3>1, <3>2
    <2> QED  BY <2>1, <2>2
  <1>14. ASSUME NEW k \in 0..4, r > 1 \/ (r = 1 /\ n + 1 > k)  PROVE \A w \in Row(k) : y[w] = Index
    <2>1. CASE r > 1 \/ (r = 1 /\ n > k)
      <3>1. \A w \in Row(k) : s[w] = Index
        BY <2>1 DEF Diffused
      <3> QED  BY <1>3, <3>1, AllRows
    <2>2. CASE r = 1 /\ n = k
      <3>1. s[0] = Index /\ s[6] = Index /\ s[10] = Index /\ s[15] = Index /\ s[21] = Index
        BY <2>2 DEF Diffused
      <3>2. n = 0 \/ n = 1 \/ n = 2 \/ n = 3 \/ n = 4
        BY <2>2
      <3>3. s[5 * n] = Index \/ s[5 * n + 1] = Index
        BY <3>1, <3>2
      <3> QED  BY <1>4, <2>2, <3>3
    <2> QED  BY <1>14, <2>1, <2>2
  <1>15. Diffused(y, r, n + 1)
    BY <1>2, <1>5, <1>6, <1>9, <1>10, <1>11, <1>12, <1>13, <1>14 DEF Diffused
  <1> QED  BY <1>15 DEF y, q

DiffusionInv == round \in Nat /\ at \in 0..15 /\ Diffused(influence, round, at)

\* DiffusionInv holds at first.
LEMMA DiffusionInvInit == ASSUME Init  PROVE DiffusionInv
  <1>1. influence = [i \in Index |-> {i}] /\ round = 0 /\ at = 0
    BY DEF Init
  <1> QED  BY <1>1 DEF DiffusionInv, Diffused

\* Every step keeps DiffusionInv.
LEMMA DiffusionInvStep == ASSUME DiffusionInv, [Next]_vars  PROVE DiffusionInv'
  <1>1. round \in Nat /\ at \in 0..15 /\ Diffused(influence, round, at)
    BY DEF DiffusionInv
  <1>2. ASSUME NEW numbers \in SUBSET (0..14), Quintet(numbers)  PROVE DiffusionInv'
    <2>1. at \in 0..14 /\ at' = at + 1 /\ round' = round /\ Influence(at)
      BY <1>2 DEF Quintet
    <2>2. influence' = Spread(influence, Words(Diags, at), rot[at])
      BY <2>1 DEF Influence, Spread
    <2>3. Diffused(influence', round, at + 1)
      BY <1>1, <2>1, <2>2, DiffusedStep
    <2> QED  BY <1>1, <2>1, <2>3 DEF DiffusionInv
  <1>3. CASE FinishRound
    <2>1. at = 15 /\ at' = 0 /\ round' = round + 1 /\ influence' = influence
      BY <1>3 DEF FinishRound
    <2> DEFINE k == round + 1
    <2>2. k \in Nat /\ k > 0 /\ (round > 1 \/ round = 1 \/ round = 0)
      BY <1>1
    <2>3. Diffused(influence, k, 0)
      BY <1>1, <2>1, <2>2 DEF Diffused
    <2> QED  BY <2>1, <2>2, <2>3 DEF DiffusionInv
  <1>4. ASSUME UNCHANGED <<influence, round, at>>  PROVE DiffusionInv'
    BY <1>4 DEF DiffusionInv
  <1>5. CASE LoadWords
    BY <1>4, <1>5 DEF LoadWords
  <1>6. CASE StoreWords
    BY <1>4, <1>6 DEF StoreWords
  <1>7. CASE UNCHANGED vars
    BY <1>4, <1>7 DEF vars
  <1>8. 0..4 \in SUBSET (0..14) /\ 5..9 \in SUBSET (0..14) /\ 10..14 \in SUBSET (0..14)
    OBVIOUS
  <1>9. CASE Next
    BY <1>2, <1>3, <1>5, <1>6, <1>8, <1>9, StepKinds
  <1> QED  BY <1>7, <1>9

\* After two rounds every word depends on every word of the input
\* (kk_mix.rs:94-96): for any number of rounds, whatever the rotations.
THEOREM TwoRoundsDiffuse == Spec => []FullDiffusion
  <1>1. Init => DiffusionInv
    BY DiffusionInvInit
  <1>2. DiffusionInv /\ [Next]_vars => DiffusionInv'
    BY DiffusionInvStep
  <1>3. DiffusionInv => FullDiffusion
    <2>1. SUFFICES ASSUME DiffusionInv, round >= 2, NEW w \in Index  PROVE influence[w] = Index
      BY DEF FullDiffusion
    <2>2. PICK k \in 0..4 : w \in Row(k)
      BY AllRows
    <2> QED  BY <2>1, <2>2 DEF DiffusionInv, Diffused
  <1> QED  BY <1>1, <1>2, <1>3, PTL DEF Spec

-----------------------------------------------------------------------------
(* The CUDA buffers: what is allocated, by where the call is. *)

Live == {a \in Addresses : memory[a] # 0}

Persistent == IF capacity = 0 THEN {} ELSE {states, rotations}

(* The two buffers s and r of w words are there, apart from each other. *)
Pair(s, r, w) ==
    /\ s \in Addresses /\ r \in Addresses /\ s # r
    /\ memory[s] = w /\ memory[r] = RotWords

PersistentOK == capacity # 0 => Pair(states, rotations, capacity)

Running == {"copyin", "kernel", "copyout"}
Settled == {"idle", "read", "reserve", "done", "failed"}
CallPlaces == Settled \cup Running \cup {"states", "rotations"}

(* Nothing but the persistent buffers. *)
SettledInv ==
    pc \in Settled \/ (Fresh /\ pc = "states") =>
        local = NoBuffers /\ Live = Persistent /\ PersistentOK

(* A batch with buffers of its own has them beside the persistent ones. *)
FreshInv == Fresh =>
    /\ pc = "rotations" =>
         /\ local.s \in Addresses \ Persistent /\ local.r = Null
         /\ memory[local.s] = Need(call.n)
         /\ Live = Persistent \cup {local.s} /\ PersistentOK
    /\ pc \in Running =>
         /\ Pair(local.s, local.r, Need(call.n))
         /\ local.s \notin Persistent /\ local.r \notin Persistent
         /\ Live = Persistent \cup {local.s, local.r} /\ PersistentOK

(* A reallocation begins with nothing and ends with what the call needs. *)
SharedInv == ~Fresh =>
    /\ local = NoBuffers
    /\ pc = "states" => Live = {}
    /\ pc = "rotations" =>
         states \in Addresses /\ memory[states] = Need(call.n) /\ Live = {states}
    /\ pc \in Running => Fits /\ Live = Persistent /\ PersistentOK

CallInv ==
    /\ memory \in [Addresses -> Nat]
    /\ capacity \in Nat
    /\ pc \in CallPlaces
    /\ pc # "idle" => call.n \in BatchSizes
    /\ open = {} => pc = "idle" /\ capacity = 0

MemInv == CallInv /\ SettledInv /\ FreshInv /\ SharedInv

-----------------------------------------------------------------------------
\* A batch needs memory.
LEMMA NeedPositive ==
    ASSUME NEW n \in BatchSizes
    PROVE  Need(n) \in Nat \ {0}
<1>1. n \in Nat \ {0} /\ STATE_WORDS = 25
  BY CudaAssumption DEF STATE_WORDS
<1> QED
  BY <1>1 DEF Need

(* What freeing leaves allocated. *)
LEMMA FreedLive ==
    ASSUME NEW m \in [Addresses -> Nat], NEW ptrs
    PROVE  /\ Freed(m, ptrs) \in [Addresses -> Nat]
           /\ {a \in Addresses : Freed(m, ptrs)[a] # 0} = {a \in Addresses : m[a] # 0} \ ptrs
           /\ \A a \in Addresses \ ptrs : Freed(m, ptrs)[a] = m[a]
BY DEF Freed

\* An allocation adds one live address and leaves the others alone.
LEMMA AllocatedLive ==
    ASSUME NEW m \in [Addresses -> Nat], NEW a \in Addresses, NEW w \in Nat \ {0}
    PROVE  /\ Allocated(m, a, w) \in [Addresses -> Nat]
           /\ {b \in Addresses : Allocated(m, a, w)[b] # 0} = {b \in Addresses : m[b] # 0} \cup {a}
           /\ \A b \in Addresses \ {a} : Allocated(m, a, w)[b] = m[b]
           /\ Allocated(m, a, w)[a] = w
BY DEF Allocated

\* The null pointer is not allocated.
LEMMA NullFree == Null \notin Addresses /\ NoBuffers.s = Null /\ NoBuffers.r = Null
BY CudaAssumption DEF NoBuffers

-----------------------------------------------------------------------------
\* MemInv holds at first, and is kept by every action.
LEMMA InitMem == CudaInit => MemInv
BY DEF CudaInit, MemInv, CallInv, SettledInv, FreshInv, SharedInv, Live, Persistent,
       PersistentOK, Settled, Running, CallPlaces, Fresh, NoCall

USE DEF CallPlaces, Settled, Running

LEMMA NewMem == ASSUME MemInv, NEW h \in Handles, New(h) PROVE MemInv'
BY DEF MemInv, CallInv, SettledInv, FreshInv, SharedInv, Live, Persistent,
       PersistentOK, Pair, Fresh, Fits, New, buffers

(* Releasing leaves nothing allocated. *)
LEMMA ReleasedMem ==
    ASSUME MemInv, pc = "idle", pc' = pc, Released, UNCHANGED <<call, local>>
    PROVE  MemInv'
<1>1. local = NoBuffers /\ Live = Persistent
  BY DEF MemInv, SettledInv
<1>2. Live' = {} /\ memory' \in [Addresses -> Nat]
  <2>1. Live' = Live \ {states, rotations} /\ memory' \in [Addresses -> Nat]
    BY FreedLive DEF MemInv, CallInv, Live, Released
  <2> QED
    BY <1>1, <2>1 DEF Persistent
<1>3. capacity' = 0
  BY DEF Released
<1> QED
  BY <1>1, <1>2, <1>3 DEF MemInv, CallInv, SettledInv, FreshInv, SharedInv, Persistent,
       PersistentOK, Fresh

LEMMA FreeMem == ASSUME MemInv, NEW h \in Handles, FreePersistent(h) PROVE MemInv'
BY ReleasedMem DEF FreePersistent

LEMMA DropMem == ASSUME MemInv, NEW h \in Handles, DropHandle(h) PROVE MemInv'
BY ReleasedMem DEF DropHandle

LEMMA CallMem == ASSUME MemInv, Call PROVE MemInv'
<1>1. PICK kind \in Kinds, n \in BatchSizes :
        /\ \E blocks \in 1..MaxBlocks :
             call' = [kind |-> kind, n |-> n, blocks |-> IF kind = "kdf" THEN blocks ELSE 0]
        /\ pc' \in {"read", "reserve"}
  BY DEF Call
<1>2. call'.n = n
  BY <1>1
<1>3. pc = "idle" /\ open # {} /\ open' = open /\ UNCHANGED buffers
  BY DEF Call
<1> QED
  BY <1>1, <1>2, <1>3 DEF MemInv, CallInv, SettledInv, FreshInv, SharedInv, Live, Persistent,
       PersistentOK, Pair, Fresh, buffers

LEMMA ReserveMem == ASSUME MemInv, Reserve PROVE MemInv'
<1>1. CASE Fresh
  BY <1>1 DEF Reserve, MemInv, CallInv, SettledInv, FreshInv, SharedInv, Live, Persistent,
       PersistentOK, Pair, Fresh
<1>2. CASE ~Fresh /\ Fits
  <2>1. capacity # 0
    BY <1>2, NeedPositive DEF Fits, MemInv, CallInv, Reserve
  <2> QED
    BY <1>2, <2>1 DEF Reserve, MemInv, CallInv, SettledInv, FreshInv, SharedInv, Live, Persistent,
       PersistentOK, Pair, Fresh, Fits
<1>3. CASE ~Fresh /\ ~Fits
  <2>1. Live' = Live \ {states, rotations} /\ memory' \in [Addresses -> Nat]
    BY <1>3, FreedLive DEF MemInv, CallInv, Live, Reserve
  <2>2. Live' = {}
    BY <2>1 DEF MemInv, SettledInv, Persistent, Reserve
  <2> QED
    BY <1>3, <2>1, <2>2 DEF Reserve, MemInv, CallInv, SettledInv, FreshInv, SharedInv, Fresh
<1> QED
  BY <1>1, <1>2, <1>3

LEMMA MallocStatesMem == ASSUME MemInv, MallocStates PROVE MemInv'
<1>1. PICK a \in Addresses :
        /\ memory[a] = 0
        /\ memory' = Allocated(memory, a, Need(call.n))
        /\ IF Fresh THEN local' = [s |-> a, r |-> Null] /\ UNCHANGED states
                    ELSE states' = a /\ UNCHANGED local
  BY DEF MallocStates
<1>2. Need(call.n) \in Nat \ {0}
  BY NeedPositive DEF MemInv, CallInv, MallocStates
<1>3. /\ memory' \in [Addresses -> Nat]
      /\ Live' = Live \cup {a}
      /\ \A b \in Addresses \ {a} : memory'[b] = memory[b]
      /\ memory'[a] = Need(call.n)
  BY <1>1, <1>2, AllocatedLive DEF MemInv, CallInv, Live
<1>4. pc = "states" /\ pc' = "rotations" /\ UNCHANGED <<open, call, rotations, capacity>>
  BY DEF MallocStates
<1>5. a \notin Live
  BY <1>1 DEF Live
<1>6. CASE Fresh
  <2>1. Live = Persistent /\ PersistentOK
    BY <1>4, <1>6 DEF MemInv, SettledInv
  <2>2. Persistent' = Persistent /\ PersistentOK'
    BY <1>1, <1>3, <1>4, <1>5, <1>6, <2>1 DEF Persistent, PersistentOK, Pair
  <2>3. local'.s = a /\ local'.r = Null
    BY <1>1, <1>6
  <2> QED
    BY <1>3, <1>4, <1>5, <1>6, <2>1, <2>2, <2>3
       DEF MemInv, CallInv, SettledInv, FreshInv, SharedInv, Fresh, Need
<1>7. CASE ~Fresh
  <2>1. Live = {} /\ local = NoBuffers
    BY <1>4, <1>7 DEF MemInv, SharedInv
  <2> QED
    BY <1>1, <1>3, <1>4, <1>7, <2>1
       DEF MemInv, CallInv, SettledInv, FreshInv, SharedInv, Fresh, Need
<1> QED
  BY <1>6, <1>7

LEMMA MallocStatesFailsMem == ASSUME MemInv, MallocStatesFails PROVE MemInv'
<1>1. CASE Fresh
  BY <1>1 DEF MallocStatesFails, MemInv, CallInv, SettledInv, FreshInv, SharedInv, Live,
       Persistent, PersistentOK, Pair, Fresh
<1>2. CASE ~Fresh
  BY <1>2 DEF MallocStatesFails, MemInv, CallInv, SettledInv, FreshInv, SharedInv, Live,
       Persistent, PersistentOK, Fresh
<1> QED
  BY <1>1, <1>2

LEMMA MallocRotationsMem == ASSUME MemInv, MallocRotations PROVE MemInv'
<1>1. PICK a \in Addresses :
        /\ memory[a] = 0
        /\ memory' = Allocated(memory, a, RotWords)
        /\ IF Fresh THEN local' = [s |-> local.s, r |-> a] /\ UNCHANGED <<rotations, capacity>>
                    ELSE rotations' = a /\ capacity' = Need(call.n) /\ UNCHANGED local
  BY DEF MallocRotations
<1>2. /\ memory' \in [Addresses -> Nat]
      /\ Live' = Live \cup {a}
      /\ \A b \in Addresses \ {a} : memory'[b] = memory[b]
      /\ memory'[a] = RotWords
  BY <1>1, CudaAssumption, AllocatedLive DEF MemInv, CallInv, Live
<1>3. pc = "rotations" /\ pc' = "copyin" /\ UNCHANGED <<open, call, states>>
  BY DEF MallocRotations
<1>4. a \notin Live
  BY <1>1 DEF Live
<1>5. Need(call.n) \in Nat \ {0}
  BY NeedPositive DEF MemInv, CallInv, MallocRotations
<1>6. CASE Fresh
  <2>1. /\ local.s \in Addresses \ Persistent /\ memory[local.s] = Need(call.n)
        /\ Live = Persistent \cup {local.s} /\ PersistentOK
    BY <1>3, <1>6 DEF MemInv, FreshInv
  <2>2. Persistent' = Persistent /\ PersistentOK'
    BY <1>1, <1>2, <1>3, <1>4, <1>6, <2>1 DEF Persistent, PersistentOK, Pair
  <2>3. local'.s = local.s /\ local'.r = a
    BY <1>1, <1>6
  <2>4. Pair(local.s, local.r, Need(call.n))'
    BY <1>2, <1>3, <1>4, <2>1, <2>3 DEF Pair, Need
  <2>5. /\ (local.s \notin Persistent /\ local.r \notin Persistent)'
        /\ (Live = Persistent \cup {local.s, local.r})'
    BY <1>2, <1>4, <2>1, <2>2, <2>3
  <2>6. FreshInv'
    BY <1>3, <2>2, <2>4, <2>5 DEF FreshInv
  <2>7. Fresh'
    BY <1>3, <1>6 DEF Fresh
  <2>8. CallInv'
    BY <1>1, <1>2, <1>3, <1>6 DEF MemInv, CallInv
  <2> QED
    BY <1>3, <2>6, <2>7, <2>8 DEF MemInv, SettledInv, SharedInv
<1>7. CASE ~Fresh
  <2>1. Live = {states} /\ local = NoBuffers /\ states \in Addresses
        /\ memory[states] = Need(call.n)
    BY <1>3, <1>7 DEF MemInv, SharedInv
  <2>2. capacity' = Need(call.n) /\ rotations' = a /\ local' = local /\ states' = states
    BY <1>1, <1>3, <1>7
  <2>3. Persistent' = {states, a} /\ PersistentOK' /\ Fits'
    BY <1>2, <1>3, <1>4, <1>5, <2>1, <2>2 DEF Persistent, PersistentOK, Pair, Fits, Need
  <2>4. open # {}
    BY <1>3 DEF MemInv, CallInv
  <2> QED
    BY <1>2, <1>3, <1>5, <1>7, <2>1, <2>2, <2>3, <2>4
       DEF MemInv, CallInv, SettledInv, FreshInv, SharedInv, Fresh
<1> QED
  BY <1>6, <1>7

LEMMA MallocRotationsFailsMem == ASSUME MemInv, MallocRotationsFails PROVE MemInv'
<1>1. pc = "rotations" /\ pc' = "failed" /\ UNCHANGED <<open, call, states>>
  BY DEF MallocRotationsFails
<1>2. /\ Live' = Live \ {Used.s} /\ memory' \in [Addresses -> Nat]
      /\ \A a \in Addresses \ {Used.s} : memory'[a] = memory[a]
  BY FreedLive DEF MemInv, CallInv, Live, MallocRotationsFails
<1>3. CASE Fresh
  <2>1. /\ local' = NoBuffers /\ UNCHANGED <<rotations, capacity>>
    BY <1>3 DEF MallocRotationsFails
  <2>2. Used.s = local.s
    BY <1>3 DEF Used
  <2>3. local.s \notin Persistent /\ Live = Persistent \cup {local.s} /\ PersistentOK
    BY <1>1, <1>3 DEF MemInv, FreshInv
  <2>4. Persistent' = Persistent /\ PersistentOK'
    BY <1>1, <1>2, <2>1, <2>2, <2>3 DEF Persistent, PersistentOK, Pair
  <2> QED
    BY <1>1, <1>2, <1>3, <2>1, <2>2, <2>3, <2>4
       DEF MemInv, CallInv, SettledInv, FreshInv, SharedInv, Fresh
<1>4. CASE ~Fresh
  <2>1. local' = local /\ capacity' = 0
    BY <1>4 DEF MallocRotationsFails
  <2>2. Used.s = states
    BY <1>4 DEF Used
  <2>3. Live = {states} /\ local = NoBuffers
    BY <1>1, <1>4 DEF MemInv, SharedInv
  <2> QED
    BY <1>1, <1>2, <1>4, <2>1, <2>2, <2>3
       DEF MemInv, CallInv, SettledInv, FreshInv, SharedInv, Fresh, Persistent, PersistentOK
<1> QED
  BY <1>3, <1>4

(* A step of a running call that leaves the buffers as they are. *)
LEMMA RunningMem ==
    ASSUME MemInv, pc \in Running, pc' \in Running, UNCHANGED <<open, call>>, UNCHANGED buffers
    PROVE  MemInv'
BY DEF MemInv, CallInv, SettledInv, FreshInv, SharedInv, Live, Persistent, PersistentOK, Pair,
       Fresh, Fits, Need, buffers

(* A running call that ends, having let go the buffers of its own. *)
LEMMA EndMem ==
    ASSUME MemInv, pc \in Running, pc' \in {"done", "failed"}, UNCHANGED <<open, call>>,
           IF Fresh THEN LeavesLocal ELSE UNCHANGED buffers
    PROVE  MemInv'
<1>1. CASE Fresh
  <2>1. /\ Live' = Live \ {local.s, local.r} /\ memory' \in [Addresses -> Nat]
        /\ \A a \in Addresses \ {local.s, local.r} : memory'[a] = memory[a]
    BY <1>1, FreedLive DEF MemInv, CallInv, Live, LeavesLocal
  <2>2. local' = NoBuffers /\ UNCHANGED <<states, rotations, capacity>>
    BY <1>1 DEF LeavesLocal
  <2>3. /\ local.s \notin Persistent /\ local.r \notin Persistent
        /\ Live = Persistent \cup {local.s, local.r} /\ PersistentOK
    BY <1>1 DEF MemInv, FreshInv
  <2>4. Persistent' = Persistent /\ PersistentOK'
    BY <2>1, <2>2, <2>3 DEF Persistent, PersistentOK, Pair
  <2>5. Live' = Persistent'
    BY <2>1, <2>3, <2>4
  <2> QED
    BY <1>1, <2>1, <2>2, <2>4, <2>5
       DEF MemInv, CallInv, SettledInv, FreshInv, SharedInv, Fresh
<1>2. CASE ~Fresh
  BY <1>2 DEF MemInv, CallInv, SettledInv, FreshInv, SharedInv, Live, Persistent, PersistentOK,
       Pair, Fresh, buffers
<1> QED
  BY <1>1, <1>2

(* A step between calls into the device. *)
LEMMA BetweenMem ==
    ASSUME MemInv, pc \in {"done", "failed", "read"}, pc' \in {"read", "reserve", "idle"},
           UNCHANGED <<open, call>>, UNCHANGED buffers
    PROVE  MemInv'
BY DEF MemInv, CallInv, SettledInv, FreshInv, SharedInv, Live, Persistent, PersistentOK, Pair,
       Fresh, buffers

LEMMA StutterMem == ASSUME MemInv, UNCHANGED cvars PROVE MemInv'
BY DEF MemInv, CallInv, SettledInv, FreshInv, SharedInv, Live, Persistent, PersistentOK, Pair,
       Fresh, Fits, Need, cvars

LEMMA NextMem == MemInv /\ [CudaNext]_cvars => MemInv'
<1> SUFFICES ASSUME MemInv, [CudaNext]_cvars PROVE MemInv'
  OBVIOUS
<1>1. ASSUME NEW h \in Handles, New(h) PROVE MemInv'
  BY <1>1, NewMem
<1>2. ASSUME NEW h \in Handles, FreePersistent(h) PROVE MemInv'
  BY <1>2, FreeMem
<1>3. ASSUME NEW h \in Handles, DropHandle(h) PROVE MemInv'
  BY <1>3, DropMem
<1>4. CASE Call
  BY <1>4, CallMem
<1>5. CASE Reserve
  BY <1>5, ReserveMem
<1>6. CASE MallocStates
  BY <1>6, MallocStatesMem
<1>7. CASE MallocStatesFails
  BY <1>7, MallocStatesFailsMem
<1>8. CASE MallocRotations
  BY <1>8, MallocRotationsMem
<1>9. CASE MallocRotationsFails
  BY <1>9, MallocRotationsFailsMem
<1>10. CASE CopyIn
  BY <1>10, RunningMem DEF CopyIn
<1>11. CASE Kernel
  BY <1>11, RunningMem DEF Kernel
<1>12. CASE KernelFails
  BY <1>12, EndMem DEF KernelFails
<1>13. CASE CopyOut
  BY <1>13, EndMem DEF CopyOut
<1>14. CASE Back
  BY <1>14, BetweenMem DEF Back
<1>15. CASE ReadBlock
  BY <1>15, BetweenMem DEF ReadBlock
<1>16. CASE Stopped \/ UNCHANGED cvars
  BY <1>16, StutterMem DEF Stopped
<1> QED
  BY <1>1, <1>2, <1>3, <1>4, <1>5, <1>6, <1>7, <1>8, <1>9, <1>10, <1>11, <1>12, <1>13,
     <1>14, <1>15, <1>16 DEF CudaNext

\* What MemInv means when a buffer is used and between calls.
LEMMA MemImpliesLive == MemInv => BuffersLive
<1> SUFFICES ASSUME MemInv PROVE BuffersLive
  OBVIOUS
<1>1. ASSUME pc \in Running
      PROVE  /\ Used.s \in Addresses /\ Used.r \in Addresses /\ Used.s # Used.r
             /\ memory[Used.s] >= Need(call.n) /\ memory[Used.r] >= RotWords
  <2>1. Need(call.n) \in Nat \ {0} /\ RotWords \in Nat
    BY <1>1, NeedPositive, CudaAssumption DEF MemInv, CallInv
  <2>2. CASE Fresh
    <3>1. Used = local /\ Pair(local.s, local.r, Need(call.n))
      BY <1>1, <2>2 DEF Used, MemInv, FreshInv
    <3> QED
      BY <2>1, <3>1 DEF Pair
  <2>3. CASE ~Fresh
    <3>1. Used.s = states /\ Used.r = rotations
      BY <2>3 DEF Used
    <3>2. capacity >= Need(call.n) /\ PersistentOK /\ capacity \in Nat
      BY <1>1, <2>3 DEF MemInv, SharedInv, Fits, CallInv
    <3>3. Pair(states, rotations, capacity)
      BY <2>1, <3>2 DEF PersistentOK
    <3> QED
      BY <2>1, <3>1, <3>2, <3>3 DEF Pair
  <2> QED
    BY <2>2, <2>3
<1>2. ASSUME pc = "idle"
      PROVE  Live = Persistent
  BY <1>2 DEF MemInv, SettledInv
<1>3. ASSUME pc = "idle", open = {}
      PROVE  \A a \in Addresses : memory[a] = 0
  BY <1>2, <1>3 DEF MemInv, CallInv, Live, Persistent
<1> QED
  BY <1>1, <1>2, <1>3 DEF BuffersLive, Live, Persistent

(* No copy and no kernel touches memory that is freed, shared by both       *)
(* buffers or too small, and nothing stays allocated past the last handle:  *)
(* a pointer that a failure left behind, and that is freed once more        *)
(* (kk_permute.cu:251, 258, 281), is never one that is in use by then.      *)
THEOREM DeviceMemorySafe == CudaSpec => []BuffersLive
BY InitMem, NextMem, MemImpliesLive, PTL DEF CudaSpec

-----------------------------------------------------------------------------
(* The states of a batch *)

(* Every state was permuted as often as the others. *)
HostInv == flat \in Seq(Nat) /\ good \in Nat /\ \A i \in DOMAIN flat : flat[i] = good

(* The device has what the host has, or what it will have. *)
DeviceInv == /\ pc = "kernel" => device = flat
             /\ pc = "copyout" => device = Permuted(flat)

(* A block read has the rate of every state at one time. *)
BlocksInv == out \in Seq(Seq(Nat)) /\ \A k \in DOMAIN out :
    \A i, j \in DOMAIN out[k] : out[k][i] = out[k][j]

(* As long as nothing has failed, the blocks read and the permutations made *)
(* take turns.                                                              *)
TurnsInv == ~failed =>
    /\ \A k \in DOMAIN out : \A i \in DOMAIN out[k] : out[k][i] = k - 1
    /\ pc = "read" \/ (call.kind = "kdf" /\ pc = "done") => good = Len(out)
    /\ call.kind = "kdf" /\ pc \notin {"idle", "read", "done"} => good + 1 = Len(out)

DataInv ==
    /\ pc \in CallPlaces
    /\ pc = "read" => call.kind = "kdf"
    /\ HostInv /\ DeviceInv /\ BlocksInv /\ TurnsInv

\* DataInv holds at first, and is kept by every action.
LEMMA InitData == CudaInit => DataInv
BY DEF CudaInit, DataInv, HostInv, DeviceInv, BlocksInv, TurnsInv, NoCall

LEMMA CallData == ASSUME DataInv, Call PROVE DataInv'
<1>1. PICK kind \in Kinds, n \in BatchSizes :
        /\ \E blocks \in 1..MaxBlocks :
             call' = [kind |-> kind, n |-> n, blocks |-> IF kind = "kdf" THEN blocks ELSE 0]
        /\ pc' = IF kind = "kdf" THEN "read" ELSE "reserve"
        /\ flat' = [i \in 1..n |-> 0]
  BY DEF Call
<1>2. out' = <<>> /\ good' = 0
  BY DEF Call
<1>3. call'.kind = kind /\ pc' \in {"read", "reserve"}
  BY <1>1
<1>4. n \in Nat
  BY CudaAssumption
<1>5. HostInv'
  BY <1>1, <1>2, <1>4 DEF HostInv
<1>6. BlocksInv'
  BY <1>2 DEF BlocksInv
<1>7. TurnsInv'
  BY <1>1, <1>2, <1>3 DEF TurnsInv
<1> QED
  BY <1>1, <1>3, <1>5, <1>6, <1>7 DEF DataInv, DeviceInv

(* A step that moves no state. *)
LEMMA SameData ==
    ASSUME DataInv, UNCHANGED <<call, flat, out, good, failed>>,
           \/ pc \in {"reserve", "states", "rotations"}
              /\ pc' \in {"states", "rotations", "copyin", "failed"}
           \/ pc = "copyin" /\ pc' = "kernel" /\ device' = flat
           \/ pc = "kernel" /\ pc' = "copyout" /\ device = flat /\ device' = Permuted(flat)
           \/ pc = "kernel" /\ pc' = "failed"
           \/ pc = "idle" /\ pc' = "idle"
    PROVE  DataInv'
<1>1. HostInv' /\ BlocksInv'
  BY DEF DataInv, HostInv, BlocksInv
<1>2. DeviceInv'
  BY DEF DataInv, DeviceInv, Permuted
<1>3. TurnsInv'
  BY DEF DataInv, TurnsInv
<1> QED
  BY <1>1, <1>2, <1>3 DEF DataInv

LEMMA CopyOutData == ASSUME DataInv, CopyOut PROVE DataInv'
<1>1. /\ pc = "copyout" /\ pc' = "done" /\ flat' = Permuted(flat) /\ good' = good + 1
      /\ UNCHANGED <<call, out, failed>>
  BY DEF CopyOut, DataInv, DeviceInv
<1>2. HostInv'
  <2>1. flat \in Seq(Nat) /\ good \in Nat /\ \A i \in DOMAIN flat : flat[i] = good
    BY DEF DataInv, HostInv
  <2>2. flat' = [i \in 1..Len(flat) |-> flat[i] + 1]
    BY <1>1, <2>1 DEF Permuted
  <2> QED
    BY <1>1, <2>1, <2>2 DEF HostInv
<1>3. BlocksInv' /\ DeviceInv'
  BY <1>1 DEF DataInv, BlocksInv, DeviceInv
<1>4. TurnsInv'
  BY <1>1 DEF DataInv, TurnsInv
<1> QED
  BY <1>1, <1>2, <1>3, <1>4 DEF DataInv

LEMMA BackData == ASSUME DataInv, Back PROVE DataInv'
<1>1. /\ pc \in {"done", "failed"} /\ failed' = (failed \/ pc = "failed")
      /\ pc' = (IF call.kind = "kdf" THEN "read" ELSE "idle")
      /\ UNCHANGED <<call, flat, device, out, good>>
  BY DEF Back
<1>2. HostInv' /\ BlocksInv' /\ DeviceInv'
  BY <1>1 DEF DataInv, HostInv, BlocksInv, DeviceInv
<1>3. TurnsInv'
  <2>1. CASE pc = "failed"
    BY <1>1, <2>1 DEF TurnsInv
  <2>2. CASE pc = "done"
    BY <1>1, <2>2 DEF DataInv, TurnsInv
  <2> QED
    BY <1>1, <2>1, <2>2
<1> QED
  BY <1>1, <1>2, <1>3 DEF DataInv

LEMMA ReadBlockData == ASSUME DataInv, ReadBlock PROVE DataInv'
<1>1. /\ pc = "read" /\ pc' \in {"reserve", "idle"} /\ out' = Append(out, flat)
      /\ UNCHANGED <<call, flat, device, good, failed>>
  BY DEF ReadBlock
<1>2. /\ flat \in Seq(Nat) /\ good \in Nat /\ \A i \in DOMAIN flat : flat[i] = good
      /\ out \in Seq(Seq(Nat)) /\ call.kind = "kdf"
  BY <1>1 DEF DataInv, HostInv, BlocksInv
<1>3. /\ out' \in Seq(Seq(Nat)) /\ Len(out') = Len(out) + 1
      /\ DOMAIN out' = 1..(Len(out) + 1) /\ DOMAIN out = 1..Len(out)
      /\ \A k \in DOMAIN out : out'[k] = out[k]
      /\ out'[Len(out) + 1] = flat
  BY <1>1, <1>2
<1>4. \A k \in DOMAIN out' : k \in DOMAIN out \/ k = Len(out) + 1
  BY <1>2, <1>3
<1>5. BlocksInv'
  <2> SUFFICES ASSUME NEW k \in DOMAIN out'
               PROVE  \A i, j \in DOMAIN out'[k] : out'[k][i] = out'[k][j]
    BY <1>3 DEF BlocksInv
  <2>1. CASE k \in DOMAIN out
    BY <1>3, <2>1 DEF DataInv, BlocksInv
  <2>2. CASE k = Len(out) + 1
    BY <1>2, <1>3, <2>2
  <2> QED
    BY <1>4, <2>1, <2>2
<1>6. TurnsInv'
  <2> SUFFICES ASSUME ~failed PROVE TurnsInv'
    BY <1>1 DEF TurnsInv
  <2>1. good = Len(out) /\ \A k \in DOMAIN out : \A i \in DOMAIN out[k] : out[k][i] = k - 1
    BY <1>1 DEF DataInv, TurnsInv
  <2>2. ASSUME NEW k \in DOMAIN out' PROVE \A i \in DOMAIN out'[k] : out'[k][i] = k - 1
    <3>1. CASE k \in DOMAIN out
      BY <1>3, <2>1, <3>1
    <3>2. CASE k = Len(out) + 1
      BY <1>2, <1>3, <2>1, <3>2
    <3> QED
      BY <1>4, <2>2, <3>1, <3>2
  <2>3. good' + 1 = Len(out') /\ pc' # "read" /\ pc' # "done"
    BY <1>1, <1>3, <2>1
  <2> QED
    BY <2>2, <2>3 DEF TurnsInv
<1>7. HostInv' /\ DeviceInv'
  BY <1>1 DEF DataInv, HostInv, DeviceInv
<1> QED
  BY <1>1, <1>5, <1>6, <1>7 DEF DataInv

LEMMA NextData == DataInv /\ [CudaNext]_cvars => DataInv'
<1> SUFFICES ASSUME DataInv, [CudaNext]_cvars PROVE DataInv'
  OBVIOUS
<1>1. ASSUME NEW h \in Handles, New(h) \/ FreePersistent(h) \/ DropHandle(h) PROVE DataInv'
  BY <1>1, SameData DEF New, FreePersistent, DropHandle, data
<1>2. CASE Call
  BY <1>2, CallData
<1>3. CASE Reserve
  BY <1>3, SameData DEF Reserve, data
<1>4. CASE MallocStates \/ MallocStatesFails
  BY <1>4, SameData DEF MallocStates, MallocStatesFails, data
<1>5. CASE MallocRotations \/ MallocRotationsFails
  BY <1>5, SameData DEF MallocRotations, MallocRotationsFails, data
<1>6. CASE CopyIn
  BY <1>6, SameData DEF CopyIn
<1>7. CASE Kernel
  <2>1. device = flat
    BY <1>7 DEF Kernel, DataInv, DeviceInv
  <2> QED
    BY <1>7, <2>1, SameData DEF Kernel
<1>8. CASE KernelFails
  BY <1>8, SameData DEF KernelFails, KernelFailed
<1>9. CASE CopyOut
  BY <1>9, CopyOutData
<1>10. CASE Back
  BY <1>10, BackData
<1>11. CASE ReadBlock
  BY <1>11, ReadBlockData
<1>12. CASE Stopped \/ UNCHANGED cvars
  BY <1>12 DEF Stopped, cvars, DataInv, HostInv, DeviceInv, BlocksInv, TurnsInv, Permuted
<1> QED
  BY <1>1, <1>2, <1>3, <1>4, <1>5, <1>6, <1>7, <1>8, <1>9, <1>10, <1>11, <1>12 DEF CudaNext

(* A batch is permuted as a whole or not at all, and without failures block *)
(* k of every lane is read after k permutations, for any number of states,   *)
(* blocks and calls.                                                         *)
THEOREM BatchMovesTogether == CudaSpec => []StatesMoveTogether
<1>1. DataInv => StatesMoveTogether
  BY DEF DataInv, HostInv, BlocksInv, TurnsInv, StatesMoveTogether
<1> QED
  BY <1>1, InitData, NextData, PTL DEF CudaSpec
=============================================================================
