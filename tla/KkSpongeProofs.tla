---------------------------- MODULE KkSpongeProofs ----------------------------
(* For every word size, rate and set of calls: a sponge absorbs the bytes it *)
(* consumed and the padding, whichever path they took; when it is padded it  *)
(* has consumed its whole message; and what a lane squeezes is what the      *)
(* scalar function squeezes for that lane alone.                             *)
EXTENDS KkSponge, SequenceTheorems, WellFoundedInduction, TLAPS

\* Sponge s, with pos bytes of the current block in, has absorbed exactly f.
Holds(s, pos, f) ==
    /\ s.past \in Seq(Byte) /\ s.cur \in [1..Rate -> Byte] /\ f \in Seq(Byte)
    /\ pos \in 0..(Rate - 1)
    /\ Len(s.past) % Rate = 0
    /\ Len(f) = Len(s.past) + pos
    /\ \A i \in 1..Len(s.past) : s.past[i] = f[i]
    /\ \A j \in 1..Rate : s.cur[j] = IF j <= pos THEN f[Len(s.past) + j] ELSE {}

-----------------------------------------------------------------------------
(* Sequences. *)

LEMMA Concatenation ==
    ASSUME NEW a \in Seq(Byte), NEW b \in Seq(Byte)
    PROVE  /\ a \o b \in Seq(Byte) /\ Len(a \o b) = Len(a) + Len(b)
           /\ Len(a) \in Nat /\ Len(b) \in Nat
           /\ \A i \in 1..Len(a) : (a \o b)[i] = a[i]
           /\ \A j \in 1..Len(b) : (a \o b)[Len(a) + j] = b[j]
  OBVIOUS

LEMMA FunctionAsSeq ==
    ASSUME NEW n \in Nat, NEW f \in [1..n -> Byte]
    PROVE  f \in Seq(Byte) /\ Len(f) = n
  BY SeqDef

LEMMA Advance ==
    ASSUME NEW a \in Nat, NEW p \in Nat, NEW n \in Nat, NEW r \in Nat \ {0}
    PROVE  /\ (a + p) + n = a + (p + n) /\ p + n \in Nat
           /\ p + n < r => p + n \in 0..(r - 1)
           /\ p + n = r => (a + p) + n = a + r /\ a + r = (a + r) + 0 /\ 0 \in 0..(r - 1)
  OBVIOUS

LEMMA HoldsFacts ==
    ASSUME NEW s, NEW pos, NEW f, Holds(s, pos, f)
    PROVE  /\ s.past \in Seq(Byte) /\ s.cur \in [1..Rate -> Byte] /\ f \in Seq(Byte)
           /\ pos \in 0..(Rate - 1) /\ pos \in Nat
           /\ Rate \in Nat \ {0} /\ Rate - 1 \in Nat
           /\ Len(f) \in Nat /\ Len(s.past) \in Nat /\ Len(f) = Len(s.past) + pos
  <1>1. Rate \in Nat \ {0}
    BY SpongeAssumption
  <1>2. /\ s.past \in Seq(Byte) /\ s.cur \in [1..Rate -> Byte] /\ f \in Seq(Byte)
        /\ pos \in 0..(Rate - 1) /\ Len(f) = Len(s.past) + pos
    BY DEF Holds
  <1>3. Len(s.past) \in Nat /\ Len(f) \in Nat
    BY <1>2
  <1>4. pos \in Nat /\ Rate - 1 \in Nat
    BY <1>1, <1>2
  <1> QED  BY <1>1, <1>2, <1>3, <1>4

-----------------------------------------------------------------------------
(* Arithmetic of blocks and words. *)

LEMMA ProductAtLeast ==
    ASSUME NEW c \in Nat \ {0}, NEW d \in Int, d >= 1
    PROVE  c * d >= c
  <1>1. d - 1 \in Nat /\ c * (d - 1) \in Nat
    OBVIOUS
  <1>2. c * d = c * (d - 1) + c
    OBVIOUS
  <1> QED  BY <1>1, <1>2

\* A remainder is the only one.
LEMMA ModUnique ==
    ASSUME NEW c \in Nat \ {0}, NEW q \in Nat, NEW r \in 0..(c - 1)
    PROVE  (c * q + r) % c = r
  <1> DEFINE b == c * q + r
             k == b \div c
             s == b % c
  <1>1. b \in Nat
    OBVIOUS
  <1>2. k \in Int /\ s \in 0..(c - 1) /\ b = c * k + s
    <2> HIDE DEF b
    <2> QED  BY <1>1
  <1> HIDE DEF k, s
  <1>3. c * (q - k) = s - r /\ c * (k - q) = r - s
    BY <1>2
  <1>4. ~(q - k >= 1)
    BY <1>2, <1>3, ProductAtLeast
  <1>5. ~(k - q >= 1)
    BY <1>2, <1>3, ProductAtLeast
  <1>6. q = k
    BY <1>2, <1>4, <1>5
  <1>7. s = r
    BY <1>2, <1>6
  <1> QED  BY <1>7 DEF s

LEMMA Divides ==
    ASSUME NEW c \in Nat \ {0}, NEW b \in Nat, b % c = 0
    PROVE  \E n \in Nat : b = c * n
  <1> DEFINE k == b \div c
  <1>1. k \in Int /\ b = c * k + (b % c)
    OBVIOUS
  <1> HIDE DEF k
  <1>2. ~(-k >= 1)
    <2>1. SUFFICES ASSUME -k >= 1 PROVE FALSE
      OBVIOUS
    <2>2. c * (-k) >= c
      BY <1>1, <2>1, ProductAtLeast
    <2>3. c * (-k) = -(c * k)
      BY <1>1
    <2> QED  BY <1>1, <2>2, <2>3
  <1>3. k \in Nat /\ b = c * k
    BY <1>1, <1>2
  <1> QED  BY <1>3

LEMMA BlockEnd ==
    ASSUME NEW a \in Nat, NEW p \in 0..(Rate - 1), a % Rate = 0
    PROVE  (a + p) % Rate = p /\ (a + Rate) % Rate = 0
  <1>1. PICK n \in Nat : a = Rate * n
    BY Divides, SpongeAssumption
  <1>2. (Rate * n + p) % Rate = p
    BY ModUnique, SpongeAssumption
  <1>3. (Rate * (n + 1) + 0) % Rate = 0 /\ Rate * (n + 1) = Rate * n + Rate
    <2>1. 0 \in 0..(Rate - 1) /\ n + 1 \in Nat
      BY SpongeAssumption
    <2>2. (Rate * (n + 1) + 0) % Rate = 0
      BY <2>1, ModUnique, SpongeAssumption
    <2> QED  BY <2>2, SpongeAssumption
  <1> QED  BY <1>1, <1>2, <1>3, SpongeAssumption

\* Word boundaries: of a block's end, of a difference, of a sum.
LEMMA WordsOfRate ==
    ASSUME NEW a \in Nat, a % Rate = 0
    PROVE  a % WordBytes = 0
  <1>1. PICK n \in Nat : a = Rate * n
    BY Divides, SpongeAssumption
  <1>2. PICK m \in Nat : Rate = WordBytes * m
    BY Divides, SpongeAssumption
  <1>3. m * n \in Nat /\ a = WordBytes * (m * n)
    BY <1>1, <1>2, SpongeAssumption
  <1>4. 0 \in 0..(WordBytes - 1)
    BY SpongeAssumption
  <1>5. (WordBytes * (m * n) + 0) % WordBytes = 0
    BY <1>3, <1>4, ModUnique, SpongeAssumption
  <1> QED  BY <1>3, <1>5

LEMMA WordDifference ==
    ASSUME NEW a \in Nat, NEW b \in Nat, a % WordBytes = 0, b >= a
    PROVE  b % WordBytes = 0 <=> (b - a) % WordBytes = 0
  <1>1. PICK n \in Nat : a = WordBytes * n
    BY Divides, SpongeAssumption
  <1>2. 0 \in 0..(WordBytes - 1) /\ b - a \in Nat
    BY SpongeAssumption
  <1>3. ASSUME b % WordBytes = 0  PROVE (b - a) % WordBytes = 0
    <2>1. PICK m \in Nat : b = WordBytes * m
      BY <1>3, Divides, SpongeAssumption
    <2>2. b - a = WordBytes * (m - n)
      BY <1>1, <2>1, SpongeAssumption
    <2>3. m - n \in Nat
      <3>1. ~(n - m >= 1)
        <4>1. SUFFICES ASSUME n - m >= 1 PROVE FALSE
          OBVIOUS
        <4>2. WordBytes * (n - m) >= WordBytes
          BY <4>1, ProductAtLeast, SpongeAssumption
        <4>3. WordBytes * (n - m) = a - b
          BY <1>1, <2>1, SpongeAssumption
        <4> QED  BY <4>2, <4>3, SpongeAssumption
      <3> QED  BY <3>1
    <2>4. (WordBytes * (m - n) + 0) % WordBytes = 0
      BY <1>2, <2>3, ModUnique, SpongeAssumption
    <2> QED  BY <1>2, <2>2, <2>4
  <1>4. ASSUME (b - a) % WordBytes = 0  PROVE b % WordBytes = 0
    <2>1. PICK m \in Nat : b - a = WordBytes * m
      BY <1>2, <1>4, Divides, SpongeAssumption
    <2>2. b = WordBytes * (m + n) /\ m + n \in Nat
      BY <1>1, <2>1, SpongeAssumption
    <2>3. (WordBytes * (m + n) + 0) % WordBytes = 0
      BY <1>2, <2>2, ModUnique, SpongeAssumption
    <2> QED  BY <2>2, <2>3
  <1> QED  BY <1>3, <1>4

LEMMA WordMultiple ==
    ASSUME NEW a \in Nat, a % WordBytes = 0
    PROVE  (a \div WordBytes) * WordBytes = a
  <1> DEFINE k == a \div WordBytes
  <1>1. k \in Int /\ a = WordBytes * k + (a % WordBytes)
    BY SpongeAssumption
  <1> HIDE DEF k
  <1>2. k * WordBytes = a
    BY <1>1, SpongeAssumption
  <1> QED  BY <1>2 DEF k

-----------------------------------------------------------------------------
(* What the operations on one sponge do to the bytes it holds. *)

LEMMA XorType ==
    ASSUME NEW a \in Byte, NEW b \in Byte
    PROVE  Xor(a, b) \in Byte /\ Xor({}, a) = a /\ Xor(a, {}) = a /\ {} \in Byte
  BY DEF Xor, Byte

LEMMA XorAtType ==
    ASSUME NEW cur \in [1..Rate -> Byte], NEW at \in Nat, NEW bytes \in Seq(Byte)
    PROVE  XorAt(cur, at, bytes) \in [1..Rate -> Byte]
  <1>1. ASSUME NEW j \in 1..Rate, j - at \in 1..Len(bytes)
        PROVE  Xor(cur[j], bytes[j - at]) \in Byte
    <2>1. cur[j] \in Byte /\ bytes[j - at] \in Byte
      BY <1>1
    <2> QED  BY <2>1, XorType
  <1>2. ASSUME NEW j \in 1..Rate
        PROVE  (IF j - at \in 1..Len(bytes) THEN Xor(cur[j], bytes[j - at]) ELSE cur[j]) \in Byte
    BY <1>1
  <1> QED  BY <1>2 DEF XorAt

LEMMA HoldsNew == Holds(NewSponge, 0, <<>>)
  <1>1. Zeros \in [1..Rate -> Byte]
    BY DEF Zeros, Byte
  <1>2. 0 % Rate = 0 /\ Rate \in Nat \ {0}
    <2>1. (Rate * 0 + 0) % Rate = 0
      BY ModUnique, SpongeAssumption
    <2> QED  BY <2>1, SpongeAssumption
  <1> QED  BY <1>1, <1>2 DEF Holds, NewSponge, Sponge, Zeros

\* Bytes XORed in where the block has been filled up to.
LEMMA HoldsXor ==
    ASSUME NEW s, NEW pos, NEW f, Holds(s, pos, f),
           NEW bytes \in Seq(Byte), NEW x, pos + Len(bytes) < Rate
    PROVE  Holds(Sponge(s.past, XorAt(s.cur, pos, bytes), x), pos + Len(bytes), f \o bytes)
  <1> DEFINE cur == XorAt(s.cur, pos, bytes)
             g == f \o bytes
             t == Sponge(s.past, cur, x)
  <1>1. /\ s.past \in Seq(Byte) /\ s.cur \in [1..Rate -> Byte] /\ f \in Seq(Byte)
        /\ pos \in 0..(Rate - 1) /\ pos \in Nat /\ Rate \in Nat
        /\ Len(f) = Len(s.past) + pos
    BY HoldsFacts
  <1>2. cur \in [1..Rate -> Byte]
    BY <1>1, XorAtType
  <1>3. /\ g \in Seq(Byte) /\ Len(g) = Len(f) + Len(bytes)
        /\ \A i \in 1..Len(f) : g[i] = f[i]
        /\ \A i \in 1..Len(bytes) : g[Len(f) + i] = bytes[i]
    <2>1. g \in Seq(Byte) /\ Len(g) = Len(f) + Len(bytes)
      BY <1>1, Concatenation
    <2>2. \A i \in 1..Len(f) : g[i] = f[i]
      BY <1>1
    <2>3. ASSUME NEW i \in 1..Len(bytes)  PROVE g[Len(f) + i] = bytes[i]
      BY <1>1
    <2> QED  BY <2>1, <2>2, <2>3
  <1>4. t.past = s.past /\ t.cur = cur
    BY DEF Sponge
  <1>5. ASSUME NEW i \in 1..Len(s.past)  PROVE s.past[i] = g[i]
    BY <1>1, <1>3 DEF Holds
  <1>6. ASSUME NEW j \in 1..Rate
        PROVE  cur[j] = IF j <= pos + Len(bytes) THEN g[Len(s.past) + j] ELSE {}
    <2>1. s.cur[j] = IF j <= pos THEN f[Len(s.past) + j] ELSE {}
      BY DEF Holds
    <2>2. cur[j] = IF j - pos \in 1..Len(bytes) THEN Xor(s.cur[j], bytes[j - pos]) ELSE s.cur[j]
      BY DEF XorAt
    <2>3. CASE j <= pos
      <3>1. cur[j] = f[Len(s.past) + j]
        BY <1>1, <2>1, <2>2, <2>3
      <3>2. Len(s.past) + j \in 1..Len(f)
        BY <1>1, <2>3
      <3> QED  BY <1>1, <1>3, <2>3, <3>1, <3>2
    <2>4. CASE j > pos /\ j <= pos + Len(bytes)
      <3>1. j - pos \in 1..Len(bytes)
        BY <1>1, <2>4
      <3>2. bytes[j - pos] \in Byte
        BY <3>1
      <3>3. cur[j] = bytes[j - pos]
        <4>1. s.cur[j] = {}
          BY <1>1, <2>1, <2>4
        <4> QED  BY <2>2, <3>1, <3>2, <4>1, XorType
      <3>4. Len(s.past) + j = Len(f) + (j - pos)
        BY <1>1
      <3> QED  BY <1>3, <2>4, <3>1, <3>3, <3>4
    <2>5. CASE j > pos + Len(bytes)
      BY <1>1, <2>1, <2>2, <2>5
    <2> QED  BY <1>1, <2>3, <2>4, <2>5
  <1>7. pos + Len(bytes) \in 0..(Rate - 1) /\ Len(g) = Len(s.past) + (pos + Len(bytes))
    <2>1. Len(bytes) \in Nat /\ Len(s.past) \in Nat /\ Rate \in Nat \ {0}
      BY HoldsFacts
    <2>2. /\ (Len(s.past) + pos) + Len(bytes) = Len(s.past) + (pos + Len(bytes))
          /\ pos + Len(bytes) \in 0..(Rate - 1)
      BY <1>1, <2>1, Advance
    <2>3. Len(g) = (Len(s.past) + pos) + Len(bytes)
      BY <1>1, <1>3
    <2> QED  BY <2>2, <2>3
  <1>8. Len(s.past) % Rate = 0
    BY DEF Holds
  <1> HIDE DEF cur, g, t
  <1>9. Holds(t, pos + Len(bytes), g)
    BY <1>1, <1>2, <1>3, <1>4, <1>5, <1>6, <1>7, <1>8 DEF Holds
  <1> QED  BY <1>9 DEF t, g, cur
\* Bytes that complete the rate: it is permuted.
LEMMA HoldsFull ==
    ASSUME NEW s, NEW pos, NEW f, Holds(s, pos, f),
           NEW bytes \in Seq(Byte), NEW x, pos + Len(bytes) = Rate
    PROVE  Holds(Permuted(Sponge(s.past, XorAt(s.cur, pos, bytes), x)), 0, f \o bytes)
  <1> DEFINE cur == XorAt(s.cur, pos, bytes)
             g == f \o bytes
             t == Permuted(Sponge(s.past, cur, x))
  <1>1. /\ s.past \in Seq(Byte) /\ s.cur \in [1..Rate -> Byte] /\ f \in Seq(Byte)
        /\ pos \in 0..(Rate - 1) /\ pos \in Nat /\ Rate \in Nat \ {0}
        /\ Len(f) = Len(s.past) + pos /\ Len(s.past) \in Nat
    BY HoldsFacts
  <1>2. cur \in [1..Rate -> Byte]
    BY <1>1, XorAtType
  <1>3. cur \in Seq(Byte) /\ Len(cur) = Rate
    <2> HIDE DEF cur
    <2> QED  BY <1>1, <1>2, FunctionAsSeq
  <1>4. /\ g \in Seq(Byte) /\ Len(g) = Len(f) + Len(bytes)
        /\ \A i \in 1..Len(f) : g[i] = f[i]
        /\ \A i \in 1..Len(bytes) : g[Len(f) + i] = bytes[i]
    <2>1. g \in Seq(Byte) /\ Len(g) = Len(f) + Len(bytes)
      BY <1>1, Concatenation
    <2>2. \A i \in 1..Len(f) : g[i] = f[i]
      BY <1>1
    <2>3. ASSUME NEW i \in 1..Len(bytes)  PROVE g[Len(f) + i] = bytes[i]
      BY <1>1
    <2> QED  BY <2>1, <2>2, <2>3
  <1>5. t.past = s.past \o cur /\ t.cur = Zeros
    BY DEF Permuted, Sponge
  <1>6. /\ t.past \in Seq(Byte) /\ Len(t.past) = Len(s.past) + Rate
        /\ \A i \in 1..Len(s.past) : t.past[i] = s.past[i]
        /\ \A j \in 1..Rate : t.past[Len(s.past) + j] = cur[j]
    <2> HIDE DEF cur, t
    <2>1. s.past \in Seq(Byte) /\ cur \in Seq(Byte) /\ Len(cur) = Rate
      BY <1>1, <1>3
    <2>2. /\ s.past \o cur \in Seq(Byte) /\ Len(s.past \o cur) = Len(s.past) + Len(cur)
          /\ \A i \in 1..Len(s.past) : (s.past \o cur)[i] = s.past[i]
          /\ \A j \in 1..Len(cur) : (s.past \o cur)[Len(s.past) + j] = cur[j]
      BY <2>1, Concatenation
    <2> QED  BY <1>5, <2>1, <2>2
  <1>7. ASSUME NEW j \in 1..Rate  PROVE cur[j] = g[Len(s.past) + j]
    <2>1. s.cur[j] = IF j <= pos THEN f[Len(s.past) + j] ELSE {}
      BY DEF Holds
    <2>2. cur[j] = IF j - pos \in 1..Len(bytes) THEN Xor(s.cur[j], bytes[j - pos]) ELSE s.cur[j]
      BY DEF XorAt
    <2> HIDE DEF cur, g
    <2>3. CASE j <= pos
      <3>1. cur[j] = f[Len(s.past) + j]
        BY <1>1, <2>1, <2>2, <2>3
      <3>2. Len(s.past) + j \in 1..Len(f)
        BY <1>1, <2>3
      <3> QED  BY <1>1, <1>4, <3>1, <3>2
    <2>4. CASE j > pos
      <3>1. j - pos \in 1..Len(bytes)
        BY <1>1, <2>4
      <3>2. bytes[j - pos] \in Byte
        BY <3>1
      <3>3. cur[j] = bytes[j - pos]
        <4>1. s.cur[j] = {}
          BY <1>1, <2>1, <2>4
        <4> QED  BY <2>2, <3>1, <3>2, <4>1, XorType
      <3>4. Len(s.past) + j = Len(f) + (j - pos)
        BY <1>1
      <3> QED  BY <1>4, <3>1, <3>3, <3>4
    <2> QED  BY <1>1, <2>3, <2>4
  <1> HIDE DEF cur, g, t
  <1>8. \A i \in 1..Len(t.past) : t.past[i] = g[i]
    <2>1. SUFFICES ASSUME NEW i \in 1..Len(t.past)  PROVE t.past[i] = g[i]
      OBVIOUS
    <2>2. CASE i <= Len(s.past)
      <3>1. i \in 1..Len(s.past) /\ i \in 1..Len(f)
        BY <1>1, <2>2
      <3> QED  BY <1>4, <1>6, <3>1 DEF Holds
    <2>3. CASE i > Len(s.past)
      <3>1. i - Len(s.past) \in 1..Rate /\ i = Len(s.past) + (i - Len(s.past))
        BY <1>1, <1>6, <2>3
      <3> QED  BY <1>6, <1>7, <3>1
    <2> QED  BY <1>1, <1>6, <2>2, <2>3
  <1>9. Len(t.past) % Rate = 0
    <2>1. 0 \in 0..(Rate - 1) /\ Len(s.past) \in Nat
      BY <1>1
    <2>2. Len(s.past) % Rate = 0
      BY DEF Holds
    <2>3. (Len(s.past) + Rate) % Rate = 0
      BY <2>1, <2>2, BlockEnd
    <2> QED  BY <1>6, <2>3
  <1>10. Len(g) = Len(t.past) + 0 /\ 0 \in 0..(Rate - 1)
    <2>1. Len(bytes) \in Nat /\ Len(s.past) \in Nat /\ pos \in Nat /\ Rate \in Nat \ {0}
      BY <1>1
    <2>2. /\ (Len(s.past) + pos) + Len(bytes) = (Len(s.past) + Rate) + 0
          /\ 0 \in 0..(Rate - 1)
      BY <2>1, Advance
    <2>3. Len(g) = (Len(s.past) + pos) + Len(bytes)
      BY <1>1, <1>4
    <2> QED  BY <1>6, <2>2, <2>3
  <1>11. t.cur \in [1..Rate -> Byte] /\ \A j \in 1..Rate : t.cur[j] = {}
    BY <1>5 DEF Zeros, Byte
  <1>12. Holds(t, 0, g)
    <2>1. \A j \in 1..Rate : ~(j <= 0)
      BY <1>1
    <2> QED  BY <1>4, <1>6, <1>8, <1>9, <1>10, <1>11, <2>1 DEF Holds
  <1> QED  BY <1>12 DEF t, g, cur

\* The scalar loop, byte or words.
LEMMA HoldsPlaced ==
    ASSUME NEW s, NEW f, Holds(s, s.pos, f), NEW bytes \in Seq(Byte), s.pos + Len(bytes) <= Rate
    PROVE  Holds(Placed(s, s.pos, bytes), Placed(s, s.pos, bytes).pos, f \o bytes)
  <1> DEFINE x == s.pos + Len(bytes)
             t == Sponge(s.past, XorAt(s.cur, s.pos, bytes), x)
             u == Placed(s, s.pos, bytes)
  <1>1. t.pos = x /\ x \in Int /\ Rate \in Nat
    BY SpongeAssumption DEF Sponge, Holds
  <1>2. u = IF t.pos = Rate THEN Permuted(t) ELSE t
    BY DEF Placed
  <1>3. CASE x = Rate
    <2>1. Holds(Permuted(t), 0, f \o bytes)
      BY <1>3, HoldsFull
    <2>2. Permuted(t).pos = 0
      BY DEF Permuted, Sponge
    <2> HIDE DEF t, u, x
    <2> QED  BY <1>1, <1>2, <1>3, <2>1, <2>2 DEF u
  <1>4. CASE x # Rate
    <2>1. x < Rate
      BY <1>1, <1>4
    <2>2. Holds(t, x, f \o bytes)
      BY <2>1, HoldsXor
    <2> HIDE DEF t, u, x
    <2> QED  BY <1>1, <1>2, <1>4, <2>2 DEF u
  <1> QED  BY <1>3, <1>4

\* The end of absorbing.
LEMMA PaddedRight ==
    ASSUME NEW s, NEW pos, NEW f, Holds(s, pos, f), NEW domain \in Byte
    PROVE  Padded(s, pos, domain).past = f \o Padding(Len(f) % Rate, domain)
  <1> DEFINE one == XorAt(s.cur, pos, <<domain>>)
             cur == XorAt(one, Rate - 1, <<Top>>)
             pad == Padding(pos, domain)
             a == s.past \o cur
             b == f \o pad
  <1>1. /\ s.past \in Seq(Byte) /\ s.cur \in [1..Rate -> Byte] /\ f \in Seq(Byte)
        /\ pos \in 0..(Rate - 1) /\ pos \in Nat /\ Rate \in Nat \ {0} /\ Rate - 1 \in Nat
        /\ Len(f) = Len(s.past) + pos /\ Len(s.past) \in Nat
    BY HoldsFacts
  <1>2. Len(f) % Rate = pos
    <2>1. Len(s.past) % Rate = 0
      BY DEF Holds
    <2>2. (Len(s.past) + pos) % Rate = pos
      BY <1>1, <2>1, BlockEnd
    <2> QED  BY <1>1, <2>2
  <1>3. Top \in Byte /\ <<domain>> \in Seq(Byte) /\ <<Top>> \in Seq(Byte)
    BY DEF Top, Byte
  <1>4. one \in [1..Rate -> Byte]
    BY <1>1, <1>3, XorAtType
  <1>5. cur \in [1..Rate -> Byte]
    <2> HIDE DEF one
    <2> QED  BY <1>1, <1>3, <1>4, XorAtType
  <1>6. cur \in Seq(Byte) /\ Len(cur) = Rate
    <2> HIDE DEF cur
    <2> QED  BY <1>1, <1>5, FunctionAsSeq
  <1>7. /\ pad \in [1..(Rate - pos) -> Byte] /\ pad \in Seq(Byte) /\ Len(pad) = Rate - pos
        /\ \A j \in 1..(Rate - pos) :
               pad[j] = Xor(IF j = 1 THEN domain ELSE {}, IF j = Rate - pos THEN Top ELSE {})
    <2>1. \A j \in 1..(Rate - pos) :
               pad[j] = Xor(IF j = 1 THEN domain ELSE {}, IF j = Rate - pos THEN Top ELSE {})
      BY DEF Padding
    <2>2. pad = [j \in 1..(Rate - pos) |-> pad[j]]
      BY DEF Padding
    <2>3. ASSUME NEW j \in 1..(Rate - pos)  PROVE pad[j] \in Byte
      <3>1. {} \in Byte
        BY DEF Byte
      <3> HIDE DEF pad
      <3> QED  BY <1>3, <2>1, <3>1, XorType
    <2>4. pad \in [1..(Rate - pos) -> Byte]
      <3> HIDE DEF pad
      <3> QED  BY <2>2, <2>3
    <2>5. Rate - pos \in Nat
      BY <1>1
    <2>6. pad \in Seq(Byte) /\ Len(pad) = Rate - pos
      <3> HIDE DEF pad
      <3> QED  BY <2>4, <2>5, FunctionAsSeq
    <2> QED  BY <2>1, <2>4, <2>6
  <1>8. ASSUME NEW j \in 1..Rate
        PROVE  cur[j] = IF j <= pos THEN f[Len(s.past) + j] ELSE pad[j - pos]
    <2>1. s.cur[j] = IF j <= pos THEN f[Len(s.past) + j] ELSE {}
      BY DEF Holds
    <2>2. one[j] = IF j = pos + 1 THEN Xor(s.cur[j], domain) ELSE s.cur[j]
      BY <1>1 DEF XorAt
    <2>3. cur[j] = IF j = Rate THEN Xor(one[j], Top) ELSE one[j]
      <3> HIDE DEF one
      <3> QED  BY <1>1 DEF XorAt
    <2> HIDE DEF one, cur, pad
    <2>4. CASE j <= pos
      BY <1>1, <2>1, <2>2, <2>3, <2>4
    <2>5. CASE j > pos
      <3>1. j - pos \in 1..(Rate - pos)
        BY <1>1, <2>5
      <3>2. /\ j - pos = 1 <=> j = pos + 1
            /\ j - pos = Rate - pos <=> j = Rate
        BY <1>1
      <3>3. pad[j - pos] = Xor(IF j = pos + 1 THEN domain ELSE {}, IF j = Rate THEN Top ELSE {})
        BY <1>7, <3>1, <3>2
      <3>4. s.cur[j] = {}
        BY <1>1, <2>1, <2>5
      <3>5. one[j] = IF j = pos + 1 THEN domain ELSE {}
        BY <2>2, <3>4, XorType
      <3>6. one[j] \in Byte
        BY <1>4
      <3>7. cur[j] = IF j = Rate THEN Xor(one[j], Top) ELSE Xor(one[j], {})
        BY <2>3, <3>6, XorType
      <3>8. cur[j] = pad[j - pos]
        BY <3>3, <3>5, <3>7
      <3>9. ~(j <= pos)
        BY <1>1, <2>5
      <3> QED  BY <3>8, <3>9
    <2> QED  BY <1>1, <2>4, <2>5
  <1> HIDE DEF one, cur, pad
  <1>9. /\ a \in Seq(Byte) /\ Len(a) = Len(s.past) + Rate
        /\ \A k \in 1..Len(s.past) : a[k] = s.past[k]
        /\ \A j \in 1..Rate : a[Len(s.past) + j] = cur[j]
    <2>1. s.past \in Seq(Byte) /\ cur \in Seq(Byte) /\ Len(cur) = Rate
      BY <1>1, <1>6
    <2>2. /\ s.past \o cur \in Seq(Byte) /\ Len(s.past \o cur) = Len(s.past) + Len(cur)
          /\ \A k \in 1..Len(s.past) : (s.past \o cur)[k] = s.past[k]
          /\ \A j \in 1..Len(cur) : (s.past \o cur)[Len(s.past) + j] = cur[j]
      BY <2>1, Concatenation
    <2> QED  BY <2>1, <2>2
  <1>10. /\ b \in Seq(Byte) /\ Len(b) = Len(f) + (Rate - pos)
         /\ \A k \in 1..Len(f) : b[k] = f[k]
         /\ \A j \in 1..(Rate - pos) : b[Len(f) + j] = pad[j]
    <2>1. f \in Seq(Byte) /\ pad \in Seq(Byte) /\ Len(pad) = Rate - pos
      BY <1>1, <1>7
    <2>2. /\ f \o pad \in Seq(Byte) /\ Len(f \o pad) = Len(f) + Len(pad)
          /\ \A k \in 1..Len(f) : (f \o pad)[k] = f[k]
          /\ \A j \in 1..Len(pad) : (f \o pad)[Len(f) + j] = pad[j]
      BY <2>1, Concatenation
    <2> QED  BY <2>1, <2>2
  <1> HIDE DEF a, b
  <1>11. Len(a) = Len(b)
    BY <1>1, <1>9, <1>10
  <1>12. ASSUME NEW i \in 1..Len(a)  PROVE a[i] = b[i]
    <2>1. CASE i <= Len(s.past)
      <3>1. i \in 1..Len(s.past) /\ i \in 1..Len(f)
        BY <1>1, <2>1
      <3>2. s.past[i] = f[i]
        BY <3>1 DEF Holds
      <3> QED  BY <1>9, <1>10, <3>1, <3>2
    <2>2. CASE i > Len(s.past)
      <3> DEFINE j == i - Len(s.past)
      <3>1. j \in 1..Rate /\ i = Len(s.past) + j
        BY <1>1, <1>9, <2>2
      <3> HIDE DEF j
      <3>2. a[i] = cur[j]
        BY <1>9, <3>1
      <3>3. CASE j <= pos
        <4>1. i \in 1..Len(f)
          BY <1>1, <3>1, <3>3
        <4> QED  BY <1>8, <1>10, <3>1, <3>2, <3>3, <4>1
      <3>4. CASE ~(j <= pos)
        <4>1. j - pos \in 1..(Rate - pos) /\ i = Len(f) + (j - pos)
          BY <1>1, <3>1, <3>4
        <4> QED  BY <1>8, <1>10, <3>1, <3>2, <3>4, <4>1
      <3> QED  BY <3>3, <3>4
    <2> QED  BY <1>1, <1>9, <2>1, <2>2
  <1>13. a = b
    BY <1>9, <1>10, <1>11, <1>12, SeqEqual
  <1>14. Padded(s, pos, domain).past = a
    BY DEF Padded, Permuted, Sponge, a, cur, one
  <1> QED  BY <1>2, <1>13, <1>14 DEF b, pad

-----------------------------------------------------------------------------
(* The inductive invariant. *)

\* The bytes of a lane's first three slices, all that a vector MAC has there.
Slice(t, n) == IF n <= Len(t) THEN Len(t[n]) ELSE 0
Room(t) == Slice(t, 1) + Slice(t, 2) + Slice(t, 3)

TypeInv ==
    /\ job \in Jobs
    /\ stage \in {"shared", "absorb", "align", "vector", "squeeze", "done"}
    /\ todo \in [Lanes -> Seq(Seq(Byte))]
    /\ DOMAIN sponge = Lanes /\ DOMAIN fed = Lanes

StageInv ==
    /\ stage = "shared" => job.kind = "kdf"
    /\ stage \in {"shared", "absorb"} => off = 0
    /\ stage \in {"align", "vector"} => VectorMac /\ off \in 0..Len(Body(1))

\* Until the padding every sponge holds exactly what its lane consumed.
HoldInv == ~Finished => \A l \in Lanes : Holds(sponge[l], sponge[l].pos, fed[l])

\* The lanes of a vector MAC are to consume equally many bytes.
EvenInv == VectorMac /\ ~Finished => \A l \in Lanes :
    Len(todo[l]) <= 3 /\ Len(fed[l]) + Room(todo[l]) = Len(fed[1]) + Room(todo[1])

\* The vector loop starts at a word boundary, unless the body has been used up.
WordInv ==
    /\ stage = "align" => \/ (Len(fed[1]) + Room(todo[1])) % WordBytes = 0
                          \/ off = Len(Body(1))
    /\ stage = "vector" => /\ Drained
                           /\ Len(fed[1]) % WordBytes = 0 \/ off = Len(Body(1))

\* Afterwards it holds those bytes and the padding.
PaddedInv == Finished => \A l \in Lanes :
    /\ fed[l] \in Seq(Byte)
    /\ sponge[l].past = fed[l] \o Padding(Len(fed[l]) % Rate, job.domain[l])

Inv == TypeInv /\ StageInv /\ HoldInv /\ EvenInv /\ WordInv /\ PaddedInv

-----------------------------------------------------------------------------
(* Words and slices. *)

LEMMA WordsWithin ==
    ASSUME NEW a \in Nat, NEW n \in Int, n <= a \div WordBytes
    PROVE  a \div WordBytes \in Nat /\ n * WordBytes <= a
  <1> DEFINE k == a \div WordBytes
             r == a % WordBytes
  <1>1. k \in Int /\ r \in 0..(WordBytes - 1) /\ a = WordBytes * k + r /\ WordBytes \in Nat \ {0}
    BY SpongeAssumption
  <1>2. n <= k
    OBVIOUS
  <1> HIDE DEF k, r
  <1>3. k \in Nat
    <2>1. SUFFICES ASSUME -k >= 1  PROVE FALSE
      BY <1>1
    <2>2. WordBytes * (-k) >= WordBytes
      BY <1>1, <2>1, ProductAtLeast
    <2>3. WordBytes * (-k) = -(WordBytes * k)
      BY <1>1
    <2> QED  BY <1>1, <2>2, <2>3
  <1>4. k - n \in Nat /\ WordBytes * (k - n) \in Nat
    BY <1>1, <1>2
  <1>5. WordBytes * (k - n) = WordBytes * k - n * WordBytes
    BY <1>1
  <1>6. n * WordBytes \in Int /\ WordBytes * k \in Int
    BY <1>1
  <1>7. n * WordBytes <= a
    BY <1>1, <1>4, <1>5, <1>6
  <1> QED  BY <1>3, <1>7 DEF k

\* A position that is completed to a word ends at a word boundary.
LEMMA RestOfWord ==
    ASSUME NEW a \in Nat, a % WordBytes = 0, NEW p \in Nat
    PROVE  ((a + p) + (WordBytes - (p % WordBytes))) % WordBytes = 0
  <1> DEFINE k == p \div WordBytes
             r == p % WordBytes
  <1>1. PICK n \in Nat : a = WordBytes * n
    BY Divides, SpongeAssumption
  <1>2. k \in Nat /\ r \in 0..(WordBytes - 1) /\ p = WordBytes * k + r /\ WordBytes \in Nat \ {0}
    <2>1. k \in Int /\ r \in 0..(WordBytes - 1) /\ p = WordBytes * k + r /\ WordBytes \in Nat \ {0}
      BY SpongeAssumption
    <2>2. k \in Nat
      <3>1. k <= p \div WordBytes
        BY <2>1
      <3> QED  BY <2>1, <3>1, WordsWithin
    <2> QED  BY <2>1, <2>2
  <1> HIDE DEF k, r
  <1>3. (a + p) + (WordBytes - r) = WordBytes * (n + k + 1) + 0
    <2>1. WordBytes * (n + k + 1) = WordBytes * n + WordBytes * k + WordBytes
      BY <1>2
    <2>2. WordBytes * n \in Nat /\ WordBytes * k \in Nat
      BY <1>2
    <2> QED  BY <1>1, <1>2, <2>1, <2>2
  <1>4. (WordBytes * (n + k + 1) + 0) % WordBytes = 0
    <2>1. n + k + 1 \in Nat /\ 0 \in 0..(WordBytes - 1)
      BY <1>2
    <2> QED  BY <1>2, <2>1, ModUnique
  <1> QED  BY <1>3, <1>4 DEF r

LEMMA Piece ==
    ASSUME NEW s \in Seq(Byte), NEW a \in Nat, NEW n \in Nat, a + n <= Len(s)
    PROVE  SubSeq(s, a + 1, a + n) \in Seq(Byte) /\ Len(SubSeq(s, a + 1, a + n)) = n
  <1>1. \A i \in (a + 1)..(a + n) : s[i] \in Byte
    <2>1. \A i \in (a + 1)..(a + n) : i \in 1..Len(s)
      OBVIOUS
    <2> QED  BY <2>1
  <1>2. /\ SubSeq(s, a + 1, a + n) \in Seq(Byte)
        /\ Len(SubSeq(s, a + 1, a + n)) = IF a + 1 <= a + n THEN (a + n) - (a + 1) + 1 ELSE 0
    BY <1>1, SubSeqProperties
  <1> QED  BY <1>2

\* A slice is shortened, or dropped when it is used up.
LEMMA Shortened ==
    ASSUME NEW t \in Seq(Seq(Byte)), t # <<>>, NEW x \in Seq(Byte)
    PROVE  /\ <<x>> \o Tail(t) \in Seq(Seq(Byte)) /\ Len(<<x>> \o Tail(t)) = Len(t)
           /\ Room(<<x>> \o Tail(t)) + Len(t[1]) = Room(t) + Len(x)
  <1> DEFINE u == <<x>> \o Tail(t)
  <1>1. /\ Tail(t) \in Seq(Seq(Byte)) /\ Len(Tail(t)) = Len(t) - 1 /\ Len(t) \in Nat \ {0}
        /\ \A i \in 1..Len(Tail(t)) : Tail(t)[i] = t[i + 1]
    BY HeadTailProperties
  <1>2. <<x>> \in Seq(Seq(Byte)) /\ Len(<<x>>) = 1
    OBVIOUS
  <1>3. u \in Seq(Seq(Byte)) /\ Len(u) = Len(t)
    BY <1>1, <1>2
  <1>4. u[1] = x
    BY <1>1, <1>2
  <1>5. \A n \in 2..Len(t) : u[n] = t[n]
    BY <1>1, <1>2
  <1> HIDE DEF u
  <1>6. /\ Slice(u, 1) = Len(x) /\ Slice(t, 1) = Len(t[1])
        /\ Slice(u, 2) = Slice(t, 2) /\ Slice(u, 3) = Slice(t, 3)
    BY <1>1, <1>3, <1>4, <1>5 DEF Slice
  <1>7. \A n \in Nat \ {0} : Slice(t, n) \in Nat
    BY <1>1 DEF Slice
  <1>8. Len(x) \in Nat /\ Len(t[1]) \in Nat
    BY <1>1
  <1>9. Room(u) + Len(t[1]) = Room(t) + Len(x)
    BY <1>6, <1>7, <1>8 DEF Room
  <1> QED  BY <1>3, <1>9 DEF u

LEMMA Dropped ==
    ASSUME NEW t \in Seq(Seq(Byte)), t # <<>>, t[1] = <<>>
    PROVE  /\ Tail(t) \in Seq(Seq(Byte)) /\ Len(Tail(t)) <= Len(t)
           /\ Len(t) <= 3 => Room(Tail(t)) = Room(t)
  <1>1. /\ Tail(t) \in Seq(Seq(Byte)) /\ Len(Tail(t)) = Len(t) - 1 /\ Len(t) \in Nat \ {0}
        /\ \A i \in 1..Len(Tail(t)) : Tail(t)[i] = t[i + 1]
    BY HeadTailProperties
  <1> DEFINE u == Tail(t)
  <1> HIDE DEF u
  <1>2. ASSUME Len(t) <= 3  PROVE Room(u) = Room(t)
    <2>1. Slice(t, 1) = 0
      BY <1>1 DEF Slice
    <2>2. Slice(u, 1) = Slice(t, 2) /\ Slice(u, 2) = Slice(t, 3) /\ Slice(u, 3) = 0
      BY <1>1, <1>2 DEF Slice, u
    <2>3. \A n \in Nat \ {0} : Slice(t, n) \in Nat
      BY <1>1 DEF Slice
    <2> QED  BY <2>1, <2>2, <2>3 DEF Room
  <1> QED  BY <1>1, <1>2 DEF u

LEMMA NoRoom == Room(<<>>) = 0
  BY DEF Room, Slice

LEMMA RoomType == ASSUME NEW t \in Seq(Seq(Byte))  PROVE Room(t) \in Nat
  <1>1. \A n \in Nat \ {0} : Slice(t, n) \in Nat
    BY DEF Slice
  <1> QED  BY <1>1 DEF Room

-----------------------------------------------------------------------------
(* What the lanes of a vector MAC share. *)

LEMMA VectorJob ==
    ASSUME job \in Jobs, VectorMac
    PROVE  /\ job.kind = "mac"
           /\ \A l \in Lanes : /\ job.parts[l] \in Seq(Seq(Byte)) /\ Len(job.parts[l]) = 4
                               /\ Body(l) \in Seq(Byte) /\ Len(Body(l)) = Len(Body(1))
                               /\ \A n \in 1..3 :
                                      Len(job.parts[l][n]) = Len(job.parts[1][n])
           /\ Len(Body(1)) \in Nat
  <1>1. job.kind = "mac" /\ \A n \in 2..4 : Uniform(n)
    BY DEF VectorMac
  <1>2. \A l \in Lanes : /\ job.parts[l] \in Seq(Seq(Byte)) /\ Len(job.parts[l]) = 4
                         /\ Len(job.parts[l][1]) = WordBytes
    BY <1>1, JobsAssumption
  <1>3. 1 \in Lanes
    BY SpongeAssumption
  <1>4. \A l \in Lanes : Body(l) \in Seq(Byte) /\ Len(Body(l)) = Len(Body(1))
    <2>1. ASSUME NEW l \in Lanes  PROVE Body(l) \in Seq(Byte)
      <3>1. Len(job.parts[l]) = 4 /\ job.parts[l] \in Seq(Seq(Byte))
        BY <1>2
      <3>2. 4 \in 1..Len(job.parts[l])
        BY <3>1
      <3> QED  BY <3>1, <3>2, ElementOfSeq DEF Body
    <2>2. \A l \in Lanes : Len(Body(l)) = Len(Body(1))
      <3>1. Uniform(4)
        BY <1>1
      <3> QED  BY <3>1 DEF Body, Uniform
    <2> QED  BY <2>1, <2>2
  <1>5. ASSUME NEW l \in Lanes, NEW n \in 1..3
        PROVE  Len(job.parts[l][n]) = Len(job.parts[1][n])
    <2>1. CASE n = 1
      BY <1>2, <1>3, <2>1
    <2>2. CASE n # 1
      <3>1. n \in 2..4
        BY <2>2
      <3> QED  BY <1>1, <3>1 DEF Uniform
    <2> QED  BY <2>1, <2>2
  <1>6. Len(Body(1)) \in Nat
    BY <1>3, <1>4
  <1> QED  BY <1>1, <1>2, <1>4, <1>5, <1>6

\* A sponge's position is that of the bytes consumed.
LEMMA PositionOf ==
    ASSUME NEW s, NEW pos, NEW f, Holds(s, pos, f)
    PROVE  /\ pos = Len(f) % Rate
           /\ pos % WordBytes = 0 <=> Len(f) % WordBytes = 0
           /\ Len(f) % WordBytes = 0 =>
                  /\ (pos \div WordBytes) * WordBytes = pos
                  /\ ((Rate - pos) \div WordBytes) * WordBytes = Rate - pos
                  /\ (Len(f) + (Rate - pos)) % WordBytes = 0
           /\ ((Len(f) + (WordBytes - (pos % WordBytes))) % WordBytes) = 0
  <1> DEFINE a == Len(s.past)
             b == Len(f)
  <1>1. a \in Nat /\ b \in Nat /\ b = a + pos /\ pos \in 0..(Rate - 1) /\ pos \in Nat
        /\ Rate \in Nat \ {0}
    BY HoldsFacts
  <1>2. a % Rate = 0
    BY DEF Holds
  <1> HIDE DEF a, b
  <1>3. (a + pos) % Rate = pos
    BY <1>1, <1>2, BlockEnd
  <1>4. a % WordBytes = 0
    BY <1>1, <1>2, WordsOfRate
  <1>5. pos % WordBytes = 0 <=> b % WordBytes = 0
    <2>1. b >= a /\ b - a = pos
      BY <1>1
    <2> QED  BY <1>1, <1>4, <2>1, WordDifference
  <1>6. ASSUME b % WordBytes = 0
        PROVE  /\ (pos \div WordBytes) * WordBytes = pos
               /\ ((Rate - pos) \div WordBytes) * WordBytes = Rate - pos
               /\ (b + (Rate - pos)) % WordBytes = 0
    <2>1. pos % WordBytes = 0
      BY <1>5, <1>6
    <2>2. Rate % WordBytes = 0 /\ Rate >= pos /\ Rate - pos \in Nat
      BY <1>1, SpongeAssumption
    <2>3. (Rate - pos) % WordBytes = 0
      BY <1>1, <2>1, <2>2, WordDifference
    <2>4. (b + (Rate - pos)) % WordBytes = 0
      <3> DEFINE c == b + (Rate - pos)
      <3>1. c \in Nat /\ c >= b /\ c - b = Rate - pos
        BY <1>1, <2>2
      <3> HIDE DEF c
      <3>2. c % WordBytes = 0
        BY <1>1, <1>6, <2>3, <3>1, WordDifference
      <3> QED  BY <3>2 DEF c
    <2> QED  BY <1>1, <2>1, <2>2, <2>3, <2>4, WordMultiple
  <1>7. ((a + pos) + (WordBytes - (pos % WordBytes))) % WordBytes = 0
    BY <1>1, <1>4, RestOfWord
  <1>8. pos = b % Rate
    BY <1>1, <1>3
  <1>9. (b + (WordBytes - (pos % WordBytes))) % WordBytes = 0
    BY <1>1, <1>7
  <1> QED  BY <1>5, <1>6, <1>8, <1>9 DEF b

\* Once they consumed equally many bytes, the lanes are at the same position.
LEMMA SamePosition ==
    ASSUME Inv, stage = "vector"
    PROVE  /\ VectorMac
           /\ \A l \in Lanes : /\ Holds(sponge[l], RatePos, fed[l])
                               /\ Len(fed[l]) = Len(fed[1]) /\ Len(fed[l]) \in Nat
           /\ RatePos \in 0..(Rate - 1)
  <1>1. VectorMac /\ 1 \in Lanes /\ \A l \in Lanes : todo[l] = <<>>
    BY SpongeAssumption DEF Inv, StageInv, WordInv, Drained
  <1>2. \A l \in Lanes : Holds(sponge[l], sponge[l].pos, fed[l])
    BY DEF Inv, HoldInv, Finished
  <1>3. \A l \in Lanes : Len(fed[l]) \in Nat
    BY <1>2, HoldsFacts
  <1>4. \A l \in Lanes : Len(fed[l]) = Len(fed[1])
    <2>1. ~Finished
      BY DEF Finished
    <2>2. \A l \in Lanes : Len(fed[l]) + Room(todo[l]) = Len(fed[1]) + Room(todo[1])
      BY <1>1, <2>1 DEF Inv, EvenInv
    <2>3. \A l \in Lanes : Room(todo[l]) = 0
      BY <1>1, NoRoom
    <2>4. ASSUME NEW l \in Lanes  PROVE Len(fed[l]) = Len(fed[1])
      <3>1. Room(todo[l]) = 0 /\ Room(todo[1]) = 0
        BY <1>1, <2>3
      <3>2. Len(fed[l]) + Room(todo[l]) = Len(fed[1]) + Room(todo[1])
        BY <2>2
      <3>3. Len(fed[l]) \in Nat /\ Len(fed[1]) \in Nat
        BY <1>1, <1>3
      <3> QED  BY <3>1, <3>2, <3>3
    <2> QED  BY <2>4
  <1>5. \A l \in Lanes : sponge[l].pos = sponge[1].pos
    <2>1. \A l \in Lanes : sponge[l].pos = Len(fed[l]) % Rate
      BY <1>2, PositionOf
    <2> QED  BY <1>1, <1>4, <2>1
  <1>6. RatePos \in 0..(Rate - 1)
    BY <1>1, <1>2, HoldsFacts DEF RatePos
  <1> QED  BY <1>1, <1>2, <1>3, <1>4, <1>5, <1>6 DEF RatePos

-----------------------------------------------------------------------------
(* The steps. *)

LEMMA SameCall ==
    ASSUME job' = job
    PROVE  /\ VectorMac' <=> VectorMac
           /\ \A l \in Lanes : Body(l)' = Body(l)
  BY DEF VectorMac, Uniform, Body

LEMMA ConsumeStep ==
    ASSUME Inv, NEW l \in Lanes, Absorbing(l), todo[l][1] # <<>>,
           NEW n \in Nat, n <= Len(todo[l][1]), sponge[l].pos + n <= Rate,
           Consume(l, sponge[l].pos, n)
    PROVE  Inv'
  <1> DEFINE s == todo[l][1]
             bytes == SubSeq(s, 1, n)
             rest == SubSeq(s, n + 1, Len(s))
  <1>1. /\ ~Finished /\ stage # "vector" /\ todo[l] \in Seq(Seq(Byte)) /\ todo[l] # <<>>
        /\ DOMAIN todo = Lanes /\ DOMAIN sponge = Lanes /\ DOMAIN fed = Lanes
    BY DEF Absorbing, Finished, Inv, TypeInv
  <1>2. s \in Seq(Byte) /\ Len(s) \in Nat
    <2>1. 1 \in 1..Len(todo[l])
      BY <1>1, EmptySeq
    <2>2. s \in Seq(Byte)
      BY <1>1, <2>1
    <2> QED  BY <2>2
  <1>3. bytes \in Seq(Byte) /\ Len(bytes) = n
    <2>1. 0 \in Nat /\ 0 + n <= Len(s) /\ 0 + 1 = 1 /\ 0 + n = n
      BY <1>2
    <2> HIDE DEF s
    <2> QED  BY <1>2, <2>1, Piece
  <1>4. rest \in Seq(Byte) /\ Len(rest) = Len(s) - n
    <2> DEFINE m == Len(s) - n
    <2>1. m \in Nat /\ n + m = Len(s)
      BY <1>2
    <2> HIDE DEF s, m
    <2>2. SubSeq(s, n + 1, n + m) \in Seq(Byte) /\ Len(SubSeq(s, n + 1, n + m)) = m
      BY <1>2, <2>1, Piece
    <2> QED  BY <2>1, <2>2 DEF m
  <1>5. Holds(sponge[l], sponge[l].pos, fed[l])
    BY <1>1 DEF Inv, HoldInv
  <1> DEFINE placed == Placed(sponge[l], sponge[l].pos, bytes)
  <1>6. Holds(placed, placed.pos, fed[l] \o bytes)
    <2> HIDE DEF s, bytes
    <2> QED  BY <1>3, <1>5, HoldsPlaced
  <1>7. /\ sponge' = [sponge EXCEPT ![l] = placed]
        /\ fed' = [fed EXCEPT ![l] = fed[l] \o bytes]
        /\ todo' = [todo EXCEPT ![l] = <<rest>> \o Tail(todo[l])]
        /\ job' = job /\ stage' = stage /\ off' = off
    BY DEF Consume
  <1>8. /\ <<rest>> \o Tail(todo[l]) \in Seq(Seq(Byte))
        /\ Len(<<rest>> \o Tail(todo[l])) = Len(todo[l])
        /\ Room(<<rest>> \o Tail(todo[l])) + Len(s) = Room(todo[l]) + Len(rest)
    <2> HIDE DEF rest
    <2> QED  BY <1>1, <1>4, Shortened
  <1>9. /\ Len(fed[l] \o bytes) = Len(fed[l]) + n /\ Len(fed[l]) \in Nat
    <2>1. fed[l] \in Seq(Byte)
      BY <1>5, HoldsFacts
    <2> HIDE DEF bytes
    <2> QED  BY <1>3, <2>1, Concatenation
  <1> HIDE DEF s, bytes, rest, placed
  <1>10. Len(fed'[l]) + Room(todo'[l]) = Len(fed[l]) + Room(todo[l]) /\ Len(todo'[l]) = Len(todo[l])
    <2>1. fed'[l] = fed[l] \o bytes /\ todo'[l] = <<rest>> \o Tail(todo[l])
      BY <1>1, <1>7
    <2> DEFINE u == <<rest>> \o Tail(todo[l])
    <2>2. Room(u) \in Nat /\ Room(todo[l]) \in Nat /\ Room(u) + Len(s) = Room(todo[l]) + Len(rest)
      BY <1>1, <1>8, RoomType
    <2>3. Room(u) = Room(todo[l]) - n
      <3> HIDE DEF u
      <3> QED  BY <1>2, <1>4, <2>2
    <2>4. (Len(fed[l]) + n) + (Room(todo[l]) - n) = Len(fed[l]) + Room(todo[l])
      BY <1>9, <2>2
    <2>5. todo'[l] = u /\ Len(u) = Len(todo[l])
      BY <1>8, <2>1
    <2> HIDE DEF u
    <2> QED  BY <1>9, <2>1, <2>3, <2>4, <2>5
  <1>11. \A k \in Lanes : k # l => /\ fed'[k] = fed[k] /\ todo'[k] = todo[k]
                                   /\ sponge'[k] = sponge[k]
    BY <1>1, <1>7
  <1>12. \A k \in Lanes : /\ Len(fed'[k]) + Room(todo'[k]) = Len(fed[k]) + Room(todo[k])
                          /\ Len(todo'[k]) = Len(todo[k])
    BY <1>10, <1>11
  <1>13. TypeInv'
    BY <1>1, <1>7, <1>8 DEF Inv, TypeInv
  <1>14. StageInv'
    <2>1. 1 \in Lanes
      BY SpongeAssumption
    <2> QED  BY <1>7, <2>1, SameCall DEF Inv, StageInv
  <1>15. HoldInv'
    <2>1. sponge'[l] = placed /\ fed'[l] = fed[l] \o bytes
      BY <1>1, <1>7
    <2>2. \A k \in Lanes : Holds(sponge'[k], sponge'[k].pos, fed'[k])
      BY <1>1, <1>6, <1>11, <2>1 DEF Inv, HoldInv
    <2> QED  BY <2>2 DEF HoldInv
  <1>16. EvenInv'
    <2>1. 1 \in Lanes
      BY SpongeAssumption
    <2>2. VectorMac' => VectorMac
      BY <1>7, SameCall
    <2>3. VectorMac => \A k \in Lanes :
              /\ Len(todo'[k]) <= 3
              /\ Len(fed'[k]) + Room(todo'[k]) = Len(fed'[1]) + Room(todo'[1])
      BY <1>1, <1>12, <2>1 DEF Inv, EvenInv
    <2> QED  BY <2>2, <2>3 DEF EvenInv
  <1>17. WordInv'
    <2>1. 1 \in Lanes
      BY SpongeAssumption
    <2>2. Body(1)' = Body(1)
      BY <1>7, <2>1, SameCall
    <2>3. Len(fed'[1]) + Room(todo'[1]) = Len(fed[1]) + Room(todo[1])
      BY <1>12, <2>1
    <2> QED  BY <1>1, <1>7, <2>2, <2>3 DEF Inv, WordInv
  <1>18. PaddedInv'
    BY <1>1, <1>7 DEF PaddedInv, Finished
  <1> QED  BY <1>13, <1>14, <1>15, <1>16, <1>17, <1>18 DEF Inv

\* Lane l consumes the next n bytes of its slice, which fit in the rate.
AbsorbsPiece(l, n) ==
    /\ Absorbing(l) /\ todo[l][1] # <<>>
    /\ n <= Len(todo[l][1]) /\ sponge[l].pos + n <= Rate
    /\ Consume(l, sponge[l].pos, n)

LEMMA BytePiece ==
    ASSUME Inv, NEW l \in Lanes, AbsorbByte(l)  PROVE \E n \in Nat : AbsorbsPiece(l, n)
  <1>1. Absorbing(l) /\ todo[l][1] # <<>> /\ Consume(l, sponge[l].pos, 1)
    BY DEF AbsorbByte
  <1>2. todo[l] \in Seq(Seq(Byte)) /\ todo[l] # <<>> /\ ~Finished
    BY <1>1 DEF Absorbing, Finished, Inv, TypeInv
  <1>3. 1 <= Len(todo[l][1])
    <2>1. 1 \in 1..Len(todo[l])
      BY <1>2, EmptySeq
    <2>2. todo[l][1] \in Seq(Byte)
      BY <1>2, <2>1
    <2> QED  BY <1>1, <2>2, EmptySeq
  <1>4. sponge[l].pos + 1 <= Rate
    <2>1. sponge[l].pos \in 0..(Rate - 1) /\ Rate \in Nat \ {0}
      BY <1>2, HoldsFacts DEF Inv, HoldInv
    <2> QED  BY <2>1
  <1>5. 1 \in Nat
    OBVIOUS
  <1> QED  BY <1>1, <1>3, <1>4, <1>5 DEF AbsorbsPiece

LEMMA WordsPiece ==
    ASSUME Inv, NEW l \in Lanes, AbsorbWords(l)  PROVE \E n \in Nat : AbsorbsPiece(l, n)
  <1> DEFINE pos == sponge[l].pos
             len == Len(todo[l][1])
             n == WordCount(pos, len) * WordBytes
  <1>1. /\ Absorbing(l) /\ todo[l][1] # <<>> /\ ~ByteByByte(pos, len)
        /\ Consume(l, (pos \div WordBytes) * WordBytes, n)
    BY DEF AbsorbWords
  <1>2. todo[l] \in Seq(Seq(Byte)) /\ todo[l] # <<>> /\ ~Finished
    BY <1>1 DEF Absorbing, Finished, Inv, TypeInv
  <1>3. len \in Nat
    <2>1. 1 \in 1..Len(todo[l])
      BY <1>2, EmptySeq
    <2>2. todo[l][1] \in Seq(Byte)
      BY <1>2, <2>1
    <2> QED  BY <2>2
  <1>4. pos \in 0..(Rate - 1) /\ pos \in Nat /\ Rate - pos \in Nat /\ Rate \in Nat
    <2>1. pos \in 0..(Rate - 1) /\ pos \in Nat /\ Rate \in Nat \ {0}
      BY <1>2, HoldsFacts DEF Inv, HoldInv
    <2> QED  BY <2>1
  <1>5. (pos \div WordBytes) * WordBytes = pos
    <2>1. pos % WordBytes = 0
      BY <1>1 DEF ByteByByte
    <2> HIDE DEF pos
    <2> QED  BY <1>4, <2>1, WordMultiple
  <1> HIDE DEF pos, len
  <1>6. n \in Nat /\ n <= len /\ n <= Rate - pos
    <2> DEFINE a == (Rate - pos) \div WordBytes
               b == len \div WordBytes
               m == WordCount(pos, len)
    <2>1. a \in Nat /\ b \in Nat
      <3>1. WordBytes \in Nat \ {0}
        BY SpongeAssumption
      <3>2. a \in Int /\ b \in Int
        BY <1>3, <1>4, <3>1
      <3>3. a <= (Rate - pos) \div WordBytes /\ b <= len \div WordBytes
        BY <3>2
      <3>4. (Rate - pos) \div WordBytes \in Nat
        BY <1>4, <3>2, <3>3, WordsWithin
      <3>5. len \div WordBytes \in Nat
        BY <1>3, <3>2, <3>3, WordsWithin
      <3> QED  BY <3>4, <3>5
    <2>2. m = IF a <= b THEN a ELSE b
      BY DEF WordCount, Smaller
    <2>3. m \in Nat /\ m <= (Rate - pos) \div WordBytes /\ m <= len \div WordBytes
      <3> HIDE DEF m
      <3>1. m \in Nat /\ m <= a /\ m <= b
        <4> HIDE DEF a, b
        <4> QED  BY <2>1, <2>2
      <3> QED  BY <3>1
    <2> HIDE DEF m, a, b
    <2>4. m * WordBytes <= Rate - pos
      BY <1>4, <2>3, WordsWithin
    <2>5. m * WordBytes <= len
      BY <1>3, <2>3, WordsWithin
    <2>6. m * WordBytes \in Nat
      BY <2>3, SpongeAssumption
    <2> QED  BY <2>4, <2>5, <2>6 DEF m
  <1> HIDE DEF n
  <1>7. pos + n <= Rate
    BY <1>4, <1>6
  <1>8. Consume(l, pos, n)
    BY <1>1, <1>5
  <1> QED  BY <1>1, <1>6, <1>7, <1>8 DEF AbsorbsPiece, pos, len

LEMMA AbsorbStep ==
    ASSUME Inv, NEW l \in Lanes, AbsorbByte(l) \/ AbsorbWords(l)  PROVE Inv'
  <1>1. PICK n \in Nat : AbsorbsPiece(l, n)
    BY BytePiece, WordsPiece
  <1> QED  BY <1>1, ConsumeStep DEF AbsorbsPiece

LEMMA NextSliceStep == ASSUME Inv, NEW l \in Lanes, NextSlice(l)  PROVE Inv'
  <1>1. /\ ~Finished /\ stage # "vector" /\ todo[l] \in Seq(Seq(Byte)) /\ todo[l] # <<>>
        /\ todo[l][1] = <<>> /\ DOMAIN todo = Lanes /\ 1 \in Lanes
    BY SpongeAssumption DEF NextSlice, Absorbing, Finished, Inv, TypeInv
  <1>2. /\ todo' = [todo EXCEPT ![l] = Tail(todo[l])]
        /\ job' = job /\ stage' = stage /\ sponge' = sponge /\ off' = off /\ fed' = fed
    BY DEF NextSlice
  <1>3. /\ Tail(todo[l]) \in Seq(Seq(Byte)) /\ Len(Tail(todo[l])) <= Len(todo[l])
        /\ Len(todo[l]) <= 3 => Room(Tail(todo[l])) = Room(todo[l])
    BY <1>1, Dropped
  <1>4. todo'[l] = Tail(todo[l]) /\ \A k \in Lanes : k # l => todo'[k] = todo[k]
    BY <1>1, <1>2
  <1>5. TypeInv'
    BY <1>1, <1>2, <1>3 DEF Inv, TypeInv
  <1>6. StageInv'
    BY <1>1, <1>2, SameCall DEF Inv, StageInv
  <1>7. HoldInv'
    BY <1>1, <1>2 DEF Inv, HoldInv, Finished
  <1>8. VectorMac => \A k \in Lanes : Len(todo'[k]) <= 3 /\ Room(todo'[k]) = Room(todo[k])
    <2>1. SUFFICES ASSUME VectorMac, NEW k \in Lanes
                   PROVE  Len(todo'[k]) <= 3 /\ Room(todo'[k]) = Room(todo[k])
      OBVIOUS
    <2>2. Len(todo[k]) <= 3 /\ Len(todo[l]) <= 3
      BY <1>1, <2>1 DEF Inv, EvenInv
    <2>3. CASE k = l
      <3>1. Len(Tail(todo[l])) \in Nat /\ Len(todo[l]) \in Nat
        BY <1>1, <1>3
      <3>2. Len(Tail(todo[l])) <= 3
        BY <1>3, <2>2, <3>1
      <3>3. todo'[k] = Tail(todo[l]) /\ todo[k] = todo[l]
        BY <1>4, <2>3
      <3>4. Room(Tail(todo[l])) = Room(todo[l])
        BY <1>3, <2>2
      <3> QED  BY <3>2, <3>3, <3>4
    <2>4. CASE k # l
      BY <1>4, <2>2, <2>4
    <2> QED  BY <2>3, <2>4
  <1>9. EvenInv'
    <2>1. VectorMac' => VectorMac
      BY <1>2, SameCall
    <2>2. VectorMac => \A k \in Lanes :
              /\ Len(todo'[k]) <= 3
              /\ Len(fed'[k]) + Room(todo'[k]) = Len(fed'[1]) + Room(todo'[1])
      BY <1>1, <1>2, <1>8 DEF Inv, EvenInv
    <2> QED  BY <2>1, <2>2 DEF EvenInv
  <1>10. WordInv'
    <2>1. Body(1)' = Body(1)
      BY <1>1, <1>2, SameCall
    <2>2. stage = "align" => Room(todo'[1]) = Room(todo[1])
      BY <1>1, <1>8 DEF Inv, StageInv
    <2> QED  BY <1>1, <1>2, <2>1, <2>2 DEF Inv, WordInv
  <1>11. PaddedInv'
    BY <1>1, <1>2 DEF PaddedInv, Finished
  <1> QED  BY <1>5, <1>6, <1>7, <1>9, <1>10, <1>11 DEF Inv

LEMMA DivergeStep == ASSUME Inv, Diverge  PROVE Inv'
  <1>1. /\ job.kind = "kdf" /\ ~Finished /\ off = 0 /\ 1 \in Lanes /\ job \in Jobs
        /\ stage' = "absorb" /\ job' = job /\ off' = off
        /\ sponge' = [l \in Lanes |-> sponge[1]] /\ fed' = [l \in Lanes |-> fed[1]]
        /\ todo' = [l \in Lanes |-> OwnParts(l)]
    BY SpongeAssumption DEF Diverge, Finished, Inv, TypeInv, StageInv
  <1>2. ASSUME NEW l \in Lanes  PROVE OwnParts(l) \in Seq(Seq(Byte))
    <2>1. job.parts[l] \in Seq(Seq(Byte)) /\ Len(job.parts[l]) = 5
      BY <1>1, JobsAssumption
    <2>2. \A i \in 4..5 : i \in 1..Len(job.parts[l])
      BY <2>1
    <2>3. \A i \in 4..5 : job.parts[l][i] \in Seq(Byte)
      BY <2>1, <2>2, ElementOfSeq
    <2> QED  BY <2>3, SubSeqProperties DEF OwnParts
  <1>3. TypeInv'
    BY <1>1, <1>2 DEF Inv, TypeInv
  <1>4. ~VectorMac'
    BY <1>1 DEF VectorMac
  <1>5. HoldInv'
    <2>1. Holds(sponge[1], sponge[1].pos, fed[1])
      BY <1>1 DEF Inv, HoldInv
    <2>2. \A l \in Lanes : sponge'[l] = sponge[1] /\ fed'[l] = fed[1]
      BY <1>1
    <2> QED  BY <2>1, <2>2 DEF HoldInv
  <1> QED  BY <1>1, <1>3, <1>4, <1>5 DEF Inv, StageInv, EvenInv, WordInv, PaddedInv, Finished

LEMMA AlignStep == ASSUME Inv, Align  PROVE Inv'
  <1>1. /\ VectorMac /\ stage = "absorb" /\ ~Finished /\ 1 \in Lanes /\ job \in Jobs /\ off = 0
        /\ \A l \in Lanes : todo[l] = <<>>
        /\ job' = job /\ sponge' = sponge /\ fed' = fed
    BY SpongeAssumption DEF Align, Drained, Finished, Inv, TypeInv, StageInv
  <1>2. /\ Len(Body(1)) \in Nat
        /\ \A l \in Lanes : Body(l) \in Seq(Byte) /\ Len(Body(l)) = Len(Body(1))
    BY <1>1, VectorJob
  <1>3. VectorMac' /\ Body(1)' = Body(1)
    BY <1>1, SameCall
  <1>4. Holds(sponge[1], sponge[1].pos, fed[1])
    BY <1>1 DEF Inv, HoldInv
  <1>5. \A l \in Lanes : Len(fed[l]) + 0 = Len(fed[1]) + 0
    BY <1>1, NoRoom DEF Inv, EvenInv
  <1>6. Len(fed[1]) \in Nat /\ sponge[1].pos \in Nat
    BY <1>4, HoldsFacts
  <1>7. CASE sponge[1].pos % WordBytes # 0
    <2> DEFINE n == AlignLength(sponge[1].pos)
               r == sponge[1].pos % WordBytes
    <2>1. /\ stage' = "align" /\ off' = n
          /\ todo' = [l \in Lanes |-> <<SubSeq(Body(l), 1, n)>>]
      BY <1>7 DEF Align
    <2>2. r \in 0..(WordBytes - 1) /\ WordBytes \in Nat \ {0}
      BY <1>6, SpongeAssumption
    <2>3. n = IF WordBytes - r <= Len(Body(1)) THEN WordBytes - r ELSE Len(Body(1))
      BY DEF AlignLength, Smaller
    <2>4. n \in Nat /\ n <= Len(Body(1)) /\ (n = WordBytes - r \/ n = Len(Body(1)))
      <3> HIDE DEF n, r
      <3> QED  BY <1>2, <2>2, <2>3
    <2>5. (Len(fed[1]) + (WordBytes - r)) % WordBytes = 0
      BY <1>4, PositionOf
    <2> HIDE DEF n, r
    <2>6. ASSUME NEW l \in Lanes
          PROVE  /\ todo'[l] \in Seq(Seq(Byte)) /\ Len(todo'[l]) = 1 /\ Room(todo'[l]) = n
      <3> DEFINE x == SubSeq(Body(l), 1, n)
      <3>1. x \in Seq(Byte) /\ Len(x) = n
        <4>1. 0 \in Nat /\ 0 + n <= Len(Body(l)) /\ 0 + 1 = 1 /\ 0 + n = n
          BY <1>2, <2>4
        <4> QED  BY <1>2, <2>4, <4>1, Piece
      <3>2. todo'[l] = <<x>>
        BY <2>1
      <3> HIDE DEF x
      <3>3. Slice(<<x>>, 1) = n /\ Slice(<<x>>, 2) = 0 /\ Slice(<<x>>, 3) = 0
        BY <3>1 DEF Slice
      <3>4. Room(<<x>>) = n
        BY <2>4, <3>3 DEF Room
      <3> QED  BY <3>1, <3>2, <3>4
    <2>7. TypeInv'
      <3>1. todo' \in [Lanes -> Seq(Seq(Byte))]
        BY <2>1, <2>6
      <3> QED  BY <1>1, <2>1, <3>1 DEF Inv, TypeInv
    <2>8. StageInv'
      BY <1>2, <1>3, <2>1, <2>4 DEF StageInv
    <2>9. HoldInv'
      BY <1>1 DEF Inv, HoldInv
    <2>10. EvenInv'
      <3>1. \A l \in Lanes : Len(fed'[l]) = Len(fed'[1])
        <4>1. ASSUME NEW l \in Lanes  PROVE Len(fed[l]) = Len(fed[1])
          <5>1. Holds(sponge[l], sponge[l].pos, fed[l])
            BY <1>1 DEF Inv, HoldInv
          <5>2. Len(fed[l]) \in Nat
            BY <5>1, HoldsFacts
          <5>3. Len(fed[l]) + 0 = Len(fed[1]) + 0
            BY <1>5
          <5> QED  BY <1>6, <5>2, <5>3
        <4> QED  BY <1>1, <4>1
      <3>2. ASSUME NEW l \in Lanes
            PROVE  Len(todo'[l]) <= 3 /\ Room(todo'[l]) = Room(todo'[1])
        <4>1. Len(todo'[l]) = 1 /\ Room(todo'[l]) = n /\ Room(todo'[1]) = n
          BY <1>1, <2>6
        <4> QED  BY <4>1
      <3>3. \A l \in Lanes : Len(fed'[l]) + Room(todo'[l]) = Len(fed'[1]) + Room(todo'[1])
        BY <3>1, <3>2
      <3> QED  BY <3>2, <3>3 DEF EvenInv
    <2>11. WordInv'
      <3>1. Len(fed'[1]) + Room(todo'[1]) = Len(fed[1]) + n
        BY <1>1, <2>6
      <3>2. (Len(fed[1]) + n) % WordBytes = 0 \/ n = Len(Body(1))
        BY <2>4, <2>5
      <3> QED  BY <1>3, <2>1, <3>1, <3>2 DEF WordInv
    <2>12. PaddedInv'
      BY <2>1 DEF PaddedInv, Finished
    <2> QED  BY <2>7, <2>8, <2>9, <2>10, <2>11, <2>12 DEF Inv
  <1>8. CASE ~(sponge[1].pos % WordBytes # 0)
    <2>1. stage' = "vector" /\ off' = off /\ todo' = todo
      BY <1>8 DEF Align
    <2>2. Len(fed[1]) % WordBytes = 0
      BY <1>4, <1>8, PositionOf
    <2>3. TypeInv'
      BY <1>1, <2>1 DEF Inv, TypeInv
    <2>4. StageInv'
      BY <1>1, <1>2, <1>3, <2>1 DEF StageInv
    <2>5. HoldInv'
      BY <1>1 DEF Inv, HoldInv
    <2>6. EvenInv'
      BY <1>1, <2>1 DEF Inv, EvenInv
    <2>7. WordInv'
      BY <1>1, <2>1, <2>2 DEF WordInv, Drained
    <2>8. PaddedInv'
      BY <2>1 DEF PaddedInv, Finished
    <2> QED  BY <2>3, <2>4, <2>5, <2>6, <2>7, <2>8 DEF Inv
  <1> QED  BY <1>7, <1>8

LEMMA PackStep == ASSUME Inv, Pack  PROVE Inv'
  <1>1. /\ stage = "align" /\ ~Finished /\ stage' = "vector" /\ 1 \in Lanes
        /\ \A l \in Lanes : todo[l] = <<>>
        /\ job' = job /\ todo' = todo /\ sponge' = sponge /\ off' = off /\ fed' = fed
    BY SpongeAssumption DEF Pack, Drained, Finished
  <1>2. VectorMac /\ (VectorMac' <=> VectorMac) /\ Body(1)' = Body(1)
    BY <1>1, SameCall DEF Inv, StageInv
  <1>3. TypeInv'
    BY <1>1 DEF Inv, TypeInv
  <1>4. StageInv'
    BY <1>1, <1>2 DEF Inv, StageInv
  <1>5. HoldInv'
    BY <1>1 DEF Inv, HoldInv
  <1>6. EvenInv'
    BY <1>1, <1>2 DEF Inv, EvenInv
  <1>7. WordInv'
    <2>1. (Len(fed[1]) + Room(todo[1])) % WordBytes = 0 \/ off = Len(Body(1))
      BY <1>1 DEF Inv, WordInv
    <2>2. Len(fed[1]) + Room(todo[1]) = Len(fed[1])
      <3>1. Holds(sponge[1], sponge[1].pos, fed[1])
        BY <1>1 DEF Inv, HoldInv
      <3>2. Len(fed[1]) \in Nat
        BY <3>1, HoldsFacts
      <3> QED  BY <1>1, <3>2, NoRoom
    <2> QED  BY <1>1, <1>2, <2>1, <2>2 DEF WordInv, Drained
  <1>8. PaddedInv'
    BY <1>1 DEF PaddedInv, Finished
  <1> QED  BY <1>3, <1>4, <1>5, <1>6, <1>7, <1>8 DEF Inv

\* A vector block fills the rate with whole words of the body.
LEMMA VectorFill ==
    ASSUME Inv, VectorBlock
    PROVE  /\ Drained
           /\ (RatePos \div WordBytes) * WordBytes = RatePos
           /\ (Fill \div WordBytes) * WordBytes = Fill
           /\ (Len(fed[1]) + Fill) % WordBytes = 0
           /\ Fill \in Nat /\ RatePos + Fill = Rate
           /\ off \in Nat /\ off + Fill <= Len(Body(1))
  <1>1. stage = "vector" /\ off < Len(Body(1)) /\ Len(Body(1)) - off >= Fill
    BY DEF VectorBlock, BlockLeft
  <1>2. /\ VectorMac /\ RatePos \in 0..(Rate - 1)
        /\ \A l \in Lanes : Holds(sponge[l], RatePos, fed[l])
    BY <1>1, SamePosition
  <1>3. 1 \in Lanes /\ Rate \in Nat \ {0}
    BY SpongeAssumption
  <1>4. off \in 0..Len(Body(1)) /\ Drained /\ Len(fed[1]) % WordBytes = 0
    <2>1. off \in 0..Len(Body(1)) /\ Drained
      BY <1>1 DEF Inv, StageInv, WordInv
    <2>2. off # Len(Body(1))
      BY <1>1, <2>1
    <2> QED  BY <1>1, <2>1, <2>2 DEF Inv, WordInv
  <1>5. /\ (RatePos \div WordBytes) * WordBytes = RatePos
        /\ (Fill \div WordBytes) * WordBytes = Fill
        /\ (Len(fed[1]) + Fill) % WordBytes = 0
    <2> DEFINE s == sponge[1]
               pos == RatePos
               f == fed[1]
    <2>1. Holds(s, pos, f) /\ Len(f) % WordBytes = 0
      BY <1>2, <1>3, <1>4
    <2> HIDE DEF s, pos, f
    <2>2. /\ (pos \div WordBytes) * WordBytes = pos
          /\ ((Rate - pos) \div WordBytes) * WordBytes = Rate - pos
          /\ (Len(f) + (Rate - pos)) % WordBytes = 0
      BY <2>1, PositionOf
    <2>3. Fill = Rate - pos
      BY DEF Fill, pos
    <2> QED  BY <2>2, <2>3 DEF pos, f
  <1>6. Fill \in Nat /\ RatePos + Fill = Rate
    BY <1>2, <1>3 DEF Fill
  <1>7. Len(Body(1)) \in Nat
    BY <1>2, VectorJob DEF Inv, TypeInv
  <1>8. off \in Nat /\ off + Fill <= Len(Body(1))
    BY <1>1, <1>4, <1>6, <1>7
  <1> QED  BY <1>4, <1>5, <1>6, <1>8

LEMMA VectorBlockStep == ASSUME Inv, VectorBlock  PROVE Inv'
  <1> DEFINE at == (RatePos \div WordBytes) * WordBytes
             new(l) == Permuted(Sponge(sponge[l].past, XorAt(sponge[l].cur, at, VectorBytes(l)), 0))
  <1>1. /\ stage = "vector" /\ ~Finished
        /\ stage' = stage /\ job' = job /\ todo' = todo /\ off' = off + Fill
        /\ sponge' = [l \in Lanes |-> new(l)]
        /\ fed' = [l \in Lanes |-> fed[l] \o VectorBytes(l)]
    BY DEF VectorBlock, Finished
  <1>2. /\ VectorMac /\ RatePos \in 0..(Rate - 1)
        /\ \A l \in Lanes : /\ Holds(sponge[l], RatePos, fed[l])
                            /\ Len(fed[l]) = Len(fed[1]) /\ Len(fed[l]) \in Nat
    BY <1>1, SamePosition
  <1>3. 1 \in Lanes /\ Rate \in Nat \ {0}
    BY SpongeAssumption
  <1>4. Drained
    BY VectorFill
  <1>5. /\ at = RatePos
        /\ (Fill \div WordBytes) * WordBytes = Fill
        /\ (Len(fed[1]) + Fill) % WordBytes = 0
    BY VectorFill
  <1>6. Fill \in Nat /\ RatePos + Fill = Rate
    BY VectorFill
  <1>7. /\ Len(Body(1)) \in Nat /\ off \in Nat /\ off + Fill <= Len(Body(1))
        /\ \A l \in Lanes : Body(l) \in Seq(Byte) /\ Len(Body(l)) = Len(Body(1))
    <2>1. /\ Len(Body(1)) \in Nat
          /\ \A l \in Lanes : Body(l) \in Seq(Byte) /\ Len(Body(l)) = Len(Body(1))
      BY <1>2, VectorJob DEF Inv, TypeInv
    <2> QED  BY <2>1, VectorFill
  <1> HIDE DEF at
  <1>8. ASSUME NEW l \in Lanes
        PROVE  VectorBytes(l) \in Seq(Byte) /\ Len(VectorBytes(l)) = Fill
    <2>1. VectorBytes(l) = SubSeq(Body(l), off + 1, off + Fill)
      BY <1>5 DEF VectorBytes
    <2> QED  BY <1>6, <1>7, <2>1, Piece
  <1>9. ASSUME NEW l \in Lanes
        PROVE  Holds(new(l), 0, fed[l] \o VectorBytes(l)) /\ new(l).pos = 0
    <2>1. RatePos + Len(VectorBytes(l)) = Rate
      BY <1>6, <1>8
    <2>2. Holds(new(l), 0, fed[l] \o VectorBytes(l))
      BY <1>2, <1>5, <1>8, <2>1, HoldsFull
    <2>3. new(l).pos = 0
      BY DEF Permuted, Sponge
    <2> QED  BY <2>2, <2>3
  <1>10. ASSUME NEW l \in Lanes  PROVE Len(fed'[l]) = Len(fed[1]) + Fill
    <2>1. fed[l] \in Seq(Byte)
      BY <1>2, HoldsFacts
    <2>2. Len(fed[l] \o VectorBytes(l)) = Len(fed[l]) + Len(VectorBytes(l))
      BY <1>8, <2>1, Concatenation
    <2>3. fed'[l] = fed[l] \o VectorBytes(l)
      BY <1>1
    <2> QED  BY <1>2, <1>8, <2>2, <2>3
  <1> HIDE DEF new
  <1>11. (VectorMac' <=> VectorMac) /\ Body(1)' = Body(1)
    BY <1>1, <1>3, SameCall
  <1>12. TypeInv'
    BY <1>1 DEF Inv, TypeInv
  <1>13. StageInv'
    <2>1. off' \in 0..Len(Body(1))
      BY <1>1, <1>6, <1>7
    <2> QED  BY <1>1, <1>2, <1>11, <2>1 DEF StageInv
  <1>14. HoldInv'
    <2>1. \A l \in Lanes : sponge'[l] = new(l) /\ fed'[l] = fed[l] \o VectorBytes(l)
      BY <1>1
    <2>2. \A l \in Lanes : Holds(sponge'[l], sponge'[l].pos, fed'[l])
      BY <1>9, <2>1
    <2> QED  BY <2>2 DEF HoldInv
  <1>15. EvenInv'
    <2>1. \A l \in Lanes : todo'[l] = <<>>
      BY <1>1, <1>4 DEF Drained
    <2>2. \A l \in Lanes : Len(todo'[l]) <= 3 /\ Room(todo'[l]) = Room(todo'[1])
      BY <1>3, <2>1
    <2>3. \A l \in Lanes : Len(fed'[l]) = Len(fed'[1])
      BY <1>3, <1>10
    <2> QED  BY <2>2, <2>3 DEF EvenInv
  <1>16. WordInv'
    <2>1. Len(fed'[1]) % WordBytes = 0
      BY <1>3, <1>5, <1>10
    <2>2. Drained'
      BY <1>1, <1>4 DEF Drained
    <2> QED  BY <1>1, <2>1, <2>2 DEF WordInv
  <1>17. PaddedInv'
    BY <1>1 DEF PaddedInv, Finished
  <1> QED  BY <1>12, <1>13, <1>14, <1>15, <1>16, <1>17 DEF Inv

\* The last step of absorbing leaves nothing but the bytes and the padding.
LEMMA AbsorbedInv ==
    ASSUME Inv, stage' = "squeeze", job' = job, todo' = todo, off' = off,
           DOMAIN sponge' = Lanes, DOMAIN fed' = Lanes,
           \A l \in Lanes : /\ fed'[l] \in Seq(Byte)
                            /\ sponge'[l].past =
                                   fed'[l] \o Padding(Len(fed'[l]) % Rate, job.domain[l])
    PROVE  Inv'
  <1>1. TypeInv'
    BY DEF Inv, TypeInv
  <1>2. PaddedInv'
    BY DEF PaddedInv
  <1> QED  BY <1>1, <1>2 DEF Inv, StageInv, HoldInv, EvenInv, WordInv, Finished

LEMMA DomainType == ASSUME job \in Jobs, NEW l \in Lanes
                    PROVE  job.domain[l] \in Byte /\ job.domain[l] # {} /\ 7 \notin job.domain[l]
  <1>1. job.domain \in [Lanes -> {DomainHash, DomainKdf, DomainMac}]
    BY JobsAssumption
  <1>2. job.domain[l] \in {DomainHash, DomainKdf, DomainMac}
    BY <1>1
  <1> QED  BY <1>2 DEF DomainHash, DomainKdf, DomainMac, Byte

LEMMA FinalizeStep == ASSUME Inv, Finalize  PROVE Inv'
  <1>1. /\ stage = "absorb" /\ ~Finished /\ stage' = "squeeze" /\ job \in Jobs
        /\ job' = job /\ todo' = todo /\ off' = off /\ fed' = fed /\ DOMAIN fed = Lanes
        /\ sponge' = [l \in Lanes |-> Padded(sponge[l], sponge[l].pos, job.domain[l])]
    BY DEF Finalize, Finished, Inv, TypeInv
  <1>2. ASSUME NEW l \in Lanes
        PROVE  /\ fed'[l] \in Seq(Byte)
               /\ sponge'[l].past = fed'[l] \o Padding(Len(fed'[l]) % Rate, job.domain[l])
    <2>1. Holds(sponge[l], sponge[l].pos, fed[l]) /\ fed[l] \in Seq(Byte)
      <3>1. Holds(sponge[l], sponge[l].pos, fed[l])
        BY <1>1 DEF Inv, HoldInv
      <3> QED  BY <3>1, HoldsFacts
    <2>2. job.domain[l] \in Byte
      BY <1>1, DomainType
    <2>3. Padded(sponge[l], sponge[l].pos, job.domain[l]).past
            = fed[l] \o Padding(Len(fed[l]) % Rate, job.domain[l])
      <3> DEFINE s == sponge[l]
                 pos == s.pos
                 f == fed[l]
                 d == job.domain[l]
      <3>1. Holds(s, pos, f) /\ d \in Byte
        BY <2>1, <2>2
      <3> HIDE DEF s, pos, f, d
      <3>2. Padded(s, pos, d).past = f \o Padding(Len(f) % Rate, d)
        BY <3>1, PaddedRight
      <3> QED  BY <3>2 DEF s, pos, f, d
    <2>4. sponge'[l] = Padded(sponge[l], sponge[l].pos, job.domain[l])
      BY <1>1
    <2> QED  BY <1>1, <2>1, <2>3, <2>4
  <1>3. DOMAIN sponge' = Lanes
    BY <1>1
  <1> QED  BY <1>1, <1>2, <1>3, AbsorbedInv

LEMMA VectorTailStep == ASSUME Inv, VectorTail  PROVE Inv'
  <1> DEFINE rest(l) == SubSeq(Body(l), off + 1, Len(Body(1)))
             full(l) == Sponge(sponge[l].past, XorAt(sponge[l].cur, RatePos, rest(l)), 0)
             pad(l) == Padded(full(l), RatePos + Len(rest(l)), job.domain[l])
  <1>1. /\ stage = "vector" /\ ~Finished /\ job \in Jobs
        /\ ~(off < Len(Body(1)) /\ Len(Body(1)) - off >= Fill)
        /\ stage' = "squeeze" /\ job' = job /\ todo' = todo /\ off' = off
        /\ sponge' = [l \in Lanes |-> pad(l)]
        /\ fed' = [l \in Lanes |-> fed[l] \o rest(l)]
    BY DEF VectorTail, BlockLeft, Finished, Inv, TypeInv
  <1>2. /\ VectorMac /\ RatePos \in 0..(Rate - 1)
        /\ \A l \in Lanes : Holds(sponge[l], RatePos, fed[l])
    BY <1>1, SamePosition
  <1>3. /\ Len(Body(1)) \in Nat
        /\ \A l \in Lanes : Body(l) \in Seq(Byte) /\ Len(Body(l)) = Len(Body(1))
    BY <1>1, <1>2, VectorJob
  <1>4. off \in 0..Len(Body(1)) /\ Rate \in Nat \ {0}
    BY <1>1, SpongeAssumption DEF Inv, StageInv
  <1> DEFINE n == Len(Body(1)) - off
  <1>5. n \in Nat /\ off + n = Len(Body(1)) /\ off \in Nat
    BY <1>3, <1>4
  <1>6. RatePos + n < Rate
    <2>1. Fill = Rate - RatePos /\ Fill \in Nat \ {0}
      BY <1>2, <1>4 DEF Fill
    <2>2. n < Fill
      BY <1>1, <1>3, <1>4, <2>1
    <2> HIDE DEF n
    <2> QED  BY <1>2, <1>4, <1>5, <2>1, <2>2
  <1> HIDE DEF n
  <1>7. ASSUME NEW l \in Lanes  PROVE rest(l) \in Seq(Byte) /\ Len(rest(l)) = n
    <2>1. rest(l) = SubSeq(Body(l), off + 1, off + n)
      BY <1>5
    <2>2. off + n <= Len(Body(l))
      BY <1>3, <1>5
    <2> HIDE DEF rest
    <2> QED  BY <1>3, <1>5, <2>1, <2>2, Piece
  <1> HIDE DEF rest
  <1>8. ASSUME NEW l \in Lanes
        PROVE  /\ fed'[l] \in Seq(Byte)
               /\ sponge'[l].past = fed'[l] \o Padding(Len(fed'[l]) % Rate, job.domain[l])
    <2>1. RatePos + Len(rest(l)) < Rate
      BY <1>6, <1>7
    <2>2. Holds(full(l), RatePos + Len(rest(l)), fed[l] \o rest(l))
      BY <1>2, <1>7, <2>1, HoldsXor
    <2>3. job.domain[l] \in Byte
      BY <1>1, DomainType
    <2> HIDE DEF full
    <2>4. pad(l).past = (fed[l] \o rest(l))
                          \o Padding(Len(fed[l] \o rest(l)) % Rate, job.domain[l])
      BY <2>2, <2>3, PaddedRight
    <2>5. sponge'[l] = pad(l) /\ fed'[l] = fed[l] \o rest(l)
      BY <1>1
    <2> HIDE DEF pad
    <2>6. fed[l] \o rest(l) \in Seq(Byte)
      BY <2>2, HoldsFacts
    <2> QED  BY <2>4, <2>5, <2>6
  <1>9. DOMAIN sponge' = Lanes /\ DOMAIN fed' = Lanes
    BY <1>1
  <1> QED  BY <1>1, <1>8, <1>9, AbsorbedInv

\* Squeezing does not touch what was absorbed.
LEMMA SqueezeStep ==
    ASSUME Inv, Finished, stage' \in {"squeeze", "done"},
           UNCHANGED <<job, todo, sponge, off, fed>>
    PROVE  Inv'
  <1>1. TypeInv'
    BY DEF Inv, TypeInv
  <1>2. PaddedInv'
    BY DEF Inv, PaddedInv
  <1> QED  BY <1>1, <1>2 DEF Inv, StageInv, HoldInv, EvenInv, WordInv, Finished

LEMMA UnchangedStep == ASSUME Inv, UNCHANGED vars  PROVE Inv'
  <1>1. job' = job /\ 1 \in Lanes
    BY SpongeAssumption DEF vars
  <1>2. (VectorMac' <=> VectorMac) /\ Body(1)' = Body(1)
    BY <1>1, SameCall
  <1>3. TypeInv' /\ StageInv' /\ HoldInv' /\ PaddedInv'
    BY <1>2 DEF Inv, TypeInv, StageInv, HoldInv, PaddedInv, Finished, vars
  <1>4. EvenInv' /\ WordInv'
    BY <1>2 DEF Inv, EvenInv, WordInv, Drained, Finished, vars
  <1> QED  BY <1>3, <1>4 DEF Inv

LEMMA Step == ASSUME Inv, [Next]_vars  PROVE Inv'
  <1>1. ASSUME NEW l \in Lanes, AbsorbByte(l) \/ AbsorbWords(l) \/ NextSlice(l)  PROVE Inv'
    BY <1>1, AbsorbStep, NextSliceStep
  <1>2. ASSUME NEW l \in Lanes, SqueezeLane(l)  PROVE Inv'
    BY <1>2, SqueezeStep DEF SqueezeLane, Finished
  <1>3. CASE Diverge \/ Align \/ Pack
    BY <1>3, DivergeStep, AlignStep, PackStep
  <1>4. CASE VectorBlock \/ VectorTail \/ Finalize
    BY <1>4, VectorBlockStep, VectorTailStep, FinalizeStep
  <1>5. CASE SqueezeVector
    BY <1>5, SqueezeStep DEF SqueezeVector, Finished
  <1>6. CASE Return
    BY <1>6, SqueezeStep DEF Return, Finished
  <1>7. CASE UNCHANGED vars
    BY <1>7, UnchangedStep
  <1> QED  BY <1>1, <1>2, <1>3, <1>4, <1>5, <1>6, <1>7 DEF Next

LEMMA FirstThree ==
    ASSUME NEW t \in Seq(Seq(Byte)), Len(t) >= 3
    PROVE  /\ SubSeq(t, 1, 3) \in Seq(Seq(Byte)) /\ Len(SubSeq(t, 1, 3)) = 3
           /\ Room(SubSeq(t, 1, 3)) = Len(t[1]) + Len(t[2]) + Len(t[3])
  <1>1. \A i \in 1..3 : i \in 1..Len(t)
    OBVIOUS
  <1>2. \A i \in 1..3 : t[i] \in Seq(Byte)
    BY <1>1, ElementOfSeq
  <1>3. /\ SubSeq(t, 1, 3) \in Seq(Seq(Byte)) /\ Len(SubSeq(t, 1, 3)) = 3
        /\ \A i \in 1..3 : SubSeq(t, 1, 3)[i] = t[i]
    <2>1. /\ SubSeq(t, 1, 3) \in Seq(Seq(Byte))
          /\ Len(SubSeq(t, 1, 3)) = IF 1 <= 3 THEN 3 - 1 + 1 ELSE 0
          /\ \A i \in 1..(3 - 1 + 1) : SubSeq(t, 1, 3)[i] = t[1 + i - 1]
      BY <1>2, SubSeqProperties
    <2> QED  BY <2>1
  <1> DEFINE u == SubSeq(t, 1, 3)
  <1> HIDE DEF u
  <1>4. Slice(u, 1) = Len(t[1]) /\ Slice(u, 2) = Len(t[2]) /\ Slice(u, 3) = Len(t[3])
    BY <1>3 DEF Slice, u
  <1>5. Room(u) = Len(t[1]) + Len(t[2]) + Len(t[3])
    BY <1>4 DEF Room
  <1> QED  BY <1>3, <1>5 DEF u

LEMMA InitInv == ASSUME Init  PROVE Inv
  <1>1. /\ job \in Jobs /\ 1 \in Lanes /\ off = 0
        /\ stage = IF job.kind = "kdf" THEN "shared" ELSE "absorb"
        /\ sponge = [l \in Lanes |-> NewSponge] /\ fed = [l \in Lanes |-> <<>>]
    BY SpongeAssumption DEF Init
  <1>2. \A l \in Lanes : job.parts[l] \in Seq(Seq(Byte))
    BY <1>1, JobsAssumption
  <1>3. ASSUME NEW l \in Lanes  PROVE todo[l] \in Seq(Seq(Byte))
    <2>1. CASE job.kind = "kdf"
      <3>1. todo[l] = IF l = 1 THEN SubSeq(job.parts[1], 1, 3) ELSE <<>>
        BY <2>1 DEF Init, VectorMac
      <3>2. Len(job.parts[1]) >= 3 /\ job.parts[1] \in Seq(Seq(Byte))
        <4>1. Len(job.parts[1]) = 5
          BY <1>1, <2>1, JobsAssumption
        <4> QED  BY <1>1, <1>2, <4>1
      <3>3. SubSeq(job.parts[1], 1, 3) \in Seq(Seq(Byte))
        BY <3>2, FirstThree
      <3>4. <<>> \in Seq(Seq(Byte))
        OBVIOUS
      <3> QED  BY <3>1, <3>3, <3>4
    <2>2. CASE VectorMac
      <3>1. todo[l] = SubSeq(job.parts[l], 1, 3)
        BY <2>2 DEF Init, VectorMac
      <3>2. Len(job.parts[l]) >= 3
        <4>1. Len(job.parts[l]) = 4
          BY <1>1, <2>2, VectorJob
        <4> QED  BY <4>1
      <3> QED  BY <1>2, <3>1, <3>2, FirstThree
    <2>3. CASE job.kind = "mac" /\ ~VectorMac
      <3> DEFINE t == job.parts[l]
      <3>1. todo[l] = <<t[1], t[2], t[3] \o t[4]>>
        BY <2>3 DEF Init
      <3>2. t \in Seq(Seq(Byte)) /\ Len(t) = 4
        BY <1>1, <1>2, <2>3, JobsAssumption
      <3> HIDE DEF t
      <3>3. \A i \in 1..4 : t[i] \in Seq(Byte)
        BY <3>2, ElementOfSeq
      <3>4. t[3] \o t[4] \in Seq(Byte)
        BY <3>3, Concatenation
      <3>5. <<t[1], t[2], t[3] \o t[4]>> \in Seq(Seq(Byte))
        BY <3>3, <3>4
      <3> QED  BY <3>1, <3>5
    <2>4. CASE job.kind # "kdf" /\ job.kind # "mac"
      <3>1. todo[l] = job.parts[l]
        BY <2>4 DEF Init, VectorMac
      <3> QED  BY <1>2, <3>1
    <2> QED  BY <2>1, <2>2, <2>3, <2>4
  <1>4. TypeInv
    <2>1. todo = [l \in Lanes |-> todo[l]]
      BY DEF Init
    <2>2. todo \in [Lanes -> Seq(Seq(Byte))]
      BY <1>3, <2>1
    <2> QED  BY <1>1, <2>2 DEF TypeInv
  <1>5. StageInv
    BY <1>1 DEF StageInv
  <1>6. HoldInv
    <2>1. NewSponge.pos = 0
      BY DEF NewSponge, Sponge
    <2> QED  BY <1>1, <2>1, HoldsNew DEF HoldInv
  <1>7. EvenInv
    <2>1. SUFFICES ASSUME VectorMac, NEW l \in Lanes
                   PROVE  /\ Len(todo[l]) <= 3
                          /\ Len(fed[l]) + Room(todo[l]) = Len(fed[1]) + Room(todo[1])
      BY DEF EvenInv
    <2>2. ASSUME NEW k \in Lanes
          PROVE  /\ todo[k] = SubSeq(job.parts[k], 1, 3) /\ Len(todo[k]) = 3
                 /\ Room(todo[k]) = Len(job.parts[1][1]) + Len(job.parts[1][2])
                                      + Len(job.parts[1][3])
      <3>1. todo[k] = SubSeq(job.parts[k], 1, 3)
        BY <2>1 DEF Init, VectorMac
      <3>2. Len(job.parts[k]) >= 3 /\ job.parts[k] \in Seq(Seq(Byte))
        <4>1. Len(job.parts[k]) = 4
          BY <1>1, <2>1, VectorJob
        <4> QED  BY <1>2, <4>1
      <3>3. /\ Len(job.parts[k][1]) = Len(job.parts[1][1])
            /\ Len(job.parts[k][2]) = Len(job.parts[1][2])
            /\ Len(job.parts[k][3]) = Len(job.parts[1][3])
        BY <1>1, <2>1, VectorJob
      <3> QED  BY <3>1, <3>2, <3>3, FirstThree
    <2>3. fed[l] = <<>> /\ fed[1] = <<>>
      BY <1>1
    <2>4. Room(todo[l]) = Room(todo[1]) /\ Len(todo[l]) = 3
      BY <1>1, <2>2
    <2> QED  BY <2>3, <2>4
  <1>8. WordInv /\ PaddedInv
    BY <1>1 DEF WordInv, PaddedInv, Finished
  <1> QED  BY <1>4, <1>5, <1>6, <1>7, <1>8 DEF Inv

\* Whatever a call absorbs, byte by byte, by words, across slices, in a clone
\* or in a lane of a vector, every sponge is fed exactly the bytes its lane
\* consumed and one padding.
THEOREM AbsorbsWhatItConsumes == Spec => []AbsorbsPadded
  <1>1. Init => Inv
    BY InitInv
  <1>2. Inv /\ [Next]_vars => Inv'
    BY Step
  <1>3. Inv => AbsorbsPadded
    BY DEF Inv, PaddedInv, AbsorbsPadded
  <1> QED  BY <1>1, <1>2, <1>3, PTL DEF Spec

-----------------------------------------------------------------------------
(* The padding separates. *)

LEMMA XorCancels ==
    ASSUME NEW a \in Byte, NEW b \in Byte, NEW c \in Byte, Xor(a, c) = Xor(b, c)
    PROVE  a = b
  BY DEF Xor, Byte

\* A byte of the padding, and its first one.
LEMMA PaddingBytes ==
    ASSUME NEW n \in 0..(Rate - 1), NEW d \in Byte
    PROVE  LET pad == Padding(n, d) IN
           /\ pad \in Seq(Byte) /\ Len(pad) = Rate - n
           /\ \A j \in 1..(Rate - n) :
                  pad[j] = Xor(IF j = 1 THEN d ELSE {}, IF j = Rate - n THEN Top ELSE {})
  <1> DEFINE pad == Padding(n, d)
  <1>1. \A j \in 1..(Rate - n) :
            pad[j] = Xor(IF j = 1 THEN d ELSE {}, IF j = Rate - n THEN Top ELSE {})
    BY DEF Padding
  <1>2. pad = [j \in 1..(Rate - n) |-> pad[j]]
    BY DEF Padding
  <1> HIDE DEF pad
  <1>3. Top \in Byte /\ {} \in Byte
    BY DEF Top, Byte
  <1>4. ASSUME NEW j \in 1..(Rate - n)  PROVE pad[j] \in Byte
    BY <1>1, <1>3, XorType
  <1>5. pad \in [1..(Rate - n) -> Byte]
    BY <1>2, <1>4
  <1>6. Rate - n \in Nat
    BY SpongeAssumption
  <1>7. pad \in Seq(Byte) /\ Len(pad) = Rate - n
    BY <1>5, <1>6, FunctionAsSeq
  <1> QED  BY <1>1, <1>7 DEF pad

\* The first byte of the padding is the domain's, whatever else is there.
LEMMA DomainShows ==
    ASSUME NEW d \in Byte, d # {}, 7 \notin d
    PROVE  Xor(d, Top) # Xor({}, Top) /\ Xor(d, {}) # Xor({}, {})
  BY DEF Xor, Top, Byte

LEMMA NotShorter ==
    ASSUME NEW f \in Seq(Byte), NEW g \in Seq(Byte), NEW d \in Byte, NEW e \in Byte,
           e # {}, 7 \notin e,
           f \o Padding(Len(f) % Rate, d) = g \o Padding(Len(g) % Rate, e)
    PROVE  ~(Len(f) < Len(g)) /\ (Len(f) = Len(g) => f = g)
  <1> DEFINE n == Len(f) % Rate
             m == Len(g) % Rate
             p == Padding(n, d)
             q == Padding(m, e)
  <1>1. Rate \in Nat \ {0} /\ Len(f) \in Nat /\ Len(g) \in Nat
    BY SpongeAssumption
  <1>2. n \in 0..(Rate - 1) /\ m \in 0..(Rate - 1)
    BY <1>1
  <1>3. /\ p \in Seq(Byte) /\ Len(p) = Rate - n
        /\ \A j \in 1..(Rate - n) :
               p[j] = Xor(IF j = 1 THEN d ELSE {}, IF j = Rate - n THEN Top ELSE {})
        /\ q \in Seq(Byte) /\ Len(q) = Rate - m
        /\ \A j \in 1..(Rate - m) :
               q[j] = Xor(IF j = 1 THEN e ELSE {}, IF j = Rate - m THEN Top ELSE {})
    <2> HIDE DEF n, m
    <2> QED  BY <1>2, PaddingBytes
  <1>4. f \o p = g \o q
    OBVIOUS
  <1> HIDE DEF n, m, p, q
  <1>5. /\ Len(f \o p) = Len(f) + (Rate - n) /\ Len(g \o q) = Len(g) + (Rate - m)
        /\ \A i \in 1..Len(f) : (f \o p)[i] = f[i]
        /\ \A i \in 1..Len(g) : (g \o q)[i] = g[i]
        /\ \A j \in 1..(Rate - n) : (f \o p)[Len(f) + j] = p[j]
        /\ \A j \in 1..(Rate - m) : (g \o q)[Len(g) + j] = q[j]
    <2>1. /\ Len(f \o p) = Len(f) + Len(p)
          /\ \A i \in 1..Len(f) : (f \o p)[i] = f[i]
          /\ \A j \in 1..Len(p) : (f \o p)[Len(f) + j] = p[j]
      BY <1>3, Concatenation
    <2>2. /\ Len(g \o q) = Len(g) + Len(q)
          /\ \A i \in 1..Len(g) : (g \o q)[i] = g[i]
          /\ \A j \in 1..Len(q) : (g \o q)[Len(g) + j] = q[j]
      BY <1>3, Concatenation
    <2> QED  BY <1>3, <2>1, <2>2
  <1>6. Len(f) - n = Len(g) - m
    BY <1>1, <1>2, <1>4, <1>5
  <1>7. ASSUME Len(f) < Len(g)  PROVE FALSE
    <2> DEFINE j == (m - n) + 1
    <2>1. j \in 1..(Rate - n) /\ j # 1 /\ Len(f) + j = Len(g) + 1 /\ 1 \in 1..(Rate - m)
      BY <1>1, <1>2, <1>6, <1>7
    <2>2. j = Rate - n <=> 1 = Rate - m
      BY <1>1, <1>2
    <2> HIDE DEF j
    <2>3. p[j] = q[1]
      BY <1>4, <1>5, <2>1
    <2>4. /\ p[j] = Xor({}, IF 1 = Rate - m THEN Top ELSE {})
          /\ q[1] = Xor(e, IF 1 = Rate - m THEN Top ELSE {})
      BY <1>3, <2>1, <2>2
    <2> QED  BY <2>3, <2>4, DomainShows
  <1>8. ASSUME Len(f) = Len(g)  PROVE f = g
    <2>1. \A i \in 1..Len(f) : f[i] = g[i]
      BY <1>4, <1>5, <1>8
    <2> QED  BY <1>8, <2>1, SeqEqual
  <1> QED  BY <1>7, <1>8

LEMMA SameDomain ==
    ASSUME NEW f \in Seq(Byte), NEW d \in Byte, NEW e \in Byte,
           f \o Padding(Len(f) % Rate, d) = f \o Padding(Len(f) % Rate, e)
    PROVE  d = e
  <1> DEFINE n == Len(f) % Rate
             p == Padding(n, d)
             q == Padding(n, e)
  <1>1. n \in 0..(Rate - 1) /\ Len(f) \in Nat /\ Rate \in Nat
    BY SpongeAssumption
  <1>2. /\ p \in Seq(Byte) /\ Len(p) = Rate - n /\ q \in Seq(Byte) /\ Len(q) = Rate - n
        /\ \A j \in 1..(Rate - n) :
               /\ p[j] = Xor(IF j = 1 THEN d ELSE {}, IF j = Rate - n THEN Top ELSE {})
               /\ q[j] = Xor(IF j = 1 THEN e ELSE {}, IF j = Rate - n THEN Top ELSE {})
    <2> HIDE DEF n
    <2> QED  BY <1>1, PaddingBytes
  <1>3. f \o p = f \o q
    OBVIOUS
  <1> HIDE DEF n, p, q
  <1>4. 1 \in 1..(Rate - n)
    BY <1>1
  <1>5. p[1] = q[1]
    <2>1. /\ \A j \in 1..Len(p) : (f \o p)[Len(f) + j] = p[j]
          /\ \A j \in 1..Len(q) : (f \o q)[Len(f) + j] = q[j]
      BY <1>2, Concatenation
    <2> QED  BY <1>2, <1>3, <1>4, <2>1
  <1> DEFINE c == IF 1 = Rate - n THEN Top ELSE {}
  <1>6. p[1] = Xor(d, c) /\ q[1] = Xor(e, c)
    BY <1>2, <1>4
  <1>7. c \in Byte
    BY DEF Top, Byte
  <1> HIDE DEF c
  <1> QED  BY <1>5, <1>6, <1>7, XorCancels

\* Two sponges of a call that absorbed the same blocks were fed the same bytes
\* under the same domain: a message can be read off its padded form.
THEOREM PaddedFormsDiffer == Spec => []PaddingSeparates
  <1>1. ASSUME Inv  PROVE PaddingSeparates
    <2>1. SUFFICES ASSUME Finished, NEW k \in Lanes, NEW l \in Lanes,
                          sponge[k].past = sponge[l].past
                   PROVE  fed[k] = fed[l] /\ job.domain[k] = job.domain[l]
      BY DEF PaddingSeparates
    <2> DEFINE f == fed[k]
               g == fed[l]
               d == job.domain[k]
               e == job.domain[l]
    <2>2. f \in Seq(Byte) /\ g \in Seq(Byte)
          /\ f \o Padding(Len(f) % Rate, d) = g \o Padding(Len(g) % Rate, e)
      BY <1>1, <2>1 DEF Inv, PaddedInv
    <2>3. /\ d \in Byte /\ d # {} /\ 7 \notin d
          /\ e \in Byte /\ e # {} /\ 7 \notin e
      BY <1>1, DomainType DEF Inv, TypeInv
    <2> HIDE DEF f, g, d, e
    <2>4. ~(Len(f) < Len(g)) /\ ~(Len(g) < Len(f)) /\ (Len(f) = Len(g) => f = g)
      BY <2>2, <2>3, NotShorter
    <2>5. f = g
      <3>1. Len(f) \in Nat /\ Len(g) \in Nat
        BY <2>2
      <3> QED  BY <2>4, <3>1
    <2>6. d = e
      BY <2>2, <2>3, <2>5, SameDomain
    <2> QED  BY <2>5, <2>6 DEF f, g, d, e
  <1>2. Init => Inv
    BY InitInv
  <1>3. Inv /\ [Next]_vars => Inv'
    BY Step
  <1> QED  BY <1>1, <1>2, <1>3, PTL DEF Spec

-----------------------------------------------------------------------------
(* Squeezing. *)

\* Block i of a sponge of its own, and the rounds of the permutations before it.
Turns(m) == [k \in 1..m |-> job.rounds]
Block(i) == [take |-> Smaller(Rate, job.outlen - (i - 1) * Rate), turns |-> Turns(i - 1)]

\* Lane l has squeezed the first m blocks.
SqueezedTo(l, m) ==
    /\ out[l] = [i \in 1..m |-> Block(i)]
    /\ m # 0 => (m - 1) * Rate < job.outlen
    /\ m * Rate < job.outlen => turns[l] = Turns(m)

\* Before the squeeze a lane has no block; a vector squeeze keeps the lanes in step.
OutInv ==
    /\ DOMAIN out = Lanes /\ DOMAIN turns = Lanes
    /\ \A l \in Lanes : \E m \in Nat :
          SqueezedTo(l, m) /\ (~Finished => m = 0) /\ (stage = "done" => m * Rate >= job.outlen)
    /\ VectorSqueeze => \A l \in Lanes : Len(out[l]) = Len(out[1])

LEMMA Grow ==
    ASSUME NEW m \in Nat, NEW f
    PROVE  /\ Len([i \in 1..m |-> f[i]]) = m
           /\ Append([i \in 1..m |-> f[i]], f[m + 1]) = [i \in 1..(m + 1) |-> f[i]]
  <1> DEFINE S == {f[i] : i \in 1..(m + 1)}
             s == [i \in 1..m |-> f[i]]
             t == [i \in 1..(m + 1) |-> f[i]]
  <1>1. s \in Seq(S) /\ Len(s) = m
    <2>1. s \in [1..m -> S]
      OBVIOUS
    <2> HIDE DEF S
    <2> QED  BY <2>1, SeqDef
  <1>2. t \in Seq(S) /\ Len(t) = m + 1
    <2>1. t \in [1..(m + 1) -> S] /\ m + 1 \in Nat
      OBVIOUS
    <2> HIDE DEF S
    <2> QED  BY <2>1, SeqDef
  <1>3. f[m + 1] \in S /\ f[m + 1] = t[m + 1] /\ \A i \in 1..m : s[i] = t[i]
    OBVIOUS
  <1> HIDE DEF S, s, t
  <1>4. /\ Append(s, f[m + 1]) \in Seq(S) /\ Len(Append(s, f[m + 1])) = m + 1
        /\ \A i \in 1..m : Append(s, f[m + 1])[i] = s[i]
        /\ Append(s, f[m + 1])[m + 1] = f[m + 1]
    BY <1>1, <1>3, AppendProperties
  <1>5. \A i \in 1..(m + 1) : Append(s, f[m + 1])[i] = t[i]
    BY <1>3, <1>4
  <1>6. Append(s, f[m + 1]) = t
    BY <1>2, <1>4, <1>5, SeqEqual
  <1> QED  BY <1>1, <1>6 DEF s, t

\* One more block, and the permutation after it if more is to come.
LEMMA OneMoreBlock ==
    ASSUME job \in Jobs, NEW l \in Lanes, NEW m \in Nat, SqueezedTo(l, m),
           Produced(l) < job.outlen
    PROVE  /\ Squeezed(l) = [i \in 1..(m + 1) |-> Block(i)]
           /\ m * Rate < job.outlen /\ Len(out[l]) = m
           /\ Produced(l) + Rate < job.outlen <=> (m + 1) * Rate < job.outlen
           /\ Append(turns[l], job.rounds) = Turns(m + 1)
  <1>1. Rate \in Nat \ {0} /\ job.outlen \in Nat
    BY SpongeAssumption, JobsAssumption
  <1>2. Len(out[l]) = m
    <2> DEFINE f == [i \in 1..(m + 1) |-> Block(i)]
    <2>1. out[l] = [i \in 1..m |-> f[i]]
      BY DEF SqueezedTo
    <2> HIDE DEF f
    <2> QED  BY <2>1, Grow
  <1>3. Produced(l) = m * Rate /\ m * Rate < job.outlen
    <2>1. m * Rate \in Nat
      BY <1>1
    <2> QED  BY <1>1, <1>2, <2>1 DEF Produced, Smaller
  <1>4. (m + 1) * Rate = m * Rate + Rate /\ (m + 1) - 1 = m
    BY <1>1
  <1>5. turns[l] = Turns(m)
    BY <1>3 DEF SqueezedTo
  <1>6. [take |-> Smaller(job.outlen - Produced(l), Rate), turns |-> turns[l]] = Block(m + 1)
    <2>1. Smaller(job.outlen - m * Rate, Rate) = Smaller(Rate, job.outlen - m * Rate)
      <3>1. m * Rate \in Nat
        BY <1>1
      <3> QED  BY <1>1, <3>1 DEF Smaller
    <2> QED  BY <1>3, <1>4, <1>5, <2>1 DEF Block
  <1>7. Squeezed(l) = [i \in 1..(m + 1) |-> Block(i)]
    <2> DEFINE f == [i \in 1..(m + 1) |-> Block(i)]
    <2>1. out[l] = [i \in 1..m |-> f[i]] /\ f[m + 1] = Block(m + 1)
      BY DEF SqueezedTo
    <2>2. f = [i \in 1..(m + 1) |-> f[i]]
      OBVIOUS
    <2>3. Squeezed(l) = Append([i \in 1..m |-> f[i]], f[m + 1])
      BY <1>6, <2>1 DEF Squeezed
    <2> HIDE DEF f
    <2>4. Squeezed(l) = f
      BY <2>2, <2>3, Grow
    <2> QED  BY <2>4 DEF f
  <1>8. Append(turns[l], job.rounds) = Turns(m + 1)
    <2> DEFINE f == [k \in 1..(m + 1) |-> job.rounds]
    <2>1. Turns(m) = [i \in 1..m |-> f[i]] /\ f[m + 1] = job.rounds
          /\ Turns(m + 1) = [i \in 1..(m + 1) |-> f[i]]
      BY DEF Turns
    <2> HIDE DEF f
    <2> QED  BY <1>5, <2>1, Grow
  <1> QED  BY <1>2, <1>3, <1>4, <1>7, <1>8

\* The blocks of another state of the same call.
LEMMA SameBlocks ==
    ASSUME job' = job, NEW l, NEW k, NEW m, out'[l] = out[k],
           turns'[l] = turns[k], SqueezedTo(k, m)
    PROVE  SqueezedTo(l, m)'
  BY DEF SqueezedTo, Block, Turns

\* What squeezes nothing leaves the blocks as they are.
LEMMA OutStutter ==
    ASSUME OutInv, UNCHANGED <<job, out, turns>>, stage' # "done" \/ stage' = stage,
           Finished => Finished'
    PROVE  OutInv'
  <1>1. ASSUME NEW l \in Lanes
        PROVE  \E m \in Nat : /\ SqueezedTo(l, m)' /\ (~Finished' => m = 0)
                              /\ (stage' = "done" => m * Rate >= job'.outlen)
    <2>1. PICK m \in Nat : /\ SqueezedTo(l, m) /\ (~Finished => m = 0)
                           /\ (stage = "done" => m * Rate >= job.outlen)
      BY DEF OutInv
    <2>2. SqueezedTo(l, m)'
      BY <2>1, SameBlocks
    <2> QED  BY <2>1, <2>2
  <1> QED  BY <1>1 DEF OutInv, VectorSqueeze

LEMMA SqueezeLaneOut ==
    ASSUME TypeInv, OutInv, NEW l \in Lanes, SqueezeLane(l)
    PROVE  OutInv'
  <1>1. /\ job' = job /\ stage' = stage /\ stage = "squeeze" /\ ~VectorSqueeze
        /\ Produced(l) < job.outlen /\ out' = [out EXCEPT ![l] = Squeezed(l)]
        /\ turns' = IF Produced(l) + Rate < job.outlen
                    THEN [turns EXCEPT ![l] = Append(turns[l], job.rounds)] ELSE turns
    BY DEF SqueezeLane
  <1>2. DOMAIN out = Lanes /\ DOMAIN turns = Lanes
    BY DEF OutInv
  <1>3. ASSUME NEW k \in Lanes
        PROVE  \E m \in Nat : /\ SqueezedTo(k, m)' /\ (~Finished' => m = 0)
                              /\ (stage' = "done" => m * Rate >= job'.outlen)
    <2>1. PICK m \in Nat : SqueezedTo(k, m)
      BY DEF OutInv
    <2>2. CASE k # l
      <3>1. out'[k] = out[k] /\ turns'[k] = turns[k]
        BY <1>1, <1>2, <2>2
      <3>2. SqueezedTo(k, m)'
        BY <1>1, <2>1, <3>1, SameBlocks
      <3> QED  BY <1>1, <3>2 DEF Finished
    <2>3. CASE k = l
      <3>1. /\ Squeezed(l) = [i \in 1..(m + 1) |-> Block(i)]
            /\ m * Rate < job.outlen /\ Len(out[l]) = m
            /\ Produced(l) + Rate < job.outlen <=> (m + 1) * Rate < job.outlen
            /\ Append(turns[l], job.rounds) = Turns(m + 1)
        BY <1>1, <2>1, <2>3, OneMoreBlock DEF TypeInv
      <3>2. out'[l] = [i \in 1..(m + 1) |-> Block(i)']
        BY <1>1, <1>2, <3>1 DEF Block, Turns
      <3>3. (m + 1) * Rate < job.outlen => turns'[l] = Turns(m + 1)
        BY <1>1, <1>2, <3>1
      <3>4. SqueezedTo(l, m + 1)'
        BY <1>1, <3>1, <3>2, <3>3 DEF SqueezedTo, Turns
      <3> QED  BY <1>1, <2>3, <3>4 DEF Finished
    <2> QED  BY <2>2, <2>3
  <1> QED  BY <1>1, <1>2, <1>3 DEF OutInv, VectorSqueeze

LEMMA SqueezeVectorOut ==
    ASSUME TypeInv, OutInv, SqueezeVector
    PROVE  OutInv'
  <1>1. /\ job' = job /\ stage' = stage /\ stage = "squeeze" /\ VectorSqueeze
        /\ Produced(1) < job.outlen /\ out' = [l \in Lanes |-> Squeezed(l)]
        /\ turns' = IF Produced(1) + Rate < job.outlen
                    THEN [l \in Lanes |-> VectorTurn(l)] ELSE turns
    BY DEF SqueezeVector
  <1>2. DOMAIN out' = Lanes /\ DOMAIN turns' = Lanes /\ 1 \in Lanes
    BY <1>1, SpongeAssumption DEF OutInv
  <1>3. ASSUME NEW l \in Lanes  PROVE Produced(l) = Produced(1)
    BY <1>1 DEF OutInv, Produced
  <1>4. job.rounds = KdfRounds
    BY <1>1, JobsAssumption DEF TypeInv, VectorSqueeze
  <1>5. ASSUME NEW l \in Lanes
        PROVE  \E m \in Nat : /\ Len(out[l]) = m /\ SqueezedTo(l, m + 1)'
    <2>1. PICK m \in Nat : SqueezedTo(l, m)
      BY DEF OutInv
    <2>2. /\ Squeezed(l) = [i \in 1..(m + 1) |-> Block(i)]
          /\ m * Rate < job.outlen /\ Len(out[l]) = m
          /\ Produced(l) + Rate < job.outlen <=> (m + 1) * Rate < job.outlen
          /\ Append(turns[l], job.rounds) = Turns(m + 1)
      BY <1>1, <1>3, <2>1, OneMoreBlock DEF TypeInv
    <2>3. out'[l] = [i \in 1..(m + 1) |-> Block(i)']
      BY <1>1, <2>2 DEF Block, Turns
    <2>4. (m + 1) * Rate < job.outlen => turns'[l] = Turns(m + 1)
      BY <1>1, <1>3, <1>4, <2>2 DEF VectorTurn
    <2>5. SqueezedTo(l, m + 1)'
      BY <1>1, <2>2, <2>3, <2>4 DEF SqueezedTo, Turns
    <2> QED  BY <2>2, <2>5
  <1>6. ASSUME NEW l \in Lanes  PROVE Len(out'[l]) = Len(out[l]) + 1
    <2>1. PICK m \in Nat : Len(out[l]) = m /\ SqueezedTo(l, m + 1)'
      BY <1>5
    <2> DEFINE f == [i \in 1..(m + 1) |-> Block(i)']
    <2>2. out'[l] = [i \in 1..(m + 1) |-> f[i]] /\ m + 1 \in Nat
      BY <2>1 DEF SqueezedTo
    <2> HIDE DEF f
    <2> QED  BY <2>1, <2>2, Grow
  <1>7. \A l \in Lanes : Len(out'[l]) = Len(out'[1])
    BY <1>1, <1>2, <1>6 DEF OutInv
  <1>8. ASSUME NEW l \in Lanes
        PROVE  \E m \in Nat : /\ SqueezedTo(l, m)' /\ (~Finished' => m = 0)
                              /\ (stage' = "done" => m * Rate >= job'.outlen)
    <2>1. PICK m \in Nat : SqueezedTo(l, m + 1)'
      BY <1>5
    <2>2. m + 1 \in Nat
      OBVIOUS
    <2> QED  BY <1>1, <2>1, <2>2 DEF Finished
  <1> QED  BY <1>2, <1>7, <1>8 DEF OutInv

LEMMA ReturnOut ==
    ASSUME TypeInv, OutInv, Return
    PROVE  OutInv'
  <1>1. /\ job' = job /\ stage' = "done" /\ out' = out /\ turns' = turns
        /\ \A l \in Lanes : Produced(l) >= job.outlen
    BY DEF Return
  <1>2. ASSUME NEW l \in Lanes
        PROVE  \E m \in Nat : /\ SqueezedTo(l, m)' /\ (~Finished' => m = 0)
                              /\ (stage' = "done" => m * Rate >= job'.outlen)
    <2>1. PICK m \in Nat : SqueezedTo(l, m)
      BY DEF OutInv
    <2>2. Len(out[l]) = m
      <3> DEFINE f == [i \in 1..m |-> Block(i)]
      <3>1. out[l] = [i \in 1..m |-> f[i]]
        BY <2>1 DEF SqueezedTo
      <3> HIDE DEF f
      <3> QED  BY <3>1, Grow
    <2>3. m * Rate >= job.outlen
      <3>1. m * Rate \in Nat /\ job.outlen \in Nat
        BY SpongeAssumption, JobsAssumption DEF TypeInv
      <3> QED  BY <1>1, <2>2, <3>1 DEF Produced, Smaller
    <2>4. SqueezedTo(l, m)'
      BY <1>1, <2>1, SameBlocks
    <2> QED  BY <1>1, <2>3, <2>4 DEF Finished
  <1> QED  BY <1>1, <1>2 DEF OutInv, VectorSqueeze

LEMMA OutStep == ASSUME TypeInv, OutInv, [Next]_vars  PROVE OutInv'
  <1>1. ASSUME NEW l \in Lanes, AbsorbByte(l) \/ AbsorbWords(l) \/ NextSlice(l)  PROVE OutInv'
    BY <1>1, OutStutter DEF AbsorbByte, AbsorbWords, NextSlice, Consume, Absorbing, Finished
  <1>2. ASSUME NEW l \in Lanes, SqueezeLane(l)  PROVE OutInv'
    BY <1>2, SqueezeLaneOut
  <1>3. CASE Diverge \/ Align \/ Pack
    BY <1>3, OutStutter DEF Diverge, Align, Pack, Finished
  <1>4. CASE VectorBlock \/ VectorTail \/ Finalize
    BY <1>4, OutStutter DEF VectorBlock, VectorTail, Finalize, Finished
  <1>5. CASE SqueezeVector
    BY <1>5, SqueezeVectorOut
  <1>6. CASE Return
    BY <1>6, ReturnOut
  <1>7. CASE UNCHANGED vars
    BY <1>7, OutStutter DEF vars, Finished
  <1> QED  BY <1>1, <1>2, <1>3, <1>4, <1>5, <1>6, <1>7 DEF Next

LEMMA InitOut == ASSUME Init  PROVE OutInv
  <1>1. /\ out = [l \in Lanes |-> <<>>] /\ turns = [l \in Lanes |-> <<>>] /\ ~Finished
        /\ stage # "done" /\ 1 \in Lanes
    BY SpongeAssumption DEF Init, Finished
  <1>2. ASSUME NEW l \in Lanes  PROVE SqueezedTo(l, 0)
    <2>1. [i \in 1..0 |-> Block(i)] = <<>> /\ Turns(0) = <<>>
      BY DEF Turns
    <2> QED  BY <1>1, <2>1 DEF SqueezedTo
  <1> QED  BY <1>1, <1>2 DEF OutInv

\* The number of blocks of a rate that n bytes take.
LEMMA BlocksOfOutput ==
    ASSUME NEW n \in Nat, NEW m \in Nat, m # 0 => (m - 1) * Rate < n, m * Rate >= n
    PROVE  m = (n + Rate - 1) \div Rate
  <1>1. Rate \in Nat \ {0}
    BY SpongeAssumption
  <1> DEFINE a == n + Rate - 1
             q == a \div Rate
  <1>2. a \in Nat /\ q \in Nat /\ Rate * q <= a /\ a < Rate * q + Rate
    BY <1>1
  <1>3. Rate * m >= n /\ (m # 0 => Rate * m - Rate < n)
    BY <1>1
  <1>4. ~(m - q >= 1)
    <2>1. SUFFICES ASSUME m - q >= 1  PROVE FALSE
      OBVIOUS
    <2> HIDE DEF q
    <2>2. Rate * (m - q) >= Rate /\ Rate * (m - q) = Rate * m - Rate * q
      BY <1>1, <1>2, <2>1, ProductAtLeast
    <2> QED  BY <1>1, <1>2, <1>3, <2>1, <2>2
  <1>5. ~(q - m >= 1)
    <2>1. SUFFICES ASSUME q - m >= 1  PROVE FALSE
      OBVIOUS
    <2> HIDE DEF q
    <2>2. Rate * (q - m) >= Rate /\ Rate * (q - m) = Rate * q - Rate * m
      BY <1>1, <1>2, <2>1, ProductAtLeast
    <2> QED  BY <1>1, <1>2, <1>3, <2>1, <2>2
  <1> QED  BY <1>2, <1>4, <1>5

\* Every lane squeezes the blocks of a sponge of its own: whole rates but for
\* the last, one permutation of the right number of rounds between two of them
\* and none after the last.
THEOREM LanesSqueezeTheirOwn == Spec => []OutputsMatchScalar
  <1>1. Init => Inv /\ OutInv
    BY InitInv, InitOut
  <1>2. Inv /\ OutInv /\ [Next]_vars => Inv' /\ OutInv'
    BY Step, OutStep DEF Inv
  <1>3. ASSUME Inv, OutInv  PROVE OutputsMatchScalar
    <2>1. SUFFICES ASSUME stage = "done", NEW l \in Lanes
                   PROVE  out[l] = [i \in 1..((job.outlen + Rate - 1) \div Rate) |->
                                      [take  |-> Smaller(Rate, job.outlen - (i - 1) * Rate),
                                       turns |-> [k \in 1..(i - 1) |-> job.rounds]]]
      BY DEF OutputsMatchScalar
    <2>2. PICK m \in Nat : SqueezedTo(l, m) /\ m * Rate >= job.outlen
      BY <1>3, <2>1 DEF OutInv
    <2>3. job.outlen \in Nat
      BY <1>3, JobsAssumption DEF Inv, TypeInv
    <2>4. m = (job.outlen + Rate - 1) \div Rate
      BY <2>2, <2>3, BlocksOfOutput DEF SqueezedTo
    <2>5. out[l] = [i \in 1..m |-> Block(i)]
      BY <2>2 DEF SqueezedTo
    <2> QED  BY <2>4, <2>5 DEF Block, Turns
  <1> QED  BY <1>1, <1>2, <1>3, PTL DEF Spec


-----------------------------------------------------------------------------
(* Induction, as a statement about sets: the smallest number outside a set   *)
(* that is closed under successors would have a predecessor in it.           *)

Less == {p \in Nat \X Nat : p[1] < p[2]}

LEMMA LessIsWellFounded == IsWellFoundedOn(Less, Nat)
  <1>1. OpToRel(<, Nat) = Less
    BY DEF OpToRel, Less
  <1> QED  BY <1>1, NatLessThanWellFounded

LEMMA Induction ==
    ASSUME NEW S, 0 \in S, \A n \in Nat : n \in S => n + 1 \in S
    PROVE  Nat \subseteq S
  <1> DEFINE T == {n \in Nat : n \notin S}
  <1>1. SUFFICES ASSUME T # {}  PROVE FALSE
    OBVIOUS
  <1>2. T \subseteq Nat
    OBVIOUS
  <1>3. PICK x \in T : \A y \in T : <<y, x>> \notin Less
    <2> HIDE DEF T
    <2> QED  BY <1>1, <1>2, WFMin, LessIsWellFounded
  <1>4. x \in Nat \ {0} /\ x - 1 \in Nat
    OBVIOUS
  <1>5. x - 1 \in T
    BY <1>4
  <1>6. <<x - 1, x>> \in Less
    BY <1>4 DEF Less
  <1> QED  BY <1>3, <1>5, <1>6

-----------------------------------------------------------------------------
(* Slices joined. *)

\* The first slices of p joined, for every number of them, and all of them.
Joins(p) ==
    LET upTo[n \in 0..Len(p)] == IF n = 0 THEN <<>> ELSE upTo[n - 1] \o p[n] IN upTo
Joined(p) == Joins(p)[Len(p)]

\* g joins the first n slices of p.
JoinsTo(g, p, n) == g = [k \in 0..n |-> IF k = 0 THEN <<>> ELSE g[k - 1] \o p[k]]

LEMMA JoinsExist == ASSUME NEW p, NEW n \in Nat  PROVE \E g : JoinsTo(g, p, n)
  <1> DEFINE S == {m \in Nat : \E g : JoinsTo(g, p, m)}
  <1>1. 0 \in S
    <2> DEFINE g == [k \in 0..0 |-> <<>>]
    <2>1. g = [k \in 0..0 |-> IF k = 0 THEN <<>> ELSE g[k - 1] \o p[k]]
      OBVIOUS
    <2> QED  BY <2>1 DEF JoinsTo
  <1>2. ASSUME NEW m \in Nat, m \in S  PROVE m + 1 \in S
    <2>1. PICK g : JoinsTo(g, p, m)
      BY <1>2
    <2> DEFINE h == [k \in 0..(m + 1) |-> IF k = 0 THEN <<>> ELSE g[k - 1] \o p[k]]
    <2>2. \A k \in 0..m : g[k] = IF k = 0 THEN <<>> ELSE g[k - 1] \o p[k]
      BY <2>1 DEF JoinsTo
    <2>3. \A k \in 0..m : h[k] = IF k = 0 THEN <<>> ELSE g[k - 1] \o p[k]
      OBVIOUS
    <2>4. \A k \in 0..m : h[k] = g[k]
      BY <2>2, <2>3
    <2>5. \A k \in 1..(m + 1) : k - 1 \in 0..m /\ h[k - 1] = g[k - 1]
      <3>1. \A k \in 1..(m + 1) : k - 1 \in 0..m
        OBVIOUS
      <3> HIDE DEF h
      <3> QED  BY <2>4, <3>1
    <2>6. h = [k \in 0..(m + 1) |-> IF k = 0 THEN <<>> ELSE h[k - 1] \o p[k]]
      <3>1. ASSUME NEW k \in 0..(m + 1)
            PROVE  (IF k = 0 THEN <<>> ELSE g[k - 1] \o p[k])
                     = (IF k = 0 THEN <<>> ELSE h[k - 1] \o p[k])
        <4> HIDE DEF h
        <4>1. k # 0 => k \in 1..(m + 1)
          OBVIOUS
        <4> QED  BY <2>5, <4>1
      <3> QED  BY <3>1
    <2> HIDE DEF h
    <2>7. JoinsTo(h, p, m + 1)
      BY <2>6 DEF JoinsTo
    <2> QED  BY <2>7
  <1> HIDE DEF S
  <1>3. Nat \subseteq S
    BY <1>1, <1>2, Induction
  <1> QED  BY <1>3 DEF S

LEMMA JoinsUnfold ==
    ASSUME NEW S, NEW p \in Seq(S)
    PROVE  JoinsTo(Joins(p), p, Len(p))
  <1>1. \E g : JoinsTo(g, p, Len(p))
    BY JoinsExist
  <1>2. Joins(p) = CHOOSE g : g = [k \in 0..Len(p) |-> IF k = 0 THEN <<>> ELSE g[k - 1] \o p[k]]
    BY DEF Joins
  <1>3. Joins(p) = CHOOSE g : JoinsTo(g, p, Len(p))
    BY <1>2 DEF JoinsTo
  <1> QED  BY <1>1, <1>3

\* Joining no slice and one slice more.
LEMMA JoinsStep ==
    ASSUME NEW S, NEW p \in Seq(Seq(S))
    PROVE  /\ Joins(p)[0] = <<>>
           /\ \A n \in 1..Len(p) : Joins(p)[n] = Joins(p)[n - 1] \o p[n]
           /\ \A n \in 0..Len(p) : Joins(p)[n] \in Seq(S)
  <1> DEFINE g == Joins(p)
  <1>1. JoinsTo(g, p, Len(p)) /\ Len(p) \in Nat
    BY JoinsUnfold
  <1> HIDE DEF g
  <1>2. /\ g[0] = <<>>
        /\ \A n \in 1..Len(p) : g[n] = g[n - 1] \o p[n]
    <2>1. \A k \in 0..Len(p) : g[k] = IF k = 0 THEN <<>> ELSE g[k - 1] \o p[k]
      BY <1>1 DEF JoinsTo
    <2>2. 0 \in 0..Len(p) /\ \A n \in 1..Len(p) : n \in 0..Len(p) /\ n # 0
      BY <1>1
    <2> QED  BY <2>1, <2>2
  <1> DEFINE T == {n \in Nat : n <= Len(p) => g[n] \in Seq(S)}
  <1>3. 0 \in T
    <2>1. <<>> \in Seq(S)
      OBVIOUS
    <2> QED  BY <1>2, <2>1
  <1>4. ASSUME NEW n \in Nat, n \in T  PROVE n + 1 \in T
    <2>1. SUFFICES ASSUME n + 1 <= Len(p)  PROVE g[n + 1] \in Seq(S)
      OBVIOUS
    <2>2. n + 1 \in 1..Len(p) /\ n <= Len(p) /\ (n + 1) - 1 = n
      BY <1>1, <2>1
    <2>3. g[n] \in Seq(S) /\ p[n + 1] \in Seq(S)
      BY <1>4, <2>2
    <2>4. g[n + 1] = g[n] \o p[n + 1]
      BY <1>2, <2>2
    <2> QED  BY <2>3, <2>4
  <1> HIDE DEF T
  <1>5. Nat \subseteq T
    BY <1>3, <1>4, Induction
  <1>6. \A n \in 0..Len(p) : g[n] \in Seq(S)
    BY <1>1, <1>5 DEF T
  <1> QED  BY <1>2, <1>6 DEF g

\* The first slices of a longer sequence are joined alike.
LEMMA JoinsPrefix ==
    ASSUME NEW S, NEW a \in Seq(Seq(S)), NEW b \in Seq(Seq(S)), NEW m \in Nat,
           m <= Len(a), m <= Len(b), \A i \in 1..m : a[i] = b[i]
    PROVE  Joins(a)[m] = Joins(b)[m]
  <1> DEFINE T == {n \in Nat : n <= m => Joins(a)[n] = Joins(b)[n]}
  <1>1. 0 \in T
    BY JoinsStep
  <1>2. ASSUME NEW n \in Nat, n \in T  PROVE n + 1 \in T
    <2>1. SUFFICES ASSUME n + 1 <= m  PROVE Joins(a)[n + 1] = Joins(b)[n + 1]
      OBVIOUS
    <2>2. /\ n + 1 \in 1..Len(a) /\ n + 1 \in 1..Len(b) /\ n + 1 \in 1..m
          /\ n <= m /\ (n + 1) - 1 = n
      BY <2>1
    <2>3. Joins(a)[n + 1] = Joins(a)[n] \o a[n + 1]
      BY <2>2, JoinsStep
    <2>4. Joins(b)[n + 1] = Joins(b)[n] \o b[n + 1]
      BY <2>2, JoinsStep
    <2> QED  BY <1>2, <2>2, <2>3, <2>4
  <1> HIDE DEF T
  <1>3. Nat \subseteq T
    BY <1>1, <1>2, Induction
  <1> QED  BY <1>3 DEF T

LEMMA JoinedEnds ==
    ASSUME NEW S
    PROVE  /\ Joined(<<>>) = <<>>
           /\ \A x \in Seq(S) : Joined(<<x>>) = x
           /\ \A p \in Seq(Seq(S)) : Joined(p) \in Seq(S)
  <1>1. <<>> \in Seq(Seq(S)) /\ Len(<<>>) = 0
    OBVIOUS
  <1>2. Joined(<<>>) = <<>>
    BY <1>1, JoinsStep DEF Joined
  <1>3. ASSUME NEW x \in Seq(S)  PROVE Joined(<<x>>) = x
    <2> DEFINE p == <<x>>
    <2>1. p \in Seq(Seq(S)) /\ Len(p) = 1 /\ p[1] = x /\ 1 \in 1..Len(p) /\ 1 - 1 = 0
      OBVIOUS
    <2> HIDE DEF p
    <2>2. Joins(p)[0] = <<>> /\ Joins(p)[1] = Joins(p)[1 - 1] \o p[1]
      BY <2>1, JoinsStep
    <2>3. Joined(p) = <<>> \o x
      BY <2>1, <2>2 DEF Joined
    <2> QED  BY <2>3, ConcatEmptySeq DEF p
  <1>4. ASSUME NEW p \in Seq(Seq(S))  PROVE Joined(p) \in Seq(S)
    <2>1. Len(p) \in 0..Len(p)
      OBVIOUS
    <2> QED  BY <2>1, JoinsStep DEF Joined
  <1> QED  BY <1>2, <1>3, <1>4

LEMMA JoinedSplit ==
    ASSUME NEW S, NEW a \in Seq(Seq(S)), NEW b \in Seq(Seq(S))
    PROVE  Joined(a \o b) = Joined(a) \o Joined(b)
  <1> DEFINE c == a \o b
  <1>1. /\ c \in Seq(Seq(S)) /\ Len(c) = Len(a) + Len(b) /\ Len(a) \in Nat /\ Len(b) \in Nat
        /\ \A i \in 1..Len(a) : c[i] = a[i]
        /\ \A i \in 1..Len(b) : c[Len(a) + i] = b[i]
    OBVIOUS
  <1> HIDE DEF c
  <1>2. Joins(c)[Len(a)] = Joined(a)
    <2> DEFINE m == Len(a)
    <2>1. m \in Nat /\ m <= Len(a) /\ m <= Len(c) /\ \A i \in 1..m : c[i] = a[i]
      BY <1>1
    <2> HIDE DEF m
    <2>2. Joins(c)[m] = Joins(a)[m]
      BY <1>1, <2>1, JoinsPrefix
    <2> QED  BY <2>2 DEF m, Joined
  <1>3. Joined(a) \in Seq(S)
    BY JoinedEnds
  <1> DEFINE T == {n \in Nat : n <= Len(b) => Joins(c)[Len(a) + n] = Joined(a) \o Joins(b)[n]}
  <1>4. 0 \in T
    <2>1. Joins(b)[0] = <<>> /\ Len(a) + 0 = Len(a)
      <3>1. Joins(b)[0] = <<>>
        BY JoinsStep
      <3> QED  BY <1>1, <3>1
    <2>2. Joined(a) \o <<>> = Joined(a)
      BY <1>3, ConcatEmptySeq
    <2> QED  BY <1>2, <2>1, <2>2
  <1>5. ASSUME NEW n \in Nat, n \in T  PROVE n + 1 \in T
    <2>1. SUFFICES ASSUME n + 1 <= Len(b)
                   PROVE  Joins(c)[Len(a) + (n + 1)] = Joined(a) \o Joins(b)[n + 1]
      OBVIOUS
    <2> DEFINE m == Len(a) + (n + 1)
    <2>2. /\ m \in 1..Len(c) /\ m - 1 = Len(a) + n /\ n <= Len(b) /\ n \in 0..Len(b)
          /\ n + 1 \in 1..Len(b) /\ (n + 1) - 1 = n /\ c[m] = b[n + 1]
      BY <1>1, <2>1
    <2> HIDE DEF m
    <2>3. Joins(c)[m] = Joins(c)[m - 1] \o c[m]
      BY <1>1, <2>2, JoinsStep
    <2>4. Joins(b)[n + 1] = Joins(b)[(n + 1) - 1] \o b[n + 1]
      BY <2>2, JoinsStep
    <2>5. Joins(c)[Len(a) + n] = Joined(a) \o Joins(b)[n]
      BY <1>5, <2>2
    <2> DEFINE x == Joined(a)
               y == Joins(b)[n]
               z == b[n + 1]
    <2>6. x \in Seq(S) /\ y \in Seq(S) /\ z \in Seq(S)
      <3>1. y \in Seq(S)
        BY <2>2, JoinsStep
      <3>2. z \in Seq(S)
        BY <2>2, ElementOfSeq
      <3> QED  BY <1>3, <3>1, <3>2
    <2>7. Joins(c)[m] = (x \o y) \o z /\ Joins(b)[n + 1] = y \o z
      BY <2>2, <2>3, <2>4, <2>5
    <2> HIDE DEF x, y, z
    <2>8. (x \o y) \o z = x \o (y \o z)
      BY <2>6, ConcatAssociative
    <2> QED  BY <2>7, <2>8 DEF m, x
  <1> HIDE DEF T
  <1>6. Nat \subseteq T
    BY <1>4, <1>5, Induction
  <1>7. Joins(c)[Len(a) + Len(b)] = Joined(a) \o Joins(b)[Len(b)]
    BY <1>1, <1>6 DEF T
  <1> QED  BY <1>1, <1>7 DEF Joined, c


-----------------------------------------------------------------------------
(* What the lanes consume. *)

\* The message of a lane, and its slices before the last of a MAC or before
\* the lane's own of a KDF.
Whole(l) == Joined(job.parts[l])
Prefix(l) == Joined(SubSeq(job.parts[l], 1, 3))

\* What a lane consumed and what it has still to consume.
MessageInv ==
    /\ stage = "shared" => fed[1] \o Joined(todo[1]) = Prefix(1)
    /\ stage \in {"absorb", "align", "vector"} => \A l \in Lanes :
           fed[l] \o Joined(todo[l]) =
               IF VectorMac THEN Prefix(l) \o SubSeq(Body(l), 1, off) ELSE Whole(l)
    /\ Finished => \A l \in Lanes : fed[l] = Whole(l)

LEMMA Associative == \A s, t, u \in Seq(Byte) : (s \o t) \o u = s \o (t \o u)
  BY ConcatAssociative

LEMMA CutSlice ==
    ASSUME NEW s \in Seq(Byte), NEW n \in Nat, NEW m \in Nat, n <= m, m <= Len(s)
    PROVE  /\ SubSeq(s, 1, n) \in Seq(Byte) /\ SubSeq(s, n + 1, m) \in Seq(Byte)
           /\ SubSeq(s, 1, n) \o SubSeq(s, n + 1, m) = SubSeq(s, 1, m)
           /\ SubSeq(s, 1, Len(s)) = s /\ SubSeq(s, 1, 0) = <<>>
  <1>1. SubSeq(s, 1, n) \in Seq(Byte)
    <2>1. 0 \in Nat /\ 0 + n <= Len(s) /\ 0 + 1 = 1 /\ 0 + n = n
      OBVIOUS
    <2> QED  BY <2>1, Piece
  <1>2. SubSeq(s, n + 1, m) \in Seq(Byte)
    <2> DEFINE k == m - n
    <2>1. k \in Nat /\ n + k = m
      OBVIOUS
    <2> HIDE DEF k
    <2>2. n + k <= Len(s)
      BY <2>1
    <2>3. SubSeq(s, n + 1, n + k) \in Seq(Byte)
      BY <2>1, <2>2, Piece
    <2> QED  BY <2>1, <2>3
  <1>3. SubSeq(s, 1, n) \o SubSeq(s, n + 1, m) = SubSeq(s, 1, m)
    <2>1. /\ 1 \in 1..(Len(s) + 1) /\ n \in (1 - 1)..Len(s) /\ m \in n..Len(s)
      OBVIOUS
    <2> QED  BY <2>1, ConcatAdjacentSubSeq
  <1> QED  BY <1>1, <1>2, <1>3, SubSeqFull, SubSeqEmpty

\* Bytes move from the slice to the sponge; an empty slice is dropped.
LEMMA MovedBytes ==
    ASSUME NEW f \in Seq(Byte), NEW t \in Seq(Seq(Byte)), t # <<>>
    PROVE  /\ t[1] \in Seq(Byte)
           /\ f \o Joined(t) = f \o (t[1] \o Joined(Tail(t)))
           /\ \A b, r \in Seq(Byte) : b \o r = t[1] =>
                  (f \o b) \o Joined(<<r>> \o Tail(t)) = f \o Joined(t)
           /\ t[1] = <<>> => Joined(Tail(t)) = Joined(t)
  <1>1. /\ Tail(t) \in Seq(Seq(Byte)) /\ t[1] \in Seq(Byte) /\ t = <<t[1]>> \o Tail(t)
    <2>1. /\ Tail(t) \in Seq(Seq(Byte)) /\ Len(Tail(t)) = Len(t) - 1 /\ Len(t) \in Nat \ {0}
          /\ \A i \in 1..Len(Tail(t)) : Tail(t)[i] = t[i + 1]
      BY HeadTailProperties
    <2>2. t[1] \in Seq(Byte)
      BY <2>1, ElementOfSeq
    <2>3. <<t[1]>> \in Seq(Seq(Byte)) /\ Len(<<t[1]>>) = 1 /\ <<t[1]>>[1] = t[1]
      BY <2>2
    <2> DEFINE a == <<t[1]>>
               b == Tail(t)
               u == a \o b
    <2> HIDE DEF a, b
    <2>4. /\ u \in Seq(Seq(Byte)) /\ Len(u) = Len(t)
          /\ \A i \in 1..Len(t) : u[i] = IF i <= 1 THEN a[i] ELSE b[i - 1]
      <3>1. /\ a \in Seq(Seq(Byte)) /\ b \in Seq(Seq(Byte)) /\ Len(a) = 1
            /\ Len(b) = Len(t) - 1 /\ Len(t) \in Nat \ {0}
        BY <2>1, <2>3 DEF a, b
      <3>2. Len(a) + Len(b) = Len(t) /\ a \o b \in Seq(Seq(Byte))
        BY <3>1
      <3>3. /\ Len(a \o b) = Len(a) + Len(b)
            /\ \A i \in 1..(Len(a) + Len(b)) :
                   (a \o b)[i] = IF i <= Len(a) THEN a[i] ELSE b[i - Len(a)]
        BY <3>1, ConcatProperties
      <3> QED  BY <3>1, <3>2, <3>3
    <2>5. \A i \in 1..Len(t) : u[i] = t[i]
      <3>1. a[1] = t[1] /\ \A i \in 1..(Len(t) - 1) : b[i] = t[i + 1]
        BY <2>1, <2>3 DEF a, b
      <3>2. ASSUME NEW i \in 1..Len(t)  PROVE u[i] = t[i]
        <4>1. CASE i = 1
          BY <2>4, <3>1, <4>1
        <4>2. CASE i # 1
          <5>1. i - 1 \in 1..(Len(t) - 1) /\ (i - 1) + 1 = i /\ ~(i <= 1)
            BY <2>1, <4>2
          <5> QED  BY <2>4, <3>1, <5>1
        <4> QED  BY <4>1, <4>2
      <3> QED  BY <3>2
    <2> HIDE DEF u
    <2>6. u = t
      BY <2>4, <2>5, SeqEqual
    <2> QED  BY <2>1, <2>2, <2>6 DEF u, a, b
  <1> DEFINE tail == Tail(t)
             x == t[1]
             y == Joined(tail)
  <1>2. x \in Seq(Byte) /\ y \in Seq(Byte) /\ tail \in Seq(Seq(Byte))
    BY <1>1, JoinedEnds
  <1>3. ASSUME NEW r \in Seq(Byte)  PROVE Joined(<<r>> \o tail) = r \o y
    <2> HIDE DEF tail, y
    <2>1. <<r>> \in Seq(Seq(Byte))
      OBVIOUS
    <2>2. Joined(<<r>> \o tail) = Joined(<<r>>) \o Joined(tail)
      BY <1>2, <2>1, JoinedSplit
    <2> QED  BY <2>2, JoinedEnds DEF y
  <1>4. Joined(t) = x \o y
    BY <1>1, <1>2, <1>3
  <1>5. ASSUME NEW b \in Seq(Byte), NEW r \in Seq(Byte), b \o r = x
        PROVE  (f \o b) \o Joined(<<r>> \o tail) = f \o Joined(t)
    <2> HIDE DEF x, y, tail
    <2>1. Joined(<<r>> \o tail) = r \o y
      BY <1>3
    <2>2. r \o y \in Seq(Byte)
      BY <1>2
    <2>3. (f \o b) \o (r \o y) = f \o (b \o (r \o y))
      BY <2>2, Associative
    <2>4. (b \o r) \o y = b \o (r \o y)
      BY <1>2, Associative
    <2> QED  BY <1>4, <1>5, <2>1, <2>3, <2>4
  <1>6. x = <<>> => y = Joined(t)
    <2> HIDE DEF x, y
    <2> QED  BY <1>2, <1>4, ConcatEmptySeq
  <1> QED  BY <1>1, <1>4, <1>5, <1>6

LEMMA SameMessage ==
    ASSUME job' = job
    PROVE  /\ VectorMac' <=> VectorMac
           /\ \A l \in Lanes : Whole(l)' = Whole(l) /\ Prefix(l)' = Prefix(l)
                               /\ Body(l)' = Body(l)
  BY SameCall DEF Whole, Prefix

\* What was consumed, before the padding.
LEMMA FedType == ASSUME Inv, ~Finished  PROVE \A l \in Lanes : fed[l] \in Seq(Byte)
  <1>1. \A l \in Lanes : Holds(sponge[l], sponge[l].pos, fed[l])
    BY DEF Inv, HoldInv
  <1> QED  BY <1>1, HoldsFacts

LEMMA PiecePreserves ==
    ASSUME Inv, NEW l \in Lanes, AbsorbByte(l) \/ AbsorbWords(l)
    PROVE  /\ job' = job /\ stage' = stage /\ off' = off
           /\ \A k \in Lanes : fed'[k] \o Joined(todo'[k]) = fed[k] \o Joined(todo[k])
  <1>1. PICK n \in Nat : AbsorbsPiece(l, n)
    BY BytePiece, WordsPiece
  <1> DEFINE t == todo[l]
             s == t[1]
             b == SubSeq(s, 1, n)
             r == SubSeq(s, n + 1, Len(s))
  <1>2. /\ ~Finished /\ t \in Seq(Seq(Byte)) /\ t # <<>> /\ n <= Len(s)
        /\ DOMAIN todo = Lanes /\ DOMAIN fed = Lanes
    BY <1>1 DEF AbsorbsPiece, Absorbing, Finished, Inv, TypeInv
  <1>3. /\ job' = job /\ stage' = stage /\ off' = off
        /\ fed' = [fed EXCEPT ![l] = fed[l] \o b]
        /\ todo' = [todo EXCEPT ![l] = <<r>> \o Tail(t)]
    BY <1>1 DEF AbsorbsPiece, Consume
  <1>4. fed[l] \in Seq(Byte)
    BY <1>2, FedType
  <1> HIDE DEF t
  <1>5. s \in Seq(Byte) /\ Len(s) \in Nat
    <2>1. s \in Seq(Byte)
      BY <1>2, <1>4, MovedBytes
    <2> QED  BY <2>1
  <1> HIDE DEF s
  <1>6. b \in Seq(Byte) /\ r \in Seq(Byte) /\ b \o r = s
    <2> DEFINE m == Len(s)
    <2>1. m \in Nat /\ n <= m /\ m <= Len(s)
      BY <1>2, <1>5
    <2> HIDE DEF m
    <2>2. /\ SubSeq(s, 1, n) \in Seq(Byte) /\ SubSeq(s, n + 1, m) \in Seq(Byte)
          /\ SubSeq(s, 1, n) \o SubSeq(s, n + 1, m) = SubSeq(s, 1, m)
          /\ SubSeq(s, 1, Len(s)) = s
      BY <1>5, <2>1, CutSlice
    <2> QED  BY <2>2 DEF m
  <1> HIDE DEF b, r
  <1>7. (fed[l] \o b) \o Joined(<<r>> \o Tail(t)) = fed[l] \o Joined(t)
    <2> DEFINE f == fed[l]
    <2>1. f \in Seq(Byte) /\ t \in Seq(Seq(Byte)) /\ t # <<>> /\ b \o r = t[1]
      BY <1>2, <1>4, <1>6 DEF s
    <2> HIDE DEF f
    <2>2. \A x, y \in Seq(Byte) : x \o y = t[1] =>
              (f \o x) \o Joined(<<y>> \o Tail(t)) = f \o Joined(t)
      BY <2>1, MovedBytes
    <2> QED  BY <1>6, <2>1, <2>2 DEF f
  <1>8. ASSUME NEW k \in Lanes
        PROVE  fed'[k] \o Joined(todo'[k]) = fed[k] \o Joined(todo[k])
    <2>1. CASE k = l
      <3>1. fed'[k] = fed[l] \o b /\ todo'[k] = <<r>> \o Tail(t)
        BY <1>2, <1>3, <2>1
      <3> QED  BY <1>7, <2>1, <3>1 DEF t
    <2>2. CASE k # l
      BY <1>2, <1>3, <2>2
    <2> QED  BY <2>1, <2>2
  <1> QED  BY <1>3, <1>8

LEMMA SlicePreserves ==
    ASSUME Inv, NEW l \in Lanes, NextSlice(l)
    PROVE  /\ job' = job /\ stage' = stage /\ off' = off
           /\ \A k \in Lanes : fed'[k] \o Joined(todo'[k]) = fed[k] \o Joined(todo[k])
  <1> DEFINE t == todo[l]
  <1>1. /\ ~Finished /\ t \in Seq(Seq(Byte)) /\ t # <<>> /\ t[1] = <<>>
        /\ DOMAIN todo = Lanes /\ job' = job /\ stage' = stage /\ off' = off /\ fed' = fed
        /\ todo' = [todo EXCEPT ![l] = Tail(t)]
    BY DEF NextSlice, Absorbing, Finished, Inv, TypeInv
  <1>2. fed[l] \in Seq(Byte)
    BY <1>1, FedType
  <1> HIDE DEF t
  <1>3. Joined(Tail(t)) = Joined(t)
    BY <1>1, <1>2, MovedBytes
  <1>4. \A k \in Lanes : Joined(todo'[k]) = Joined(todo[k])
    BY <1>1, <1>3 DEF t
  <1> QED  BY <1>1, <1>4

LEMMA AbsorbMessage ==
    ASSUME Inv, MessageInv, NEW l \in Lanes, AbsorbByte(l) \/ AbsorbWords(l) \/ NextSlice(l)
    PROVE  MessageInv'
  <1>1. /\ job' = job /\ stage' = stage /\ off' = off /\ 1 \in Lanes /\ ~Finished
        /\ \A k \in Lanes : fed'[k] \o Joined(todo'[k]) = fed[k] \o Joined(todo[k])
    <2>1. ~Finished /\ 1 \in Lanes
      BY SpongeAssumption DEF AbsorbByte, AbsorbWords, NextSlice, Absorbing, Finished
    <2> QED  BY <2>1, PiecePreserves, SlicePreserves
  <1>2. /\ VectorMac' <=> VectorMac
        /\ \A k \in Lanes : Whole(k)' = Whole(k) /\ Prefix(k)' = Prefix(k) /\ Body(k)' = Body(k)
    BY <1>1, SameMessage
  <1>3. stage' = "shared" => fed'[1] \o Joined(todo'[1]) = Prefix(1)'
    BY <1>1, <1>2 DEF MessageInv
  <1>4. ASSUME stage' \in {"absorb", "align", "vector"}, NEW k \in Lanes
        PROVE  fed'[k] \o Joined(todo'[k]) =
                   IF VectorMac' THEN Prefix(k)' \o SubSeq(Body(k)', 1, off') ELSE Whole(k)'
    BY <1>1, <1>2, <1>4 DEF MessageInv
  <1> QED  BY <1>1, <1>3, <1>4 DEF MessageInv, Finished

\* A sequence of slices cut in two.
LEMMA JoinedCut ==
    ASSUME NEW t \in Seq(Seq(Byte)), NEW n \in Nat, n <= Len(t)
    PROVE  /\ SubSeq(t, 1, n) \in Seq(Seq(Byte)) /\ SubSeq(t, n + 1, Len(t)) \in Seq(Seq(Byte))
           /\ Joined(SubSeq(t, 1, n)) \o Joined(SubSeq(t, n + 1, Len(t))) = Joined(t)
  <1> DEFINE a == SubSeq(t, 1, n)
             b == SubSeq(t, n + 1, Len(t))
  <1>1. a \in Seq(Seq(Byte)) /\ b \in Seq(Seq(Byte))
    <2>1. \A i \in 1..Len(t) : t[i] \in Seq(Byte)
      OBVIOUS
    <2>2. \A i \in 1..n : t[i] \in Seq(Byte)
      BY <2>1
    <2>3. \A i \in (n + 1)..Len(t) : t[i] \in Seq(Byte)
      BY <2>1
    <2>4. a \in Seq(Seq(Byte))
      BY <2>2, SubSeqProperties
    <2>5. b \in Seq(Seq(Byte))
      <3>1. n + 1 \in Int /\ Len(t) \in Int
        OBVIOUS
      <3> QED  BY <2>3, <3>1, SubSeqProperties
    <2> QED  BY <2>4, <2>5
  <1>2. a \o b = t
    <2> DEFINE m == Len(t)
    <2>1. /\ 1 \in 1..(Len(t) + 1) /\ n \in (1 - 1)..Len(t) /\ m \in n..Len(t)
      OBVIOUS
    <2> HIDE DEF m
    <2>2. SubSeq(t, 1, n) \o SubSeq(t, n + 1, m) = SubSeq(t, 1, m)
      BY <2>1, ConcatAdjacentSubSeq
    <2> QED  BY <2>2, SubSeqFull DEF m
  <1> HIDE DEF a, b
  <1>3. Joined(a \o b) = Joined(a) \o Joined(b)
    BY <1>1, JoinedSplit
  <1> QED  BY <1>1, <1>2, <1>3 DEF a, b

LEMMA DivergeMessage == ASSUME Inv, MessageInv, Diverge  PROVE MessageInv'
  <1>1. /\ job.kind = "kdf" /\ ~Finished /\ 1 \in Lanes /\ job \in Jobs /\ todo[1] = <<>>
        /\ stage = "shared" /\ stage' = "absorb" /\ job' = job
        /\ fed' = [l \in Lanes |-> fed[1]] /\ todo' = [l \in Lanes |-> OwnParts(l)]
    BY SpongeAssumption DEF Diverge, Drained, Finished, Inv, TypeInv, StageInv
  <1>2. fed[1] = Prefix(1)
    <2>1. fed[1] \o <<>> = Prefix(1)
      BY <1>1, JoinedEnds DEF MessageInv
    <2>2. fed[1] \in Seq(Byte)
      BY <1>1, FedType
    <2> QED  BY <2>1, <2>2, ConcatEmptySeq
  <1>3. ASSUME NEW l \in Lanes
        PROVE  Prefix(l) = Prefix(1) /\ Prefix(l) \o Joined(OwnParts(l)) = Whole(l)
    <2>1. /\ job.parts[l] \in Seq(Seq(Byte)) /\ Len(job.parts[l]) = 5
          /\ job.parts[1] \in Seq(Seq(Byte)) /\ Len(job.parts[1]) = 5
          /\ \A n \in 1..3 : job.parts[l][n] = job.parts[1][n]
      BY <1>1, JobsAssumption
    <2> DEFINE t == job.parts[l]
               u == job.parts[1]
    <2> HIDE DEF t, u
    <2>2. SubSeq(t, 1, 3) = SubSeq(u, 1, 3)
      <3>1. ASSUME NEW v \in Seq(Seq(Byte)), Len(v) = 5
            PROVE  /\ SubSeq(v, 1, 3) \in Seq(Seq(Byte)) /\ Len(SubSeq(v, 1, 3)) = 3
                   /\ \A i \in 1..3 : SubSeq(v, 1, 3)[i] = v[i]
        <4>1. \A i \in 1..3 : v[i] \in Seq(Byte)
          <5>1. \A i \in 1..3 : i \in 1..Len(v)
            BY <3>1
          <5> QED  BY <5>1, ElementOfSeq
        <4>2. /\ SubSeq(v, 1, 3) \in Seq(Seq(Byte))
              /\ Len(SubSeq(v, 1, 3)) = IF 1 <= 3 THEN 3 - 1 + 1 ELSE 0
              /\ \A i \in 1..(3 - 1 + 1) : SubSeq(v, 1, 3)[i] = v[1 + i - 1]
          BY <4>1, SubSeqProperties
        <4> QED  BY <4>2
      <3> DEFINE a == SubSeq(t, 1, 3)
                 b == SubSeq(u, 1, 3)
      <3>2. /\ a \in Seq(Seq(Byte)) /\ Len(a) = 3 /\ \A i \in 1..3 : a[i] = t[i]
            /\ b \in Seq(Seq(Byte)) /\ Len(b) = 3 /\ \A i \in 1..3 : b[i] = u[i]
        BY <2>1, <3>1 DEF t, u
      <3>3. \A i \in 1..3 : t[i] = u[i]
        BY <2>1 DEF t, u
      <3> HIDE DEF a, b
      <3> QED  BY <3>2, <3>3, SeqEqual DEF a, b
    <2>3. Joined(SubSeq(t, 1, 3)) \o Joined(SubSeq(t, 4, 5)) = Joined(t)
      <3>1. t \in Seq(Seq(Byte)) /\ 3 \in Nat /\ 3 <= Len(t) /\ Len(t) = 5
        BY <2>1 DEF t
      <3>2. Joined(SubSeq(t, 1, 3)) \o Joined(SubSeq(t, 3 + 1, Len(t))) = Joined(t)
        BY <3>1, JoinedCut
      <3> QED  BY <3>1, <3>2
    <2> QED  BY <2>2, <2>3 DEF t, u, Prefix, Whole, OwnParts
  <1>4. ASSUME NEW l \in Lanes  PROVE fed'[l] \o Joined(todo'[l]) = Whole(l)'
    <2>1. fed'[l] = Prefix(l) /\ todo'[l] = OwnParts(l)
      BY <1>1, <1>2, <1>3
    <2> QED  BY <1>1, <1>3, <2>1, SameMessage
  <1>5. ~VectorMac'
    BY <1>1 DEF VectorMac
  <1> QED  BY <1>1, <1>4, <1>5 DEF MessageInv, Finished


\* The message of a vector MAC: its prefix and its body.
LEMMA VectorWhole ==
    ASSUME job \in Jobs, VectorMac, NEW l \in Lanes
    PROVE  /\ Prefix(l) \in Seq(Byte) /\ Body(l) \in Seq(Byte)
           /\ Whole(l) = Prefix(l) \o Body(l)
  <1> DEFINE t == job.parts[l]
  <1>1. t \in Seq(Seq(Byte)) /\ Len(t) = 4 /\ Body(l) = t[4] /\ Body(l) \in Seq(Byte)
    BY VectorJob DEF Body
  <1>2. SubSeq(t, 4, 4) = <<t[4]>>
    <2> HIDE DEF t
    <2>1. 4 \in 1..Len(t) /\ 4 \in 4..Len(t)
      BY <1>1
    <2>2. SubSeq(t, 4, 4) = <<t[4]>> \o SubSeq(t, 4 + 1, 4)
      BY <1>1, <2>1, SubSeqRecursiveFirst
    <2>3. SubSeq(t, 4 + 1, 4) = <<>>
      BY SubSeqEmpty
    <2>4. t[4] \in Seq(Byte)
      BY <1>1
    <2>5. <<t[4]>> \in Seq(Seq(Byte))
      BY <2>4
    <2>6. <<t[4]>> \o <<>> = <<t[4]>>
      BY <2>5, ConcatEmptySeq
    <2> QED  BY <2>2, <2>3, <2>6
  <1> HIDE DEF t
  <1>3. /\ SubSeq(t, 1, 3) \in Seq(Seq(Byte))
        /\ Joined(SubSeq(t, 1, 3)) \o Joined(SubSeq(t, 4, 4)) = Joined(t)
    <2>1. 3 \in Nat /\ 3 <= Len(t) /\ 3 + 1 = 4
      BY <1>1
    <2>2. /\ SubSeq(t, 1, 3) \in Seq(Seq(Byte))
          /\ Joined(SubSeq(t, 1, 3)) \o Joined(SubSeq(t, 3 + 1, Len(t))) = Joined(t)
      BY <1>1, <2>1, JoinedCut
    <2> QED  BY <1>1, <2>1, <2>2
  <1>4. Joined(SubSeq(t, 4, 4)) = t[4]
    BY <1>1, <1>2, JoinedEnds
  <1>5. Prefix(l) \in Seq(Byte)
    BY <1>3, JoinedEnds DEF Prefix, t
  <1> QED  BY <1>1, <1>3, <1>4, <1>5 DEF Prefix, Whole, t

LEMMA AlignMessage == ASSUME Inv, MessageInv, Align  PROVE MessageInv'
  <1>1. /\ VectorMac /\ stage = "absorb" /\ ~Finished /\ 1 \in Lanes /\ job \in Jobs /\ off = 0
        /\ \A l \in Lanes : todo[l] = <<>>
        /\ job' = job /\ fed' = fed /\ stage' \in {"align", "vector"}
    BY SpongeAssumption DEF Align, Drained, Finished, Inv, TypeInv, StageInv
  <1>2. Inv'
    BY AlignStep
  <1>3. VectorMac' /\ off' \in Nat /\ off' <= Len(Body(1))
    <2>1. VectorMac' /\ Body(1)' = Body(1)
      BY <1>1, SameMessage
    <2>2. off' \in 0..Len(Body(1))
      BY <1>1, <1>2, <2>1 DEF Inv, StageInv
    <2>3. Len(Body(1)) \in Nat
      BY <1>1, VectorJob
    <2> QED  BY <2>1, <2>2, <2>3
  <1>4. ASSUME NEW l \in Lanes
        PROVE  fed'[l] \o Joined(todo'[l]) = Prefix(l)' \o SubSeq(Body(l)', 1, off')
    <2> DEFINE x == SubSeq(Body(l), 1, off')
    <2>1. /\ Prefix(l) \in Seq(Byte) /\ Body(l) \in Seq(Byte) /\ Len(Body(l)) = Len(Body(1))
          /\ Prefix(l)' = Prefix(l) /\ Body(l)' = Body(l)
      BY <1>1, VectorWhole, VectorJob, SameMessage
    <2>2. SubSeq(Body(l), 1, 0) = <<>> /\ x \in Seq(Byte)
      <3> DEFINE s == Body(l)
      <3>1. s \in Seq(Byte) /\ off' <= Len(s) /\ 0 \in Nat /\ off' \in Nat /\ Len(s) \in Nat
            /\ Len(s) <= Len(s)
        BY <1>3, <2>1
      <3> HIDE DEF s
      <3>2. SubSeq(s, 1, 0) = <<>> /\ SubSeq(s, 1, off') \in Seq(Byte)
        BY <3>1, CutSlice
      <3> QED  BY <3>2 DEF s
    <2>3. fed[l] = Prefix(l)
      <3>1. fed[l] \o Joined(<<>>) = Prefix(l) \o <<>>
        BY <1>1, <2>2 DEF MessageInv
      <3>2. fed[l] \in Seq(Byte)
        BY <1>1, FedType
      <3> QED  BY <2>1, <3>1, <3>2, JoinedEnds, ConcatEmptySeq
    <2>4. Joined(todo'[l]) = x
      <3>1. CASE sponge[1].pos % WordBytes # 0
        <4>1. todo'[l] = <<x>>
          BY <3>1 DEF Align
        <4> HIDE DEF x
        <4> QED  BY <2>2, <4>1, JoinedEnds
      <3>2. CASE ~(sponge[1].pos % WordBytes # 0)
        <4>1. todo'[l] = <<>> /\ off' = 0
          BY <1>1, <3>2 DEF Align
        <4> QED  BY <2>2, <4>1, JoinedEnds
      <3> QED  BY <3>1, <3>2
    <2> QED  BY <1>1, <2>1, <2>3, <2>4
  <1> QED  BY <1>1, <1>3, <1>4 DEF MessageInv, Finished

LEMMA PackMessage == ASSUME Inv, MessageInv, Pack  PROVE MessageInv'
  <1>1. /\ stage = "align" /\ stage' = "vector" /\ job' = job /\ fed' = fed /\ todo' = todo
        /\ off' = off
    BY DEF Pack
  <1>2. \A l \in Lanes : fed'[l] \o Joined(todo'[l]) =
            IF VectorMac' THEN Prefix(l)' \o SubSeq(Body(l)', 1, off') ELSE Whole(l)'
    BY <1>1, SameMessage DEF MessageInv
  <1> QED  BY <1>1, <1>2 DEF MessageInv, Finished

\* In the vector loop a lane has consumed its prefix and the body so far.
LEMMA VectorFed ==
    ASSUME Inv, MessageInv, stage = "vector"
    PROVE  \A l \in Lanes : fed[l] = Prefix(l) \o SubSeq(Body(l), 1, off)
  <1>1. VectorMac /\ Drained /\ ~Finished
    BY SamePosition DEF Inv, WordInv, Finished
  <1>2. SUFFICES ASSUME NEW l \in Lanes
                 PROVE  fed[l] = Prefix(l) \o SubSeq(Body(l), 1, off)
    OBVIOUS
  <1>3. fed[l] \o Joined(<<>>) = Prefix(l) \o SubSeq(Body(l), 1, off)
    BY <1>1 DEF MessageInv, Drained
  <1>4. fed[l] \in Seq(Byte)
    BY <1>1, FedType
  <1> QED  BY <1>3, <1>4, JoinedEnds, ConcatEmptySeq

LEMMA NextPiece ==
    ASSUME NEW p \in Seq(Byte), NEW s \in Seq(Byte), NEW n \in Nat, NEW m \in Nat,
           n <= m, m <= Len(s)
    PROVE  (p \o SubSeq(s, 1, n)) \o SubSeq(s, n + 1, m) = p \o SubSeq(s, 1, m)
  <1>1. /\ SubSeq(s, 1, n) \in Seq(Byte) /\ SubSeq(s, n + 1, m) \in Seq(Byte)
        /\ SubSeq(s, 1, n) \o SubSeq(s, n + 1, m) = SubSeq(s, 1, m)
    BY CutSlice
  <1> DEFINE x == SubSeq(s, 1, n)
             y == SubSeq(s, n + 1, m)
  <1>2. x \in Seq(Byte) /\ y \in Seq(Byte) /\ x \o y = SubSeq(s, 1, m)
    BY <1>1
  <1> HIDE DEF x, y
  <1>3. (p \o x) \o y = p \o (x \o y)
    BY <1>2, Associative
  <1> QED  BY <1>2, <1>3 DEF x, y

LEMMA VectorBlockMessage == ASSUME Inv, MessageInv, VectorBlock  PROVE MessageInv'
  <1>1. /\ stage = "vector" /\ stage' = stage /\ job' = job /\ todo' = todo /\ off' = off + Fill
        /\ fed' = [l \in Lanes |-> fed[l] \o VectorBytes(l)] /\ VectorMac /\ job \in Jobs
    BY SamePosition DEF VectorBlock, Inv, TypeInv
  <1>2. /\ (Fill \div WordBytes) * WordBytes = Fill /\ Drained
        /\ Fill \in Nat /\ off \in Nat /\ off + Fill <= Len(Body(1))
    BY VectorFill
  <1>3. ASSUME NEW l \in Lanes
        PROVE  fed'[l] \o Joined(todo'[l]) = Prefix(l)' \o SubSeq(Body(l)', 1, off')
    <2>1. /\ Prefix(l) \in Seq(Byte) /\ Body(l) \in Seq(Byte) /\ Len(Body(l)) = Len(Body(1))
          /\ Prefix(l)' = Prefix(l) /\ Body(l)' = Body(l)
      BY <1>1, VectorWhole, VectorJob, SameMessage
    <2>2. fed[l] = Prefix(l) \o SubSeq(Body(l), 1, off)
      BY <1>1, VectorFed
    <2>3. VectorBytes(l) = SubSeq(Body(l), off + 1, off + Fill)
      BY <1>2 DEF VectorBytes
    <2>4. fed'[l] = Prefix(l) \o SubSeq(Body(l), 1, off + Fill)
      <3> DEFINE p == Prefix(l)
                 s == Body(l)
                 m == off + Fill
      <3>1. p \in Seq(Byte) /\ s \in Seq(Byte) /\ m \in Nat /\ off <= m /\ m <= Len(s)
        BY <1>2, <2>1
      <3>2. fed'[l] = (p \o SubSeq(s, 1, off)) \o SubSeq(s, off + 1, m)
        BY <1>1, <2>2, <2>3
      <3> HIDE DEF p, s, m
      <3>3. fed'[l] = p \o SubSeq(s, 1, m)
        BY <1>2, <3>1, <3>2, NextPiece
      <3> QED  BY <3>3 DEF p, s, m
    <2>5. fed'[l] \in Seq(Byte)
      <3>1. Inv' /\ ~Finished'
        BY <1>1, VectorBlockStep DEF Finished
      <3>2. Holds(sponge'[l], sponge'[l].pos, fed'[l])
        BY <3>1 DEF Inv, HoldInv
      <3> QED  BY <3>2, HoldsFacts
    <2>6. Joined(todo'[l]) = <<>>
      BY <1>1, <1>2, JoinedEnds DEF Drained
    <2> QED  BY <1>1, <2>1, <2>4, <2>5, <2>6, ConcatEmptySeq
  <1>4. VectorMac'
    BY <1>1, SameMessage
  <1> QED  BY <1>1, <1>3, <1>4 DEF MessageInv, Finished

LEMMA VectorTailMessage == ASSUME Inv, MessageInv, VectorTail  PROVE MessageInv'
  <1> DEFINE rest(l) == SubSeq(Body(l), off + 1, Len(Body(1)))
  <1>1. /\ stage = "vector" /\ stage' = "squeeze" /\ job' = job
        /\ fed' = [l \in Lanes |-> fed[l] \o rest(l)] /\ VectorMac /\ job \in Jobs
    BY SamePosition DEF VectorTail, Inv, TypeInv
  <1>2. off \in Nat /\ Len(Body(1)) \in Nat /\ off <= Len(Body(1))
    <2>1. off \in 0..Len(Body(1)) /\ Len(Body(1)) \in Nat
      BY <1>1, VectorJob DEF Inv, StageInv
    <2> QED  BY <2>1
  <1>3. ASSUME NEW l \in Lanes  PROVE fed'[l] = Whole(l)'
    <2> DEFINE p == Prefix(l)
               s == Body(l)
               m == Len(Body(1))
    <2>1. p \in Seq(Byte) /\ s \in Seq(Byte) /\ Len(s) = m /\ Whole(l) = p \o s
      BY <1>1, VectorWhole, VectorJob
    <2>2. fed'[l] = (p \o SubSeq(s, 1, off)) \o SubSeq(s, off + 1, m)
      BY <1>1, VectorFed
    <2>3. m \in Nat /\ off <= m
      BY <1>2
    <2> HIDE DEF p, s, m
    <2>4. fed'[l] = p \o SubSeq(s, 1, m)
      <3>1. m <= Len(s)
        BY <2>1, <2>3
      <3> QED  BY <1>2, <2>1, <2>2, <2>3, <3>1, NextPiece
    <2>5. SubSeq(s, 1, m) = s
      BY <2>1, SubSeqFull
    <2> QED  BY <1>1, <2>1, <2>4, <2>5, SameMessage
  <1> QED  BY <1>1, <1>3 DEF MessageInv

LEMMA FinalizeMessage == ASSUME Inv, MessageInv, Finalize  PROVE MessageInv'
  <1>1. /\ stage = "absorb" /\ stage' = "squeeze" /\ job' = job /\ fed' = fed /\ ~VectorMac
        /\ ~Finished /\ \A l \in Lanes : todo[l] = <<>>
    BY DEF Finalize, Drained, Finished
  <1>2. ASSUME NEW l \in Lanes  PROVE fed'[l] = Whole(l)'
    <2>1. fed[l] \o Joined(<<>>) = Whole(l)
      BY <1>1 DEF MessageInv
    <2>2. fed[l] \in Seq(Byte)
      BY <1>1, FedType
    <2> QED  BY <1>1, <2>1, <2>2, JoinedEnds, ConcatEmptySeq, SameMessage
  <1> QED  BY <1>1, <1>2 DEF MessageInv

LEMMA DoneMessage ==
    ASSUME MessageInv, Finished, stage' \in {"squeeze", "done"}, UNCHANGED <<job, fed>>
    PROVE  MessageInv'
  BY SameMessage DEF MessageInv, Finished

LEMMA MessageStep == ASSUME Inv, MessageInv, [Next]_vars  PROVE MessageInv'
  <1>1. ASSUME NEW l \in Lanes, AbsorbByte(l) \/ AbsorbWords(l) \/ NextSlice(l)
        PROVE  MessageInv'
    BY <1>1, AbsorbMessage
  <1>2. ASSUME NEW l \in Lanes, SqueezeLane(l)  PROVE MessageInv'
    BY <1>2, DoneMessage DEF SqueezeLane, Finished
  <1>3. CASE Diverge \/ Align \/ Pack
    BY <1>3, DivergeMessage, AlignMessage, PackMessage
  <1>4. CASE VectorBlock \/ VectorTail \/ Finalize
    BY <1>4, VectorBlockMessage, VectorTailMessage, FinalizeMessage
  <1>5. CASE SqueezeVector \/ Return
    BY <1>5, DoneMessage DEF SqueezeVector, Return, Finished
  <1>6. CASE UNCHANGED vars
    <2>1. job' = job /\ stage' = stage /\ off' = off /\ fed' = fed /\ todo' = todo /\ 1 \in Lanes
      BY <1>6, SpongeAssumption DEF vars
    <2>2. /\ VectorMac' <=> VectorMac
          /\ \A l \in Lanes : Whole(l)' = Whole(l) /\ Prefix(l)' = Prefix(l)
                              /\ Body(l)' = Body(l)
      BY <2>1, SameMessage
    <2> QED  BY <2>1, <2>2 DEF MessageInv, Finished
  <1> QED  BY <1>1, <1>2, <1>3, <1>4, <1>5, <1>6 DEF Next

LEMMA JoinsThree ==
    ASSUME NEW p \in Seq(Seq(Byte)), Len(p) >= 3
    PROVE  Joins(p)[3] = (p[1] \o p[2]) \o p[3]
  <1>1. 1 \in 1..Len(p) /\ 2 \in 1..Len(p) /\ 3 \in 1..Len(p)
    OBVIOUS
  <1>2. Joins(p)[0] = <<>> /\ \A n \in 1..Len(p) : Joins(p)[n] = Joins(p)[n - 1] \o p[n]
    BY JoinsStep
  <1> DEFINE g == Joins(p)
  <1>3. /\ g[1] = g[1 - 1] \o p[1] /\ g[2] = g[2 - 1] \o p[2]
        /\ g[3] = g[3 - 1] \o p[3]
    BY <1>1, <1>2
  <1>4. g[0] = <<>>
    BY <1>2
  <1> HIDE DEF g
  <1>5. g[1] = <<>> \o p[1] /\ g[2] = g[1] \o p[2] /\ g[3] = g[2] \o p[3]
    <2>1. 1 - 1 = 0 /\ 2 - 1 = 1 /\ 3 - 1 = 2
      OBVIOUS
    <2>2. g[1 - 1] = g[0] /\ g[2 - 1] = g[1] /\ g[3 - 1] = g[2]
      BY <2>1, Zenon
    <2> QED  BY <1>3, <1>4, <2>2, Zenon
  <1>6. p[1] \in Seq(Byte)
    BY <1>1, ElementOfSeq
  <1>7. <<>> \o p[1] = p[1]
    BY <1>6, ConcatEmptySeq
  <1> QED  BY <1>5, <1>7 DEF g

\* Three slices and a fourth, and the same with the last two glued together.
LEMMA JoinedFour ==
    ASSUME NEW t \in Seq(Seq(Byte)), Len(t) = 4
    PROVE  Joined(<<t[1], t[2], t[3] \o t[4]>>) = Joined(t)
  <1>2. 1 \in 1..Len(t) /\ 2 \in 1..Len(t) /\ 3 \in 1..Len(t) /\ 4 \in 1..Len(t)
    OBVIOUS
  <1> DEFINE a == t[1]
             b == t[2]
             c == t[3]
             d == t[4]
             u == <<a, b, c \o d>>
  <1>3. a \in Seq(Byte) /\ b \in Seq(Byte) /\ c \in Seq(Byte) /\ d \in Seq(Byte)
    BY <1>2, ElementOfSeq
  <1>4. Joins(t)[4] = ((a \o b) \o c) \o d
    <2>1. Joins(t)[4] = Joins(t)[4 - 1] \o t[4]
      BY <1>2, JoinsStep
    <2>2. Len(t) >= 3
      OBVIOUS
    <2>3. Joins(t)[3] = (t[1] \o t[2]) \o t[3]
      BY <2>2, JoinsThree
    <2>4. 4 - 1 = 3
      OBVIOUS
    <2> QED  BY <2>1, <2>3, <2>4, Zenon
  <1> HIDE DEF a, b, c, d
  <1>5. u \in Seq(Seq(Byte)) /\ Len(u) = 3 /\ u[1] = a /\ u[2] = b /\ u[3] = c \o d
    <2>1. c \o d \in Seq(Byte)
      BY <1>3
    <2> QED  BY <1>3, <2>1
  <1> HIDE DEF u
  <1>6. Joins(u)[3] = (a \o b) \o (c \o d)
    <2>1. Len(u) >= 3
      BY <1>5
    <2> QED  BY <1>5, <2>1, JoinsThree
  <1>7. ((a \o b) \o c) \o d = (a \o b) \o (c \o d)
    <2>1. a \o b \in Seq(Byte)
      BY <1>3
    <2> QED  BY <1>3, <2>1, Associative
  <1> QED  BY <1>4, <1>5, <1>6, <1>7 DEF Joined, a, b, c, d, u

LEMMA InitMessage == ASSUME Init  PROVE MessageInv
  <1>1. /\ job \in Jobs /\ 1 \in Lanes /\ off = 0 /\ ~Finished
        /\ stage = IF job.kind = "kdf" THEN "shared" ELSE "absorb"
        /\ \A l \in Lanes : fed[l] = <<>>
    BY SpongeAssumption DEF Init, Finished
  <1>2. \A l \in Lanes : job.parts[l] \in Seq(Seq(Byte))
    BY <1>1, JobsAssumption
  <1>3. \A x \in Seq(Byte) : <<>> \o x = x /\ x \o <<>> = x
    BY ConcatEmptySeq
  <1>4. ASSUME job.kind = "kdf"  PROVE fed[1] \o Joined(todo[1]) = Prefix(1)
    <2>1. todo[1] = SubSeq(job.parts[1], 1, 3)
      BY <1>1, <1>4 DEF Init, VectorMac
    <2>2. Prefix(1) \in Seq(Byte)
      <3>1. job.parts[1] \in Seq(Seq(Byte)) /\ Len(job.parts[1]) >= 3
        <4>1. Len(job.parts[1]) = 5
          BY <1>1, <1>4, JobsAssumption
        <4> QED  BY <1>1, <1>2, <4>1
      <3>2. SubSeq(job.parts[1], 1, 3) \in Seq(Seq(Byte))
        BY <3>1, FirstThree
      <3> QED  BY <3>2, JoinedEnds DEF Prefix
    <2> QED  BY <1>1, <1>3, <2>1, <2>2 DEF Prefix
  <1>5. ASSUME job.kind # "kdf", NEW l \in Lanes
        PROVE  fed[l] \o Joined(todo[l]) =
                   IF VectorMac THEN Prefix(l) \o SubSeq(Body(l), 1, off) ELSE Whole(l)
    <2>1. CASE VectorMac
      <3>1. todo[l] = SubSeq(job.parts[l], 1, 3)
        BY <1>5, <2>1 DEF Init, VectorMac
      <3>2. Prefix(l) \in Seq(Byte)
        BY <1>1, <2>1, VectorWhole
      <3>3. SubSeq(Body(l), 1, off) = <<>>
        BY <1>1, SubSeqEmpty
      <3> QED  BY <1>1, <1>3, <2>1, <3>1, <3>2, <3>3 DEF Prefix
    <2>2. CASE ~VectorMac
      <3> DEFINE t == job.parts[l]
      <3>1. Joined(todo[l]) = Whole(l)
        <4>1. CASE job.kind = "mac"
          <5>1. todo[l] = <<t[1], t[2], t[3] \o t[4]>>
            BY <2>2, <4>1 DEF Init
          <5>2. t \in Seq(Seq(Byte)) /\ Len(t) = 4
            BY <1>1, <1>2, <4>1, JobsAssumption
          <5> HIDE DEF t
          <5> QED  BY <5>1, <5>2, JoinedFour DEF t, Whole
        <4>2. CASE job.kind # "mac"
          <5>1. todo[l] = t
            BY <1>5, <2>2, <4>2 DEF Init
          <5> QED  BY <5>1 DEF Whole
        <4> QED  BY <4>1, <4>2
      <3>2. Whole(l) \in Seq(Byte)
        BY <1>2, JoinedEnds DEF Whole
      <3> QED  BY <1>1, <1>3, <2>2, <3>1, <3>2
    <2> QED  BY <2>1, <2>2
  <1> QED  BY <1>1, <1>4, <1>5 DEF MessageInv

\* Every lane of every call consumes its own whole message, each byte once and
\* in order, whichever slices, clones or vector blocks it came through.
THEOREM LanesConsumeTheirMessage == Spec => []ConsumesMessage
  <1>1. Init => Inv /\ MessageInv
    BY InitInv, InitMessage
  <1>2. Inv /\ MessageInv /\ [Next]_vars => Inv' /\ MessageInv'
    BY Step, MessageStep
  <1>3. MessageInv => ConsumesMessage
    <2>1. SUFFICES ASSUME MessageInv, Finished  PROVE ConsumesMessage
      BY DEF ConsumesMessage
    <2>2. \A l \in Lanes : fed[l] = Joins(job.parts[l])[Len(job.parts[l])]
      BY <2>1 DEF MessageInv, Whole, Joined
    <2> QED  BY <2>2 DEF ConsumesMessage, Joins
  <1> QED  BY <1>1, <1>2, <1>3, PTL DEF Spec

\* Hence scalar and batched calls absorb alike: what a lane's sponge permutes
\* in depends on its message and its domain alone.
THEOREM LanesAbsorbTheirMessage ==
    Spec => [](Finished => \A l \in Lanes :
        sponge[l].past = Whole(l) \o Padding(Len(Whole(l)) % Rate, job.domain[l]))
  <1>1. Init => Inv /\ MessageInv
    BY InitInv, InitMessage
  <1>2. Inv /\ MessageInv /\ [Next]_vars => Inv' /\ MessageInv'
    BY Step, MessageStep
  <1>3. Inv /\ MessageInv => (Finished => \A l \in Lanes :
            sponge[l].past = Whole(l) \o Padding(Len(Whole(l)) % Rate, job.domain[l]))
    BY DEF Inv, PaddedInv, MessageInv
  <1> QED  BY <1>1, <1>2, <1>3, PTL DEF Spec

=============================================================================
