------------------------------ MODULE CodecProofs ------------------------------
(* For every chunk size, group, set of calls and interleaving of their tasks: *)
(* no key symbol encodes two bytes; what a receiver makes of an arrival is    *)
(* what its parts were sealed from or an error, and it is the message when    *)
(* all of it arrives as it was sent; and the exchange keeps the bits it       *)
(* compares out of the key and agrees on a clean channel.                     *)
EXTENDS Qkd, SequenceTheorems, FiniteSetTheorems, WellFoundedInduction, TLAPS

\* The key symbol of byte n under snapshot snap.
KeySymbol(snap, n) == {<<snap, (n - 1) \div ChunkSize, (n - 1) % ChunkSize>>}

-----------------------------------------------------------------------------
(* Induction, as a statement about sets: the smallest number outside a set   *)
(* that is closed under successors would have a predecessor in it.           *)

Less == {p \in Nat \X Nat : p[1] < p[2]}

LEMMA LessIsWellFounded == IsWellFoundedOn(Less, Nat)
  <1>1. OpToRel(<, Nat) = Less
    BY DEF OpToRel, Less
  <1> QED  BY <1>1, NatLessThanWellFounded

LEMMA Induction ==
    ASSUME NEW S, 0 \in S, \A n \in Nat : n \in S => n + 1 \in S
    PROVE  Nat \subseteq S
  <1> DEFINE T == {n \in Nat : n \notin S}
  <1>1. SUFFICES ASSUME T # {}  PROVE FALSE
    OBVIOUS
  <1>2. T \subseteq Nat
    OBVIOUS
  <1>3. PICK x \in T : \A y \in T : <<y, x>> \notin Less
    <2> HIDE DEF T
    <2> QED  BY <1>1, <1>2, WFMin, LessIsWellFounded
  <1>4. x \in Nat \ {0} /\ x - 1 \in Nat
    OBVIOUS
  <1>5. x - 1 \in T
    BY <1>4
  <1>6. <<x - 1, x>> \in Less
    BY <1>4 DEF Less
  <1> QED  BY <1>3, <1>5, <1>6

-----------------------------------------------------------------------------
(* Arithmetic of bytes, chunks and batches. *)

LEMMA ProductAtLeast ==
    ASSUME NEW c \in Nat \ {0}, NEW d \in Int, d >= 1
    PROVE  c * d >= c
  <1>1. d - 1 \in Nat /\ c * (d - 1) \in Nat
    OBVIOUS
  <1>2. c * d = c * (d - 1) + c
    OBVIOUS
  <1> QED  BY <1>1, <1>2

LEMMA QuotientRemainder ==
    ASSUME NEW c \in Nat \ {0}, NEW b \in Int
    PROVE  b \div c \in Int /\ b % c \in 0..(c - 1) /\ b = c * (b \div c) + (b % c)
  OBVIOUS

\* They are the only ones.
LEMMA QuotientUnique ==
    ASSUME NEW c \in Nat \ {0}, NEW b \in Int, NEW q \in Int, NEW r \in 0..(c - 1),
           b = c * q + r
    PROVE  b \div c = q /\ b % c = r
  <1> DEFINE k == b \div c
             s == b % c
  <1>1. k \in Int /\ s \in 0..(c - 1) /\ b = c * k + s
    BY QuotientRemainder
  <1> HIDE DEF k, s
  <1>2. c * (q - k) = s - r /\ c * (k - q) = r - s
    BY <1>1
  <1>3. ~(q - k >= 1)
    BY <1>1, <1>2, ProductAtLeast
  <1>4. ~(k - q >= 1)
    BY <1>1, <1>2, ProductAtLeast
  <1>5. q = k
    BY <1>1, <1>3, <1>4
  <1>6. s = r
    BY <1>1, <1>5
  <1> QED  BY <1>5, <1>6 DEF k, s

\* Quotients are in the order of what is divided.
LEMMA QuotientBelow ==
    ASSUME NEW c \in Nat \ {0}, NEW b \in Int, NEW d \in Int, b < c * d
    PROVE  b \div c < d
  <1> DEFINE k == b \div c
             s == b % c
  <1>1. k \in Int /\ s \in 0..(c - 1) /\ b = c * k + s
    BY QuotientRemainder
  <1> HIDE DEF k, s
  <1>2. SUFFICES ASSUME k >= d  PROVE FALSE
    BY <1>1 DEF k
  <1>3. k - d \in Nat /\ c * (k - d) \in Nat
    BY <1>1, <1>2
  <1>4. c * (k - d) = c * k - c * d
    BY <1>1
  <1> QED  BY <1>1, <1>3, <1>4

LEMMA QuotientAtLeast ==
    ASSUME NEW c \in Nat \ {0}, NEW b \in Int, NEW d \in Int, b >= c * d
    PROVE  b \div c >= d
  <1> DEFINE k == b \div c
             s == b % c
  <1>1. k \in Int /\ s \in 0..(c - 1) /\ b = c * k + s
    BY QuotientRemainder
  <1> HIDE DEF k, s
  <1>2. SUFFICES ASSUME d - k >= 1  PROVE FALSE
    BY <1>1 DEF k
  <1>3. c * (d - k) >= c
    BY <1>1, <1>2, ProductAtLeast
  <1>4. c * (d - k) = c * d - c * k
    BY <1>1
  <1> QED  BY <1>1, <1>3, <1>4

LEMMA BatchBytesType == BatchBytes \in Nat \ {0}
  <1>1. ChunkSize \in Nat \ {0} /\ Group \in Nat \ {0}
    BY CodecAssumption
  <1>2. ChunkSize * Group >= ChunkSize /\ ChunkSize * Group \in Nat
    BY <1>1, ProductAtLeast
  <1> QED  BY <1>1, <1>2 DEF BatchBytes

\* A position is in batch b exactly when its quotient is b.
LEMMA InBatch ==
    ASSUME NEW x \in Int, NEW b \in Int
    PROVE  x - b * BatchBytes \in 0..(BatchBytes - 1) <=> x \div BatchBytes = b
  <1>1. BatchBytes \in Nat \ {0}
    BY BatchBytesType
  <1>2. ASSUME x - b * BatchBytes \in 0..(BatchBytes - 1)  PROVE x \div BatchBytes = b
    <2> DEFINE r == x - b * BatchBytes
    <2>1. r \in 0..(BatchBytes - 1)
      BY <1>2
    <2>2. x = BatchBytes * b + r
      BY <1>1
    <2> HIDE DEF r
    <2> QED  BY <1>1, <2>1, <2>2, QuotientUnique
  <1>3. ASSUME x \div BatchBytes = b  PROVE x - b * BatchBytes \in 0..(BatchBytes - 1)
    <2>1. x % BatchBytes \in 0..(BatchBytes - 1) /\ x = BatchBytes * b + (x % BatchBytes)
      BY <1>1, <1>3, QuotientRemainder
    <2>2. BatchBytes * b = b * BatchBytes
      BY <1>1
    <2> QED  BY <1>1, <2>1, <2>2
  <1> QED  BY <1>2, <1>3

-----------------------------------------------------------------------------
(* The keystream. *)

\* Chunk q of batch b, byte r of the chunk: the key is that of the position.
LEMMA KeyAt ==
    ASSUME NEW snap, NEW len \in Nat, NEW b \in Nat, NEW q \in Nat,
           NEW r \in 0..(ChunkSize - 1), q < Group, ChunkSize * q + r < len - b * BatchBytes
    PROVE  BatchKeys(snap, len, b)[q][r] = {<<snap, b * Group + q, r>>}
  <1> DEFINE n == OutBatch(len, b)
  <1>1. ChunkSize \in Nat \ {0} /\ Group \in Nat \ {0} /\ BatchBytes \in Nat \ {0}
    BY CodecAssumption, BatchBytesType
  <1>2. ChunkSize * q + r < ChunkSize * Group /\ b * BatchBytes \in Nat
    <2>1. Group - q >= 1 /\ ChunkSize * (Group - q) >= ChunkSize
      BY <1>1, ProductAtLeast
    <2>2. ChunkSize * (Group - q) = ChunkSize * Group - ChunkSize * q
      BY <1>1
    <2>3. ChunkSize * Group \in Nat /\ ChunkSize * q \in Nat /\ b * BatchBytes \in Nat
      BY <1>1
    <2> QED  BY <1>1, <2>1, <2>2, <2>3
  <1>3. n \in Nat /\ ChunkSize * q + r < n
    BY <1>1, <1>2 DEF OutBatch, Smaller, BatchBytes
  <1> HIDE DEF n
  <1>4. CASE n = BatchBytes
    <2>1. BatchKeys(snap, len, b) = SymbolKeyBatch(snap, BaseChunk(b), ChunkSize)
      BY <1>4 DEF BatchKeys, n
    <2>2. SymbolKeyBatch(snap, BaseChunk(b), ChunkSize)[q] = SymbolKey(snap, b * Group + q, ChunkSize)
      BY <1>1 DEF SymbolKeyBatch, BaseChunk
    <2> QED  BY <1>1, <2>1, <2>2 DEF SymbolKey
  <1>5. CASE n # BatchBytes
    <2>1. BatchKeys(snap, len, b) = [c \in 0..(CeilDiv(n, ChunkSize) - 1) |->
             SymbolKey(snap, BaseChunk(b) + c, Smaller(n - c * ChunkSize, ChunkSize))]
      BY <1>5 DEF BatchKeys, n
    <2>2. q \in 0..(CeilDiv(n, ChunkSize) - 1)
      <3>1. n + ChunkSize - 1 >= ChunkSize * (q + 1)
        <4>1. ChunkSize * (q + 1) = ChunkSize * q + ChunkSize /\ ChunkSize * q \in Nat
          BY <1>1
        <4> QED  BY <1>1, <1>3, <4>1
      <3>2. CeilDiv(n, ChunkSize) >= q + 1
        BY <1>1, <1>3, <3>1, QuotientAtLeast DEF CeilDiv
      <3>3. CeilDiv(n, ChunkSize) \in Int
        BY <1>1, <1>3, QuotientRemainder DEF CeilDiv
      <3> QED  BY <3>2, <3>3
    <2>3. r \in 0..(Smaller(n - q * ChunkSize, ChunkSize) - 1)
      <3>1. q * ChunkSize = ChunkSize * q /\ ChunkSize * q \in Nat
        BY <1>1
      <3>2. r < n - q * ChunkSize
        BY <1>1, <1>3, <3>1
      <3> QED  BY <1>1, <1>3, <3>1, <3>2 DEF Smaller
    <2> DEFINE key == BatchKeys(snap, len, b)
    <2>4. key[q] = SymbolKey(snap, b * Group + q, Smaller(n - q * ChunkSize, ChunkSize))
      BY <2>1, <2>2 DEF BaseChunk
    <2> QED  BY <2>3, <2>4 DEF SymbolKey
  <1> QED  BY <1>4, <1>5

\* Filling in a batch encodes its bytes and leaves the others alone.
LEMMA FilledByte ==
    ASSUME NEW S, NEW text \in Seq(S), NEW out, NEW snap, NEW b \in Nat,
           NEW n \in 1..Len(text)
    PROVE  Filled(out, snap, text, b)[n] =
             IF (n - 1) \div BatchBytes = b THEN Xor(text[n], KeySymbol(snap, n)) ELSE out[n]
  <1> DEFINE in == n - 1 - b * BatchBytes
             key == BatchKeys(snap, Len(text), b)
             q == in \div ChunkSize
             r == in % ChunkSize
  <1>1. /\ ChunkSize \in Nat \ {0} /\ Group \in Nat \ {0} /\ BatchBytes \in Nat \ {0}
        /\ Len(text) \in Nat /\ b * BatchBytes \in Nat /\ in \in Int
    BY CodecAssumption, BatchBytesType
  <1>2. in \in 0..(BatchBytes - 1) <=> (n - 1) \div BatchBytes = b
    <2>1. n - 1 \in Int /\ b \in Int
      OBVIOUS
    <2> QED  BY <2>1, InBatch
  <1>3. Filled(out, snap, text, b)[n] =
            IF in \in 0..(OutBatch(Len(text), b) - 1) THEN Xor(text[n], key[q][r]) ELSE out[n]
    BY DEF Filled
  <1>4. in \in 0..(OutBatch(Len(text), b) - 1) <=> (n - 1) \div BatchBytes = b
    <2> DEFINE left == Len(text) - b * BatchBytes
    <2>1. in < left /\ left \in Int
      BY <1>1
    <2>2. OutBatch(Len(text), b) = IF BatchBytes <= left THEN BatchBytes ELSE left
      BY DEF OutBatch, Smaller
    <2>3. in \in 0..(OutBatch(Len(text), b) - 1) <=> in \in 0..(BatchBytes - 1)
      <3> HIDE DEF in, left
      <3> QED  BY <1>1, <2>1, <2>2
    <2> HIDE DEF in
    <2> QED  BY <1>2, <2>3
  <1>5. ASSUME in \in 0..(BatchBytes - 1)  PROVE key[q][r] = KeySymbol(snap, n)
    <2>1. q \in Int /\ r \in 0..(ChunkSize - 1) /\ in = ChunkSize * q + r
      BY <1>1, QuotientRemainder
    <2>2. q < Group
      BY <1>1, <1>5, QuotientBelow DEF BatchBytes
    <2>3. q >= 0
      <3>1. in >= ChunkSize * 0
        BY <1>1, <1>5
      <3> QED  BY <1>1, <3>1, QuotientAtLeast
    <2>4. in < Len(text) - b * BatchBytes
      BY <1>1
    <2> HIDE DEF q, r
    <2>5. key[q][r] = {<<snap, b * Group + q, r>>}
      <3>1. q \in Nat
        BY <2>1, <2>3
      <3> HIDE DEF in
      <3> QED  BY <1>1, <2>1, <2>2, <2>4, <3>1, KeyAt
    <2>6. n - 1 = ChunkSize * (b * Group + q) + r
      <3>1. ChunkSize * (b * Group + q) = ChunkSize * (b * Group) + ChunkSize * q
        BY <1>1, <2>1
      <3>2. ChunkSize * (b * Group) = b * (ChunkSize * Group)
        BY <1>1
      <3>3. b * BatchBytes = b * (ChunkSize * Group)
        BY DEF BatchBytes
      <3> QED  BY <1>1, <2>1, <3>1, <3>2, <3>3
    <2>7. (n - 1) \div ChunkSize = b * Group + q /\ (n - 1) % ChunkSize = r
      <3> DEFINE index == b * Group + q
      <3>1. index \in Int /\ n - 1 \in Int
        BY <1>1, <2>1
      <3>2. n - 1 = ChunkSize * index + r
        BY <2>6
      <3> HIDE DEF index
      <3>3. (n - 1) \div ChunkSize = index /\ (n - 1) % ChunkSize = r
        BY <1>1, <2>1, <3>1, <3>2, QuotientUnique
      <3> QED  BY <3>3 DEF index
    <2> QED  BY <2>5, <2>7 DEF KeySymbol
  <1> HIDE DEF in, key, q, r
  <1> QED  BY <1>2, <1>3, <1>4, <1>5

LEMMA XorTwice == ASSUME NEW t, NEW k  PROVE Xor(Xor(t, k), t) = k
  BY DEF Xor

-----------------------------------------------------------------------------
(* The inductive invariant. *)

Fields == {"text", "aad", "snap", "out", "done", "mac"}

\* The bytes of the batches that are done are encoded under the key symbols of
\* their own positions.
Encoded(w) == \A n \in 1..Len(w.text) :
    (n - 1) \div BatchBytes \in w.done => w.out[n] = Xor(w.text[n], KeySymbol(w.snap, n))

\* There is no output before a snapshot, and no batch before the output.
ItemInv(w) ==
    /\ DOMAIN w = Fields
    /\ w.text \in Seq(SUBSET Symbols)
    /\ w.snap \in Snapshots \cup {None}
    /\ w.snap = None => w.out = None
    /\ w.out = None => w.done = {}
    /\ w.out # None => w.out \in [1..Len(w.text) -> SUBSET Marks]
    /\ Encoded(w)

ItemsInv == \A c \in DOMAIN jobs : \A i \in DOMAIN work[c] : ItemInv(work[c][i])

CallsInv ==
    /\ jobs \in Jobs
    /\ DOMAIN work = DOMAIN jobs
    /\ DOMAIN fed = DOMAIN jobs /\ \A c \in DOMAIN jobs : fed[c] \in Nat

\* A snapshot that is in use is in use once, and handed out no more.
SnapsInv ==
    /\ free \subseteq Snapshots
    /\ \A c \in DOMAIN jobs : \A i \in DOMAIN work[c] : work[c][i].snap \notin free
    /\ \A c, d \in DOMAIN jobs : \A i \in DOMAIN work[c], k \in DOMAIN work[d] :
           work[c][i].snap = work[d][k].snap /\ work[c][i].snap # None => c = d /\ i = k

\* The text of a stream grows no more once it has an output.
StreamsInv == \A c \in DOMAIN jobs : Form(c) = "stream" =>
    /\ DOMAIN work[c] = {1}
    /\ work[c][1].out # None => fed[c] = Len(jobs[c].msgs)

Inv == CallsInv /\ ItemsInv /\ SnapsInv /\ StreamsInv

-----------------------------------------------------------------------------
(* What the steps do to an item. *)

LEMMA NoOutput == ASSUME NEW n \in Nat, NEW out \in [1..n -> SUBSET Marks]  PROVE out # None
  <1>1. out \in Seq(SUBSET Marks)
    BY SeqDef
  <1> QED  BY <1>1, NoneAssumption DEF Bytestrings

LEMMA ZerosType == ASSUME NEW n \in Nat  PROVE Zeros(n) \in [1..n -> SUBSET Marks]
  BY DEF Zeros

LEMMA NewItemInv ==
    ASSUME NEW m, m.text \in Seq(SUBSET Symbols)
    PROVE  ItemInv(NewItem(m)) /\ NewItem(m).snap = None /\ NewItem(m).out = None
  <1> DEFINE w == NewItem(m)
  <1>1. /\ DOMAIN w = Fields /\ w.text = m.text /\ w.snap = None
        /\ w.out = None /\ w.done = {}
    BY DEF NewItem, Fields
  <1> HIDE DEF w
  <1>2. ItemInv(w)
    BY <1>1 DEF ItemInv, Encoded
  <1> QED  BY <1>1, <1>2 DEF w

LEMMA DrawItem ==
    ASSUME NEW w, ItemInv(w), w.snap = None, NEW s \in Snapshots,
           NEW out, out = None \/ out = Zeros(Len(w.text)),
           NEW v, DOMAIN v = Fields, v.text = w.text, v.snap = s, v.out = out, v.done = w.done
    PROVE  ItemInv(v)
  <1>3. s # None
    BY CodecAssumption
  <1>4. w.done = {} /\ w.text \in Seq(SUBSET Symbols)
    BY DEF ItemInv
  <1>5. out # None => out \in [1..Len(w.text) -> SUBSET Marks]
    <2>1. Len(w.text) \in Nat
      BY <1>4
    <2> QED  BY <2>1, ZerosType
  <1> QED  BY <1>3, <1>4, <1>5 DEF ItemInv, Encoded

LEMMA UpdateItem ==
    ASSUME NEW w, ItemInv(w), w.out = None, NEW t \in Seq(SUBSET Symbols),
           NEW v, v = [w EXCEPT !.text = w.text \o t]
    PROVE  ItemInv(v) /\ v.snap = w.snap /\ v.out = None
  <1>1. DOMAIN w = Fields
    BY DEF ItemInv
  <1>2. /\ DOMAIN v = Fields /\ v.text = w.text \o t /\ v.snap = w.snap
        /\ v.out = None /\ v.done = w.done
    BY <1>1 DEF Fields
  <1>3. w.done = {} /\ w.text \in Seq(SUBSET Symbols) /\ w.snap \in Snapshots \cup {None}
    BY DEF ItemInv
  <1>4. v.text \in Seq(SUBSET Symbols)
    BY <1>2, <1>3, ConcatProperties
  <1> QED  BY <1>2, <1>3, <1>4 DEF ItemInv, Encoded

LEMMA FinalizeItem ==
    ASSUME NEW w, ItemInv(w), w.out = None, w.snap # None,
           NEW v, v = [w EXCEPT !.out = Zeros(Len(w.text))]
    PROVE  ItemInv(v) /\ v.snap = w.snap
  <1>1. DOMAIN w = Fields
    BY DEF ItemInv
  <1>2. /\ DOMAIN v = Fields /\ v.text = w.text /\ v.snap = w.snap
        /\ v.out = Zeros(Len(w.text)) /\ v.done = w.done
    BY <1>1 DEF Fields
  <1>3. w.done = {} /\ w.text \in Seq(SUBSET Symbols) /\ w.snap \in Snapshots
    BY DEF ItemInv
  <1>4. v.out \in [1..Len(w.text) -> SUBSET Marks]
    <2>1. Len(w.text) \in Nat
      BY <1>3
    <2> QED  BY <1>2, <2>1, ZerosType
  <1>5. v.snap # None
    BY <1>2
  <1> QED  BY <1>2, <1>3, <1>4, <1>5 DEF ItemInv, Encoded

LEMMA MacItem ==
    ASSUME NEW w, ItemInv(w), NEW m, NEW v, v = [w EXCEPT !.mac = m]
    PROVE  ItemInv(v) /\ v.snap = w.snap /\ v.out = w.out
  <1>1. DOMAIN w = Fields
    BY DEF ItemInv
  <1>2. /\ DOMAIN v = Fields /\ v.text = w.text /\ v.snap = w.snap
        /\ v.out = w.out /\ v.done = w.done
    BY <1>1 DEF Fields
  <1> QED  BY <1>2 DEF ItemInv, Encoded

LEMMA XorItem ==
    ASSUME NEW w, ItemInv(w), w.out # None, NEW b \in Nat, b \notin w.done,
           NEW v, v = [w EXCEPT !.out = Filled(w.out, w.snap, w.text, b),
                                !.done = w.done \cup {b}]
    PROVE  ItemInv(v) /\ v.snap = w.snap
  <1>1. DOMAIN w = Fields
    BY DEF ItemInv
  <1>2. /\ DOMAIN v = Fields /\ v.text = w.text /\ v.snap = w.snap
        /\ v.out = Filled(w.out, w.snap, w.text, b) /\ v.done = w.done \cup {b}
    BY <1>1 DEF Fields
  <1>3. /\ w.text \in Seq(SUBSET Symbols) /\ w.snap \in Snapshots
        /\ w.out \in [1..Len(w.text) -> SUBSET Marks] /\ Len(w.text) \in Nat
    BY DEF ItemInv
  <1>4. \A n \in 1..Len(w.text) : v.out[n] =
            IF (n - 1) \div BatchBytes = b THEN Xor(w.text[n], KeySymbol(w.snap, n)) ELSE w.out[n]
    BY <1>2, <1>3, FilledByte
  <1>5. v.out \in [1..Len(w.text) -> SUBSET Marks]
    <2>1. v.out = [n \in 1..Len(w.text) |-> v.out[n]]
      BY <1>2 DEF Filled
    <2>2. ASSUME NEW n \in 1..Len(w.text)  PROVE v.out[n] \in SUBSET Marks
      <3>1. KeySymbol(w.snap, n) \subseteq Marks
        <4>1. n - 1 \in Int /\ n - 1 >= ChunkSize * 0 /\ ChunkSize \in Nat \ {0}
          BY CodecAssumption
        <4>2. (n - 1) \div ChunkSize \in Nat /\ (n - 1) % ChunkSize \in Nat
          BY <4>1, QuotientRemainder, QuotientAtLeast
        <4> QED  BY <1>3, <4>2 DEF KeySymbol, Marks
      <3>2. w.text[n] \subseteq Marks
        BY <1>3 DEF Marks
      <3>3. Xor(w.text[n], KeySymbol(w.snap, n)) \subseteq Marks
        BY <3>1, <3>2 DEF Xor
      <3> QED  BY <1>3, <1>4, <3>3
    <2> QED  BY <2>1, <2>2
  <1>6. v.out # None
    BY <1>3, <1>5, NoOutput
  <1>7. Encoded(v)
    <2>1. SUFFICES ASSUME NEW n \in 1..Len(w.text), (n - 1) \div BatchBytes \in w.done \cup {b}
                   PROVE  v.out[n] = Xor(w.text[n], KeySymbol(w.snap, n))
      BY <1>2 DEF Encoded
    <2>2. CASE (n - 1) \div BatchBytes = b
      BY <1>4, <2>2
    <2>3. CASE (n - 1) \div BatchBytes # b
      BY <1>4, <2>1, <2>3 DEF ItemInv, Encoded
    <2> QED  BY <2>2, <2>3
  <1>8. v.snap # None
    BY <1>2, <1>3, CodecAssumption
  <1> QED  BY <1>2, <1>3, <1>5, <1>6, <1>7, <1>8 DEF ItemInv

-----------------------------------------------------------------------------
(* What the steps do to the calls. *)

\* The items are those of the new state.
LEMMA Steady ==
    ASSUME Inv, jobs' = jobs, free' = free, DOMAIN work' = DOMAIN work,
           \A c \in DOMAIN jobs : DOMAIN work'[c] = DOMAIN work[c],
           \A c \in DOMAIN jobs : \A i \in DOMAIN work[c] :
               /\ ItemInv(work'[c][i])
               /\ work'[c][i].snap = work[c][i].snap
               /\ work'[c][i].out = work[c][i].out,
           fed' = fed
    PROVE  Inv'
  <1>1. CallsInv'
    BY DEF Inv, CallsInv
  <1>2. ItemsInv'
    BY DEF Inv, ItemsInv, CallsInv
  <1>3. SnapsInv'
    BY DEF Inv, SnapsInv, CallsInv
  <1>4. StreamsInv'
    BY DEF Inv, StreamsInv, CallsInv, Form
  <1> QED  BY <1>1, <1>2, <1>3, <1>4 DEF Inv

\* One item changes, and its snapshot, if it does, is a free one.
LEMMA OneItem ==
    ASSUME Inv, NEW c \in DOMAIN jobs, NEW i \in DOMAIN work[c], NEW v, ItemInv(v),
           jobs' = jobs,
           work' = [d \in DOMAIN jobs |->
                       IF d = c THEN [work[c] EXCEPT ![i] = v] ELSE work[d]],
           \/ v.snap = work[c][i].snap /\ free' = free
           \/ v.snap \in free /\ free' = free \ {v.snap},
           DOMAIN fed' = DOMAIN fed, \A d \in DOMAIN jobs : fed'[d] \in Nat,
           \A d \in DOMAIN jobs : d # c => fed'[d] = fed[d],
           Form(c) = "stream" /\ v.out # None => fed'[c] = Len(jobs[c].msgs)
    PROVE  Inv'
  <1>1. /\ DOMAIN work' = DOMAIN jobs
        /\ \A d \in DOMAIN jobs : DOMAIN work'[d] = DOMAIN work[d]
    OBVIOUS
  <1>2. work'[c][i] = v
    OBVIOUS
  <1>3. \A d \in DOMAIN jobs : \A k \in DOMAIN work[d] :
            ~(d = c /\ k = i) => work'[d][k] = work[d][k]
    OBVIOUS
  <1>4. CallsInv'
    BY <1>1 DEF Inv, CallsInv
  <1>5. ItemsInv'
    BY <1>1, <1>2, <1>3 DEF Inv, ItemsInv
  <1>6. SnapsInv'
    <2>1. free' \subseteq Snapshots
      BY DEF Inv, SnapsInv
    <2>2. ASSUME NEW d \in DOMAIN jobs, NEW k \in DOMAIN work[d]
          PROVE  work'[d][k].snap \notin free'
      BY <1>2, <1>3 DEF Inv, SnapsInv
    <2>3. ASSUME NEW d \in DOMAIN jobs, NEW k \in DOMAIN work[d], ~(d = c /\ k = i),
                 work[d][k].snap # None
          PROVE  work[d][k].snap # v.snap
      BY <2>3 DEF Inv, SnapsInv
    <2>4. ASSUME NEW d \in DOMAIN jobs, NEW e \in DOMAIN jobs,
                 NEW k \in DOMAIN work[d], NEW l \in DOMAIN work[e],
                 work'[d][k].snap = work'[e][l].snap, work'[d][k].snap # None
          PROVE  d = e /\ k = l
      <3>1. CASE d = c /\ k = i /\ ~(e = c /\ l = i)
        BY <1>2, <1>3, <2>3, <2>4, <3>1
      <3>2. CASE e = c /\ l = i /\ ~(d = c /\ k = i)
        BY <1>2, <1>3, <2>3, <2>4, <3>2
      <3>3. CASE ~(e = c /\ l = i) /\ ~(d = c /\ k = i)
        BY <1>3, <2>4, <3>3 DEF Inv, SnapsInv
      <3> QED  BY <3>1, <3>2, <3>3
    <2> QED  BY <1>1, <2>1, <2>2, <2>4 DEF SnapsInv
  <1>7. StreamsInv'
    <2>1. ASSUME NEW d \in DOMAIN jobs, Form(d) = "stream"
          PROVE  /\ DOMAIN work'[d] = {1}
                 /\ work'[d][1].out # None => fed'[d] = Len(jobs[d].msgs)
      <3>1. DOMAIN work[d] = {1}
        BY <2>1 DEF Inv, StreamsInv
      <3>2. CASE d = c
        BY <1>1, <1>2, <2>1, <3>1, <3>2
      <3>3. CASE d # c
        BY <1>1, <1>3, <2>1, <3>1, <3>3 DEF Inv, StreamsInv
      <3> QED  BY <3>2, <3>3
    <2> QED  BY <2>1 DEF StreamsInv, Form
  <1> QED  BY <1>4, <1>5, <1>6, <1>7 DEF Inv

LEMMA DrawStep == ASSUME Inv, NEW c \in DOMAIN jobs, NEW i \in DOMAIN work[c], Draw(c, i)
                  PROVE  Inv'
  <1> DEFINE w == work[c][i]
             out == IF Form(c) = "stream" THEN None ELSE Zeros(Len(w.text))
  <1>1. PICK s \in free : /\ free' = free \ {s}
                          /\ work' = [work EXCEPT ![c][i].snap = s, ![c][i].out = out]
    BY DEF Draw
  <1> DEFINE v == [w EXCEPT !.snap = s, !.out = out]
  <1>2. ItemInv(w) /\ w.snap = None /\ s \in Snapshots /\ DOMAIN work = DOMAIN jobs
    BY DEF Draw, MayDraw, Inv, ItemsInv, SnapsInv, CallsInv
  <1>3. ItemInv(v) /\ v.snap = s /\ v.out = out
    <2>1. out = None \/ out = Zeros(Len(w.text))
      OBVIOUS
    <2>2. DOMAIN w = Fields
      BY <1>2 DEF ItemInv
    <2>3. /\ DOMAIN v = Fields /\ v.text = w.text /\ v.snap = s
          /\ v.out = out /\ v.done = w.done
      <3> HIDE DEF w, out
      <3> QED  BY <2>2 DEF Fields
    <2> HIDE DEF w, out, v
    <2> QED  BY <1>2, <2>1, <2>3, DrawItem
  <1>4. work' = [d \in DOMAIN jobs |->
                    IF d = c THEN [work[c] EXCEPT ![i] = v] ELSE work[d]]
    <2> HIDE DEF out
    <2> QED  BY <1>1, <1>2
  <1>5. Form(c) = "stream" => v.out = None
    BY <1>3
  <1>6. jobs' = jobs /\ fed' = fed /\ \A d \in DOMAIN jobs : fed[d] \in Nat
    BY DEF Draw, Inv, CallsInv
  <1> HIDE DEF v
  <1> QED  BY <1>1, <1>3, <1>4, <1>5, <1>6, OneItem

LEMMA DrawFailsStep ==
    ASSUME Inv, NEW c \in DOMAIN jobs, NEW i \in DOMAIN work[c], DrawFails(c, i)
    PROVE  Inv'
  <1> DEFINE w == work[c][i]
             v == [w EXCEPT !.mac = Failed]
  <1>1. ItemInv(w) /\ w.snap = None /\ DOMAIN work = DOMAIN jobs
    BY DEF DrawFails, MayDraw, Inv, ItemsInv, CallsInv
  <1>2. ItemInv(v) /\ v.snap = w.snap /\ v.out = w.out
    BY <1>1, MacItem
  <1>3. work' = [d \in DOMAIN jobs |->
                    IF d = c THEN [work[c] EXCEPT ![i] = v] ELSE work[d]]
    BY <1>1 DEF DrawFails
  <1>4. v.out = None
    BY <1>1, <1>2 DEF ItemInv
  <1>5. /\ jobs' = jobs /\ fed' = fed /\ free' = free
        /\ \A d \in DOMAIN jobs : fed[d] \in Nat
    BY DEF DrawFails, Inv, CallsInv
  <1> HIDE DEF v
  <1> QED  BY <1>2, <1>3, <1>4, <1>5, OneItem

LEMMA SealStep == ASSUME Inv, NEW c \in DOMAIN jobs, NEW i \in DOMAIN work[c], Seal(c, i)
                  PROVE  Inv'
  <1> DEFINE w == work[c][i]
             v == [w EXCEPT !.mac = Commit(w.snap, w.aad, w.out)]
  <1>1. ItemInv(w) /\ w.out # None /\ DOMAIN work = DOMAIN jobs
    BY DEF Seal, Inv, ItemsInv, CallsInv
  <1>2. ItemInv(v) /\ v.snap = w.snap /\ v.out = w.out
    BY <1>1, MacItem
  <1>3. work' = [d \in DOMAIN jobs |->
                    IF d = c THEN [work[c] EXCEPT ![i] = v] ELSE work[d]]
    BY <1>1 DEF Seal
  <1>4. Form(c) = "stream" => fed[c] = Len(jobs[c].msgs)
    BY <1>1 DEF Inv, StreamsInv
  <1>5. /\ jobs' = jobs /\ fed' = fed /\ free' = free
        /\ \A d \in DOMAIN jobs : fed[d] \in Nat
    BY DEF Seal, Inv, CallsInv
  <1> HIDE DEF v
  <1> QED  BY <1>2, <1>3, <1>4, <1>5, OneItem

LEMMA XorBatchStep ==
    ASSUME Inv, NEW c \in DOMAIN jobs, NEW i \in DOMAIN work[c],
           NEW b \in 0..(BatchCount(Len(work[c][i].text)) - 1), XorBatch(c, i, b)
    PROVE  Inv'
  <1> DEFINE w == work[c][i]
             v == [w EXCEPT !.out = Filled(w.out, w.snap, w.text, b),
                            !.done = w.done \cup {b}]
  <1>1. ItemInv(w) /\ w.out # None /\ DOMAIN work = DOMAIN jobs /\ b \in Nat /\ b \notin w.done
    BY DEF XorBatch, Inv, ItemsInv, CallsInv
  <1>2. ItemInv(v) /\ v.snap = w.snap
    BY <1>1, XorItem
  <1>3. work' = [d \in DOMAIN jobs |->
                    IF d = c THEN [work[c] EXCEPT ![i] = v] ELSE work[d]]
    BY <1>1 DEF XorBatch
  <1>4. Form(c) = "stream" => fed[c] = Len(jobs[c].msgs)
    BY <1>1 DEF Inv, StreamsInv
  <1>5. /\ jobs' = jobs /\ fed' = fed /\ free' = free
        /\ \A d \in DOMAIN jobs : fed[d] \in Nat
    BY DEF XorBatch, Inv, CallsInv
  <1> HIDE DEF v
  <1> QED  BY <1>2, <1>3, <1>4, <1>5, OneItem

LEMMA UpdateStep == ASSUME Inv, NEW c \in DOMAIN jobs, Update(c)  PROVE Inv'
  <1> DEFINE w == work[c][1]
             n == fed[c] + 1
             t == jobs[c].msgs[n].text
             v == [w EXCEPT !.text = w.text \o t]
  <1>1. /\ DOMAIN work = DOMAIN jobs /\ DOMAIN fed = DOMAIN jobs
        /\ \A d \in DOMAIN jobs : fed[d] \in Nat
        /\ DOMAIN work[c] = {1} /\ Form(c) = "stream"
    BY DEF Update, Inv, CallsInv, StreamsInv
  <1>2. ItemInv(w)
    BY <1>1 DEF Inv, ItemsInv
  <1>3. fed[c] < Len(jobs[c].msgs) /\ jobs[c].msgs \in Seq(Messages)
    BY JobsAssumption DEF Update, Inv, CallsInv
  <1>4. w.out = None
    <2>1. Len(jobs[c].msgs) \in Nat /\ fed[c] # Len(jobs[c].msgs)
      BY <1>1, <1>3
    <2> QED  BY <1>1, <2>1 DEF Inv, StreamsInv
  <1>5. t \in Seq(SUBSET Symbols)
    <2>1. n \in 1..Len(jobs[c].msgs)
      BY <1>1, <1>3
    <2>2. jobs[c].msgs[n] \in Messages
      BY <1>3, <2>1
    <2> QED  BY <2>2 DEF Messages
  <1>6. ItemInv(v) /\ v.snap = w.snap /\ v.out = None
    <2>1. v = [w EXCEPT !.text = w.text \o t]
      OBVIOUS
    <2> HIDE DEF w, t, v
    <2> QED  BY <1>2, <1>4, <1>5, <2>1, UpdateItem
  <1>7. work' = [d \in DOMAIN jobs |->
                    IF d = c THEN [work[c] EXCEPT ![1] = v] ELSE work[d]]
    BY <1>1 DEF Update
  <1>8. /\ jobs' = jobs /\ free' = free /\ DOMAIN fed' = DOMAIN fed
        /\ \A d \in DOMAIN jobs : d # c => fed'[d] = fed[d]
        /\ \A d \in DOMAIN jobs : fed'[d] \in Nat
    BY <1>1 DEF Update
  <1> HIDE DEF v
  <1> QED  BY <1>1, <1>6, <1>7, <1>8, OneItem

LEMMA FinalizeStep == ASSUME Inv, NEW c \in DOMAIN jobs, Finalize(c)  PROVE Inv'
  <1> DEFINE w == work[c][1]
  <1>1. /\ DOMAIN work = DOMAIN jobs /\ \A d \in DOMAIN jobs : fed[d] \in Nat
        /\ DOMAIN work[c] = {1} /\ w.snap # None /\ w.out = None
        /\ fed[c] = Len(jobs[c].msgs) /\ jobs' = jobs /\ fed' = fed /\ free' = free
    BY DEF Finalize, Inv, CallsInv, StreamsInv
  <1>2. ItemInv(w)
    BY <1>1 DEF Inv, ItemsInv
  <1>3. CASE w.text = <<>>
    <2> DEFINE v == [w EXCEPT !.mac = Failed]
    <2>1. ItemInv(v) /\ v.snap = w.snap /\ v.out = w.out
      BY <1>2, MacItem
    <2>2. work' = [d \in DOMAIN jobs |->
                      IF d = c THEN [work[c] EXCEPT ![1] = v] ELSE work[d]]
      BY <1>1, <1>3 DEF Finalize
    <2> HIDE DEF v
    <2> QED  BY <1>1, <2>1, <2>2, OneItem
  <1>4. CASE w.text # <<>>
    <2> DEFINE v == [w EXCEPT !.out = Zeros(Len(w.text))]
    <2>1. ItemInv(v) /\ v.snap = w.snap
      BY <1>1, <1>2, FinalizeItem
    <2>2. work' = [d \in DOMAIN jobs |->
                      IF d = c THEN [work[c] EXCEPT ![1] = v] ELSE work[d]]
      BY <1>1, <1>4 DEF Finalize
    <2> HIDE DEF v
    <2> QED  BY <1>1, <2>1, <2>2, OneItem
  <1> QED  BY <1>3, <1>4

LEMMA SealGroupStep ==
    ASSUME Inv, NEW c \in DOMAIN jobs, NEW i \in DOMAIN work[c], SealGroup(c, i)
    PROVE  Inv'
  <1>1. /\ DOMAIN work = DOMAIN jobs /\ ItemsInv
        /\ jobs' = jobs /\ fed' = fed /\ free' = free
    BY DEF SealGroup, Inv, CallsInv
  <1> DEFINE v(k) == IF k \in Task(c, i) THEN [work[c][k] EXCEPT !.mac = GroupCommit(c, i, k)]
                     ELSE work[c][k]
  <1>2. work' = [work EXCEPT ![c] = [k \in DOMAIN work[c] |-> v(k)]]
    BY DEF SealGroup
  <1>3. ASSUME NEW k \in DOMAIN work[c]
        PROVE  ItemInv(v(k)) /\ v(k).snap = work[c][k].snap /\ v(k).out = work[c][k].out
    <2>1. ItemInv(work[c][k])
      BY <1>1 DEF ItemsInv
    <2>2. CASE k \in Task(c, i)
      BY <2>1, <2>2, MacItem
    <2>3. CASE k \notin Task(c, i)
      BY <2>1, <2>3
    <2> QED  BY <2>2, <2>3
  <1> HIDE DEF v
  <1>4. /\ DOMAIN work' = DOMAIN work /\ work'[c] = [k \in DOMAIN work[c] |-> v(k)]
        /\ \A d \in DOMAIN jobs : d # c => work'[d] = work[d]
    BY <1>1, <1>2
  <1>5. \A d \in DOMAIN jobs : DOMAIN work'[d] = DOMAIN work[d]
    BY <1>4
  <1>6. ASSUME NEW d \in DOMAIN jobs, NEW k \in DOMAIN work[d]
        PROVE  /\ ItemInv(work'[d][k])
               /\ work'[d][k].snap = work[d][k].snap
               /\ work'[d][k].out = work[d][k].out
    <2>1. CASE d = c
      BY <1>3, <1>4, <2>1
    <2>2. CASE d # c
      BY <1>1, <1>4, <2>2 DEF ItemsInv
    <2> QED  BY <2>1, <2>2
  <1> QED  BY <1>1, <1>4, <1>5, <1>6, Steady

LEMMA Untouched == ASSUME Inv, UNCHANGED <<jobs, work, fed, free>>  PROVE Inv'
  BY DEF Inv, CallsInv, ItemsInv, SnapsInv, StreamsInv, Form

LEMMA EncodingStep == ASSUME Inv, Encoding  PROVE Inv'
  <1>1. PICK c \in DOMAIN jobs :
            \/ Update(c) \/ Finalize(c) \/ Return(c)
            \/ \E i \in DOMAIN work[c] :
                 \/ Draw(c, i) \/ DrawFails(c, i) \/ Seal(c, i) \/ SealGroup(c, i)
                 \/ \E b \in 0..(BatchCount(Len(work[c][i].text)) - 1) : XorBatch(c, i, b)
    BY DEF Encoding
  <1>2. CASE Update(c)
    BY <1>2, UpdateStep
  <1>3. CASE Finalize(c)
    BY <1>3, FinalizeStep
  <1>4. CASE Return(c)
    BY <1>4, Untouched DEF Return
  <1>5. ASSUME NEW i \in DOMAIN work[c],
               Draw(c, i) \/ DrawFails(c, i) \/ Seal(c, i) \/ SealGroup(c, i)
        PROVE  Inv'
    BY <1>5, DrawStep, DrawFailsStep, SealStep, SealGroupStep
  <1>6. ASSUME NEW i \in DOMAIN work[c],
               NEW b \in 0..(BatchCount(Len(work[c][i].text)) - 1), XorBatch(c, i, b)
        PROVE  Inv'
    BY <1>6, XorBatchStep
  <1> QED  BY <1>1, <1>2, <1>3, <1>4, <1>5, <1>6

\* Whatever arrives, a receiver does not touch what the senders hold.
LEMMA DecodingStep == ASSUME Inv, Decoding  PROVE Inv'
  <1>1. PICK c \in DOMAIN jobs :
            \/ DecodeBatch(c) \/ DecodeStream(c) \/ DecodeWire(c)
            \/ \E d \in DOMAIN jobs : DecodeOne(c, d) \/ DecodeParallel(c, d)
    BY DEF Decoding
  <1>2. CASE DecodeBatch(c)
    <2>1. UNCHANGED <<jobs, stage, work, fed, free>>
      BY <1>2 DEF DecodeBatch, Receives
    <2> QED  BY <2>1, Untouched
  <1>3. CASE DecodeStream(c)
    BY <1>3, Untouched DEF DecodeStream, Receives
  <1>4. CASE DecodeWire(c)
    BY <1>4, Untouched DEF DecodeWire, Receives
  <1>5. ASSUME NEW d \in DOMAIN jobs, DecodeOne(c, d)  PROVE Inv'
    BY <1>5, Untouched DEF DecodeOne, Receives
  <1>6. ASSUME NEW d \in DOMAIN jobs, DecodeParallel(c, d)  PROVE Inv'
    BY <1>6, Untouched DEF DecodeParallel, Receives
  <1> QED  BY <1>1, <1>2, <1>3, <1>4, <1>5, <1>6

LEMMA CodecStep == ASSUME Inv, [Next]_vars  PROVE Inv'
  <1>1. CASE Encoding
    BY <1>1, EncodingStep
  <1>2. CASE Decoding
    BY <1>2, DecodingStep
  <1>3. CASE Over
    BY <1>3, Untouched DEF Over, vars
  <1>4. CASE UNCHANGED vars
    BY <1>4, Untouched DEF vars
  <1> QED  BY <1>1, <1>2, <1>3, <1>4 DEF Next

\* The exchange of a key does not touch the calls.
LEMMA SystemStep == ASSUME Inv, [SystemNext]_<<vars, qvars>>  PROVE Inv'
  <1>1. CASE EveIntercept \/ BobMeasure \/ Refuses
    BY <1>1, Untouched DEF EveIntercept, BobMeasure, Refuses, vars
  <1>2. CASE Distill
    BY <1>2, Untouched DEF Distill, vars
  <1>3. CASE CodecRuns
    BY <1>3, CodecStep DEF CodecRuns
  <1>4. ASSUME NEW c \in DOMAIN jobs, DecodeQkd(c)  PROVE Inv'
    BY <1>4, Untouched DEF DecodeQkd, Receives
  <1>5. CASE UNCHANGED <<vars, qvars>>
    BY <1>5, Untouched DEF vars
  <1> QED  BY <1>1, <1>2, <1>3, <1>4, <1>5 DEF SystemNext

-----------------------------------------------------------------------------
(* The initial states. *)

LEMMA ItemsText ==
    ASSUME NEW calls \in Jobs, NEW c \in DOMAIN calls, NEW i \in DOMAIN Items(calls[c])
    PROVE  Items(calls[c])[i].text \in Seq(SUBSET Symbols)
  <1> DEFINE job == calls[c]
  <1>1. job.msgs \in Seq(Messages) /\ job.size \in Nat
        /\ (job.form \in {"plain", "split", "aead", "parallel"} => Len(job.msgs) = 1)
    BY JobsAssumption
  <1>3. i \in DOMAIN Items(job)
    OBVIOUS
  <1> SUFFICES Items(job)[i].text \in Seq(SUBSET Symbols)
    OBVIOUS
  <1> HIDE DEF job
  <1>2. \A m \in DOMAIN job.msgs : job.msgs[m].text \in Seq(SUBSET Symbols)
    <2>1. \A m \in DOMAIN job.msgs : job.msgs[m] \in Messages
      BY <1>1
    <2> QED  BY <2>1 DEF Messages
  <1>4. CASE Refused(job)
    <2>1. Items(job) = <<>>
      BY <1>4 DEF Items, Refused
    <2> QED  BY <1>3, <2>1
  <1>5. CASE ~Refused(job) /\ job.form = "stream"
    <2>1. Items(job) = <<[text |-> <<>>, aad |-> None]>>
      BY <1>5 DEF Items
    <2>2. DOMAIN Items(job) = {1}
      BY <2>1
    <2>3. i = 1
      BY <1>3, <2>2
    <2>4. Items(job)[1].text = <<>>
      BY <2>1
    <2> QED  BY <2>3, <2>4
  <1>6. CASE ~Refused(job) /\ job.form = "parallel"
    <2> DEFINE text == job.msgs[1].text
               first == (i - 1) * job.size + 1
               last == Smaller(i * job.size, Len(text))
    <2>1. text \in Seq(SUBSET Symbols)
      BY <1>1, <1>2, <1>6
    <2>2. Items(job) = [k \in DOMAIN Chunks(text, job.size) |->
                           [text |-> Chunks(text, job.size)[k], aad |-> job.msgs[1].aad]]
      BY <1>6 DEF Items
    <2>3. i \in 1..CeilDiv(Len(text), job.size) /\ Items(job)[i].text = SubSeq(text, first, last)
      BY <1>3, <2>2 DEF Chunks
    <2>4. first \in Int /\ first >= 1
      <3>1. (i - 1) * job.size \in Nat
        BY <1>1, <2>3
      <3> QED  BY <3>1
    <2>5. last \in Int /\ last <= Len(text)
      <3>1. i * job.size \in Nat /\ Len(text) \in Nat
        BY <1>1, <2>1, <2>3
      <3> QED  BY <3>1 DEF Smaller
    <2>6. \A k \in first..last : k \in 1..Len(text)
      <3> HIDE DEF first, last
      <3> QED  BY <2>4, <2>5
    <2>7. SubSeq(text, first, last) \in Seq(SUBSET Symbols)
      <3> HIDE DEF first, last, text
      <3> QED  BY <2>1, <2>4, <2>5, <2>6
    <2> QED  BY <2>3, <2>7
  <1>7. CASE ~Refused(job) /\ job.form # "stream" /\ job.form # "parallel"
    <2>1. Items(job) = job.msgs
      BY <1>7 DEF Items
    <2> QED  BY <1>2, <1>3, <2>1
  <1> QED  BY <1>4, <1>5, <1>6, <1>7

LEMMA InitInv == ASSUME Init  PROVE Inv
  <1>1. CallsInv
    BY DEF Init, CallsInv
  <1>2. /\ DOMAIN work = DOMAIN jobs /\ jobs \in Jobs /\ free = Snapshots
        /\ \A c \in DOMAIN jobs : DOMAIN work[c] = DOMAIN Items(jobs[c])
        /\ \A c \in DOMAIN jobs : \A i \in DOMAIN Items(jobs[c]) :
               work[c][i] = NewItem(Items(jobs[c])[i])
    BY DEF Init
  <1>3. \A c \in DOMAIN jobs : \A i \in DOMAIN work[c] :
            ItemInv(work[c][i]) /\ work[c][i].snap = None /\ work[c][i].out = None
    BY <1>2, ItemsText, NewItemInv
  <1>4. ItemsInv
    BY <1>3 DEF ItemsInv
  <1>5. SnapsInv
    BY <1>2, <1>3, CodecAssumption DEF SnapsInv
  <1>6. StreamsInv
    <2>1. ASSUME NEW c \in DOMAIN jobs, Form(c) = "stream"
          PROVE  DOMAIN work[c] = {1}
      <3>1. ~Refused(jobs[c])
        BY <2>1 DEF Refused, Form
      <3>2. Items(jobs[c]) = <<[text |-> <<>>, aad |-> None]>>
        BY <2>1, <3>1 DEF Items, Form
      <3> QED  BY <1>2, <3>2
    <2> QED  BY <1>3, <2>1 DEF StreamsInv
  <1> QED  BY <1>1, <1>4, <1>5, <1>6 DEF Inv

-----------------------------------------------------------------------------
(* What the invariant is for. *)

\* A key symbol determines its snapshot and its position.
LEMMA KeySymbolsDiffer ==
    ASSUME NEW s, NEW t, NEW m \in Nat \ {0}, NEW n \in Nat \ {0},
           KeySymbol(s, m) = KeySymbol(t, n)
    PROVE  s = t /\ m = n
  <1>1. /\ s = t /\ (m - 1) \div ChunkSize = (n - 1) \div ChunkSize
        /\ (m - 1) % ChunkSize = (n - 1) % ChunkSize
    <2> DEFINE a == (m - 1) \div ChunkSize
               b == (m - 1) % ChunkSize
               d == (n - 1) \div ChunkSize
               e == (n - 1) % ChunkSize
    <2>1. {<<s, a, b>>} = {<<t, d, e>>}
      BY DEF KeySymbol
    <2> HIDE DEF a, b, d, e
    <2>2. <<s, a, b>> = <<t, d, e>>
      BY <2>1
    <2>3. s = t /\ a = d /\ b = e
      BY <2>2
    <2> QED  BY <2>3 DEF a, b, d, e
  <1>2. m - 1 = n - 1
    <2> DEFINE a == m - 1
               b == n - 1
    <2>1. a \in Int /\ b \in Int /\ ChunkSize \in Nat \ {0}
      BY CodecAssumption
    <2>2. a \div ChunkSize = b \div ChunkSize /\ a % ChunkSize = b % ChunkSize
      BY <1>1
    <2> HIDE DEF a, b
    <2>3. /\ a = ChunkSize * (a \div ChunkSize) + (a % ChunkSize)
          /\ b = ChunkSize * (b \div ChunkSize) + (b % ChunkSize)
      BY <2>1, QuotientRemainder
    <2>4. a = b
      BY <2>2, <2>3
    <2> QED  BY <2>4 DEF a, b
  <1> QED  BY <1>1, <1>2

LEMMA KeysOfItem ==
    ASSUME Inv, NEW c \in DOMAIN jobs, NEW i \in DOMAIN work[c], NEW x \in KeysOf(c, i)
    PROVE  /\ x[1] \in Nat \ {0} /\ x[2] = KeySymbol(work[c][i].snap, x[1])
           /\ work[c][i].snap # None
  <1> DEFINE w == work[c][i]
  <1>1. ItemInv(w)
    BY DEF Inv, ItemsInv
  <1>2. PICK n \in 1..Len(w.text) : /\ (n - 1) \div BatchBytes \in w.done
                                    /\ x = <<n, Xor(w.out[n], w.text[n])>>
    BY DEF KeysOf
  <1>3. w.out[n] = Xor(w.text[n], KeySymbol(w.snap, n))
    BY <1>1, <1>2 DEF ItemInv, Encoded
  <1>4. x[1] = n /\ x[2] = KeySymbol(w.snap, n)
    BY <1>2, <1>3, XorTwice
  <1>5. n \in Nat \ {0}
    <2>1. Len(w.text) \in Nat
      BY <1>1 DEF ItemInv
    <2> QED  BY <2>1
  <1>6. w.snap # None
    BY <1>1, <1>2 DEF ItemInv
  <1> QED  BY <1>4, <1>5, <1>6

LEMMA InvUsedOnce == ASSUME Inv  PROVE KeystreamUsedOnce
  <1>1. SUFFICES ASSUME NEW c \in DOMAIN jobs, NEW d \in DOMAIN jobs,
                        NEW i \in DOMAIN work[c], NEW k \in DOMAIN work[d],
                        NEW x \in KeysOf(c, i), NEW y \in KeysOf(d, k)
                 PROVE  /\ x[2] # {}
                        /\ x[2] = y[2] => c = d /\ i = k /\ x[1] = y[1]
    BY DEF KeystreamUsedOnce
  <1>2. /\ x[1] \in Nat \ {0} /\ x[2] = KeySymbol(work[c][i].snap, x[1])
        /\ work[c][i].snap # None
    BY KeysOfItem
  <1>3. y[1] \in Nat \ {0} /\ y[2] = KeySymbol(work[d][k].snap, y[1])
    BY KeysOfItem
  <1>4. x[2] # {}
    BY <1>2 DEF KeySymbol
  <1>5. ASSUME x[2] = y[2]  PROVE c = d /\ i = k /\ x[1] = y[1]
    <2>1. work[c][i].snap = work[d][k].snap /\ x[1] = y[1]
      <3> DEFINE s == work[c][i].snap
                 t == work[d][k].snap
                 m == x[1]
                 n == y[1]
      <3>1. m \in Nat \ {0} /\ n \in Nat \ {0} /\ KeySymbol(s, m) = KeySymbol(t, n)
        BY <1>2, <1>3, <1>5
      <3> HIDE DEF s, t, m, n
      <3>2. s = t /\ m = n
        BY <3>1, KeySymbolsDiffer
      <3> QED  BY <3>2 DEF s, t, m, n
    <2> QED  BY <1>2, <2>1 DEF Inv, SnapsInv
  <1> QED  BY <1>4, <1>5

\* However the calls of a program, their rayon tasks, the batches of the
\* keystream and the tails interleave, with or without the exchange of a key
\* before them, every byte is encoded under a key symbol of its own.
THEOREM EveryByteItsOwnKey == SystemSpec => []KeystreamUsedOnce
  <1>1. SystemInit => Inv
    BY InitInv DEF SystemInit
  <1>2. Inv /\ [SystemNext]_<<vars, qvars>> => Inv'
    BY SystemStep
  <1>3. Inv => KeystreamUsedOnce
    BY InvUsedOnce
  <1> QED  BY <1>1, <1>2, <1>3, PTL DEF SystemSpec

-----------------------------------------------------------------------------
(* Sifting. *)

Match(i) == alice[i].basis = bob[i].basis

\* g[k] has the positions up to k where the bases matched.
SiftsTo(g, n) == g = [k \in 0..n |->
    IF k = 0 THEN <<>> ELSE IF Match(k) THEN Append(g[k - 1], k) ELSE g[k - 1]]

LEMMA SiftsExist == ASSUME NEW n \in Nat  PROVE \E g : SiftsTo(g, n)
  <1> DEFINE S == {m \in Nat : \E g : SiftsTo(g, m)}
  <1>1. 0 \in S
    <2> DEFINE g == [k \in 0..0 |-> <<>>]
    <2>1. g = [k \in 0..0 |->
                  IF k = 0 THEN <<>> ELSE IF Match(k) THEN Append(g[k - 1], k) ELSE g[k - 1]]
      OBVIOUS
    <2> QED  BY <2>1 DEF SiftsTo
  <1>2. ASSUME NEW m \in Nat, m \in S  PROVE m + 1 \in S
    <2>1. PICK g : SiftsTo(g, m)
      BY <1>2
    <2> DEFINE next(f, k) ==
                 IF k = 0 THEN <<>> ELSE IF Match(k) THEN Append(f[k - 1], k) ELSE f[k - 1]
               h == [k \in 0..(m + 1) |-> next(g, k)]
    <2>2. \A k \in 0..m : g[k] = next(g, k)
      BY <2>1 DEF SiftsTo
    <2>3. \A k \in 0..m : h[k] = next(g, k)
      <3> HIDE DEF next
      <3> QED  OBVIOUS
    <2>4. \A k \in 0..m : h[k] = g[k]
      BY <2>2, <2>3
    <2>5. \A k \in 1..(m + 1) : k - 1 \in 0..m /\ h[k - 1] = g[k - 1]
      <3>1. \A k \in 1..(m + 1) : k - 1 \in 0..m
        OBVIOUS
      <3> HIDE DEF h
      <3> QED  BY <2>4, <3>1
    <2>6. h = [k \in 0..(m + 1) |-> next(h, k)]
      <3>1. ASSUME NEW k \in 0..(m + 1)  PROVE next(g, k) = next(h, k)
        <4> HIDE DEF h
        <4>1. k # 0 => k \in 1..(m + 1)
          OBVIOUS
        <4> QED  BY <2>5, <4>1
      <3> HIDE DEF next
      <3> QED  BY <3>1
    <2> HIDE DEF h
    <2>7. SiftsTo(h, m + 1)
      BY <2>6 DEF SiftsTo
    <2> QED  BY <2>7
  <1> HIDE DEF S
  <1>3. Nat \subseteq S
    BY <1>1, <1>2, Induction
  <1> QED  BY <1>3 DEF S

\* The sifted positions are positions where the bases matched, each once and in
\* their order.
LEMMA SiftedPositions ==
    ASSUME Len(alice) \in Nat
    PROVE  /\ Sifted \in Seq(1..Len(alice))
           /\ \A k \in 1..Len(Sifted) : Match(Sifted[k])
           /\ \A k, l \in 1..Len(Sifted) : k < l => Sifted[k] < Sifted[l]
  <1> DEFINE n == Len(alice)
             g == CHOOSE f : SiftsTo(f, n)
  <1>1. Sifted = g[n]
    BY DEF Sifted, SiftsTo, Match
  <1>2. SiftsTo(g, n)
    BY SiftsExist
  <1> HIDE DEF g
  <1>3. \A k \in 0..n : g[k] =
            IF k = 0 THEN <<>> ELSE IF Match(k) THEN Append(g[k - 1], k) ELSE g[k - 1]
    BY <1>2 DEF SiftsTo
  <1> DEFINE Good(s, m) == /\ s \in Seq(1..m)
                           /\ \A k \in 1..Len(s) : Match(s[k])
                           /\ \A k, l \in 1..Len(s) : k < l => s[k] < s[l]
             S == {m \in Nat : m <= n => Good(g[m], m)}
  <1>4. 0 \in S
    <2>1. g[0] = <<>>
      BY <1>3
    <2>2. Good(<<>>, 0)
      OBVIOUS
    <2> QED  BY <2>1, <2>2
  <1>5. ASSUME NEW m \in Nat, m \in S  PROVE m + 1 \in S
    <2>1. SUFFICES ASSUME m + 1 <= n  PROVE Good(g[m + 1], m + 1)
      <3> HIDE DEF Good, n
      <3> QED  OBVIOUS
    <2>2. Good(g[m], m)
      BY <1>5, <2>1
    <2>3. m + 1 \in 0..n /\ m + 1 # 0 /\ (m + 1) - 1 = m
      BY <2>1
    <2>4. g[m + 1] = IF Match(m + 1) THEN Append(g[m], m + 1) ELSE g[m]
      BY <1>3, <2>3
    <2> DEFINE s == g[m]
    <2> HIDE DEF s
    <2>5. s \in Seq(1..(m + 1)) /\ Len(s) \in Nat /\ \A k \in 1..Len(s) : s[k] \in 1..m
      BY <2>2 DEF s
    <2>6. CASE Match(m + 1)
      <3> DEFINE t == Append(s, m + 1)
      <3>1. t \in Seq(1..(m + 1)) /\ Len(t) = Len(s) + 1 /\ t[Len(s) + 1] = m + 1
            /\ \A k \in 1..Len(s) : t[k] = s[k]
        BY <2>5
      <3> HIDE DEF t
      <3>2. ASSUME NEW k \in 1..Len(t)  PROVE Match(t[k])
        <4>1. CASE k = Len(s) + 1
          BY <2>6, <3>1, <4>1
        <4>2. CASE k # Len(s) + 1
          <5>1. k \in 1..Len(s)
            BY <2>5, <3>1, <4>2
          <5> QED  BY <2>2, <3>1, <5>1 DEF s
        <4> QED  BY <4>1, <4>2
      <3>3. ASSUME NEW k \in 1..Len(t), NEW l \in 1..Len(t), k < l  PROVE t[k] < t[l]
        <4>1. k \in 1..Len(s)
          BY <2>5, <3>1, <3>3
        <4>2. CASE l = Len(s) + 1
          <5>1. t[k] \in 1..m
            BY <2>5, <3>1, <4>1
          <5>2. t[l] = m + 1
            BY <3>1, <4>2
          <5> QED  BY <5>1, <5>2
        <4>3. CASE l # Len(s) + 1
          <5>1. l \in 1..Len(s)
            BY <2>5, <3>1, <4>3
          <5>2. s[k] < s[l]
            BY <2>2, <3>3, <4>1, <5>1 DEF s
          <5> QED  BY <3>1, <4>1, <5>1, <5>2
        <4> QED  BY <4>2, <4>3
      <3>4. Good(t, m + 1)
        BY <3>1, <3>2, <3>3
      <3>5. g[m + 1] = t
        BY <2>4, <2>6 DEF s, t
      <3> QED  BY <3>4, <3>5
    <2>7. CASE ~Match(m + 1)
      BY <2>2, <2>4, <2>5, <2>7 DEF s
    <2> QED  BY <2>6, <2>7
  <1>6. Nat \subseteq S
    <2> HIDE DEF S
    <2> QED  BY <1>4, <1>5, Induction
  <1>7. Good(g[n], n)
    BY <1>6
  <1> QED  BY <1>1, <1>7

-----------------------------------------------------------------------------
(* The exchange. *)

\* The first positions of an increasing sequence are as many different ones.
LEMMA CountOfPrefix ==
    ASSUME NEW n \in Nat, NEW s \in Seq(1..n),
           \A k, l \in 1..Len(s) : k < l => s[k] < s[l], NEW m \in 0..Len(s)
    PROVE  Cardinality({s[k] : k \in 1..m}) = m
  <1> DEFINE T == {s[k] : k \in 1..m}
             f == [k \in 1..m |-> s[k]]
  <1>1. m \in Nat /\ Len(s) \in Nat /\ 1..m \subseteq 1..Len(s)
    OBVIOUS
  <1>2. f \in [1..m -> T] /\ \A t \in T : \E k \in 1..m : f[k] = t
    OBVIOUS
  <1>3. ASSUME NEW k \in 1..m, NEW l \in 1..m, f[k] = f[l]  PROVE k = l
    <2>1. k \in 1..Len(s) /\ l \in 1..Len(s) /\ s[k] = s[l] /\ s[k] \in Int
      BY <1>1, <1>3
    <2>2. ~(k < l) /\ ~(l < k)
      BY <2>1
    <2> QED  BY <2>1, <2>2
  <1>4. ExistsBijection(1..m, T)
    <2> HIDE DEF f, T
    <2>1. f \in Bijection(1..m, T)
      BY <1>2, <1>3 DEF Bijection, Injection, Surjection, IsInjective
    <2> QED  BY <2>1 DEF ExistsBijection
  <1> HIDE DEF T
  <1>5. Cardinality(T) = m
    BY <1>1, <1>4, FS_CountingElements
  <1> QED  BY <1>5 DEF T

\* Bob receives as many qubits as Alice sent, hers if nobody measured them on
\* the way; then the results agree where the bases match.
ExchangeInv ==
    /\ phase \in {"sent", "measured"} => alice \in Seq(Qubit)
    /\ phase = "sent" => flying \in Seq(Qubit) /\ Len(flying) = Len(alice)
    /\ phase = "sent" /\ ~eve => flying = alice
    /\ phase = "measured" => bob \in Qubits(Len(alice))
    /\ phase = "measured" /\ ~eve => \A i \in 1..Len(alice) : Measured(alice[i], bob[i])
    /\ CleanChannelAgrees
    /\ ComparedBitsDiscarded

LEMMA QubitsSeq == ASSUME NEW n \in Nat, NEW r \in Qubits(n)  PROVE r \in Seq(Qubit) /\ Len(r) = n
  BY DEF Qubits

LEMMA ExchangeInit == ASSUME SystemInit  PROVE ExchangeInv
  BY QkdAssumption DEF SystemInit, ExchangeInv, CleanChannelAgrees, ComparedBitsDiscarded

LEMMA EveStep == ASSUME ExchangeInv, EveIntercept  PROVE ExchangeInv'
  <1>1. /\ alice \in Seq(Qubit) /\ flying \in Seq(Qubit) /\ Len(flying) = Len(alice)
        /\ phase' = "sent" /\ eve' = TRUE /\ flying' \in Qubits(Len(flying))
        /\ alice' = alice /\ keys' = keys /\ bob' = bob
    BY DEF EveIntercept, ExchangeInv
  <1>2. flying' \in Seq(Qubit) /\ Len(flying') = Len(alice)
    <2>1. Len(flying) \in Nat
      BY <1>1
    <2> QED  BY <1>1, <2>1, QubitsSeq
  <1>3. CleanChannelAgrees' /\ ComparedBitsDiscarded'
    BY <1>1 DEF ExchangeInv, CleanChannelAgrees, ComparedBitsDiscarded
  <1> QED  BY <1>1, <1>2, <1>3 DEF ExchangeInv

LEMMA BobStep == ASSUME ExchangeInv, BobMeasure  PROVE ExchangeInv'
  <1>1. /\ alice \in Seq(Qubit) /\ flying \in Seq(Qubit) /\ Len(flying) = Len(alice)
        /\ phase' = "measured" /\ eve' = eve /\ bob' \in Qubits(Len(flying))
        /\ \A i \in DOMAIN bob' : Measured(flying[i], bob'[i])
        /\ alice' = alice /\ keys' = keys
        /\ (~eve => flying = alice)
    BY DEF BobMeasure, ExchangeInv
  <1>2. DOMAIN bob' = 1..Len(alice)
    BY <1>1 DEF Qubits
  <1>3. ~eve => \A i \in 1..Len(alice) : Measured(alice[i], bob'[i])
    BY <1>1, <1>2
  <1>4. CleanChannelAgrees' /\ ComparedBitsDiscarded'
    BY <1>1 DEF ExchangeInv, CleanChannelAgrees, ComparedBitsDiscarded
  <1>5. (\A i \in 1..Len(alice) : Measured(alice[i], bob[i]))'
            <=> \A i \in 1..Len(alice) : Measured(alice[i], bob'[i])
    BY <1>1 DEF Measured
  <1> QED  BY <1>1, <1>3, <1>4, <1>5 DEF ExchangeInv

\* There are more bits than are compared.
LEMMA CheckCountBelow ==
    ASSUME NEW n \in Nat, n >= MinSifted
    PROVE  CheckCount(n) \in 1..(n - 1) /\ CheckCount(n) >= MinCheck
  <1>1. n > 0 /\ n > MinCheck /\ MinCheck \in Nat \ {0} /\ CheckPart \in Nat \ {0}
        /\ CheckPart >= 2
    BY QkdAssumption
  <1> DEFINE q == n \div CheckPart
             r == n % CheckPart
  <1>2. q \in Int /\ r \in 0..(CheckPart - 1) /\ n = CheckPart * q + r
    BY <1>1, QuotientRemainder
  <1> HIDE DEF q, r
  <1>3. q < n
    <2>1. SUFFICES ASSUME q >= n  PROVE FALSE
      BY <1>1, <1>2
    <2>2. q \in Nat /\ CheckPart - 2 \in Nat /\ (CheckPart - 2) * q \in Nat
      BY <1>1, <1>2, <2>1
    <2>3. CheckPart * q = (CheckPart - 2) * q + 2 * q
      BY <1>1, <1>2
    <2> QED  BY <1>1, <1>2, <2>1, <2>2, <2>3
  <1>4. CheckCount(n) = IF q >= MinCheck THEN q ELSE MinCheck
    BY DEF CheckCount, Larger, q
  <1> QED  BY <1>1, <1>2, <1>3, <1>4

LEMMA DistillStep == ASSUME ExchangeInv, Distill  PROVE ExchangeInv'
  <1> DEFINE n == Len(Sifted)
             check == CheckCount(n)
             raw == SubSeq(Sifted, RawFrom(check), n)
             new == [alice |-> [k \in DOMAIN raw |-> alice[raw[k]].bit],
                     bob   |-> [k \in DOMAIN raw |-> bob[raw[k]].bit],
                     secret |-> {raw[k] : k \in DOMAIN raw},
                     public |-> {Sifted[k] : k \in 1..check},
                     detected |-> Errors(check) * 100 > Threshold * check]
  <1>1. /\ phase = "measured" /\ phase' \in {"ready", "refused"} /\ eve' = eve
        /\ keys' = keys \/ (n >= MinSifted /\ keys' = new)
    <2>1. n \in Nat
      <3>1. Len(alice) \in Nat
        BY DEF Distill, ExchangeInv
      <3> QED  BY <3>1, SiftedPositions
    <2> HIDE DEF n, check, raw, new
    <2>2. phase = "measured" /\ eve' = eve
      BY DEF Distill
    <2>3. IF n < MinSifted
          THEN phase' = "refused" /\ keys' = keys
          ELSE phase' = "ready" /\ keys' = new
      BY Zenon DEF Distill, n, check, raw, new
    <2> QED  BY <2>1, <2>2, <2>3, QkdAssumption
  <1>2. alice \in Seq(Qubit) /\ Len(alice) \in Nat /\ bob \in Qubits(Len(alice))
    BY <1>1 DEF ExchangeInv
  <1>3. /\ Sifted \in Seq(1..Len(alice)) /\ n \in Nat
        /\ \A k \in 1..n : Sifted[k] \in 1..Len(alice) /\ Match(Sifted[k])
        /\ \A k, l \in 1..n : k < l => Sifted[k] < Sifted[l]
    BY <1>2, SiftedPositions
  <1>4. CASE keys' = keys
    BY <1>1, <1>4 DEF ExchangeInv, CleanChannelAgrees, ComparedBitsDiscarded
  <1>5. CASE n >= MinSifted /\ keys' = new
    <2>1. check \in 1..(n - 1) /\ check >= MinCheck
      <3> HIDE DEF n
      <3> QED  BY <1>3, <1>5, CheckCountBelow
    <2> HIDE DEF n, check, new
    <2>2. /\ DOMAIN raw = 1..(n - check)
          /\ \A k \in 1..(n - check) : raw[k] = Sifted[check + k] /\ check + k \in 1..n
      <3>1. RawFrom(check) = check + 1 /\ check + 1 \in 1..n /\ n = Len(Sifted)
        BY <1>3, <2>1 DEF RawFrom, n
      <3>2. /\ DOMAIN raw = 1..(n - (check + 1) + 1)
            /\ \A k \in 1..(n - (check + 1) + 1) : raw[k] = Sifted[(check + 1) + k - 1]
        BY <1>3, <3>1
      <3>3. n - (check + 1) + 1 = n - check
            /\ \A k \in 1..(n - check) : (check + 1) + k - 1 = check + k /\ check + k \in 1..n
        BY <1>3, <2>1
      <3> HIDE DEF raw
      <3> QED  BY <3>2, <3>3
    <2> HIDE DEF raw
    <2>3. new.public = {Sifted[k] : k \in 1..check} /\ new.secret = {raw[k] : k \in DOMAIN raw}
          /\ new.alice = [k \in DOMAIN raw |-> alice[raw[k]].bit]
          /\ new.bob = [k \in DOMAIN raw |-> bob[raw[k]].bit]
          /\ new.detected = (Errors(check) * 100 > Threshold * check)
      BY DEF new
    <2>4. new.public \cap new.secret = {}
      <3>1. ASSUME NEW k \in 1..check, NEW l \in 1..(n - check)
            PROVE  Sifted[k] # raw[l]
        <4>1. k \in 1..n /\ check + l \in 1..n /\ k < check + l
          BY <1>3, <2>1
        <4>2. Sifted[k] < Sifted[check + l] /\ Sifted[k] \in Int
          BY <1>3, <4>1
        <4>3. raw[l] = Sifted[check + l]
          BY <2>2
        <4> QED  BY <4>2, <4>3
      <3> QED  BY <2>2, <2>3, <3>1
    <2>5. Cardinality(new.public) = check
      <3>1. check \in 0..n
        BY <1>3, <2>1
      <3> QED  BY <1>2, <1>3, <2>3, <3>1, CountOfPrefix DEF n
    <2>6. new.secret # {}
      <3>1. 1 \in 1..(n - check)
        BY <1>3, <2>1
      <3>2. raw[1] \in new.secret
        BY <2>2, <2>3, <3>1
      <3> QED  BY <3>2
    <2>7. ASSUME ~eve  PROVE new.alice = new.bob /\ ~new.detected
      <3>1. ASSUME NEW k \in 1..n  PROVE alice[Sifted[k]].bit = bob[Sifted[k]].bit
        <4>1. Match(Sifted[k]) /\ Measured(alice[Sifted[k]], bob[Sifted[k]])
          BY <1>1, <1>3, <2>7 DEF ExchangeInv
        <4> QED  BY <4>1 DEF Match, Measured
      <3>2. new.alice = new.bob
        <4>1. \A k \in DOMAIN raw : alice[raw[k]].bit = bob[raw[k]].bit
          BY <2>2, <3>1
        <4> QED  BY <2>3, <4>1
      <3>3. Errors(check) = 0
        <4>1. {k \in 1..check : alice[Sifted[k]].bit # bob[Sifted[k]].bit} = {}
          <5>1. 1..check \subseteq 1..n
            BY <1>3, <2>1
          <5> QED  BY <3>1, <5>1
        <4> QED  BY <4>1, FS_EmptySet DEF Errors
      <3>4. ~(0 * 100 > Threshold * check)
        <4>1. Threshold \in Nat /\ check \in Nat
          BY <1>3, <2>1, QkdAssumption
        <4>2. Threshold * check \in Nat
          BY <4>1
        <4> QED  BY <4>2
      <3> QED  BY <2>3, <3>2, <3>3, <3>4
    <2>8. ComparedBitsDiscarded'
      BY <1>5, <2>1, <2>4, <2>5, <2>6 DEF ComparedBitsDiscarded
    <2>9. CleanChannelAgrees'
      BY <1>1, <1>5, <2>7 DEF CleanChannelAgrees
    <2> QED  BY <1>1, <2>8, <2>9 DEF ExchangeInv
  <1> QED  BY <1>1, <1>4, <1>5

LEMMA ExchangeStep ==
    ASSUME ExchangeInv, [SystemNext]_<<vars, qvars>>
    PROVE  ExchangeInv'
  <1>1. ASSUME UNCHANGED qvars  PROVE ExchangeInv'
    BY <1>1 DEF ExchangeInv, CleanChannelAgrees, ComparedBitsDiscarded, Measured, qvars
  <1>2. CASE EveIntercept
    BY <1>2, EveStep
  <1>3. CASE BobMeasure
    BY <1>3, BobStep
  <1>4. CASE Distill
    BY <1>4, DistillStep
  <1>5. ASSUME NEW c \in DOMAIN jobs, DecodeQkd(c)  PROVE ExchangeInv'
    BY <1>1, <1>5 DEF DecodeQkd
  <1>6. CASE CodecRuns \/ Refuses \/ UNCHANGED <<vars, qvars>>
    BY <1>1, <1>6 DEF CodecRuns, Refuses
  <1> QED  BY <1>2, <1>3, <1>4, <1>5, <1>6 DEF SystemNext

\* The bits that distill_key compares in public are as many as it should and
\* none of them is in the key, whatever was prepared, measured and intercepted.
THEOREM ComparedBitsStayOut == SystemSpec => []ComparedBitsDiscarded
  <1>1. ExchangeInv => ComparedBitsDiscarded
    BY DEF ExchangeInv
  <1> QED  BY <1>1, ExchangeInit, ExchangeStep, PTL DEF SystemSpec

\* On a channel that nobody touched the two keys are one, and nobody is
\* suspected, whatever the coins of the measurements.
THEOREM CleanChannelSameKey == SystemSpec => []CleanChannelAgrees
  <1>1. ExchangeInv => CleanChannelAgrees
    BY DEF ExchangeInv
  <1> QED  BY <1>1, ExchangeInit, ExchangeStep, PTL DEF SystemSpec

-----------------------------------------------------------------------------
(* The keystream, once more. *)

\* g[b] is the output after b batches, up to m of them.
StreamsTo(g, snap, input, m) == g = [b \in 0..m |->
    IF b = 0 THEN Zeros(Len(input)) ELSE Filled(g[b - 1], snap, input, b - 1)]

LEMMA StreamsExist ==
    ASSUME NEW snap, NEW input, NEW n \in Nat
    PROVE  \E g : StreamsTo(g, snap, input, n)
  <1> DEFINE S == {m \in Nat : \E g : StreamsTo(g, snap, input, m)}
             next(f, b) ==
                IF b = 0 THEN Zeros(Len(input)) ELSE Filled(f[b - 1], snap, input, b - 1)
  <1>1. 0 \in S
    <2> DEFINE z == Zeros(Len(input))
               g == [b \in 0..0 |-> z]
    <2>1. g = [b \in 0..0 |-> next(g, b)]
      <3> HIDE DEF z
      <3>1. \A b \in 0..0 : next(g, b) = z
        BY DEF z
      <3> QED  BY <3>1
    <2> HIDE DEF g
    <2> QED  BY <2>1 DEF StreamsTo
  <1>2. ASSUME NEW m \in Nat, m \in S  PROVE m + 1 \in S
    <2>1. PICK g : StreamsTo(g, snap, input, m)
      BY <1>2
    <2> DEFINE h == [b \in 0..(m + 1) |-> next(g, b)]
    <2>2. \A b \in 0..m : g[b] = next(g, b)
      BY <2>1 DEF StreamsTo
    <2>3. \A b \in 0..m : h[b] = next(g, b)
      <3> HIDE DEF next
      <3> QED  OBVIOUS
    <2>4. \A b \in 0..m : h[b] = g[b]
      BY <2>2, <2>3
    <2>5. \A b \in 1..(m + 1) : b - 1 \in 0..m /\ h[b - 1] = g[b - 1]
      <3>1. \A b \in 1..(m + 1) : b - 1 \in 0..m
        OBVIOUS
      <3> HIDE DEF h
      <3> QED  BY <2>4, <3>1
    <2>6. h = [b \in 0..(m + 1) |-> next(h, b)]
      <3>1. ASSUME NEW b \in 0..(m + 1)  PROVE next(g, b) = next(h, b)
        <4> HIDE DEF h
        <4>1. b # 0 => b \in 1..(m + 1)
          OBVIOUS
        <4> QED  BY <2>5, <4>1
      <3> HIDE DEF next
      <3> QED  BY <3>1
    <2> HIDE DEF h
    <2>7. StreamsTo(h, snap, input, m + 1)
      BY <2>6 DEF StreamsTo
    <2> QED  BY <2>7
  <1> HIDE DEF S
  <1>3. Nat \subseteq S
    BY <1>1, <1>2, Induction
  <1> QED  BY <1>3 DEF S

\* A byte of a batch that is filled in, any other byte of one to come.
LEMMA BatchOfByte ==
    ASSUME NEW n \in Nat, NEW l \in Nat, n \in 1..l
    PROVE  /\ BatchCount(l) \in Nat
           /\ (n - 1) \div BatchBytes \in 0..(BatchCount(l) - 1)
  <1> DEFINE c == BatchBytes
             q == (n - 1) \div c
  <1>1. c \in Nat \ {0}
    BY BatchBytesType
  <1> HIDE DEF c
  <1>2. q \in Int /\ BatchCount(l) = (l + c - 1) \div c
    BY <1>1, QuotientRemainder DEF BatchCount, CeilDiv, c
  <1>3. q >= 0
    <2>1. n - 1 \in Int /\ n - 1 >= c * 0
      BY <1>1
    <2> QED  BY <1>1, <2>1, QuotientAtLeast
  <1>4. (l + c - 1) \div c >= q + 1
    <2> DEFINE r == (n - 1) % c
    <2>1. n - 1 = c * q + r /\ r \in 0..(c - 1)
      BY <1>1, QuotientRemainder
    <2> HIDE DEF q, r
    <2>2. c * (q + 1) = c * q + c
      BY <1>1, <1>2
    <2>3. c * q \in Int
      BY <1>1, <1>2
    <2>4. l + c - 1 >= c * (q + 1)
      BY <1>1, <2>1, <2>2, <2>3
    <2>5. l + c - 1 \in Int /\ q + 1 \in Int
      BY <1>1, <1>2
    <2> QED  BY <1>1, <2>4, <2>5, QuotientAtLeast
  <1>5. (l + c - 1) \div c \in Int
    <2>1. l + c - 1 \in Int
      BY <1>1
    <2> QED  BY <1>1, <2>1, QuotientRemainder
  <1> HIDE DEF q
  <1> QED  BY <1>2, <1>3, <1>4, <1>5 DEF q, c

LEMMA BatchCountType == ASSUME NEW l \in Nat  PROVE BatchCount(l) \in Nat
  <1> DEFINE c == BatchBytes
             q == (l + c - 1) \div c
  <1>1. c \in Nat \ {0}
    BY BatchBytesType
  <1> HIDE DEF c
  <1>2. l + c - 1 \in Int /\ l + c - 1 >= c * 0
    BY <1>1
  <1>3. q >= 0 /\ q \in Int
    BY <1>1, <1>2, QuotientAtLeast, QuotientRemainder
  <1> QED  BY <1>3 DEF BatchCount, CeilDiv, c

\* The keystream puts on every byte the key symbol of its position.
LEMMA KeystreamedByte ==
    ASSUME NEW S, NEW input \in Seq(S), NEW snap
    PROVE  Keystreamed(snap, input)
             = [n \in 1..Len(input) |-> Xor(input[n], KeySymbol(snap, n))]
  <1> DEFINE l == Len(input)
             last == BatchCount(l)
             g == CHOOSE f : StreamsTo(f, snap, input, last)
  <1>1. l \in Nat /\ last \in Nat
    BY BatchCountType
  <1>2. Keystreamed(snap, input) = g[last]
    BY DEF Keystreamed, StreamsTo
  <1>3. StreamsTo(g, snap, input, last)
    <2>1. \E f : StreamsTo(f, snap, input, last)
      BY <1>1, StreamsExist
    <2> QED  BY <2>1
  <1> HIDE DEF g, last
  <1>4. \A b \in 0..last : g[b] =
            IF b = 0 THEN Zeros(Len(input)) ELSE Filled(g[b - 1], snap, input, b - 1)
    BY <1>3 DEF StreamsTo
  <1> DEFINE Done(f, b) == /\ f = [n \in 1..l |-> f[n]]
                           /\ \A n \in 1..l : (n - 1) \div BatchBytes < b =>
                                  f[n] = Xor(input[n], KeySymbol(snap, n))
             T == {b \in Nat : b <= last => Done(g[b], b)}
  <1>5. 0 \in T
    <2>1. g[0] = Zeros(l)
      BY <1>1, <1>4
    <2>2. Zeros(l) = [n \in 1..l |-> Zeros(l)[n]]
      BY DEF Zeros
    <2>3. \A n \in 1..l : ~((n - 1) \div BatchBytes < 0)
      <3>1. \A n \in 1..l : n \in Nat
        BY <1>1
      <3>2. ASSUME NEW n \in 1..l  PROVE (n - 1) \div BatchBytes \in 0..(BatchCount(l) - 1)
        BY <1>1, <3>1, BatchOfByte
      <3> QED  BY <3>2
    <2> QED  BY <2>1, <2>2, <2>3
  <1>6. ASSUME NEW b \in Nat, b \in T  PROVE b + 1 \in T
    <2>1. SUFFICES ASSUME b + 1 <= last  PROVE Done(g[b + 1], b + 1)
      <3> HIDE DEF Done
      <3> QED  OBVIOUS
    <2>2. Done(g[b], b)
      <3> HIDE DEF Done
      <3>1. b <= last
        BY <1>1, <2>1
      <3> QED  BY <1>6, <3>1
    <2>3. g[b + 1] = Filled(g[b], snap, input, b)
      <3>1. b + 1 \in 0..last /\ b + 1 # 0 /\ (b + 1) - 1 = b
        BY <1>1, <2>1
      <3> QED  BY <1>4, <3>1
    <2>4. g[b + 1] = [n \in 1..l |-> g[b + 1][n]]
      BY <2>3 DEF Filled
    <2>5. ASSUME NEW n \in 1..l, (n - 1) \div BatchBytes < b + 1
          PROVE  g[b + 1][n] = Xor(input[n], KeySymbol(snap, n))
      <3>1. g[b + 1][n] = IF (n - 1) \div BatchBytes = b
                          THEN Xor(input[n], KeySymbol(snap, n)) ELSE g[b][n]
        BY <2>3, FilledByte
      <3>2. (n - 1) \div BatchBytes \in Int
        BY <1>1, BatchOfByte
      <3>3. CASE (n - 1) \div BatchBytes = b
        BY <3>1, <3>3
      <3>4. CASE (n - 1) \div BatchBytes # b
        <4>1. (n - 1) \div BatchBytes < b
          BY <2>5, <3>2, <3>4
        <4> QED  BY <2>2, <3>1, <3>4, <4>1
      <3> QED  BY <3>3, <3>4
    <2> QED  BY <2>4, <2>5
  <1>7. Nat \subseteq T
    <2> HIDE DEF T
    <2> QED  BY <1>5, <1>6, Induction
  <1>8. Done(g[last], last)
    BY <1>1, <1>7
  <1>9. ASSUME NEW n \in 1..l  PROVE g[last][n] = Xor(input[n], KeySymbol(snap, n))
    <2>1. (n - 1) \div BatchBytes < last
      BY <1>1, BatchOfByte DEF last
    <2> QED  BY <1>8, <2>1
  <1> QED  BY <1>2, <1>8, <1>9

\* XOR with a key twice.
LEMMA XorBack == ASSUME NEW t, NEW k  PROVE Xor(Xor(t, k), k) = t
  BY DEF Xor

-----------------------------------------------------------------------------
(* What a receiver opens. *)

\* Every byte is encoded and the commitment covers all of it.
SealedItem(w) ==
    /\ w.text \in Seq(SUBSET Symbols)
    /\ w.snap \in Snapshots /\ w.aad \in Aads \cup {None}
    /\ w.out = [n \in 1..Len(w.text) |-> Xor(w.text[n], KeySymbol(w.snap, n))]
    /\ w.out \in Bytestrings
    /\ w.mac = Commit(w.snap, w.aad, w.out)

LEMMA RoundTrip ==
    ASSUME NEW w, SealedItem(w)
    PROVE  Keystreamed(w.snap, w.out) = w.text /\ Len(w.out) = Len(w.text)
  <1>1. w.text \in Seq(SUBSET Symbols) /\ Len(w.text) \in Nat
    BY DEF SealedItem
  <1>2. /\ w.out \in Seq(SUBSET Marks)
        /\ w.out = [n \in 1..Len(w.text) |-> Xor(w.text[n], KeySymbol(w.snap, n))]
    BY DEF SealedItem, Bytestrings
  <1>3. Len(w.out) = Len(w.text)
    BY <1>1, <1>2
  <1>4. Keystreamed(w.snap, w.out)
          = [n \in 1..Len(w.text) |-> Xor(w.out[n], KeySymbol(w.snap, n))]
    <2> DEFINE snap == w.snap
               input == w.out
    <2>1. input \in Seq(SUBSET Marks)
      BY <1>2
    <2> HIDE DEF snap, input
    <2>2. Keystreamed(snap, input)
            = [n \in 1..Len(input) |-> Xor(input[n], KeySymbol(snap, n))]
      BY <2>1, KeystreamedByte
    <2> QED  BY <1>3, <2>2 DEF snap, input
  <1>5. \A n \in 1..Len(w.text) : Xor(w.out[n], KeySymbol(w.snap, n)) = w.text[n]
    BY <1>2, XorBack
  <1>6. w.text = [n \in 1..Len(w.text) |-> w.text[n]]
    BY <1>1
  <1> QED  BY <1>3, <1>4, <1>5, <1>6

LEMMA AadBytes == Aads \subseteq Bytestrings /\ None \notin Aads
  <1>1. Aads \subseteq Bytestrings
    BY DEF Aads, Bytestrings, Marks
  <1> QED  BY <1>1, NoneAssumption

\* What a commitment covers, associated data included, byte by byte.
LEMMA CoveredBytes ==
    ASSUME NEW a \in Bytestrings, NEW cipher \in Bytestrings
    PROVE  LET v == Covered(a, cipher) IN
           /\ v \in Bytestrings /\ Len(v) = 1 + Len(a) + Len(cipher)
           /\ Len(a) \in Nat /\ Len(cipher) \in Nat
           /\ v[1] = {<<"len", Len(a)>>}
           /\ \A i \in 1..Len(a) : v[1 + i] = a[i]
           /\ \A i \in 1..Len(cipher) : v[1 + Len(a) + i] = cipher[i]
  <1> DEFINE h == {<<"len", Len(a)>>}
             t == <<h>> \o a
             v == t \o cipher
  <1>1. Covered(a, cipher) = v
    BY NoneAssumption DEF Covered
  <1>2. a \in Seq(SUBSET Marks) /\ cipher \in Seq(SUBSET Marks)
        /\ Len(a) \in Nat /\ Len(cipher) \in Nat
    BY DEF Bytestrings
  <1>3. h \in SUBSET Marks
    BY <1>2 DEF Marks
  <1> HIDE DEF h
  <1>4. <<h>> \in Seq(SUBSET Marks) /\ Len(<<h>>) = 1 /\ <<h>>[1] = h
    BY <1>3
  <1>5. t \in Seq(SUBSET Marks) /\ Len(t) = 1 + Len(a) /\ t[1] = h
        /\ \A i \in 1..Len(a) : t[1 + i] = a[i]
    BY <1>2, <1>4
  <1> HIDE DEF t
  <1>6. v \in Seq(SUBSET Marks) /\ Len(v) = Len(t) + Len(cipher)
        /\ (\A i \in 1..Len(t) : v[i] = t[i])
        /\ (\A i \in 1..Len(cipher) : v[Len(t) + i] = cipher[i])
    <2>1. t \in Seq(SUBSET Marks) /\ Len(t) \in Nat
      BY <1>2, <1>5
    <2>2. v \in Seq(SUBSET Marks) /\ Len(v) = Len(t) + Len(cipher)
      BY <1>2, <2>1
    <2>3. \A i \in 1..Len(t) : v[i] = t[i]
      BY <1>2, <2>1
    <2>4. ASSUME NEW i \in 1..Len(cipher)  PROVE v[Len(t) + i] = cipher[i]
      BY <1>2, <2>1
    <2> HIDE DEF v
    <2> QED  BY <2>2, <2>3, <2>4
  <1> HIDE DEF v
  <1>7. v[1] = h /\ \A i \in 1..Len(a) : v[1 + i] = a[i]
    BY <1>2, <1>5, <1>6
  <1> QED  BY <1>1, <1>2, <1>5, <1>6, <1>7 DEF h, Bytestrings

\* With associated data, what is covered determines both parts.
LEMMA CoveredParts ==
    ASSUME NEW a \in Bytestrings, NEW b \in Bytestrings,
           NEW x \in Bytestrings, NEW y \in Bytestrings, Covered(a, x) = Covered(b, y)
    PROVE  a = b /\ x = y
  <1> DEFINE v == Covered(a, x)
             u == Covered(b, y)
  <1>1. /\ Len(v) = 1 + Len(a) + Len(x) /\ v[1] = {<<"len", Len(a)>>}
        /\ Len(a) \in Nat /\ Len(x) \in Nat
        /\ \A i \in 1..Len(a) : v[1 + i] = a[i]
        /\ \A i \in 1..Len(x) : v[1 + Len(a) + i] = x[i]
    BY CoveredBytes
  <1>2. /\ Len(u) = 1 + Len(b) + Len(y) /\ u[1] = {<<"len", Len(b)>>}
        /\ Len(b) \in Nat /\ Len(y) \in Nat
        /\ \A i \in 1..Len(b) : u[1 + i] = b[i]
        /\ \A i \in 1..Len(y) : u[1 + Len(b) + i] = y[i]
    BY CoveredBytes
  <1>3. v = u
    OBVIOUS
  <1> HIDE DEF v, u
  <1>4. Len(a) = Len(b)
    <2>1. {<<"len", Len(a)>>} = {<<"len", Len(b)>>}
      BY <1>1, <1>2, <1>3
    <2>2. <<"len", Len(a)>> = <<"len", Len(b)>>
      BY <2>1
    <2> QED  BY <2>2
  <1>5. Len(x) = Len(y)
    BY <1>1, <1>2, <1>3, <1>4
  <1>6. \A i \in 1..Len(a) : a[i] = b[i]
    BY <1>1, <1>2, <1>3, <1>4
  <1>7. \A i \in 1..Len(x) : x[i] = y[i]
    BY <1>1, <1>2, <1>3, <1>4, <1>5
  <1>8. a \in Seq(SUBSET Marks) /\ b \in Seq(SUBSET Marks)
        /\ x \in Seq(SUBSET Marks) /\ y \in Seq(SUBSET Marks)
    BY DEF Bytestrings
  <1> QED  BY <1>4, <1>5, <1>6, <1>7, <1>8

\* With its commitment a packet opens to its message, and to no other: with
\* any ciphertext in the forms without associated data; and with its own
\* ciphertext in the decoder of either form, whatever associated data it has.
LEMMA OpensOnlyWhole ==
    ASSUME NEW w, SealedItem(w), NEW p, p.mac = w.mac,
           \/ p.aad = None /\ w.aad = None
           \/ p.cipher = w.out /\ p.aad \in Bytestrings \cup {None}
    PROVE  Opened(p) = IF p.snap = w.snap /\ p.aad = w.aad /\ p.cipher = w.out
                       THEN w.text ELSE Err
  <1>1. w.out \in Bytestrings /\ w.aad \in Bytestrings \cup {None}
    BY AadBytes DEF SealedItem
  <1>2. Covered(w.aad, w.out) = Covered(p.aad, p.cipher) <=> p.aad = w.aad /\ p.cipher = w.out
    <2>1. CASE p.aad = None /\ w.aad = None
      BY <2>1 DEF Covered
    <2>2. CASE p.cipher = w.out /\ p.aad \in Bytestrings /\ w.aad \in Bytestrings
      <3>1. Covered(w.aad, w.out) = Covered(p.aad, p.cipher) => p.aad = w.aad
        BY <1>1, <2>2, CoveredParts
      <3> QED  BY <2>2, <3>1
    <2>3. ASSUME NEW a \in Bytestrings  PROVE Covered(a, w.out) # Covered(None, w.out)
      <3>1. Len(Covered(a, w.out)) = 1 + Len(a) + Len(w.out)
            /\ Len(a) \in Nat /\ Len(w.out) \in Nat
        BY <1>1, CoveredBytes
      <3>2. Covered(None, w.out) = w.out
        BY DEF Covered
      <3> DEFINE u == Covered(a, w.out)
                 x == w.out
      <3>3. Len(u) = 1 + Len(a) + Len(x) /\ Len(a) \in Nat /\ Len(x) \in Nat
        BY <3>1
      <3> HIDE DEF u, x
      <3>4. Len(u) # Len(x)
        BY <3>3
      <3>5. u # x
        BY <3>4
      <3> QED  BY <3>2, <3>5 DEF u, x
    <2>4. CASE p.cipher = w.out /\ p.aad = None /\ w.aad \in Bytestrings
      BY <2>3, <2>4, NoneAssumption
    <2>5. CASE p.cipher = w.out /\ p.aad \in Bytestrings /\ w.aad = None
      BY <2>3, <2>5, NoneAssumption
    <2> QED  BY <1>1, <2>1, <2>2, <2>4, <2>5
  <1>3. Commit(w.snap, w.aad, w.out) = Commit(p.snap, p.aad, p.cipher)
          <=> p.snap = w.snap /\ p.aad = w.aad /\ p.cipher = w.out
    BY <1>2 DEF Commit
  <1>4. p.mac = Commit(w.snap, w.aad, w.out)
    BY DEF SealedItem
  <1> QED  BY <1>3, <1>4, RoundTrip DEF Opened

LEMMA TextNotErr ==
    ASSUME NEW w, SealedItem(w)
    PROVE  w.text \in Bytestrings /\ w.text # Err
  <1>1. w.text \in Bytestrings
    BY DEF SealedItem, Bytestrings, Marks
  <1> QED  BY <1>1, NoneAssumption

-----------------------------------------------------------------------------
(* What is sealed. *)

\* Item i of call c is the one that the call is made of; once there is a tag
\* all of its batches are done, and the tag is the commitment to it.
ItemSealing(c, i, w) ==
    /\ w.aad = Items(jobs[c])[i].aad
    /\ Form(c) # "stream" => w.text = Items(jobs[c])[i].text
    /\ Form(c) = "stream" /\ w.out # None => w.text # <<>>
    /\ w.mac \notin {None, Failed} =>
           w.out # None /\ Complete(w) /\ w.mac = Commit(w.snap, w.aad, w.out)

\* A call that returned has sealed every item.
SealsInv ==
    /\ DOMAIN stage = DOMAIN jobs
    /\ \A c \in DOMAIN jobs : /\ DOMAIN work[c] = DOMAIN Items(jobs[c])
                              /\ \A i \in DOMAIN work[c] : ItemSealing(c, i, work[c][i])
    /\ \A c \in DOMAIN jobs : Returned(c) =>
           /\ ~Refused(jobs[c])
           /\ \A i \in DOMAIN work[c] : work[c][i].mac \notin {None, Failed}

LEMMA SealsUntouched == ASSUME SealsInv, UNCHANGED <<jobs, stage, work>>  PROVE SealsInv'
  BY DEF SealsInv, ItemSealing, Form, Returned, Complete

LEMMA SealsInit == ASSUME Init  PROVE SealsInv
  <1>1. ASSUME NEW c \in DOMAIN jobs, NEW i \in DOMAIN work[c]
        PROVE  ItemSealing(c, i, work[c][i])
    <2>1. i \in DOMAIN Items(jobs[c]) /\ work[c][i] = NewItem(Items(jobs[c])[i])
      BY DEF Init
    <2>2. /\ work[c][i].text = Items(jobs[c])[i].text /\ work[c][i].aad = Items(jobs[c])[i].aad
          /\ work[c][i].out = None /\ work[c][i].mac = None
      BY <2>1 DEF NewItem
    <2> QED  BY <2>2 DEF ItemSealing
  <1>2. DOMAIN stage = DOMAIN jobs /\ \A c \in DOMAIN jobs : ~Returned(c)
    BY DEF Init, Returned
  <1>3. \A c \in DOMAIN jobs : DOMAIN work[c] = DOMAIN Items(jobs[c])
    BY DEF Init
  <1> QED  BY <1>1, <1>2, <1>3 DEF SealsInv

LEMMA SealsOneItem ==
    ASSUME SealsInv, NEW c \in DOMAIN jobs, NEW i \in DOMAIN work[c], Running(c),
           NEW v, ItemSealing(c, i, v), jobs' = jobs, stage' = stage,
           work' = [d \in DOMAIN jobs |->
                       IF d = c THEN [work[c] EXCEPT ![i] = v] ELSE work[d]]
    PROVE  SealsInv'
  <1>1. \A d \in DOMAIN jobs : DOMAIN work'[d] = DOMAIN work[d]
    OBVIOUS
  <1>2. work'[c][i] = v
    OBVIOUS
  <1>3. \A d \in DOMAIN jobs : \A k \in DOMAIN work[d] :
            ~(d = c /\ k = i) => work'[d][k] = work[d][k]
    OBVIOUS
  <1>4. ASSUME NEW d \in DOMAIN jobs, NEW k \in DOMAIN work[d]
        PROVE  ItemSealing(d, k, work'[d][k])
    BY <1>2, <1>3 DEF SealsInv
  <1>5. \A d \in DOMAIN jobs : \A k \in DOMAIN work[d] :
            ItemSealing(d, k, work'[d][k]) => ItemSealing(d, k, work[d][k])'
    BY DEF ItemSealing, Form, Complete
  <1>6. \A d \in DOMAIN jobs : Returned(d)' => Returned(d) /\ d # c
    BY DEF Returned, Running
  <1>7. DOMAIN stage' = DOMAIN jobs'
    BY DEF SealsInv
  <1>8. \A d \in DOMAIN jobs : DOMAIN work'[d] = DOMAIN Items(jobs[d])
    BY <1>1 DEF SealsInv
  <1>9. ASSUME NEW d \in DOMAIN jobs, Returned(d)'
        PROVE  /\ ~Refused(jobs[d])
               /\ \A k \in DOMAIN work'[d] : work'[d][k].mac \notin {None, Failed}
    <2>1. Returned(d) /\ d # c
      BY <1>6, <1>9
    <2> QED  BY <1>1, <1>3, <2>1 DEF SealsInv
  <1> QED  BY <1>1, <1>4, <1>5, <1>7, <1>8, <1>9 DEF SealsInv

LEMMA DrawSeals ==
    ASSUME Inv, SealsInv, NEW c \in DOMAIN jobs, NEW i \in DOMAIN work[c], Draw(c, i)
    PROVE  SealsInv'
  <1> DEFINE w == work[c][i]
             out == IF Form(c) = "stream" THEN None ELSE Zeros(Len(w.text))
  <1>1. PICK s \in free : work' = [work EXCEPT ![c][i].snap = s, ![c][i].out = out]
    BY DEF Draw
  <1> DEFINE v == [w EXCEPT !.snap = s, !.out = out]
  <1>2. /\ DOMAIN w = Fields /\ w.snap = None /\ w.out = None /\ DOMAIN work = DOMAIN jobs
        /\ ItemSealing(c, i, w) /\ Running(c)
    BY DEF Draw, MayDraw, Inv, ItemsInv, ItemInv, CallsInv, SealsInv
  <1>3. v.text = w.text /\ v.aad = w.aad /\ v.mac = w.mac /\ v.out = out
    <2> HIDE DEF w, out
    <2> QED  BY <1>2 DEF Fields
  <1>4. ItemSealing(c, i, v)
    <2> HIDE DEF w, v
    <2> QED  BY <1>2, <1>3 DEF ItemSealing
  <1>5. work' = [d \in DOMAIN jobs |->
                    IF d = c THEN [work[c] EXCEPT ![i] = v] ELSE work[d]]
    <2> HIDE DEF out
    <2> QED  BY <1>1, <1>2
  <1>6. jobs' = jobs /\ stage' = stage
    BY DEF Draw
  <1> HIDE DEF v
  <1> QED  BY <1>2, <1>4, <1>5, <1>6, SealsOneItem

LEMMA DrawFailsSeals ==
    ASSUME Inv, SealsInv, NEW c \in DOMAIN jobs, NEW i \in DOMAIN work[c], DrawFails(c, i)
    PROVE  SealsInv'
  <1> DEFINE w == work[c][i]
             v == [w EXCEPT !.mac = Failed]
  <1>1. /\ DOMAIN w = Fields /\ DOMAIN work = DOMAIN jobs
        /\ ItemSealing(c, i, w) /\ Running(c)
    BY DEF DrawFails, MayDraw, Inv, ItemsInv, ItemInv, CallsInv, SealsInv
  <1>2. v.text = w.text /\ v.aad = w.aad /\ v.mac = Failed /\ v.out = w.out
    <2> HIDE DEF w
    <2> QED  BY <1>1 DEF Fields
  <1>3. ItemSealing(c, i, v)
    <2> HIDE DEF w, v
    <2> QED  BY <1>1, <1>2 DEF ItemSealing
  <1>4. work' = [d \in DOMAIN jobs |->
                    IF d = c THEN [work[c] EXCEPT ![i] = v] ELSE work[d]]
    BY <1>1 DEF DrawFails
  <1>5. jobs' = jobs /\ stage' = stage
    BY DEF DrawFails
  <1> HIDE DEF v
  <1> QED  BY <1>1, <1>3, <1>4, <1>5, SealsOneItem

LEMMA SealSeals ==
    ASSUME Inv, SealsInv, NEW c \in DOMAIN jobs, NEW i \in DOMAIN work[c], Seal(c, i)
    PROVE  SealsInv'
  <1> DEFINE w == work[c][i]
             m == Commit(w.snap, w.aad, w.out)
             v == [w EXCEPT !.mac = m]
  <1>1. /\ DOMAIN w = Fields /\ DOMAIN work = DOMAIN jobs /\ w.out # None /\ Complete(w)
        /\ ItemSealing(c, i, w) /\ Running(c)
    BY DEF Seal, Inv, ItemsInv, ItemInv, CallsInv, SealsInv
  <1>2. /\ v.text = w.text /\ v.aad = w.aad /\ v.mac = m /\ v.out = w.out
        /\ v.snap = w.snap /\ v.done = w.done
    <2> HIDE DEF w, m
    <2> QED  BY <1>1 DEF Fields
  <1>3. ItemSealing(c, i, v)
    <2>1. Complete(v)
      <3> HIDE DEF w, v
      <3> QED  BY <1>1, <1>2 DEF Complete
    <2> HIDE DEF w, v
    <2> QED  BY <1>1, <1>2, <2>1 DEF ItemSealing
  <1>4. work' = [d \in DOMAIN jobs |->
                    IF d = c THEN [work[c] EXCEPT ![i] = v] ELSE work[d]]
    BY <1>1 DEF Seal
  <1>5. jobs' = jobs /\ stage' = stage
    BY DEF Seal
  <1> HIDE DEF v
  <1> QED  BY <1>1, <1>3, <1>4, <1>5, SealsOneItem

LEMMA XorBatchSeals ==
    ASSUME Inv, SealsInv, NEW c \in DOMAIN jobs, NEW i \in DOMAIN work[c],
           NEW b \in 0..(BatchCount(Len(work[c][i].text)) - 1), XorBatch(c, i, b)
    PROVE  SealsInv'
  <1> DEFINE w == work[c][i]
             out == Filled(w.out, w.snap, w.text, b)
             v == [w EXCEPT !.out = out, !.done = w.done \cup {b}]
  <1>1. /\ DOMAIN w = Fields /\ DOMAIN work = DOMAIN jobs /\ w.out # None /\ w.mac = None
        /\ ItemSealing(c, i, w) /\ Running(c)
    BY DEF XorBatch, Inv, ItemsInv, ItemInv, CallsInv, SealsInv
  <1>2. v.text = w.text /\ v.aad = w.aad /\ v.mac = None
    <2> HIDE DEF w, out
    <2> QED  BY <1>1 DEF Fields
  <1>3. ItemSealing(c, i, v)
    <2> HIDE DEF w, v
    <2> QED  BY <1>1, <1>2 DEF ItemSealing
  <1>4. work' = [d \in DOMAIN jobs |->
                    IF d = c THEN [work[c] EXCEPT ![i] = v] ELSE work[d]]
    BY <1>1 DEF XorBatch
  <1>5. jobs' = jobs /\ stage' = stage
    BY DEF XorBatch
  <1> HIDE DEF v
  <1> QED  BY <1>1, <1>3, <1>4, <1>5, SealsOneItem

LEMMA UpdateSeals ==
    ASSUME Inv, SealsInv, NEW c \in DOMAIN jobs, Update(c)
    PROVE  SealsInv'
  <1> DEFINE w == work[c][1]
             t == w.text \o jobs[c].msgs[fed[c] + 1].text
             v == [w EXCEPT !.text = t]
  <1>1. /\ DOMAIN work = DOMAIN jobs /\ DOMAIN work[c] = {1} /\ Form(c) = "stream"
        /\ Running(c)
    BY DEF Update, Inv, CallsInv, StreamsInv
  <1>2. DOMAIN w = Fields /\ ItemSealing(c, 1, w)
    BY <1>1 DEF Inv, ItemsInv, ItemInv, SealsInv
  <1>3. w.out = None
    <2>1. fed[c] < Len(jobs[c].msgs) /\ jobs[c].msgs \in Seq(Messages) /\ fed[c] \in Nat
      BY JobsAssumption DEF Update, Inv, CallsInv
    <2>2. Len(jobs[c].msgs) \in Nat /\ fed[c] # Len(jobs[c].msgs)
      BY <2>1
    <2> QED  BY <1>1, <2>2 DEF Inv, StreamsInv
  <1>4. v.aad = w.aad /\ v.mac = w.mac /\ v.out = None
    <2> HIDE DEF w, t
    <2> QED  BY <1>2, <1>3 DEF Fields
  <1>5. ItemSealing(c, 1, v)
    <2> HIDE DEF w, v
    <2> QED  BY <1>1, <1>2, <1>3, <1>4 DEF ItemSealing
  <1>6. work' = [d \in DOMAIN jobs |->
                    IF d = c THEN [work[c] EXCEPT ![1] = v] ELSE work[d]]
    BY <1>1 DEF Update
  <1>7. jobs' = jobs /\ stage' = stage /\ 1 \in DOMAIN work[c]
    BY <1>1 DEF Update
  <1> HIDE DEF v
  <1> QED  BY <1>1, <1>5, <1>6, <1>7, SealsOneItem

LEMMA FinalizeSeals ==
    ASSUME Inv, SealsInv, NEW c \in DOMAIN jobs, Finalize(c)
    PROVE  SealsInv'
  <1> DEFINE w == work[c][1]
             z == Zeros(Len(w.text))
             v == IF w.text = <<>> THEN [w EXCEPT !.mac = Failed] ELSE [w EXCEPT !.out = z]
  <1>1. /\ DOMAIN work = DOMAIN jobs /\ DOMAIN work[c] = {1} /\ Form(c) = "stream"
        /\ Running(c) /\ w.mac = None /\ w.out = None
    BY DEF Finalize, Inv, CallsInv, StreamsInv
  <1>2. DOMAIN w = Fields /\ ItemSealing(c, 1, w)
    BY <1>1 DEF Inv, ItemsInv, ItemInv, SealsInv
  <1>3. ItemSealing(c, 1, v)
    <2>1. CASE w.text = <<>>
      <3>1. v.aad = w.aad /\ v.mac = Failed /\ v.out = None
        <4> HIDE DEF w, z
        <4> QED  BY <1>1, <1>2, <2>1 DEF Fields
      <3> HIDE DEF w, v
      <3> QED  BY <1>1, <1>2, <3>1 DEF ItemSealing
    <2>2. CASE w.text # <<>>
      <3>1. v.aad = w.aad /\ v.mac = None /\ v.text = w.text
        <4> HIDE DEF w, z
        <4> QED  BY <1>1, <1>2, <2>2 DEF Fields
      <3> HIDE DEF w, v
      <3> QED  BY <1>1, <1>2, <2>2, <3>1 DEF ItemSealing
    <2> QED  BY <2>1, <2>2
  <1>4. work' = [d \in DOMAIN jobs |->
                    IF d = c THEN [work[c] EXCEPT ![1] = v] ELSE work[d]]
    BY <1>1 DEF Finalize
  <1>5. jobs' = jobs /\ stage' = stage /\ 1 \in DOMAIN work[c]
    BY <1>1 DEF Finalize
  <1> HIDE DEF v
  <1> QED  BY <1>1, <1>3, <1>4, <1>5, SealsOneItem

LEMMA SealGroupSeals ==
    ASSUME Inv, SealsInv, NEW c \in DOMAIN jobs, NEW i \in DOMAIN work[c], SealGroup(c, i)
    PROVE  SealsInv'
  <1> DEFINE m(k) == GroupCommit(c, i, k)
             v(k) == IF k \in Task(c, i) THEN [work[c][k] EXCEPT !.mac = m(k)] ELSE work[c][k]
  <1>1. /\ DOMAIN work = DOMAIN jobs /\ Running(c) /\ jobs' = jobs /\ stage' = stage
        /\ \A k \in Task(c, i) : work[c][k].out # None /\ Complete(work[c][k])
        /\ work' = [work EXCEPT ![c] = [k \in DOMAIN work[c] |-> v(k)]]
    BY DEF SealGroup, Inv, CallsInv
  <1>2. ASSUME NEW k \in DOMAIN work[c]  PROVE ItemSealing(c, k, v(k))
    <2> DEFINE w == work[c][k]
    <2>1. ItemSealing(c, k, w) /\ DOMAIN w = Fields
      BY DEF SealsInv, Inv, ItemsInv, ItemInv
    <2>2. CASE k \in Task(c, i)
      <3> DEFINE u == [w EXCEPT !.mac = m(k)]
      <3>1. /\ u.text = w.text /\ u.aad = w.aad /\ u.mac = m(k) /\ u.out = w.out
            /\ u.snap = w.snap /\ u.done = w.done
        <4> HIDE DEF w, m
        <4> QED  BY <2>1 DEF Fields
      <3>2. m(k) = Commit(w.snap, w.aad, w.out) /\ w.out # None /\ Complete(w)
        BY <1>1, <2>2 DEF GroupCommit
      <3>3. ItemSealing(c, k, u)
        <4> HIDE DEF w, u, m
        <4>1. Complete(u)
          BY <3>1, <3>2 DEF Complete
        <4> QED  BY <2>1, <3>1, <3>2, <4>1 DEF ItemSealing
      <3> QED  BY <2>2, <3>3
    <2>3. CASE k \notin Task(c, i)
      BY <2>1, <2>3
    <2> QED  BY <2>2, <2>3
  <1> HIDE DEF v
  <1>3. /\ work'[c] = [k \in DOMAIN work[c] |-> v(k)] /\ DOMAIN work'[c] = DOMAIN work[c]
        /\ \A d \in DOMAIN jobs : d # c => work'[d] = work[d]
    BY <1>1
  <1>4. \A d \in DOMAIN jobs : DOMAIN work'[d] = DOMAIN work[d]
    BY <1>3
  <1>5. ASSUME NEW d \in DOMAIN jobs, NEW k \in DOMAIN work[d]
        PROVE  ItemSealing(d, k, work'[d][k])
    <2>1. CASE d = c
      BY <1>2, <1>3, <2>1
    <2>2. CASE d # c
      BY <1>3, <2>2 DEF SealsInv
    <2> QED  BY <2>1, <2>2
  <1>6. \A d \in DOMAIN jobs : \A k \in DOMAIN work[d] :
            ItemSealing(d, k, work'[d][k]) => ItemSealing(d, k, work[d][k])'
    BY <1>1 DEF ItemSealing, Form, Complete
  <1>7. \A d \in DOMAIN jobs : Returned(d)' => Returned(d) /\ d # c
    BY <1>1 DEF Returned, Running
  <1>8. /\ DOMAIN stage' = DOMAIN jobs'
        /\ \A d \in DOMAIN jobs : DOMAIN work'[d] = DOMAIN Items(jobs[d])
    BY <1>1, <1>4 DEF SealsInv
  <1>9. ASSUME NEW d \in DOMAIN jobs, Returned(d)'
        PROVE  /\ ~Refused(jobs[d])
               /\ \A k \in DOMAIN work'[d] : work'[d][k].mac \notin {None, Failed}
    <2>1. Returned(d) /\ d # c
      BY <1>7, <1>9
    <2> QED  BY <1>3, <2>1 DEF SealsInv
  <1> QED  BY <1>1, <1>4, <1>5, <1>6, <1>8, <1>9 DEF SealsInv

LEMMA ReturnSeals ==
    ASSUME Inv, SealsInv, NEW c \in DOMAIN jobs, Return(c)
    PROVE  SealsInv'
  <1>1. /\ jobs' = jobs /\ work' = work /\ DOMAIN stage' = DOMAIN stage
        /\ \A d \in DOMAIN jobs : d # c => stage'[d] = stage[d]
        /\ \A i \in DOMAIN work[c] : TaskOver(c, i) \/ (AnyFailed(c) /\ NotBegun(c, i))
    BY DEF Return
  <1>2. stage'[c] = "ok" => ~Refused(jobs[c]) /\ ~AnyFailed(c)
    <2>1. c \in DOMAIN stage
      BY DEF SealsInv
    <2>2. stage'[c] = CASE Refused(jobs[c])                  -> "err"
                        [] AnyFailed(c) /\ Form(c) = "batch" -> "panic"
                        [] AnyFailed(c) /\ Form(c) # "batch" -> "err"
                        [] OTHER                             -> "ok"
      BY <2>1 DEF Return
    <2>3. CASE Refused(jobs[c])
      <3>1. stage'[c] \in {"err", "panic"}
        BY <2>2, <2>3
      <3> QED  BY <3>1
    <2>4. CASE ~Refused(jobs[c]) /\ AnyFailed(c)
      <3>1. stage'[c] \in {"err", "panic"}
        BY <2>2, <2>4
      <3> QED  BY <3>1
    <2> QED  BY <2>3, <2>4
  <1>3. ASSUME ~AnyFailed(c), NEW i \in DOMAIN work[c]
        PROVE  work[c][i].mac \notin {None, Failed}
    <2>1. i \in Task(c, i) /\ Task(c, i) \subseteq DOMAIN work[c]
      BY DEF Task
    <2>2. ~TaskFailed(c, i)
      BY <1>3, <2>1 DEF TaskFailed, AnyFailed
    <2>3. work[c][i].mac # None
      BY <1>1, <1>3, <2>1, <2>2 DEF TaskOver
    <2> QED  BY <1>3, <2>3 DEF AnyFailed
  <1>4. DOMAIN stage' = DOMAIN jobs'
    BY <1>1 DEF SealsInv
  <1>5. \A d \in DOMAIN jobs : /\ DOMAIN work[d] = DOMAIN Items(jobs[d])
                               /\ \A i \in DOMAIN work[d] : ItemSealing(d, i, work[d][i])
    BY DEF SealsInv
  <1>6. \A d \in DOMAIN jobs : \A i \in DOMAIN work[d] :
            ItemSealing(d, i, work[d][i]) => ItemSealing(d, i, work[d][i])'
    BY <1>1 DEF ItemSealing, Form, Complete
  <1>7. ASSUME NEW d \in DOMAIN jobs, Returned(d)'
        PROVE  /\ ~Refused(jobs[d])
               /\ \A i \in DOMAIN work[d] : work[d][i].mac \notin {None, Failed}
    <2>1. CASE d = c
      BY <1>2, <1>3, <1>7, <2>1 DEF Returned
    <2>2. CASE d # c
      BY <1>1, <1>7, <2>2 DEF Returned, SealsInv
    <2> QED  BY <2>1, <2>2
  <1> QED  BY <1>1, <1>4, <1>5, <1>6, <1>7 DEF SealsInv

LEMMA EncodingSeals == ASSUME Inv, SealsInv, Encoding  PROVE SealsInv'
  <1>1. PICK c \in DOMAIN jobs :
            \/ Update(c) \/ Finalize(c) \/ Return(c)
            \/ \E i \in DOMAIN work[c] :
                 \/ Draw(c, i) \/ DrawFails(c, i) \/ Seal(c, i) \/ SealGroup(c, i)
                 \/ \E b \in 0..(BatchCount(Len(work[c][i].text)) - 1) : XorBatch(c, i, b)
    BY DEF Encoding
  <1>2. CASE Update(c) \/ Finalize(c) \/ Return(c)
    BY <1>2, UpdateSeals, FinalizeSeals, ReturnSeals
  <1>3. ASSUME NEW i \in DOMAIN work[c],
               Draw(c, i) \/ DrawFails(c, i) \/ Seal(c, i) \/ SealGroup(c, i)
        PROVE  SealsInv'
    BY <1>3, DrawSeals, DrawFailsSeals, SealSeals, SealGroupSeals
  <1>4. ASSUME NEW i \in DOMAIN work[c],
               NEW b \in 0..(BatchCount(Len(work[c][i].text)) - 1), XorBatch(c, i, b)
        PROVE  SealsInv'
    BY <1>4, XorBatchSeals
  <1> QED  BY <1>1, <1>2, <1>3, <1>4

\* What a call returned is sealed.
LEMMA ReturnedSealed ==
    ASSUME Inv, SealsInv, NEW c \in DOMAIN jobs, Returned(c), NEW i \in DOMAIN work[c],
           Items(jobs[c])[i].aad \in Aads \cup {None}
    PROVE  SealedItem(work[c][i])
  <1> DEFINE w == work[c][i]
  <1>1. ItemInv(w) /\ ItemSealing(c, i, w) /\ w.mac \notin {None, Failed}
    BY DEF Inv, ItemsInv, SealsInv
  <1> HIDE DEF w
  <1>2. w.out # None /\ Complete(w) /\ w.mac = Commit(w.snap, w.aad, w.out)
    BY <1>1 DEF ItemSealing
  <1>3. w.snap \in Snapshots /\ w.out \in [1..Len(w.text) -> SUBSET Marks]
        /\ w.text \in Seq(SUBSET Symbols) /\ Len(w.text) \in Nat
    BY <1>1, <1>2 DEF ItemInv
  <1>4. ASSUME NEW n \in 1..Len(w.text)
        PROVE  w.out[n] = Xor(w.text[n], KeySymbol(w.snap, n))
    <2>1. (n - 1) \div BatchBytes \in w.done
      <3>1. n \in Nat
        BY <1>3
      <3> QED  BY <1>2, <1>3, <3>1, BatchOfByte DEF Complete
    <2> QED  BY <1>1, <2>1 DEF ItemInv, Encoded
  <1>5. w.out = [n \in 1..Len(w.text) |-> Xor(w.text[n], KeySymbol(w.snap, n))]
    BY <1>3, <1>4
  <1>6. w.out \in Bytestrings
    BY <1>3, SeqDef DEF Bytestrings
  <1>7. w.aad \in Aads \cup {None}
    BY <1>1 DEF ItemSealing
  <1>8. SealedItem(w)
    BY <1>2, <1>3, <1>5, <1>6, <1>7 DEF SealedItem
  <1> QED  BY <1>8 DEF w

-----------------------------------------------------------------------------
(* Sequences of sequences. *)

\* The first parts of ss one after the other, for every number of them.
Flattened(ss) ==
    LET upTo[n \in 0..Len(ss)] == IF n = 0 THEN <<>> ELSE upTo[n - 1] \o ss[n] IN upTo

FlattensTo(g, ss, n) == g = [k \in 0..n |-> IF k = 0 THEN <<>> ELSE g[k - 1] \o ss[k]]

LEMMA FlattensExist == ASSUME NEW ss, NEW n \in Nat  PROVE \E g : FlattensTo(g, ss, n)
  <1> DEFINE S == {m \in Nat : \E g : FlattensTo(g, ss, m)}
             next(f, k) == IF k = 0 THEN <<>> ELSE f[k - 1] \o ss[k]
  <1>1. 0 \in S
    <2> DEFINE g == [k \in 0..0 |-> <<>>]
    <2>1. g = [k \in 0..0 |-> next(g, k)]
      OBVIOUS
    <2> QED  BY <2>1 DEF FlattensTo
  <1>2. ASSUME NEW m \in Nat, m \in S  PROVE m + 1 \in S
    <2>1. PICK g : FlattensTo(g, ss, m)
      BY <1>2
    <2> DEFINE h == [k \in 0..(m + 1) |-> next(g, k)]
    <2>2. \A k \in 0..m : g[k] = next(g, k)
      BY <2>1 DEF FlattensTo
    <2>3. \A k \in 0..m : h[k] = next(g, k)
      <3> HIDE DEF next
      <3> QED  OBVIOUS
    <2>4. \A k \in 0..m : h[k] = g[k]
      BY <2>2, <2>3
    <2>5. \A k \in 1..(m + 1) : k - 1 \in 0..m /\ h[k - 1] = g[k - 1]
      <3>1. \A k \in 1..(m + 1) : k - 1 \in 0..m
        OBVIOUS
      <3> HIDE DEF h
      <3> QED  BY <2>4, <3>1
    <2>6. h = [k \in 0..(m + 1) |-> next(h, k)]
      <3>1. ASSUME NEW k \in 0..(m + 1)  PROVE next(g, k) = next(h, k)
        <4> HIDE DEF h
        <4>1. k # 0 => k \in 1..(m + 1)
          OBVIOUS
        <4> QED  BY <2>5, <4>1
      <3> HIDE DEF next
      <3> QED  BY <3>1
    <2> HIDE DEF h
    <2>7. FlattensTo(h, ss, m + 1)
      BY <2>6 DEF FlattensTo
    <2> QED  BY <2>7
  <1> HIDE DEF S
  <1>3. Nat \subseteq S
    BY <1>1, <1>2, Induction
  <1> QED  BY <1>3 DEF S

\* No part, and one part more.
LEMMA FlattenStep ==
    ASSUME NEW ss, Len(ss) \in Nat
    PROVE  /\ Flatten(ss) = Flattened(ss)[Len(ss)]
           /\ Flattened(ss)[0] = <<>>
           /\ \A n \in 1..Len(ss) : Flattened(ss)[n] = Flattened(ss)[n - 1] \o ss[n]
  <1> DEFINE g == Flattened(ss)
  <1>1. Flatten(ss) = g[Len(ss)]
    BY DEF Flatten, Flattened
  <1>2. g = CHOOSE f : FlattensTo(f, ss, Len(ss))
    BY DEF Flattened, FlattensTo
  <1>3. FlattensTo(g, ss, Len(ss))
    <2>1. \E f : FlattensTo(f, ss, Len(ss))
      BY FlattensExist
    <2> HIDE DEF g
    <2> QED  BY <1>2, <2>1
  <1> HIDE DEF g
  <1>4. \A k \in 0..Len(ss) : g[k] = IF k = 0 THEN <<>> ELSE g[k - 1] \o ss[k]
    BY <1>3 DEF FlattensTo
  <1>5. 0 \in 0..Len(ss) /\ \A n \in 1..Len(ss) : n \in 0..Len(ss) /\ n # 0
    OBVIOUS
  <1>6. g[0] = <<>> /\ \A n \in 1..Len(ss) : g[n] = g[n - 1] \o ss[n]
    BY <1>4, <1>5
  <1> QED  BY <1>1, <1>6 DEF g

\* Two parts of a sequence, one after the other.
LEMMA SubSeqSplit ==
    ASSUME NEW S, NEW s \in Seq(S), NEW i \in 0..Len(s), NEW j \in i..Len(s)
    PROVE  SubSeq(s, 1, i) \o SubSeq(s, i + 1, j) = SubSeq(s, 1, j)
  <1> DEFINE a == SubSeq(s, 1, i)
             b == SubSeq(s, i + 1, j)
             t == SubSeq(s, 1, j)
             u == a \o b
  <1>1. /\ a \in Seq(S) /\ Len(a) = i /\ \A k \in 1..i : a[k] = s[k]
        /\ b \in Seq(S) /\ Len(b) = j - i /\ \A k \in 1..(j - i) : b[k] = s[i + k]
        /\ t \in Seq(S) /\ Len(t) = j /\ \A k \in 1..j : t[k] = s[k]
    OBVIOUS
  <1> HIDE DEF a, b, t
  <1>2. u \in Seq(S) /\ Len(u) = j
    BY <1>1
  <1>3. ASSUME NEW k \in 1..j  PROVE u[k] = s[k]
    <2>1. CASE k <= i
      BY <1>1, <2>1
    <2>2. CASE ~(k <= i)
      <3>1. k - i \in 1..(j - i) /\ i + (k - i) = k
        BY <2>2
      <3>2. u[k] = b[k - i]
        BY <1>1, <2>2
      <3> QED  BY <1>1, <3>1, <3>2
    <2> QED  BY <2>1, <2>2
  <1> HIDE DEF u
  <1>4. u = [k \in 1..j |-> u[k]] /\ t = [k \in 1..j |-> t[k]]
    BY <1>1, <1>2
  <1>5. \A k \in 1..j : u[k] = t[k]
    BY <1>1, <1>3
  <1>6. u = t
    BY <1>4, <1>5
  <1> QED  BY <1>6 DEF u, a, b, t

LEMMA SubSeqWhole == ASSUME NEW S, NEW s \in Seq(S)  PROVE SubSeq(s, 1, Len(s)) = s
  <1> DEFINE t == SubSeq(s, 1, Len(s))
  <1>1. t \in Seq(S) /\ Len(t) = Len(s) /\ \A k \in 1..Len(s) : t[k] = s[k]
    OBVIOUS
  <1> HIDE DEF t
  <1>2. t = [k \in 1..Len(s) |-> t[k]] /\ s = [k \in 1..Len(s) |-> s[k]]
    BY <1>1
  <1>3. t = s
    BY <1>1, <1>2
  <1> QED  BY <1>3 DEF t

\* A sequence cut in two.
LEMMA FlattenPair ==
    ASSUME NEW S, NEW s \in Seq(S), NEW cut \in 0..Len(s)
    PROVE  Flatten(<<SubSeq(s, 1, cut), SubSeq(s, cut + 1, Len(s))>>) = s
  <1> DEFINE a == SubSeq(s, 1, cut)
             b == SubSeq(s, cut + 1, Len(s))
             ss == <<a, b>>
             g == Flattened(ss)
  <1>1. a \in Seq(S)
    OBVIOUS
  <1>2. a \o b = s
    <2>1. Len(s) \in cut..Len(s)
      OBVIOUS
    <2>2. a \o b = SubSeq(s, 1, Len(s))
      BY <2>1, SubSeqSplit
    <2> HIDE DEF a, b
    <2> QED  BY <2>2, SubSeqWhole
  <1> HIDE DEF a, b
  <1>3. Len(ss) = 2 /\ ss[1] = a /\ ss[2] = b
    OBVIOUS
  <1> HIDE DEF ss
  <1>4. /\ Flatten(ss) = g[2] /\ g[0] = <<>>
        /\ \A n \in 1..2 : g[n] = g[n - 1] \o ss[n]
    <2>1. Len(ss) \in Nat
      BY <1>3
    <2>2. /\ Flatten(ss) = g[Len(ss)] /\ g[0] = <<>>
          /\ \A n \in 1..Len(ss) : g[n] = g[n - 1] \o ss[n]
      BY <2>1, FlattenStep
    <2> HIDE DEF g
    <2> QED  BY <1>3, <2>2
  <1> HIDE DEF g
  <1>5. g[1] = g[0] \o a
    <2>1. 1 \in 1..2 /\ 1 - 1 = 0
      OBVIOUS
    <2> QED  BY <1>3, <1>4, <2>1
  <1>6. g[2] = g[1] \o b
    <2>1. 2 \in 1..2 /\ 2 - 1 = 1
      OBVIOUS
    <2> QED  BY <1>3, <1>4, <2>1
  <1>7. <<>> \o a = a
    BY <1>1
  <1>8. Flatten(ss) = s
    BY <1>2, <1>4, <1>5, <1>6, <1>7
  <1> QED  BY <1>8 DEF ss, a, b

\* A chunk count and its type.
LEMMA CeilDivType ==
    ASSUME NEW a \in Nat, NEW b \in Nat \ {0}
    PROVE  CeilDiv(a, b) \in Nat
  <1> DEFINE n == a + b - 1
  <1>1. n \in Int /\ n >= b * 0
    OBVIOUS
  <1> HIDE DEF n
  <1>2. n \div b \in Int /\ n \div b >= 0
    BY <1>1, QuotientRemainder, QuotientAtLeast
  <1> QED  BY <1>2 DEF CeilDiv, n

\* The chunks of a text, one after the other.
LEMMA FlattenChunks ==
    ASSUME NEW S, NEW text \in Seq(S), NEW size \in Nat \ {0}
    PROVE  Flatten(Chunks(text, size)) = text
  <1> DEFINE l == Len(text)
             n == CeilDiv(l, size)
             ss == Chunks(text, size)
             g == Flattened(ss)
             end(k) == Smaller(k * size, l)
  <1>1. l \in Nat /\ n \in Nat
    BY CeilDivType
  <1>2. /\ size * n <= l + size - 1 /\ l + size - 1 < size * n + size
        /\ size * n \in Nat
    <2> DEFINE a == l + size - 1
               r == a % size
    <2>1. a \in Int /\ n = a \div size
      BY <1>1 DEF CeilDiv
    <2> HIDE DEF a, n
    <2>2. r \in 0..(size - 1) /\ a = size * n + r
      BY <2>1, QuotientRemainder
    <2> HIDE DEF r
    <2>3. size * n \in Nat
      BY <1>1
    <2>4. size * n <= a /\ a < size * n + size
      BY <2>2, <2>3
    <2> QED  BY <2>3, <2>4 DEF a
  <1>3. Len(ss) = n /\ \A k \in 1..n : ss[k] = SubSeq(text, (k - 1) * size + 1, end(k))
    <2>1. ss = [k \in 1..n |-> SubSeq(text, (k - 1) * size + 1, end(k))]
      BY DEF Chunks
    <2> HIDE DEF n, end, ss
    <2> QED  BY <1>1, <2>1
  <1> HIDE DEF n, ss
  <1>4. /\ Flatten(ss) = g[n] /\ g[0] = <<>>
        /\ \A k \in 1..n : g[k] = g[k - 1] \o ss[k]
    <2>1. Len(ss) \in Nat
      BY <1>1, <1>3
    <2>2. /\ Flatten(ss) = g[Len(ss)] /\ g[0] = <<>>
          /\ \A k \in 1..Len(ss) : g[k] = g[k - 1] \o ss[k]
      BY <2>1, FlattenStep
    <2> HIDE DEF g
    <2> QED  BY <1>3, <2>2
  <1> HIDE DEF g
  <1> DEFINE T == {k \in Nat : k <= n => g[k] = SubSeq(text, 1, end(k))}
  <1>5. 0 \in T
    <2>1. end(0) = 0
      BY <1>1 DEF Smaller
    <2>2. SubSeq(text, 1, 0) = <<>>
      OBVIOUS
    <2> HIDE DEF end
    <2> QED  BY <1>4, <2>1, <2>2
  <1>6. ASSUME NEW k \in Nat, k \in T  PROVE k + 1 \in T
    <2>1. SUFFICES ASSUME k + 1 <= n  PROVE g[k + 1] = SubSeq(text, 1, end(k + 1))
      <3> HIDE DEF end
      <3> QED  OBVIOUS
    <2>2. k * size \in Nat /\ (k + 1) * size = k * size + size /\ k * size < l
      <3>1. k * size \in Nat /\ (k + 1) * size = k * size + size
        OBVIOUS
      <3>2. size * (n - (k + 1)) \in Nat
        BY <1>1, <2>1
      <3>3. size * (n - (k + 1)) = size * n - (k + 1) * size
        BY <1>1
      <3> QED  BY <1>1, <1>2, <3>1, <3>2, <3>3
    <2>3. end(k) = k * size
      BY <1>1, <2>2 DEF Smaller
    <2>4. end(k) \in 0..l /\ end(k + 1) \in end(k)..l
      <3>1. end(k + 1) = IF k * size + size <= l THEN k * size + size ELSE l
        BY <2>2 DEF Smaller
      <3> HIDE DEF end
      <3> QED  BY <1>1, <2>2, <2>3, <3>1
    <2>5. g[k] = SubSeq(text, 1, end(k))
      <3>1. k <= n
        BY <1>1, <2>1
      <3> HIDE DEF end
      <3> QED  BY <1>6, <3>1
    <2>6. k + 1 \in 1..n /\ (k + 1) - 1 = k
      BY <1>1, <2>1
    <2>7. g[k + 1] = g[k] \o ss[k + 1]
      BY <1>4, <2>6
    <2>8. ss[k + 1] = SubSeq(text, end(k) + 1, end(k + 1))
      <3> HIDE DEF end
      <3>1. ss[k + 1] = SubSeq(text, ((k + 1) - 1) * size + 1, end(k + 1))
        BY <1>3, <2>6
      <3> QED  BY <2>3, <2>6, <3>1
    <2>9. SubSeq(text, 1, end(k)) \o SubSeq(text, end(k) + 1, end(k + 1))
            = SubSeq(text, 1, end(k + 1))
      <3> DEFINE i == end(k)
                 j == end(k + 1)
      <3>1. i \in 0..Len(text) /\ j \in i..Len(text)
        BY <2>4
      <3> HIDE DEF i, j
      <3>2. SubSeq(text, 1, i) \o SubSeq(text, i + 1, j) = SubSeq(text, 1, j)
        BY <3>1, SubSeqSplit
      <3> QED  BY <3>2 DEF i, j
    <2> HIDE DEF end
    <2> QED  BY <2>5, <2>7, <2>8, <2>9
  <1>7. Nat \subseteq T
    <2> HIDE DEF T
    <2> QED  BY <1>5, <1>6, Induction
  <1>8. g[n] = SubSeq(text, 1, end(n))
    <2> HIDE DEF end
    <2> QED  BY <1>1, <1>7
  <1>9. end(n) = l
    <2>1. n * size = size * n
      BY <1>1
    <2>2. n * size >= l
      BY <1>1, <1>2, <2>1
    <2>3. n * size \in Nat
      BY <1>1
    <2> QED  BY <1>1, <2>2, <2>3 DEF Smaller
  <1> HIDE DEF end
  <1>10. Flatten(ss) = text
    BY <1>4, <1>8, <1>9, SubSeqWhole
  <1> QED  BY <1>10 DEF ss

\* A transport that loses, repeats and swaps makes nothing up.
LEMMA MangledSeq ==
    ASSUME NEW S, NEW s \in Seq(S), NEW r \in Mangled(s)
    PROVE  r \in Seq(S)
  <1>1. CASE r = s
    BY <1>1
  <1>2. ASSUME NEW k \in DOMAIN s, r = Lost(s, k)  PROVE r \in Seq(S)
    <2>1. k \in 1..Len(s) /\ Len(s) \in Nat
      OBVIOUS
    <2>2. SubSeq(s, 1, k - 1) \in Seq(S) /\ SubSeq(s, k + 1, Len(s)) \in Seq(S)
      BY <2>1
    <2> QED  BY <1>2, <2>2 DEF Lost
  <1>3. ASSUME NEW k \in DOMAIN s, r = Repeated(s, k)  PROVE r \in Seq(S)
    <2>1. k \in 1..Len(s) /\ Len(s) \in Nat
      OBVIOUS
    <2>2. SubSeq(s, 1, k) \in Seq(S) /\ SubSeq(s, k, Len(s)) \in Seq(S)
      BY <2>1
    <2> QED  BY <1>3, <2>2 DEF Repeated
  <1>4. ASSUME NEW k \in 1..(Len(s) - 1), r = Swapped(s, k)  PROVE r \in Seq(S)
    <2>1. Len(s) \in Nat /\ DOMAIN s = 1..Len(s) /\ k \in 1..Len(s) /\ k + 1 \in 1..Len(s)
      OBVIOUS
    <2>2. r = [i \in 1..Len(s) |-> r[i]]
      BY <1>4, <2>1 DEF Swapped
    <2>3. ASSUME NEW i \in 1..Len(s)  PROVE r[i] \in S
      <3>1. r[i] = CASE i = k -> s[k + 1] [] i = k + 1 -> s[k] [] OTHER -> s[i]
        BY <1>4, <2>1 DEF Swapped
      <3>2. s[k] \in S /\ s[k + 1] \in S /\ s[i] \in S
        BY <2>1
      <3>3. r[i] \in {s[k], s[k + 1], s[i]}
        BY <3>1
      <3> QED  BY <3>2, <3>3
    <2>4. r \in [1..Len(s) -> S]
      BY <2>2, <2>3
    <2> QED  BY <2>1, <2>4, SeqDef
  <1>5. \/ r = s
        \/ \E k \in DOMAIN s : r = Lost(s, k) \/ r = Repeated(s, k)
        \/ \E k \in 1..(Len(s) - 1) : r = Swapped(s, k)
    <2>1. \/ r \in {s}
          \/ r \in UNION {{Lost(s, k), Repeated(s, k)} : k \in DOMAIN s}
          \/ r \in {Swapped(s, k) : k \in 1..(Len(s) - 1)}
      BY DEF Mangled
    <2> QED  BY <2>1
  <1> QED  BY <1>1, <1>2, <1>3, <1>4, <1>5

-----------------------------------------------------------------------------
(* The items of a call. *)

LEMMA ItemsOfCall ==
    ASSUME NEW calls \in Jobs, NEW c \in DOMAIN calls
    PROVE  LET job == calls[c] IN
           /\ \E n \in Nat : DOMAIN Items(job) = 1..n
           /\ \A i \in DOMAIN Items(job) : Items(job)[i].aad \in Aads \cup {None}
           /\ job.form \in {"plain", "split", "aead", "stream"} /\ ~Refused(job) =>
                  DOMAIN Items(job) = {1}
           /\ job.form \in {"plain", "split", "aead"} /\ ~Refused(job) =>
                  Items(job)[1].text # <<>>
           /\ \A i \in DOMAIN Items(job) :
                  Items(job)[i].aad = None <=> job.form \in {"plain", "split", "stream"}
  <1> DEFINE job == calls[c]
  <1>1. /\ job.msgs \in Seq(Messages) /\ job.size \in Nat /\ job.form \in Forms
        /\ (job.form \in {"plain", "split", "aead", "parallel"} => Len(job.msgs) = 1)
        /\ \A m \in DOMAIN job.msgs : job.msgs[m].aad = None
                                        <=> job.form \in {"plain", "split", "stream"}
    BY JobsAssumption
  <1> HIDE DEF job
  <1>2. DOMAIN job.msgs = 1..Len(job.msgs) /\ Len(job.msgs) \in Nat
    BY <1>1
  <1>3. \A m \in DOMAIN job.msgs : job.msgs[m].aad \in Aads \cup {None}
                                   /\ job.msgs[m].text \in Seq(SUBSET Symbols)
    <2>1. \A m \in DOMAIN job.msgs : job.msgs[m] \in Messages
      BY <1>1
    <2> QED  BY <2>1 DEF Messages
  <1> DEFINE Goal ==
           /\ \E n \in Nat : DOMAIN Items(job) = 1..n
           /\ \A i \in DOMAIN Items(job) : Items(job)[i].aad \in Aads \cup {None}
           /\ job.form \in {"plain", "split", "aead", "stream"} /\ ~Refused(job) =>
                  DOMAIN Items(job) = {1}
           /\ job.form \in {"plain", "split", "aead"} /\ ~Refused(job) =>
                  Items(job)[1].text # <<>>
           /\ \A i \in DOMAIN Items(job) :
                  Items(job)[i].aad = None <=> job.form \in {"plain", "split", "stream"}
  <1>4. CASE Refused(job)
    <2>1. Items(job) = <<>>
      BY <1>4 DEF Items, Refused
    <2>2. DOMAIN Items(job) = 1..0
      BY <2>1
    <2> QED  BY <1>4, <2>2 DEF job
  <1>5. CASE ~Refused(job) /\ job.form = "stream"
    <2>1. Items(job) = <<[text |-> <<>>, aad |-> None]>>
      BY <1>5 DEF Items
    <2>2. DOMAIN Items(job) = 1..1 /\ DOMAIN Items(job) = {1} /\ Items(job)[1].aad = None
      BY <2>1
    <2>3. Goal
      BY <1>5, <2>2
    <2> QED  BY <2>3 DEF job
  <1>6. CASE ~Refused(job) /\ job.form = "parallel"
    <2> DEFINE text == job.msgs[1].text
               n == CeilDiv(Len(text), job.size)
    <2>1. job.size \in Nat \ {0}
      <3>1. job.size # 0
        BY <1>6 DEF Refused
      <3> QED  BY <1>1, <3>1
    <2>2. 1 \in DOMAIN job.msgs
      <3>1. job.form \in {"plain", "split", "aead", "parallel"}
        BY <1>6
      <3>2. Len(job.msgs) = 1
        BY <1>1, <3>1
      <3> QED  BY <1>2, <3>2
    <2>3. n \in Nat
      <3>1. Len(text) \in Nat
        BY <1>3, <2>2
      <3> QED  BY <2>1, <3>1, CeilDivType
    <2>4. Items(job) = [k \in DOMAIN Chunks(text, job.size) |->
                           [text |-> Chunks(text, job.size)[k], aad |-> job.msgs[1].aad]]
      BY <1>6 DEF Items
    <2>5. DOMAIN Items(job) = 1..n
      BY <2>4 DEF Chunks
    <2>6. \A i \in DOMAIN Items(job) : Items(job)[i].aad = job.msgs[1].aad
      BY <2>4
    <2>7. job.msgs[1].aad \in Aads \cup {None} /\ job.msgs[1].aad # None
      BY <1>1, <1>3, <1>6, <2>2
    <2> HIDE DEF n, text
    <2>8. \E m \in Nat : DOMAIN Items(job) = 1..m
      BY <2>3, <2>5
    <2>9. \A i \in DOMAIN Items(job) : /\ Items(job)[i].aad \in Aads \cup {None}
                                        /\ Items(job)[i].aad # None
      BY <2>6, <2>7
    <2>10. Goal
      BY <1>6, <2>8, <2>9
    <2> QED  BY <2>10 DEF job
  <1>7. CASE ~Refused(job) /\ job.form # "stream" /\ job.form # "parallel"
    <2>1. Items(job) = job.msgs
      BY <1>7 DEF Items
    <2>2. job.form \in {"plain", "split", "aead"} => job.msgs[1].text # <<>>
      BY <1>7 DEF Refused
    <2>3. Len(job.msgs) = 1 => DOMAIN job.msgs = {1}
      BY <1>2
    <2>4. Goal
      BY <1>1, <1>2, <1>3, <1>7, <2>1, <2>2, <2>3
    <2> QED  BY <2>4 DEF job
  <1> QED  BY <1>4, <1>5, <1>6, <1>7

\* The items of a call that returned, in their order.
LEMMA CallSealed ==
    ASSUME Inv, SealsInv, NEW c \in DOMAIN jobs, Returned(c)
    PROVE  /\ \E n \in Nat : DOMAIN work[c] = 1..n
           /\ \A i \in DOMAIN work[c] : SealedItem(work[c][i])
           /\ \A i \in DOMAIN work[c] :
                  work[c][i].aad = None <=> Form(c) \in {"plain", "split", "stream"}
           /\ Single(c) => 1 \in DOMAIN work[c] /\ work[c][1].text # <<>>
  <1> DEFINE job == jobs[c]
  <1>1. jobs \in Jobs /\ ~Refused(job) /\ DOMAIN work[c] = DOMAIN Items(job)
    BY DEF Inv, CallsInv, SealsInv
  <1>2. /\ \E n \in Nat : DOMAIN Items(job) = 1..n
        /\ \A i \in DOMAIN Items(job) : Items(job)[i].aad \in Aads \cup {None}
        /\ job.form \in {"plain", "split", "aead", "stream"} => DOMAIN Items(job) = {1}
        /\ job.form \in {"plain", "split", "aead"} => Items(job)[1].text # <<>>
        /\ \A i \in DOMAIN Items(job) :
               Items(job)[i].aad = None <=> job.form \in {"plain", "split", "stream"}
    BY <1>1, ItemsOfCall
  <1>3. \A i \in DOMAIN work[c] : SealedItem(work[c][i])
    BY <1>1, <1>2, ReturnedSealed
  <1>4. \A i \in DOMAIN work[c] : /\ ItemSealing(c, i, work[c][i])
                                  /\ work[c][i].mac \notin {None, Failed}
    BY DEF SealsInv
  <1> HIDE DEF job
  <1>5. Form(c) = job.form
    BY DEF Form, job
  <1>6. \A i \in DOMAIN work[c] :
            work[c][i].aad = None <=> Form(c) \in {"plain", "split", "stream"}
    BY <1>1, <1>2, <1>4, <1>5 DEF ItemSealing, job
  <1>7. ASSUME Single(c)  PROVE 1 \in DOMAIN work[c] /\ work[c][1].text # <<>>
    <2>1. Form(c) \in {"plain", "split", "aead", "stream"}
      BY <1>7 DEF Single
    <2>2. 1 \in DOMAIN work[c]
      BY <1>1, <1>2, <1>5, <2>1
    <2>3. CASE Form(c) = "stream"
      BY <1>4, <2>2, <2>3 DEF ItemSealing
    <2>4. CASE Form(c) # "stream"
      <3>1. work[c][1].text = Items(job)[1].text
        BY <1>4, <2>2, <2>4 DEF ItemSealing, job
      <3>2. job.form \in {"plain", "split", "aead"}
        BY <1>5, <2>1, <2>4
      <3>3. Items(job)[1].text # <<>>
        BY <1>2, <3>2
      <3> QED  BY <2>2, <3>1, <3>3
    <2> QED  BY <2>2, <2>3, <2>4
  <1> QED  BY <1>1, <1>2, <1>3, <1>6, <1>7

-----------------------------------------------------------------------------
(* What a receiver makes of it. *)

\* What was received decodes to what it was sealed from, or not at all.
GotInv == got # None =>
    got.result \in {Err, got.sealed} /\ (got.intact => got.result = got.want)

LEMMA Received ==
    ASSUME NEW want, NEW sealed, NEW intact, NEW result,
           Receives(want, sealed, intact, result),
           result \in {Err, sealed}, intact => result = want
    PROVE  GotInv'
  <1>1. got' = [want |-> want, sealed |-> sealed, intact |-> intact, result |-> result]
    BY DEF Receives
  <1>2. got'.want = want /\ got'.sealed = sealed /\ got'.intact = intact /\ got'.result = result
    BY <1>1
  <1> QED  BY <1>2 DEF GotInv

LEMMA DecodeOneGot ==
    ASSUME Inv, SealsInv, NEW c \in DOMAIN jobs, NEW d \in DOMAIN jobs, DecodeOne(c, d)
    PROVE  GotInv'
  <1> DEFINE w == work[c][1]
             p == PacketOf(w)
             o == PacketOf(work[d][1])
  <1>1. PICK s \in {p.snap, o.snap}, a \in {p.aad, o.aad, None, <<>>} :
            Receives(w.text, w.text, s = p.snap /\ a = p.aad,
                     Opened([p EXCEPT !.snap = s, !.aad = a]))
    BY DEF DecodeOne
  <1>2. SealedItem(w) /\ SealedItem(work[d][1])
    BY CallSealed DEF DecodeOne, Single
  <1>a. a \in Bytestrings \cup {None}
    <2>1. w.aad \in Aads \cup {None} /\ work[d][1].aad \in Aads \cup {None}
      BY <1>2 DEF SealedItem
    <2>2. p.aad = w.aad /\ o.aad = work[d][1].aad
      BY DEF PacketOf
    <2>3. <<>> \in Bytestrings
      BY DEF Bytestrings
    <2> HIDE DEF w, p, o
    <2> QED  BY <2>1, <2>2, <2>3, AadBytes
  <1> DEFINE q == [p EXCEPT !.snap = s, !.aad = a]
  <1>3. /\ q.cipher = w.out /\ q.snap = s /\ q.aad = a /\ q.mac = w.mac
        /\ p.snap = w.snap /\ p.aad = w.aad
    BY DEF PacketOf
  <1> HIDE DEF w, q
  <1>4. Opened(q) = IF s = w.snap /\ a = w.aad THEN w.text ELSE Err
    BY <1>2, <1>a, <1>3, OpensOnlyWhole
  <1> DEFINE intact == s = p.snap /\ a = p.aad
  <1>5. Opened(q) \in {Err, w.text} /\ (intact => Opened(q) = w.text)
    BY <1>3, <1>4
  <1>6. Receives(w.text, w.text, intact, Opened(q))
    BY <1>1 DEF q
  <1> HIDE DEF intact
  <1> QED  BY <1>5, <1>6, Received

LEMMA DecodeQkdGot ==
    ASSUME Inv, SealsInv, NEW c \in DOMAIN jobs, DecodeQkd(c)
    PROVE  GotInv'
  <1> DEFINE w == work[c][1]
             p == PacketOf(w)
             snap == DecryptEpsilon(keys.bob, EncryptEpsilon(keys.alice, p.snap))
             q == [p EXCEPT !.snap = snap]
             intact == keys.alice = keys.bob
  <1>1. Receives(w.text, w.text, intact, Opened(q)) /\ Returned(c) /\ Form(c) = "split"
    BY DEF DecodeQkd
  <1>2. SealedItem(w)
    <2>1. Single(c)
      BY <1>1 DEF Single
    <2> QED  BY <1>1, <2>1, CallSealed
  <1>3. /\ q.cipher = w.out /\ q.snap = snap /\ q.aad = w.aad /\ q.mac = w.mac
        /\ p.snap = w.snap
    BY DEF PacketOf
  <1>4. intact => snap = w.snap
    BY <1>3 DEF DecryptEpsilon, EncryptEpsilon
  <1> HIDE DEF w, q, snap
  <1>5. Opened(q) = IF snap = w.snap THEN w.text ELSE Err
    <2>1. w.aad \in Bytestrings \cup {None}
      BY <1>2, AadBytes DEF SealedItem
    <2> QED  BY <1>2, <1>3, <2>1, OpensOnlyWhole
  <1>6. Opened(q) \in {Err, w.text} /\ (intact => Opened(q) = w.text)
    BY <1>4, <1>5
  <1> HIDE DEF intact
  <1> QED  BY <1>1, <1>6, Received

LEMMA DecodeStreamGot ==
    ASSUME Inv, SealsInv, NEW c \in DOMAIN jobs, DecodeStream(c)
    PROVE  GotInv'
  <1> DEFINE w == work[c][1]
             p == PacketOf(w)
             pieces(cut) == <<SubSeq(p.cipher, 1, cut), SubSeq(p.cipher, cut + 1, Len(p.cipher))>>
  <1>1. PICK cut \in 0..Len(p.cipher) : \E arrived \in Mangled(pieces(cut)) :
            Receives(w.text, w.text, arrived = pieces(cut), OpenedStream(p, arrived))
    BY DEF DecodeStream
  <1>2. PICK arrived \in Mangled(pieces(cut)) :
            Receives(w.text, w.text, arrived = pieces(cut), OpenedStream(p, arrived))
    BY <1>1
  <1>3. SealedItem(w) /\ w.text # <<>> /\ w.aad = None
    <2>1. Returned(c) /\ Single(c) /\ Form(c) \in {"plain", "split", "stream"}
      BY DEF DecodeStream, Single
    <2> QED  BY <2>1, CallSealed
  <1>4. p.cipher = w.out /\ p.snap = w.snap /\ p.aad = w.aad /\ p.mac = w.mac
    BY DEF PacketOf
  <1> DEFINE cipher == Flatten(arrived)
             q == [p EXCEPT !.cipher = cipher]
  <1>5. q.cipher = cipher /\ q.snap = w.snap /\ q.aad = w.aad /\ q.mac = w.mac
    BY DEF PacketOf
  <1>6. OpenedStream(p, arrived) = IF cipher = <<>> THEN Err ELSE Opened(q)
    BY DEF OpenedStream
  <1> HIDE DEF w, p, cipher, q
  <1>7. Opened(q) = IF cipher = w.out THEN w.text ELSE Err
    BY <1>3, <1>5, OpensOnlyWhole
  <1>8. w.out \in Seq(SUBSET Marks) /\ w.out # <<>>
    <2>1. w.out \in Seq(SUBSET Marks)
      BY <1>3 DEF SealedItem, Bytestrings
    <2>2. Len(w.out) = Len(w.text) /\ w.text \in Seq(SUBSET Symbols)
      BY <1>3, RoundTrip DEF SealedItem
    <2>3. Len(w.text) # 0
      BY <1>3, <2>2
    <2> QED  BY <2>1, <2>2, <2>3
  <1>9. arrived = pieces(cut) => cipher = w.out
    <2>1. Flatten(pieces(cut)) = w.out
      BY <1>4, <1>8, FlattenPair
    <2> QED  BY <2>1 DEF cipher
  <1> DEFINE intact == arrived = pieces(cut)
             result == OpenedStream(p, arrived)
  <1>10. result \in {Err, w.text} /\ (intact => result = w.text)
    <2> HIDE DEF pieces
    <2> QED  BY <1>6, <1>7, <1>8, <1>9
  <1>11. Receives(w.text, w.text, intact, result)
    BY <1>2
  <1> HIDE DEF intact, result
  <1> QED  BY <1>10, <1>11, Received

\* A packet as it was sent opens to the message.
LEMMA IntactOpens ==
    ASSUME NEW w, SealedItem(w)
    PROVE  Opened(PacketOf(w)) = w.text
  <1> DEFINE p == PacketOf(w)
  <1>1. p.cipher = w.out /\ p.snap = w.snap /\ p.aad = w.aad /\ p.mac = w.mac
    BY DEF PacketOf
  <1> HIDE DEF p
  <1>2. p.aad \in Bytestrings \cup {None}
    BY <1>1, AadBytes DEF SealedItem
  <1>3. Opened(p) = w.text
    BY <1>1, <1>2, OpensOnlyWhole
  <1> QED  BY <1>3 DEF p

\* A torn packet does not open.
LEMMA TornFails ==
    ASSUME NEW n \in Nat, NEW packets,
           \A i \in 1..n : \E w : SealedItem(w) /\ packets[i] = PacketOf(w),
           DOMAIN packets = 1..n, NEW x \in Torn(packets)
    PROVE  Opened(x) = Err
  <1>1. PICK i \in 1..n, k \in 1..n : \/ x = [packets[i] EXCEPT !.snap = packets[k].snap]
                                      \/ x = [packets[i] EXCEPT !.aad = <<>>]
    BY DEF Torn
  <1>2. x # packets[i]
    BY DEF Torn
  <1>3. PICK w : SealedItem(w) /\ packets[i] = PacketOf(w)
    OBVIOUS
  <1>4. packets[i] = [cipher |-> w.out, snap |-> w.snap, aad |-> w.aad, mac |-> w.mac]
    BY <1>3 DEF PacketOf
  <1> DEFINE s == packets[k].snap
  <1>5. CASE x = [packets[i] EXCEPT !.snap = s]
    <2> HIDE DEF s
    <2>1. x = [cipher |-> w.out, snap |-> s, aad |-> w.aad, mac |-> w.mac]
      BY <1>4, <1>5
    <2>2. s # w.snap
      BY <1>2, <1>4, <2>1
    <2>3. x.snap = s /\ x.mac = w.mac /\ x.cipher = w.out /\ x.aad \in Bytestrings \cup {None}
      BY <1>3, <2>1, AadBytes DEF SealedItem
    <2> QED  BY <1>3, <2>2, <2>3, OpensOnlyWhole
  <1>6. CASE x = [packets[i] EXCEPT !.aad = <<>>]
    <2>1. x = [cipher |-> w.out, snap |-> w.snap, aad |-> <<>>, mac |-> w.mac]
      BY <1>4, <1>6
    <2>2. w.aad # <<>>
      BY <1>2, <1>4, <2>1
    <2>3. x.aad = <<>> /\ x.mac = w.mac /\ x.cipher = w.out /\ <<>> \in Bytestrings
      BY <2>1 DEF Bytestrings
    <2> QED  BY <1>3, <2>2, <2>3, OpensOnlyWhole
  <1> QED  BY <1>1, <1>5, <1>6

LEMMA DecodeBatchGot ==
    ASSUME Inv, SealsInv, NEW c \in DOMAIN jobs, DecodeBatch(c)
    PROVE  GotInv'
  <1> DEFINE packets == Packets(c)
             ids == [i \in DOMAIN packets |-> i]
             all == [i \in DOMAIN packets |-> work[c][i].text]
             texts(order) == [k \in DOMAIN order |-> all[order[k]]]
  <1>1. \/ \E order \in Mangled(ids) :
             Receives(texts(order), texts(order), TRUE,
                      OpenedAll([k \in DOMAIN order |-> packets[order[k]]]))
        \/ \E arrived \in Replaced(packets, Torn(packets)) :
             Receives(all, all, FALSE, OpenedAll(arrived))
    BY DEF DecodeBatch
  <1>2. PICK n \in Nat : DOMAIN work[c] = 1..n
    BY CallSealed DEF DecodeBatch
  <1>3. \A i \in 1..n : SealedItem(work[c][i])
    BY <1>2, CallSealed DEF DecodeBatch
  <1>4. DOMAIN packets = 1..n /\ \A i \in 1..n : packets[i] = PacketOf(work[c][i])
    BY <1>2 DEF Packets
  <1> HIDE DEF packets
  <1>5. ASSUME NEW order \in Mangled(ids),
               Receives(texts(order), texts(order), TRUE,
                      OpenedAll([k \in DOMAIN order |-> packets[order[k]]]))
        PROVE  GotInv'
    <2> DEFINE arrived == [k \in DOMAIN order |-> packets[order[k]]]
    <2>1. order \in Seq(1..n)
      <3>1. ids \in Seq(1..n)
        <4>1. ids \in [1..n -> 1..n]
          BY <1>4
        <4> HIDE DEF ids
        <4> QED  BY <4>1, SeqDef
      <3> HIDE DEF ids
      <3> QED  BY <3>1, MangledSeq
    <2>2. ASSUME NEW k \in DOMAIN order
          PROVE  Opened(arrived[k]) = all[order[k]] /\ Opened(arrived[k]) # Err
      <3>1. order[k] \in 1..n
        BY <2>1
      <3>2. arrived[k] = PacketOf(work[c][order[k]])
        BY <1>4, <3>1
      <3>3. SealedItem(work[c][order[k]])
        BY <1>3, <3>1
      <3>4. all[order[k]] = work[c][order[k]].text
        BY <1>4, <3>1
      <3> HIDE DEF arrived, all
      <3> QED  BY <3>2, <3>3, <3>4, IntactOpens, TextNotErr
    <2>3. DOMAIN arrived = DOMAIN order
      OBVIOUS
    <2> HIDE DEF arrived
    <2>4. OpenedAll(arrived) = texts(order)
      BY <2>2, <2>3 DEF OpenedAll
    <2>5. Receives(texts(order), texts(order), TRUE, OpenedAll(arrived))
      BY <1>5 DEF arrived
    <2> HIDE DEF texts
    <2> QED  BY <2>4, <2>5, Received
  <1>6. ASSUME NEW arrived \in Replaced(packets, Torn(packets)),
               Receives(all, all, FALSE, OpenedAll(arrived))
        PROVE  GotInv'
    <2>1. PICK k \in 1..n, x \in Torn(packets) : arrived = [packets EXCEPT ![k] = x]
      BY <1>4 DEF Replaced
    <2>2. k \in DOMAIN arrived /\ arrived[k] = x
      BY <1>4, <2>1
    <2>3. Opened(x) = Err
      <3>1. \A i \in 1..n : \E w : SealedItem(w) /\ packets[i] = PacketOf(w)
        BY <1>3, <1>4
      <3> QED  BY <1>4, <3>1, TornFails
    <2>4. OpenedAll(arrived) = Err
      BY <2>2, <2>3 DEF OpenedAll
    <2> HIDE DEF all
    <2> QED  BY <1>6, <2>4, Received
  <1> QED  BY <1>1, <1>5, <1>6

-----------------------------------------------------------------------------
(* The parallel form. *)

LEMMA SamePacket ==
    ASSUME NEW w, NEW v, SealedItem(w), SealedItem(v), w.mac = v.mac,
           w.aad # None, v.aad # None
    PROVE  PacketOf(w) = PacketOf(v)
  <1>1. w.snap = v.snap /\ Covered(w.aad, w.out) = Covered(v.aad, v.out)
    <2>1. w.mac = [snap |-> w.snap, covered |-> Covered(w.aad, w.out)]
      <3>1. w.mac = Commit(w.snap, w.aad, w.out)
        BY DEF SealedItem
      <3> QED  BY <3>1 DEF Commit
    <2>2. v.mac = [snap |-> v.snap, covered |-> Covered(v.aad, v.out)]
      <3>1. v.mac = Commit(v.snap, v.aad, v.out)
        BY DEF SealedItem
      <3> QED  BY <3>1 DEF Commit
    <2>3. w.mac.snap = w.snap /\ w.mac.covered = Covered(w.aad, w.out)
      BY <2>1
    <2>4. v.mac.snap = v.snap /\ v.mac.covered = Covered(v.aad, v.out)
      BY <2>2
    <2> QED  BY <2>3, <2>4
  <1>2. /\ w.aad \in Bytestrings /\ w.out \in Bytestrings
        /\ v.aad \in Bytestrings /\ v.out \in Bytestrings
    BY AadBytes DEF SealedItem
  <1>3. w.aad = v.aad /\ w.out = v.out
    BY <1>1, <1>2, CoveredParts
  <1> QED  BY <1>1, <1>3 DEF PacketOf

\* The blocks are the chunks of the message.
LEMMA ParallelBlocks ==
    ASSUME Inv, SealsInv, NEW c \in DOMAIN jobs, Returned(c), Form(c) = "parallel"
    PROVE  /\ \E n \in Nat \ {0} : DOMAIN work[c] = 1..n
           /\ Flatten([i \in DOMAIN work[c] |-> work[c][i].text]) = jobs[c].msgs[1].text
           /\ \A i \in DOMAIN work[c] : work[c][i].aad # None
  <1> DEFINE job == jobs[c]
             text == job.msgs[1].text
             n == CeilDiv(Len(text), job.size)
  <1>1. jobs \in Jobs /\ ~Refused(job) /\ DOMAIN work[c] = DOMAIN Items(job)
        /\ \A i \in DOMAIN work[c] : work[c][i].text = Items(job)[i].text
    BY DEF Inv, CallsInv, SealsInv, ItemSealing
  <1>2. job.msgs \in Seq(Messages) /\ job.size \in Nat /\ Len(job.msgs) = 1
    <2>1. job.form = "parallel"
      BY DEF Form
    <2> QED  BY <1>1, <2>1, JobsAssumption
  <1>3. job.form = "parallel"
    BY DEF Form
  <1> HIDE DEF job
  <1>4. text \in Seq(SUBSET Symbols) /\ text # <<>>
    <2>1. job.msgs[1] \in Messages
      BY <1>2
    <2>2. text # <<>>
      BY <1>1, <1>3 DEF Refused
    <2> QED  BY <2>1, <2>2 DEF Messages
  <1>5. job.size \in Nat \ {0}
    <2>1. job.size # 0
      BY <1>1, <1>3 DEF Refused
    <2> QED  BY <1>2, <2>1
  <1>6. Len(text) \in Nat /\ Len(text) # 0
    BY <1>4
  <1> HIDE DEF text
  <1>7. n \in Nat \ {0}
    <2>1. n \in Nat
      BY <1>5, <1>6, CeilDivType
    <2> DEFINE a == Len(text) + job.size - 1
    <2>2. a \in Int /\ a >= job.size * 1
      BY <1>5, <1>6
    <2> HIDE DEF a
    <2>3. a \div job.size >= 1
      BY <1>5, <2>2, QuotientAtLeast
    <2>4. n = a \div job.size
      BY DEF CeilDiv, a
    <2> QED  BY <2>1, <2>3, <2>4
  <1>8. Items(job) = [k \in DOMAIN Chunks(text, job.size) |->
                         [text |-> Chunks(text, job.size)[k], aad |-> job.msgs[1].aad]]
    BY <1>1, <1>3 DEF Items, text
  <1>9. /\ DOMAIN Chunks(text, job.size) = 1..n
        /\ \A k \in 1..n : Chunks(text, job.size)[k] =
               SubSeq(text, (k - 1) * job.size + 1, Smaller(k * job.size, Len(text)))
        /\ Chunks(text, job.size) = [k \in 1..n |-> Chunks(text, job.size)[k]]
    BY DEF Chunks
  <1> HIDE DEF n
  <1>10. /\ DOMAIN work[c] = 1..n
         /\ \A k \in 1..n : work[c][k].text = Chunks(text, job.size)[k]
    BY <1>1, <1>8, <1>9
  <1>11. [i \in DOMAIN work[c] |-> work[c][i].text] = Chunks(text, job.size)
    BY <1>9, <1>10
  <1>12. Flatten(Chunks(text, job.size)) = text
    BY <1>4, <1>5, FlattenChunks
  <1>13. \A i \in DOMAIN work[c] : work[c][i].aad # None
    <2>1. Form(c) \notin {"plain", "split", "stream"}
      OBVIOUS
    <2> QED  BY <2>1, CallSealed
  <1> QED  BY <1>7, <1>10, <1>11, <1>12, <1>13 DEF text, job

\* As they were sent, the blocks decode to the message.
LEMMA ParallelIntact ==
    ASSUME Inv, SealsInv, NEW c \in DOMAIN jobs, Returned(c), Form(c) = "parallel"
    PROVE  OpenedParallel(Packets(c), MerkleRoot(Packets(c))) = jobs[c].msgs[1].text
  <1>1. PICK n \in Nat \ {0} : DOMAIN work[c] = 1..n
    BY ParallelBlocks
  <1>2. \A i \in 1..n : SealedItem(work[c][i])
    BY <1>1, CallSealed
  <1> DEFINE blocks == Packets(c)
             texts == [i \in 1..n |-> work[c][i].text]
  <1>3. DOMAIN blocks = 1..n /\ \A i \in 1..n : blocks[i] = PacketOf(work[c][i])
    BY <1>1 DEF Packets
  <1>4. Flatten(texts) = jobs[c].msgs[1].text
    BY <1>1, ParallelBlocks
  <1> HIDE DEF blocks
  <1>5. \A i \in 1..n : Opened(blocks[i]) = work[c][i].text /\ Opened(blocks[i]) # Err
    BY <1>2, <1>3, IntactOpens, TextNotErr
  <1>6. OpenedAll(blocks) = texts
    BY <1>3, <1>5 DEF OpenedAll
  <1>7. texts # Err
    <2>1. \A i \in 1..n : work[c][i].text \in Bytestrings
      BY <1>2, TextNotErr
    <2>2. texts \in [1..n -> Bytestrings]
      BY <2>1
    <2>3. texts \in Seq(Bytestrings)
      <3> HIDE DEF texts
      <3> QED  BY <2>2, SeqDef
    <2> QED  BY <2>3, NoneAssumption
  <1>8. blocks # <<>>
    <2>1. 1 \in DOMAIN blocks
      BY <1>1, <1>3
    <2> QED  BY <2>1
  <1> HIDE DEF texts
  <1>9. OpenedParallel(blocks, MerkleRoot(blocks)) = Flatten(texts)
    BY <1>6, <1>7, <1>8 DEF OpenedParallel
  <1> QED  BY <1>4, <1>9 DEF blocks

\* Under the root of a message no other blocks decode.
LEMMA ParallelWhole ==
    ASSUME Inv, SealsInv, NEW c \in DOMAIN jobs, Returned(c), Form(c) = "parallel",
           NEW S, \A p \in S : \E w : SealedItem(w) /\ w.aad # None /\ p = PacketOf(w),
           NEW arrived \in Seq(S), arrived # Packets(c)
    PROVE  OpenedParallel(arrived, MerkleRoot(Packets(c))) = Err
  <1> DEFINE blocks == Packets(c)
  <1>1. PICK n \in Nat \ {0} : DOMAIN work[c] = 1..n
    BY ParallelBlocks
  <1>2. \A i \in 1..n : SealedItem(work[c][i])
    BY <1>1, CallSealed
  <1>3. /\ DOMAIN blocks = 1..n /\ \A i \in 1..n : blocks[i] = PacketOf(work[c][i])
        /\ blocks = [i \in 1..n |-> blocks[i]]
    BY <1>1 DEF Packets
  <1> HIDE DEF blocks
  <1>4. ASSUME MerkleRoot(arrived) = MerkleRoot(blocks)  PROVE arrived = blocks
    <2>1. DOMAIN arrived = 1..n
      <3>1. DOMAIN MerkleRoot(arrived) = DOMAIN arrived /\ DOMAIN MerkleRoot(blocks) = DOMAIN blocks
        BY DEF MerkleRoot
      <3> QED  BY <1>3, <1>4, <3>1
    <2>2. \A i \in 1..n : arrived[i].mac = blocks[i].mac
      <3>1. \A i \in 1..n : /\ MerkleRoot(arrived)[i] = arrived[i].mac
                            /\ MerkleRoot(blocks)[i] = blocks[i].mac
        BY <1>3, <2>1 DEF MerkleRoot
      <3> QED  BY <1>4, <3>1
    <2>3. ASSUME NEW i \in 1..n  PROVE arrived[i] = blocks[i]
      <3>1. arrived[i] \in S
        BY <2>1
      <3>2. PICK w : SealedItem(w) /\ w.aad # None /\ arrived[i] = PacketOf(w)
        BY <3>1
      <3> DEFINE v == work[c][i]
      <3>3. SealedItem(v) /\ v.aad # None /\ blocks[i] = PacketOf(v)
        BY <1>1, <1>2, <1>3, ParallelBlocks
      <3> HIDE DEF v
      <3>4. w.mac = v.mac
        <4>1. PacketOf(w).mac = w.mac /\ PacketOf(v).mac = v.mac
          BY DEF PacketOf
        <4> QED  BY <2>2, <3>2, <3>3, <4>1
      <3> QED  BY <3>2, <3>3, <3>4, SamePacket
    <2>4. arrived = [i \in 1..n |-> arrived[i]]
      BY <2>1
    <2> QED  BY <1>3, <2>3, <2>4
  <1>5. MerkleRoot(arrived) # MerkleRoot(blocks)
    BY <1>4 DEF blocks
  <1>6. OpenedParallel(arrived, MerkleRoot(blocks)) = Err
    BY <1>5 DEF OpenedParallel
  <1> QED  BY <1>6 DEF blocks

\* Under any root, blocks that were sealed decode to their texts or not at all.
LEMMA SealedBlocks ==
    ASSUME NEW items, \A k \in DOMAIN items : SealedItem(items[k]), NEW root
    PROVE  OpenedParallel([k \in DOMAIN items |-> PacketOf(items[k])], root)
               \in {Err, Flatten([k \in DOMAIN items |-> items[k].text])}
  <1> DEFINE blocks == [k \in DOMAIN items |-> PacketOf(items[k])]
             texts == [k \in DOMAIN items |-> items[k].text]
  <1>1. DOMAIN blocks = DOMAIN items
        /\ \A k \in DOMAIN items : blocks[k] = PacketOf(items[k])
    OBVIOUS
  <1> HIDE DEF blocks
  <1>2. \A k \in DOMAIN items : Opened(blocks[k]) = items[k].text /\ Opened(blocks[k]) # Err
    BY <1>1, IntactOpens, TextNotErr
  <1>3. OpenedAll(blocks) = texts
    BY <1>1, <1>2 DEF OpenedAll
  <1> HIDE DEF texts
  <1>4. OpenedParallel(blocks, root) \in {Err, Flatten(texts)}
    BY <1>3 DEF OpenedParallel
  <1> QED  BY <1>4 DEF blocks, texts

LEMMA DecodeParallelGot ==
    ASSUME Inv, SealsInv, NEW c \in DOMAIN jobs, NEW d \in DOMAIN jobs, DecodeParallel(c, d)
    PROVE  GotInv'
  <1> DEFINE own == [k \in DOMAIN work[c] |-> <<c, k>>]
             others == {<<d, k>> : k \in DOMAIN work[d]}
             places == {<<c, k>> : k \in DOMAIN work[c]} \cup others
             items(a) == [k \in DOMAIN a |-> work[a[k][1]][a[k][2]]]
             blocks(a) == [k \in DOMAIN items(a) |-> PacketOf(items(a)[k])]
             joined(a) == Flatten([k \in DOMAIN items(a) |-> items(a)[k].text])
             sent == MerkleRoot(Packets(c))
             text == jobs[c].msgs[1].text
             sealed(a, root) == IF root = sent THEN text ELSE joined(a)
  <1>1. PICK arrived \in Mangled(own) \cup Replaced(own, others) :
            \E root \in {sent, MerkleRoot(blocks(arrived))} :
                Receives(text, sealed(arrived, root), arrived = own,
                         OpenedParallel(blocks(arrived), root))
    BY DEF DecodeParallel
  <1>2. PICK root \in {sent, MerkleRoot(blocks(arrived))} :
            Receives(text, sealed(arrived, root), arrived = own,
                     OpenedParallel(blocks(arrived), root))
    BY <1>1
  <1>3. Returned(c) /\ Returned(d) /\ Form(c) = "parallel" /\ Form(d) = "parallel"
    BY DEF DecodeParallel
  <1>4. PICK n \in Nat : DOMAIN work[c] = 1..n
    BY <1>3, CallSealed
  <1>5. arrived \in Seq(places)
    <2>1. own \in [1..n -> places]
      BY <1>4
    <2> HIDE DEF own, places
    <2>2. own \in Seq(places)
      BY <2>1, SeqDef
    <2>3. others \subseteq places
      BY DEF places
    <2> HIDE DEF others
    <2>4. CASE arrived \in Mangled(own)
      BY <2>2, <2>4, MangledSeq
    <2>5. CASE arrived \in Replaced(own, others)
      <3>1. PICK k \in DOMAIN own, x \in others : arrived = [own EXCEPT ![k] = x]
        BY <2>5 DEF Replaced
      <3> QED  BY <2>2, <2>3, <3>1
    <2> QED  BY <1>1, <2>4, <2>5
  <1> DEFINE its == items(arrived)
             bs == blocks(arrived)
             S == {PacketOf(work[x[1]][x[2]]) : x \in places}
  <1>6. \A x \in places : SealedItem(work[x[1]][x[2]]) /\ work[x[1]][x[2]].aad # None
    <2>1. \A k \in DOMAIN work[c] : SealedItem(work[c][k]) /\ work[c][k].aad # None
      BY <1>3, CallSealed, ParallelBlocks
    <2>2. \A k \in DOMAIN work[d] : SealedItem(work[d][k]) /\ work[d][k].aad # None
      BY <1>3, CallSealed, ParallelBlocks
    <2> QED  BY <2>1, <2>2
  <1>7. DOMAIN its = DOMAIN arrived /\ DOMAIN bs = DOMAIN arrived
        /\ \A k \in DOMAIN arrived : /\ arrived[k] \in places
                                      /\ its[k] = work[arrived[k][1]][arrived[k][2]]
                                      /\ bs[k] = PacketOf(work[arrived[k][1]][arrived[k][2]])
    <2> HIDE DEF places
    <2> QED  BY <1>5
  <1>8. bs \in Seq(S)
    <2> DEFINE m == Len(arrived)
    <2>1. m \in Nat /\ DOMAIN arrived = 1..m
      BY <1>5
    <2>2. bs = [k \in 1..m |-> bs[k]]
      BY <1>7, <2>1
    <2> HIDE DEF bs, places, m
    <2>3. \A k \in 1..m : bs[k] \in S
      BY <1>7, <2>1
    <2> HIDE DEF S
    <2>4. bs \in [1..m -> S]
      BY <2>2, <2>3
    <2> QED  BY <2>1, <2>4, SeqDef
  <1>9. \A p \in S : \E w : SealedItem(w) /\ w.aad # None /\ p = PacketOf(w)
    <2> HIDE DEF places
    <2> QED  BY <1>6
  <1>10. arrived = own => bs = Packets(c)
    <2>1. ASSUME arrived = own  PROVE bs = Packets(c)
      <3>1. DOMAIN own = DOMAIN work[c] /\ \A k \in DOMAIN work[c] : own[k] = <<c, k>>
        OBVIOUS
      <3>2. DOMAIN bs = DOMAIN work[c]
            /\ \A k \in DOMAIN work[c] : bs[k] = PacketOf(work[c][k])
        <4> HIDE DEF own, bs, its, places
        <4>1. DOMAIN arrived = DOMAIN work[c]
          BY <2>1, <3>1
        <4>2. ASSUME NEW k \in DOMAIN work[c]  PROVE bs[k] = PacketOf(work[c][k])
          <5>1. bs[k] = PacketOf(work[arrived[k][1]][arrived[k][2]])
            BY <1>7, <4>1
          <5>2. arrived[k] = <<c, k>>
            BY <2>1, <3>1
          <5> QED  BY <5>1, <5>2
        <4> QED  BY <1>7, <4>1, <4>2
      <3>3. bs = [k \in DOMAIN work[c] |-> bs[k]]
        BY <3>2
      <3> HIDE DEF bs
      <3> QED  BY <3>2, <3>3 DEF Packets
    <2> QED  BY <2>1
  <1>11. OpenedParallel(bs, root) \in {Err, joined(arrived)}
    <2>1. \A k \in DOMAIN its : SealedItem(its[k])
      <3> HIDE DEF its, places
      <3> QED  BY <1>6, <1>7
    <2>2. OpenedParallel([k \in DOMAIN its |-> PacketOf(its[k])], root)
              \in {Err, Flatten([k \in DOMAIN its |-> its[k].text])}
      <3> HIDE DEF its
      <3> QED  BY <2>1, SealedBlocks
    <2> QED  BY <2>2
  <1>12. root \in {sent, MerkleRoot(bs)}
    BY <1>2
  <1>13. Receives(text, sealed(arrived, root), arrived = own, OpenedParallel(bs, root))
    BY <1>2
  <1> DEFINE intact == arrived = own
             result == OpenedParallel(bs, root)
             j == joined(arrived)
             claim == IF root = sent THEN text ELSE j
  <1>14. Receives(text, claim, intact, result)
    BY <1>13
  <1>15. intact => bs = Packets(c)
    BY <1>10
  <1>16. result \in {Err, j}
    BY <1>11
  <1> HIDE DEF bs, S, j, intact
  <1>17. bs = Packets(c) => root = sent /\ result = text
    BY <1>3, <1>12, ParallelIntact
  <1>18. bs # Packets(c) /\ root = sent => result = Err
    BY <1>3, <1>8, <1>9, ParallelWhole
  <1> HIDE DEF result, sent, text
  <1>19. result \in {Err, claim} /\ (intact => result = text)
    BY <1>15, <1>16, <1>17, <1>18
  <1> HIDE DEF claim
  <1> QED  BY <1>14, <1>19, Received

-----------------------------------------------------------------------------
(* The wire. *)

Units == ({"len"} \X Nat) \cup ({"byte"} \X SUBSET Marks) \cup ({"snap"} \X Snapshots)
           \cup ({"mac"} \X Commitments) \cup ({"root"} \X Seq(Commitments))

\* What has arrived so far of the wire, or with something after it.
Follows(v, wire) == \A k \in 1..Len(v) : k <= Len(wire) => v[k] = wire[k]

LEMMA ConnectionFollows ==
    ASSUME NEW S, NEW wire \in Seq(S), NEW v \in Connection(wire)
    PROVE  v \in Seq(S) /\ Follows(v, wire)
  <1>1. CASE \E n \in 0..Len(wire) : v = SubSeq(wire, 1, n)
    <2>1. PICK n \in 0..Len(wire) : v = SubSeq(wire, 1, n)
      BY <1>1
    <2>2. v \in Seq(S) /\ Len(v) = n /\ \A k \in 1..n : v[k] = wire[k]
      BY <2>1
    <2> QED  BY <2>2 DEF Follows
  <1>2. CASE v = wire \o wire
    <2>1. v \in Seq(S) /\ \A k \in 1..Len(wire) : v[k] = wire[k]
      BY <1>2
    <2>2. ASSUME NEW k \in 1..Len(v), k <= Len(wire)  PROVE v[k] = wire[k]
      <3>1. k \in 1..Len(wire)
        BY <2>1, <2>2
      <3> QED  BY <2>1, <3>1
    <2> QED  BY <2>1, <2>2 DEF Follows
  <1> QED  BY <1>1, <1>2 DEF Connection

LEMMA CommitType ==
    ASSUME NEW snap \in Snapshots \cup {None}, NEW a \in Bytestrings \cup {None},
           NEW cipher \in Bytestrings
    PROVE  Commit(snap, a, cipher) \in Commitments
  <1>1. Covered(a, cipher) \in Bytestrings
    <2>1. CASE a = None
      BY <2>1 DEF Covered
    <2>2. CASE a # None
      BY <2>2, CoveredBytes
    <2> QED  BY <2>1, <2>2
  <1> QED  BY <1>1 DEF Commit, Commitments

LEMMA PacketType ==
    ASSUME NEW w, SealedItem(w)
    PROVE  /\ w.mac \in Commitments /\ PacketOf(w) \in Packet
           /\ w.out \in Seq(SUBSET Marks) /\ Len(w.out) = Len(w.text) /\ Len(w.text) \in Nat
  <1>1. /\ w.snap \in Snapshots /\ w.aad \in Bytestrings \cup {None} /\ w.out \in Bytestrings
        /\ w.mac = Commit(w.snap, w.aad, w.out)
        /\ w.text \in Seq(SUBSET Symbols)
    BY AadBytes DEF SealedItem
  <1>2. w.mac \in Commitments
    BY <1>1, CommitType
  <1>3. PacketOf(w) \in Packet
    BY <1>1, <1>2 DEF PacketOf, Packet
  <1> QED  BY <1>1, <1>2, <1>3, RoundTrip DEF Bytestrings

\* Without a tag nothing opens.
LEMMA NoTagFails == ASSUME NEW r \in Packet, r.mac = None  PROVE Opened(r) = Err
  <1>1. Commit(r.snap, r.aad, r.cipher) \in Commitments
    BY CommitType DEF Packet
  <1>2. r.mac # Commit(r.snap, r.aad, r.cipher)
    BY <1>1, NoneAssumption
  <1> QED  BY <1>2 DEF Opened

\* A length on the wire, and when it is the length.
LEMMA LengthOnWire ==
    ASSUME NEW l \in Nat
    PROVE  /\ LenUnit(l)[2] \in 0..l /\ LenUnit(l) \in Units /\ LenUnit(l)[1] = "len"
           /\ l < LenMod => LenUnit(l)[2] = l
           /\ ~(l < LenMod) => LenUnit(l)[2] < l
  <1> DEFINE m == l % LenMod
  <1>1. LenMod \in Nat \ {0}
    BY CodecAssumption
  <1>2. m \in 0..(LenMod - 1)
    BY <1>1
  <1>3. l < LenMod => m = l
    BY <1>1
  <1>4. LenUnit(l)[2] = m /\ LenUnit(l) = <<"len", m>>
    BY DEF LenUnit
  <1> HIDE DEF m
  <1>5. ~(l < LenMod) => m < l
    BY <1>1, <1>2
  <1>6. m \in 0..l
    BY <1>2, <1>3, <1>5
  <1> QED  BY <1>3, <1>4, <1>5, <1>6 DEF Units

\* What a concatenation holds, part by part.
Cat(s, t) == s \o t

LEMMA CatType ==
    ASSUME NEW S, NEW s \in Seq(S), NEW t \in Seq(S)
    PROVE  Cat(s, t) \in Seq(S) /\ Len(Cat(s, t)) = Len(s) + Len(t)
  BY DEF Cat

LEMMA CatFront ==
    ASSUME NEW S, NEW s \in Seq(S), NEW t \in Seq(S), NEW k \in 1..Len(s)
    PROVE  Cat(s, t)[k] = s[k]
  BY ConcatProperties DEF Cat

LEMMA CatBack ==
    ASSUME NEW S, NEW s \in Seq(S), NEW t \in Seq(S), NEW k \in 1..Len(t)
    PROVE  Cat(s, t)[Len(s) + k] = t[k]
  <1>1. Len(s) + k \in Len(s) + 1 .. Len(s) + Len(t) /\ (Len(s) + k) - Len(s) = k
    OBVIOUS
  <1>2. (s \o t)[Len(s) + k] = t[(Len(s) + k) - Len(s)]
    BY <1>1
  <1> QED  BY <1>1, <1>2 DEF Cat

\* A length in front of a sequence, and some units behind it.
Frame(h, t, u) == Cat(Cat(<<h>>, t), u)

Framed(S, s, h, t, u) ==
    /\ s \in Seq(S) /\ Len(s) = Len(t) + 1 + Len(u)
    /\ s[1] = h
    /\ \A k \in 1..Len(t) : s[k + 1] = t[k]
    /\ \A k \in 1..Len(u) : s[Len(t) + 1 + k] = u[k]

LEMMA FrameHolds ==
    ASSUME NEW S, NEW h \in S, NEW t \in Seq(S), NEW u \in Seq(S)
    PROVE  Framed(S, Frame(h, t, u), h, t, u)
  <1> DEFINE one == <<h>>
             front == Cat(one, t)
             s == Cat(front, u)
             l == Len(t)
  <1>1. one \in Seq(S) /\ Len(one) = 1 /\ one[1] = h /\ l \in Nat /\ Len(u) \in Nat
    OBVIOUS
  <1> HIDE DEF one
  <1>2. /\ front \in Seq(S) /\ Len(front) = Len(one) + Len(t)
        /\ \A k \in 1..Len(one) : front[k] = one[k]
        /\ \A k \in 1..Len(t) : front[Len(one) + k] = t[k]
    <2>1. front \in Seq(S) /\ Len(front) = Len(one) + Len(t)
      BY <1>1, CatType
    <2>2. \A k \in 1..Len(one) : front[k] = one[k]
      BY <1>1, CatFront
    <2>3. \A k \in 1..Len(t) : front[Len(one) + k] = t[k]
      BY <1>1, CatBack
    <2> QED  BY <2>1, <2>2, <2>3
  <1> HIDE DEF front
  <1>3. /\ s \in Seq(S) /\ Len(s) = Len(front) + Len(u)
        /\ \A k \in 1..Len(front) : s[k] = front[k]
        /\ \A k \in 1..Len(u) : s[Len(front) + k] = u[k]
    <2>1. front \in Seq(S)
      BY <1>2
    <2>2. s \in Seq(S) /\ Len(s) = Len(front) + Len(u)
      BY <2>1, CatType
    <2>3. \A k \in 1..Len(front) : s[k] = front[k]
      BY <2>1, CatFront
    <2>4. \A k \in 1..Len(u) : s[Len(front) + k] = u[k]
      BY <2>1, CatBack
    <2> QED  BY <2>2, <2>3, <2>4
  <1> HIDE DEF s, l
  <1>4. Len(front) = l + 1
    BY <1>1, <1>2 DEF l
  <1>5. s[1] = h
    <2>1. 1 \in 1..Len(front) /\ 1 \in 1..Len(one)
      BY <1>1, <1>4
    <2> QED  BY <1>1, <1>2, <1>3, <2>1
  <1>6. ASSUME NEW k \in 1..l  PROVE s[k + 1] = t[k]
    <2>1. Len(one) + k \in 1..Len(front) /\ Len(one) + k = k + 1
      BY <1>1, <1>4
    <2>2. front[k + 1] = t[k]
      BY <1>2, <2>1 DEF l
    <2> QED  BY <1>3, <2>1, <2>2
  <1>7. Len(s) = l + 1 + Len(u) /\ \A k \in 1..Len(u) : s[l + 1 + k] = u[k]
    BY <1>3, <1>4
  <1> QED  BY <1>3, <1>5, <1>6, <1>7 DEF s, front, one, l, Frame, Framed

LEMMA BytesUnits ==
    ASSUME NEW out \in Seq(SUBSET Marks)
    PROVE  /\ Bytes(out) \in Seq(Units) /\ Len(Bytes(out)) = Len(out)
           /\ \A k \in 1..Len(out) : Bytes(out)[k] = <<"byte", out[k]>>
  <1> DEFINE l == Len(out)
             bytes == Bytes(out)
  <1>1. bytes = [k \in 1..l |-> <<"byte", out[k]>>] /\ l \in Nat
    BY DEF Bytes, Unit
  <1>2. \A k \in 1..l : <<"byte", out[k]>> \in Units
    BY DEF Units
  <1> HIDE DEF bytes
  <1>3. bytes \in [1..l -> Units]
    BY <1>1, <1>2
  <1>4. bytes \in Seq(Units)
    BY <1>1, <1>3, SeqDef
  <1> QED  BY <1>1, <1>4 DEF bytes

LEMMA PlainWireUnits ==
    ASSUME NEW w, SealedItem(w)
    PROVE  LET wire == PlainWire(PacketOf(w))
               l == Len(w.out)
           IN  /\ wire \in Seq(Units) /\ Len(wire) = l + 3
               /\ wire[1] = LenUnit(l)
               /\ \A k \in 1..l : wire[k + 1] = <<"byte", w.out[k]>>
               /\ wire[l + 2] = <<"snap", w.snap>> /\ wire[l + 3] = <<"mac", w.mac>>
  <1> DEFINE l == Len(w.out)
             h == LenUnit(l)
             t == Bytes(w.out)
             u == <<<<"snap", w.snap>>, <<"mac", w.mac>>>>
             wire == PlainWire(PacketOf(w))
  <1>1. wire = <<h>> \o t \o u
    BY DEF PlainWire, PacketOf, Unit
  <1>2. w.out \in Seq(SUBSET Marks) /\ l \in Nat
    BY PacketType
  <1>3. h \in Units
    BY <1>2, LengthOnWire
  <1>4. t \in Seq(Units) /\ Len(t) = l /\ \A k \in 1..l : t[k] = <<"byte", w.out[k]>>
    BY <1>2, BytesUnits
  <1>5. u \in Seq(Units) /\ Len(u) = 2 /\ u[1] = <<"snap", w.snap>>
        /\ u[2] = <<"mac", w.mac>>
    <2>1. <<"snap", w.snap>> \in Units /\ <<"mac", w.mac>> \in Units
      BY PacketType DEF Units, SealedItem
    <2> QED  BY <2>1
  <1> HIDE DEF l, h, t, u, wire
  <1> DEFINE s == Frame(h, t, u)
  <1>0. /\ s \in Seq(Units) /\ Len(s) = Len(t) + 1 + Len(u)
        /\ s[1] = h
        /\ \A k \in 1..Len(t) : s[k + 1] = t[k]
        /\ \A k \in 1..Len(u) : s[Len(t) + 1 + k] = u[k]
    <2>1. Framed(Units, s, h, t, u)
      BY <1>2, <1>3, <1>4, <1>5, FrameHolds
    <2> QED  BY <2>1 DEF Framed
  <1>6. /\ wire \in Seq(Units) /\ Len(wire) = l + 1 + 2
        /\ wire[1] = h
        /\ \A k \in 1..l : wire[k + 1] = t[k]
        /\ \A k \in 1..2 : wire[l + 1 + k] = u[k]
    <2> HIDE DEF s
    <2>1. wire = s
      BY <1>1 DEF s, Frame, Cat
    <2> QED  BY <1>0, <1>4, <1>5, <2>1
  <1>7. l + 1 + 2 = l + 3 /\ l + 1 + 1 = l + 2 /\ 1 \in 1..2 /\ 2 \in 1..2
    BY <1>2
  <1>8. wire[l + 2] = u[1] /\ wire[l + 3] = u[2] /\ Len(wire) = l + 3
    BY <1>6, <1>7
  <1>9. \A k \in 1..l : wire[k + 1] = <<"byte", w.out[k]>>
    BY <1>4, <1>6
  <1> QED  BY <1>5, <1>6, <1>8, <1>9 DEF l, h, wire

LEMMA SealedWireUnits ==
    ASSUME NEW w, SealedItem(w)
    PROVE  LET wire == SealedWire(PacketOf(w))
               l == Len(w.out)
           IN  /\ wire \in Seq(Units) /\ Len(wire) = l + 2
               /\ wire[1] = LenUnit(l)
               /\ \A k \in 1..l : wire[k + 1] = <<"byte", w.out[k]>>
               /\ wire[l + 2] = <<"mac", w.mac>>
  <1> DEFINE l == Len(w.out)
             h == LenUnit(l)
             t == Bytes(w.out)
             u == <<<<"mac", w.mac>>>>
             wire == SealedWire(PacketOf(w))
  <1>1. wire = <<h>> \o t \o u
    BY DEF SealedWire, PacketOf, Unit
  <1>2. w.out \in Seq(SUBSET Marks) /\ l \in Nat
    BY PacketType
  <1>3. h \in Units
    BY <1>2, LengthOnWire
  <1>4. t \in Seq(Units) /\ Len(t) = l /\ \A k \in 1..l : t[k] = <<"byte", w.out[k]>>
    BY <1>2, BytesUnits
  <1>5. u \in Seq(Units) /\ Len(u) = 1 /\ u[1] = <<"mac", w.mac>>
    <2>1. <<"mac", w.mac>> \in Units
      BY PacketType DEF Units
    <2> QED  BY <2>1
  <1> HIDE DEF l, h, t, u, wire
  <1> DEFINE s == Frame(h, t, u)
  <1>0. /\ s \in Seq(Units) /\ Len(s) = Len(t) + 1 + Len(u)
        /\ s[1] = h
        /\ \A k \in 1..Len(t) : s[k + 1] = t[k]
        /\ \A k \in 1..Len(u) : s[Len(t) + 1 + k] = u[k]
    <2>1. Framed(Units, s, h, t, u)
      BY <1>2, <1>3, <1>4, <1>5, FrameHolds
    <2> QED  BY <2>1 DEF Framed
  <1>6. /\ wire \in Seq(Units) /\ Len(wire) = l + 1 + 1
        /\ wire[1] = h
        /\ \A k \in 1..l : wire[k + 1] = t[k]
        /\ \A k \in 1..1 : wire[l + 1 + k] = u[k]
    <2> HIDE DEF s
    <2>1. wire = s
      BY <1>1 DEF s, Frame, Cat
    <2> QED  BY <1>0, <1>4, <1>5, <2>1
  <1>7. l + 1 + 1 = l + 2 /\ 1 \in 1..1
    BY <1>2
  <1>8. wire[l + 2] = u[1] /\ Len(wire) = l + 2
    BY <1>6, <1>7
  <1>9. \A k \in 1..l : wire[k + 1] = <<"byte", w.out[k]>>
    BY <1>4, <1>6
  <1> QED  BY <1>5, <1>6, <1>8, <1>9 DEF l, h, wire

\* Reading back the bytes.
LEMMA BytesRead ==
    ASSUME NEW out \in Seq(SUBSET Marks), NEW v \in Seq(Units), NEW m \in 0..Len(out),
           Len(v) >= m + 1, \A k \in 1..m : v[k + 1] = <<"byte", out[k]>>
    PROVE  ReadBytes(SubSeq(v, 2, 1 + m)) = [k \in 1..m |-> out[k]]
  <1> DEFINE u == SubSeq(v, 2, 1 + m)
  <1>1. m \in Nat
    OBVIOUS
  <1>2. u \in Seq(Units) /\ Len(u) = m /\ \A k \in 1..m : u[k] = v[k + 1]
    <2>1. \A k \in 2..(1 + m) : k \in 1..Len(v)
      BY <1>1
    <2>2. Len(u) = m /\ u \in Seq(Units)
      BY <1>1, <2>1
    <2>3. \A k \in 1..m : u[k] = v[2 + k - 1]
      BY <1>1, <2>1
    <2>4. \A k \in 1..m : 2 + k - 1 = k + 1
      BY <1>1
    <2> HIDE DEF u
    <2> QED  BY <2>2, <2>3, <2>4
  <1> HIDE DEF u
  <1>3. DOMAIN u = 1..m /\ \A k \in 1..m : u[k][2] = out[k]
    <2>1. DOMAIN u = 1..m
      BY <1>2
    <2>2. \A k \in 1..m : u[k] = <<"byte", out[k]>>
      BY <1>2
    <2> QED  BY <2>1, <2>2
  <1>4. ReadBytes(u) = [k \in 1..m |-> out[k]]
    BY <1>3 DEF ReadBytes
  <1> QED  BY <1>4 DEF u

\* Two units after the first n.
LEMMA TailUnits ==
    ASSUME NEW v \in Seq(Units), NEW n \in Nat, Len(v) >= n + 2
    PROVE  TailAt(v, n)[1] = v[n + 1] /\ TailAt(v, n)[2] = v[n + 2]
  <1> DEFINE u == SubSeq(v, n + 1, n + 2)
  <1>1. Len(u) = 2 /\ \A k \in 1..2 : u[k] = v[(n + 1) + k - 1]
    <2>1. \A k \in (n + 1)..(n + 2) : k \in 1..Len(v)
      OBVIOUS
    <2>2. (n + 2) - (n + 1) + 1 = 2 /\ n + 1 \in Nat /\ n + 2 \in Nat
      OBVIOUS
    <2>3. u \in Seq(Units) /\ Len(u) = 2
      BY <2>1, <2>2
    <2>4. \A k \in 1..2 : u[k] = v[(n + 1) + k - 1]
      BY <2>1, <2>2
    <2> HIDE DEF u
    <2> QED  BY <2>3, <2>4
  <1>2. 1 \in 1..2 /\ 2 \in 1..2 /\ (n + 1) + 1 - 1 = n + 1 /\ (n + 1) + 2 - 1 = n + 2
    OBVIOUS
  <1> HIDE DEF u
  <1>3. u[1] = v[(n + 1) + 1 - 1] /\ u[2] = v[(n + 1) + 2 - 1]
    BY <1>1, <1>2
  <1>4. u[1] = v[n + 1] /\ u[2] = v[n + 2]
    BY <1>2, <1>3
  <1> QED  BY <1>4 DEF TailAt, u

\* All of the wire parses to the packet, a part of it to an error or, when its
\* length has wrapped, to something without a tag.
Untagged(r) == r = Err \/ (r \in Packet /\ r.mac = None)

LEMMA PlainParsed ==
    ASSUME NEW w, SealedItem(w), NEW v \in Seq(Units), Follows(v, PlainWire(PacketOf(w)))
    PROVE  IF Len(v) >= Len(w.out) + 3 /\ Len(w.out) < LenMod
           THEN PlainParse(v) = [cipher |-> w.out, aad |-> None, snap |-> w.snap, mac |-> w.mac]
           ELSE Untagged(PlainParse(v))
  <1> DEFINE l == Len(w.out)
             wire == PlainWire(PacketOf(w))
             m == LenUnit(l)[2]
             n == 1 + m
             r == PlainParse(v)
  <1>1. w.out \in Seq(SUBSET Marks) /\ l \in Nat /\ Len(v) \in Nat
    BY PacketType
  <1>2. /\ Len(wire) = l + 3 /\ wire[1] = LenUnit(l)
        /\ \A k \in 1..l : wire[k + 1] = <<"byte", w.out[k]>>
        /\ wire[l + 2] = <<"snap", w.snap>> /\ wire[l + 3] = <<"mac", w.mac>>
    BY PlainWireUnits
  <1>3. m \in 0..l /\ (l < LenMod => m = l) /\ (~(l < LenMod) => m < l)
    BY <1>1, LengthOnWire
  <1>4. \A k \in 1..Len(v) : k <= l + 3 => v[k] = wire[k]
    BY <1>2 DEF Follows
  <1>5. CASE Len(v) < 1
    <2>1. r = Err
      BY <1>1, <1>5 DEF PlainParse, HasLen
    <2>2. ~(Len(v) >= l + 3)
      BY <1>1, <1>5
    <2> QED  BY <2>1, <2>2 DEF Untagged
  <1>6. CASE Len(v) >= 1
    <2>1. v[1] = LenUnit(l) /\ v[1][2] = m /\ v[1][1] = "len"
      <3>1. 1 \in 1..Len(v) /\ 1 <= l + 3
        BY <1>1, <1>6
      <3> QED  BY <1>1, <1>2, <1>4, <3>1, LengthOnWire
    <2> HIDE DEF m, l, wire
    <2>2. CASE Len(v) < 1 + m + 2
      <3>1. ~HasLen(v, 1, 2)
        BY <1>1, <1>3, <2>1, <2>2 DEF HasLen
      <3>3. r = Err
        BY <3>1 DEF PlainParse
      <3>2. ~(Len(v) >= l + 3)
        BY <1>1, <1>3, <2>2
      <3> QED  BY <3>2, <3>3 DEF Untagged, l
    <2>3. CASE ~(Len(v) < 1 + m + 2)
      <3>1. /\ n \in Nat /\ Len(v) >= n + 2 /\ Len(v) >= m + 1 /\ ~(Len(v) < 1)
            /\ m \in 0..l /\ HasLen(v, 1, 2)
        BY <1>1, <1>3, <1>6, <2>1, <2>3 DEF HasLen
      <3> DEFINE bytes == ReadBytes(SubSeq(v, 2, n))
                 snap == Read(v[n + 1], "snap")
                 mac == Read(v[n + 2], "mac")
      <3>2. r = [cipher |-> bytes, aad |-> None, snap |-> snap, mac |-> mac]
        <4>1. TailAt(v, n)[1] = v[n + 1] /\ TailAt(v, n)[2] = v[n + 2]
          <5> HIDE DEF n
          <5> QED  BY <3>1, TailUnits
        <4>2. PlainParse(v) = [cipher |-> ReadBytes(SubSeq(v, 2, n)), aad |-> None,
                               snap |-> Read(TailAt(v, n)[1], "snap"),
                               mac |-> Read(TailAt(v, n)[2], "mac")]
          BY <2>1, <2>3, <3>1 DEF PlainParse
        <4> QED  BY <4>1, <4>2
      <3>3. bytes = [k \in 1..m |-> w.out[k]]
        <4>1. \A k \in 1..m : v[k + 1] = <<"byte", w.out[k]>>
          <5>1. \A k \in 1..m : k \in 1..l /\ k + 1 \in 1..Len(v) /\ k + 1 <= l + 3
            BY <1>1, <3>1
          <5> QED  BY <1>2, <1>4, <5>1
        <4> QED  BY <1>1, <3>1, <4>1, BytesRead DEF l
      <3>4. n + 1 \in 1..Len(v) /\ n + 2 \in 1..Len(v) /\ n + 1 <= l + 3 /\ n + 2 <= l + 3
        BY <1>1, <1>3, <3>1
      <3>5. v[n + 1] = wire[n + 1] /\ v[n + 2] = wire[n + 2]
        <4> HIDE DEF n
        <4> QED  BY <1>4, <3>4
      <3> HIDE DEF bytes
      <3>6. CASE l < LenMod
        <4>1. m = l /\ n + 1 = l + 2 /\ n + 2 = l + 3
          BY <1>1, <1>3, <3>6
        <4> HIDE DEF n
        <4>2. v[n + 1] = <<"snap", w.snap>> /\ v[n + 2] = <<"mac", w.mac>>
          BY <1>2, <3>5, <4>1
        <4>3. snap = w.snap /\ mac = w.mac
          BY <4>2 DEF Read
        <4>4. bytes = w.out
          <5>1. w.out = [k \in 1..l |-> w.out[k]]
            BY <1>1 DEF l
          <5> QED  BY <3>3, <4>1, <5>1
        <4>5. r = [cipher |-> w.out, aad |-> None, snap |-> w.snap, mac |-> w.mac]
          <5> HIDE DEF snap, mac, r
          <5> QED  BY <3>2, <4>3, <4>4
        <4>6. Len(v) >= l + 3
          BY <3>1, <4>1
        <4> QED  BY <3>6, <4>5, <4>6 DEF l
      <3>7. CASE ~(l < LenMod)
        <4>1. m < l
          BY <1>3, <3>7
        <4>2. n + 1 = (m + 1) + 1 /\ m + 1 \in 1..l
          BY <1>1, <1>3, <4>1
        <4>3. v[n + 1] = <<"byte", w.out[m + 1]>>
          <5> HIDE DEF n
          <5> QED  BY <1>2, <3>5, <4>2
        <4>4. snap = None
          BY <4>3 DEF Read
        <4>5. v[n + 2][1] \in {"byte", "snap"}
          <5>1. CASE m + 2 \in 1..l
            <6>1. n + 2 = (m + 2) + 1
              BY <1>1, <1>3
            <6> HIDE DEF n
            <6>2. v[n + 2] = <<"byte", w.out[m + 2]>>
              BY <1>2, <3>5, <5>1, <6>1
            <6> QED  BY <6>2
          <5>2. CASE m + 2 \notin 1..l
            <6>1. n + 2 = l + 2
              BY <1>1, <1>3, <4>1, <5>2
            <6> HIDE DEF n
            <6>2. v[n + 2] = <<"snap", w.snap>>
              BY <1>2, <3>5, <6>1
            <6> QED  BY <6>2
          <5> QED  BY <5>1, <5>2
        <4>6. mac = None
          <5>1. v[n + 2][1] # "mac"
            BY <4>5
          <5> HIDE DEF n
          <5> QED  BY <5>1 DEF Read
        <4>7. bytes \in Bytestrings
          <5>1. bytes \in [1..m -> SUBSET Marks] /\ m \in Nat
            <6>1. \A k \in 1..m : w.out[k] \in SUBSET Marks
              BY <1>1, <1>3 DEF l
            <6> QED  BY <1>1, <1>3, <3>3, <6>1
          <5> QED  BY <5>1, SeqDef DEF Bytestrings
        <4>8. r \in Packet /\ r.mac = None
          <5>1. r = [cipher |-> bytes, aad |-> None, snap |-> None, mac |-> None]
            <6> HIDE DEF snap, mac, r
            <6> QED  BY <3>2, <4>4, <4>6
          <5> HIDE DEF r
          <5> QED  BY <4>7, <5>1 DEF Packet
        <4> QED  BY <3>7, <4>8 DEF Untagged, l
      <3> QED  BY <3>6, <3>7
    <2> QED  BY <2>2, <2>3
  <1> QED  BY <1>1, <1>5, <1>6

LEMMA SealedParsed ==
    ASSUME NEW w, SealedItem(w), NEW v \in Seq(Units), Follows(v, SealedWire(PacketOf(w)))
    PROVE  IF Len(v) >= Len(w.out) + 2 /\ Len(w.out) < LenMod
           THEN SealedParse(v, w.snap)
                  = [cipher |-> w.out, aad |-> None, snap |-> w.snap, mac |-> w.mac]
           ELSE Untagged(SealedParse(v, w.snap))
  <1> DEFINE l == Len(w.out)
             wire == SealedWire(PacketOf(w))
             m == LenUnit(l)[2]
             n == 1 + m
             r == SealedParse(v, w.snap)
  <1>1. w.out \in Seq(SUBSET Marks) /\ l \in Nat /\ Len(v) \in Nat
    BY PacketType
  <1>2. /\ Len(wire) = l + 2 /\ wire[1] = LenUnit(l)
        /\ \A k \in 1..l : wire[k + 1] = <<"byte", w.out[k]>>
        /\ wire[l + 2] = <<"mac", w.mac>>
    BY SealedWireUnits
  <1>3. m \in 0..l /\ (l < LenMod => m = l) /\ (~(l < LenMod) => m < l)
    BY <1>1, LengthOnWire
  <1>4. \A k \in 1..Len(v) : k <= l + 2 => v[k] = wire[k]
    BY <1>2 DEF Follows
  <1>5. CASE Len(v) < 1
    <2>1. r = Err
      BY <1>1, <1>5 DEF SealedParse, HasLen
    <2>2. ~(Len(v) >= l + 2)
      BY <1>1, <1>5
    <2> QED  BY <2>1, <2>2 DEF Untagged
  <1>6. CASE Len(v) >= 1
    <2>1. v[1] = LenUnit(l) /\ v[1][2] = m /\ v[1][1] = "len"
      <3>1. 1 \in 1..Len(v) /\ 1 <= l + 2
        BY <1>1, <1>6
      <3> QED  BY <1>1, <1>2, <1>4, <3>1, LengthOnWire
    <2> HIDE DEF m, l, wire
    <2>2. CASE Len(v) < 1 + m + 1
      <3>1. ~HasLen(v, 1, 1)
        BY <1>1, <1>3, <2>1, <2>2 DEF HasLen
      <3>3. r = Err
        BY <3>1 DEF SealedParse
      <3>2. ~(Len(v) >= l + 2)
        BY <1>1, <1>3, <2>2
      <3> QED  BY <3>2, <3>3 DEF Untagged, l
    <2>3. CASE ~(Len(v) < 1 + m + 1)
      <3>1. /\ n \in Nat /\ Len(v) >= n + 1 /\ Len(v) >= m + 1 /\ ~(Len(v) < 1)
            /\ m \in 0..l /\ HasLen(v, 1, 1)
        BY <1>1, <1>3, <1>6, <2>1, <2>3 DEF HasLen
      <3> DEFINE bytes == ReadBytes(SubSeq(v, 2, n))
                 mac == Read(v[n + 1], "mac")
      <3>2. r = [cipher |-> bytes, aad |-> None, snap |-> w.snap, mac |-> mac]
        BY <2>1, <2>3, <3>1 DEF SealedParse
      <3>3. bytes = [k \in 1..m |-> w.out[k]]
        <4>1. \A k \in 1..m : v[k + 1] = <<"byte", w.out[k]>>
          <5>1. \A k \in 1..m : k \in 1..l /\ k + 1 \in 1..Len(v) /\ k + 1 <= l + 2
            BY <1>1, <3>1
          <5> QED  BY <1>2, <1>4, <5>1
        <4> QED  BY <1>1, <3>1, <4>1, BytesRead DEF l
      <3>4. n + 1 \in 1..Len(v) /\ n + 1 <= l + 2
        BY <1>1, <1>3, <3>1
      <3>5. v[n + 1] = wire[n + 1]
        <4> HIDE DEF n
        <4> QED  BY <1>4, <3>4
      <3> HIDE DEF bytes
      <3>6. CASE l < LenMod
        <4>1. m = l /\ n + 1 = l + 2
          BY <1>1, <1>3, <3>6
        <4> HIDE DEF n
        <4>2. v[n + 1] = <<"mac", w.mac>>
          BY <1>2, <3>5, <4>1
        <4>3. mac = w.mac
          BY <4>2 DEF Read
        <4>4. bytes = w.out
          <5>1. w.out = [k \in 1..l |-> w.out[k]]
            BY <1>1 DEF l
          <5> QED  BY <3>3, <4>1, <5>1
        <4>5. r = [cipher |-> w.out, aad |-> None, snap |-> w.snap, mac |-> w.mac]
          <5> HIDE DEF mac, r
          <5> QED  BY <3>2, <4>3, <4>4
        <4>6. Len(v) >= l + 2
          BY <3>1, <4>1
        <4> QED  BY <3>6, <4>5, <4>6 DEF l
      <3>7. CASE ~(l < LenMod)
        <4>1. m < l
          BY <1>3, <3>7
        <4>2. n + 1 = (m + 1) + 1 /\ m + 1 \in 1..l
          BY <1>1, <1>3, <4>1
        <4>3. v[n + 1] = <<"byte", w.out[m + 1]>>
          <5> HIDE DEF n
          <5> QED  BY <1>2, <3>5, <4>2
        <4>4. mac = None
          BY <4>3 DEF Read
        <4>5. bytes \in Bytestrings
          <5>1. bytes \in [1..m -> SUBSET Marks] /\ m \in Nat
            <6>1. \A k \in 1..m : w.out[k] \in SUBSET Marks
              BY <1>1, <1>3 DEF l
            <6> QED  BY <1>1, <1>3, <3>3, <6>1
          <5> QED  BY <5>1, SeqDef DEF Bytestrings
        <4>6. r \in Packet /\ r.mac = None
          <5>1. r = [cipher |-> bytes, aad |-> None, snap |-> w.snap, mac |-> None]
            <6> HIDE DEF mac, r
            <6> QED  BY <3>2, <4>4
          <5>2. w.snap \in Snapshots
            BY DEF SealedItem
          <5> HIDE DEF r
          <5> QED  BY <4>5, <5>1, <5>2 DEF Packet
        <4> QED  BY <3>7, <4>6 DEF Untagged, l
      <3> QED  BY <3>6, <3>7
    <2> QED  BY <2>2, <2>3
  <1> QED  BY <1>1, <1>5, <1>6

LEMMA AeadWireUnits ==
    ASSUME NEW w, SealedItem(w), w.aad # None
    PROVE  LET wire == AeadWire(PacketOf(w))
               t == PlainWire(PacketOf(w))
               x == Len(w.aad)
           IN  /\ w.aad \in Seq(SUBSET Marks) /\ x \in Nat
               /\ wire \in Seq(Units) /\ Len(wire) = x + 1 + Len(t)
               /\ wire[1] = LenUnit(x)
               /\ \A k \in 1..x : wire[k + 1] = <<"byte", w.aad[k]>>
               /\ \A k \in 1..Len(t) : wire[x + 1 + k] = t[k]
  <1> DEFINE x == Len(w.aad)
             h == LenUnit(x)
             a == Bytes(w.aad)
             t == PlainWire(PacketOf(w))
             wire == AeadWire(PacketOf(w))
             s == Frame(h, a, t)
  <1>1. wire = <<h>> \o a \o t
    BY DEF AeadWire, PacketOf
  <1>2. w.aad \in Seq(SUBSET Marks) /\ x \in Nat
    <2>1. w.aad \in Bytestrings
      BY AadBytes DEF SealedItem
    <2> QED  BY <2>1 DEF Bytestrings
  <1>3. h \in Units
    BY <1>2, LengthOnWire
  <1>4. a \in Seq(Units) /\ Len(a) = x /\ \A k \in 1..x : a[k] = <<"byte", w.aad[k]>>
    BY <1>2, BytesUnits
  <1>5. t \in Seq(Units)
    BY PlainWireUnits
  <1> HIDE DEF x, h, a, t, wire
  <1>6. /\ s \in Seq(Units) /\ Len(s) = Len(a) + 1 + Len(t)
        /\ s[1] = h
        /\ \A k \in 1..Len(a) : s[k + 1] = a[k]
        /\ \A k \in 1..Len(t) : s[Len(a) + 1 + k] = t[k]
    <2>1. Framed(Units, s, h, a, t)
      BY <1>3, <1>4, <1>5, FrameHolds
    <2> QED  BY <2>1 DEF Framed
  <1>7. wire = s
    BY <1>1 DEF s, Frame, Cat
  <1> HIDE DEF s
  <1>8. /\ wire \in Seq(Units) /\ Len(wire) = x + 1 + Len(t) /\ wire[1] = h
        /\ \A k \in 1..x : wire[k + 1] = <<"byte", w.aad[k]>>
        /\ \A k \in 1..Len(t) : wire[x + 1 + k] = t[k]
    BY <1>4, <1>6, <1>7
  <1> QED  BY <1>2, <1>8 DEF x, h, t, wire

\* What follows the first n units.
LEMMA RestFollows ==
    ASSUME NEW v \in Seq(Units), NEW n \in Nat, Len(v) >= n, NEW wire, NEW t \in Seq(Units),
           Len(wire) = n + Len(t), \A k \in 1..Len(t) : wire[n + k] = t[k],
           Follows(v, wire)
    PROVE  LET rest == SubSeq(v, n + 1, Len(v)) IN
           /\ rest \in Seq(Units) /\ Len(rest) = Len(v) - n /\ Follows(rest, t)
           /\ \A k \in 1..(Len(v) - n) : rest[k] = v[n + k]
  <1> DEFINE rest == SubSeq(v, n + 1, Len(v))
  <1>1. Len(v) \in Nat /\ Len(t) \in Nat
    OBVIOUS
  <1>2. /\ rest \in Seq(Units) /\ Len(rest) = Len(v) - n
        /\ \A k \in 1..(Len(v) - n) : rest[k] = v[n + k]
    <2> DEFINE a == n + 1
               b == Len(v)
               u == SubSeq(v, a, b)
    <2>1. a \in Nat \ {0} /\ b \in Nat /\ b - a + 1 = Len(v) - n /\ Len(v) - n \in Nat
      BY <1>1
    <2>2. \A k \in 1..(Len(v) - n) : a + k - 1 = n + k
      BY <1>1
    <2>3. \A k \in a..b : k \in 1..Len(v)
      BY <1>1
    <2> HIDE DEF a
    <2>4. u \in Seq(Units) /\ Len(u) = b - a + 1
      BY <2>1, <2>3
    <2>5. \A k \in 1..(b - a + 1) : u[k] = v[a + k - 1]
      BY <2>1, <2>3
    <2>6. rest = u
      BY DEF a
    <2> HIDE DEF b, u, rest
    <2> QED  BY <2>1, <2>2, <2>4, <2>5, <2>6
  <1> HIDE DEF rest
  <1>3. ASSUME NEW k \in 1..Len(rest), k <= Len(t)  PROVE rest[k] = t[k]
    <2>1. k \in 1..(Len(v) - n) /\ k \in 1..Len(t) /\ n + k \in 1..Len(v) /\ n + k <= Len(wire)
      BY <1>1, <1>2, <1>3
    <2>2. rest[k] = v[n + k]
      BY <1>2, <2>1
    <2>3. v[n + k] = wire[n + k]
      BY <2>1 DEF Follows
    <2> QED  BY <2>1, <2>2, <2>3
  <1>4. Follows(rest, t)
    BY <1>3 DEF Follows
  <1> QED  BY <1>2, <1>4 DEF rest

\* The units of a packet with associated data.
Size(w) == Len(AeadWire(PacketOf(w)))

LEMMA SizeOfWire ==
    ASSUME NEW w, SealedItem(w), w.aad # None
    PROVE  /\ Size(w) \in Nat /\ Size(w) = Len(w.aad) + Len(w.out) + 4
           /\ Len(w.aad) \in Nat /\ Len(w.out) \in Nat
  <1>1. Len(AeadWire(PacketOf(w))) = Len(w.aad) + 1 + Len(PlainWire(PacketOf(w)))
        /\ Len(w.aad) \in Nat
    BY AeadWireUnits
  <1>2. Len(PlainWire(PacketOf(w))) = Len(w.out) + 3
    BY PlainWireUnits
  <1>3. Len(w.out) \in Nat
    BY PacketType
  <1> DEFINE x == Len(w.aad)
             l == Len(w.out)
             t == Len(PlainWire(PacketOf(w)))
             z == Size(w)
  <1>4. z = x + 1 + t /\ x \in Nat /\ t = l + 3 /\ l \in Nat
    BY <1>1, <1>2, <1>3 DEF Size
  <1> HIDE DEF x, l, t, z
  <1>5. z \in Nat /\ z = x + l + 4 /\ x \in Nat /\ l \in Nat
    BY <1>4
  <1> QED  BY <1>5 DEF x, l, z

LEMMA AeadParsed ==
    ASSUME NEW w, SealedItem(w), w.aad # None,
           NEW v \in Seq(Units), Follows(v, AeadWire(PacketOf(w)))
    PROVE  IF Len(v) >= Size(w) /\ Len(w.out) < LenMod /\ Len(w.aad) < LenMod
           THEN AeadParse(v) = PacketOf(w)
           ELSE Untagged(AeadParse(v))
  <1> DEFINE l == Len(w.out)
             x == Len(w.aad)
             wire == AeadWire(PacketOf(w))
             t == PlainWire(PacketOf(w))
             m == LenUnit(x)[2]
             n == 1 + m
             rest == SubSeq(v, n + 1, Len(v))
             p == PlainParse(rest)
             r == AeadParse(v)
             full == Len(v) >= Size(w) /\ l < LenMod /\ x < LenMod
  <1>1. /\ l \in Nat /\ Len(v) \in Nat /\ x \in Nat /\ w.aad \in Seq(SUBSET Marks)
        /\ Size(w) \in Nat /\ Size(w) = x + l + 4
    <2>1. Len(v) \in Nat
      OBVIOUS
    <2>2. w.aad \in Seq(SUBSET Marks)
      BY AeadWireUnits
    <2> QED  BY <2>1, <2>2, SizeOfWire
  <1>0. full <=> Len(v) >= x + l + 4 /\ l < LenMod /\ x < LenMod
    BY <1>1
  <1>2. /\ Len(wire) = x + 1 + Len(t) /\ wire[1] = LenUnit(x)
        /\ \A k \in 1..x : wire[k + 1] = <<"byte", w.aad[k]>>
        /\ \A k \in 1..Len(t) : wire[x + 1 + k] = t[k]
    BY AeadWireUnits
  <1>3. t \in Seq(Units) /\ Len(t) = l + 3
    BY PlainWireUnits
  <1>4. m \in 0..x /\ (x < LenMod => m = x) /\ (~(x < LenMod) => m < x)
        /\ LenUnit(x)[1] = "len"
    BY <1>1, LengthOnWire
  <1>5. \A k \in 1..Len(v) : k <= Len(wire) => v[k] = wire[k]
    BY DEF Follows
  <1>6. CASE Len(v) < 1
    <2>1. r = Err
      BY <1>1, <1>6 DEF AeadParse, HasLen
    <2>2. ~full
      <3> HIDE DEF full, l, x
      <3> QED  BY <1>0, <1>1, <1>6
    <2> QED  BY <2>1, <2>2 DEF Untagged
  <1>7. CASE Len(v) >= 1
    <2>1. v[1] = LenUnit(x) /\ v[1][2] = m /\ v[1][1] = "len"
      <3> HIDE DEF wire, t, l, x
      <3>1. 1 \in 1..Len(v) /\ 1 <= Len(wire)
        BY <1>1, <1>2, <1>3, <1>7
      <3> QED  BY <1>2, <1>4, <1>5, <3>1
    <2> HIDE DEF wire, t, l, x, m, full
    <2>2. CASE Len(v) < 1 + m
      <3>1. ~HasLen(v, 1, 0)
        BY <1>1, <1>4, <2>1, <2>2 DEF HasLen
      <3>2. r = Err
        BY <3>1 DEF AeadParse
      <3>3. ~full
        BY <1>0, <1>1, <1>4, <2>2
      <3> QED  BY <3>2, <3>3 DEF Untagged, full, l, x
    <2>3. CASE ~(Len(v) < 1 + m)
      <3>1. HasLen(v, 1, 0) /\ n \in Nat /\ Len(v) >= n /\ Len(v) >= m + 1 /\ m \in Nat
        BY <1>1, <1>4, <1>7, <2>1, <2>3 DEF HasLen
      <3> DEFINE bytes == ReadBytes(SubSeq(v, 2, n))
      <3>2. r = IF p = Err THEN Err ELSE [p EXCEPT !.aad = bytes]
        BY <2>1, <3>1 DEF AeadParse
      <3>3. CASE ~(x < LenMod)
        <4>1. m < x /\ ~full
          BY <1>0, <1>4, <3>3
        <4>2. /\ rest \in Seq(Units) /\ Len(rest) = Len(v) - n
              /\ (Len(rest) >= 1 => rest[1] = v[n + 1])
          <5> DEFINE a == n + 1
                     u == SubSeq(v, a, Len(v))
          <5>1. a \in Nat \ {0} /\ Len(v) - a + 1 = Len(v) - n /\ Len(v) - n \in Nat
            BY <1>1, <3>1
          <5>2. \A k \in a..Len(v) : k \in 1..Len(v)
            BY <1>1, <5>1
          <5> HIDE DEF a
          <5>3. u \in Seq(Units) /\ Len(u) = Len(v) - a + 1
            BY <1>1, <5>1, <5>2
          <5>4. Len(u) >= 1 => u[1] = v[a]
            <6>1. \A k \in 1..(Len(v) - a + 1) : u[k] = v[a + k - 1]
              BY <1>1, <5>1, <5>2
            <6>2. a + 1 - 1 = a
              BY <5>1
            <6> HIDE DEF u
            <6> QED  BY <5>1, <5>3, <6>1, <6>2
          <5> HIDE DEF u
          <5> QED  BY <5>1, <5>3, <5>4 DEF u, a
        <4> HIDE DEF rest
        <4>3. ~HasLen(rest, 1, 2)
          <5>1. SUFFICES ASSUME Len(rest) >= 1  PROVE rest[1][1] # "len"
            BY DEF HasLen
          <5>2. /\ n + 1 \in 1..Len(v) /\ n + 1 <= Len(wire)
                /\ m + 1 \in 1..x /\ n + 1 = (m + 1) + 1
            BY <1>1, <1>2, <1>3, <1>4, <3>1, <4>1, <4>2, <5>1
          <5> HIDE DEF n
          <5>3. v[n + 1] = <<"byte", w.aad[m + 1]>>
            <6>1. wire[(m + 1) + 1] = <<"byte", w.aad[m + 1]>>
              BY <1>2, <5>2
            <6>2. v[n + 1] = wire[n + 1]
              BY <1>5, <5>2
            <6> QED  BY <5>2, <6>1, <6>2
          <5>4. rest[1] = v[n + 1]
            BY <4>2, <5>1
          <5> QED  BY <5>3, <5>4
        <4>4. p = Err
          BY <4>3 DEF PlainParse
        <4> HIDE DEF p, r, bytes
        <4>5. r = Err
          BY <3>2, <4>4
        <4> QED  BY <4>1, <4>5 DEF Untagged, r, full, l, x
      <3>4. CASE x < LenMod
        <4>1. m = x
          BY <1>4, <3>4
        <4>2. bytes = w.aad
          <5>1. \A k \in 1..m : v[k + 1] = <<"byte", w.aad[k]>>
            <6>1. \A k \in 1..m : k + 1 \in 1..Len(v) /\ k + 1 <= Len(wire)
              BY <1>1, <1>2, <1>3, <3>1, <4>1
            <6> QED  BY <1>2, <1>5, <4>1, <6>1
          <5>2. m \in 0..Len(w.aad)
            BY <1>1, <4>1 DEF x
          <5>3. bytes = [k \in 1..m |-> w.aad[k]]
            BY <1>1, <3>1, <5>1, <5>2, BytesRead
          <5>4. w.aad = [k \in 1..x |-> w.aad[k]]
            BY <1>1 DEF x
          <5> HIDE DEF bytes
          <5> QED  BY <4>1, <5>3, <5>4
        <4>3. rest \in Seq(Units) /\ Len(rest) = Len(v) - n /\ Follows(rest, t)
          <5>1. Len(wire) = n + Len(t) /\ \A k \in 1..Len(t) : wire[n + k] = t[k]
            <6>1. n = x + 1
              BY <1>1, <4>1
            <6> HIDE DEF n
            <6> QED  BY <1>2, <6>1
          <5>2. Follows(v, wire)
            BY DEF wire
          <5> HIDE DEF n
          <5> QED  BY <1>3, <3>1, <5>1, <5>2, RestFollows
        <4> HIDE DEF rest
        <4>4. IF Len(rest) >= l + 3 /\ l < LenMod
              THEN p = [cipher |-> w.out, aad |-> None, snap |-> w.snap, mac |-> w.mac]
              ELSE Untagged(p)
          BY <4>3, PlainParsed DEF l, t
        <4>5. full <=> Len(rest) >= l + 3 /\ l < LenMod
          BY <1>0, <1>1, <3>4, <4>1, <4>3
        <4> HIDE DEF p, r, bytes
        <4>6. CASE full
          <5> DEFINE q == [cipher |-> w.out, aad |-> None, snap |-> w.snap, mac |-> w.mac]
          <5>1. p = q
            BY <4>4, <4>5, <4>6
          <5>2. q # Err
            <6>1. w.out \in Bytestrings /\ w.mac \in Commitments /\ w.snap \in Snapshots
              BY PacketType DEF SealedItem
            <6>2. q \in Packet
              BY <6>1 DEF Packet
            <6> QED  BY <6>2, NoneAssumption
          <5>3. [q EXCEPT !.aad = w.aad] = PacketOf(w)
            BY DEF PacketOf
          <5> HIDE DEF q
          <5>4. r = PacketOf(w)
            BY <3>2, <4>2, <5>1, <5>2, <5>3
          <5> QED  BY <4>6, <5>4 DEF r, full, l, x
        <4>7. CASE ~full
          <5>1. Untagged(p)
            BY <4>4, <4>5, <4>7
          <5>2. Untagged(r)
            <6>1. CASE p = Err
              BY <3>2, <6>1 DEF Untagged
            <6>2. CASE p # Err
              <7>1. p \in Packet /\ p.mac = None /\ r = [p EXCEPT !.aad = w.aad]
                BY <3>2, <4>2, <5>1, <6>2 DEF Untagged
              <7>2. w.aad \in Bytestrings
                BY <1>1 DEF Bytestrings
              <7>3. r \in Packet /\ r.mac = None
                BY <7>1, <7>2 DEF Packet
              <7> QED  BY <7>3 DEF Untagged
            <6> QED  BY <6>1, <6>2
          <5> QED  BY <4>7, <5>2 DEF r, full, l, x
        <4> QED  BY <4>6, <4>7
      <3> QED  BY <3>3, <3>4
    <2> QED  BY <2>2, <2>3
  <1>8. Len(v) < 1 \/ Len(v) >= 1
    <2>1. Len(v) \in Nat
      OBVIOUS
    <2> QED  BY <2>1
  <1> QED  BY <1>6, <1>7, <1>8, Zenon

-----------------------------------------------------------------------------
(* The wire of the parallel form. *)

\* The parts of a sequence of sequences, in the whole.
LEMMA PartsInFlatten ==
    ASSUME NEW S, NEW ss \in Seq(Seq(S))
    PROVE  LET g == Flattened(ss)
               n == Len(ss)
           IN  /\ \A k \in 0..n : g[k] \in Seq(S) /\ Len(g[k]) <= Len(Flatten(ss))
               /\ \A k \in 1..n : Len(g[k]) = Len(g[k - 1]) + Len(ss[k])
               /\ \A k \in 1..n : \A i \in 1..Len(ss[k]) :
                      Flatten(ss)[Len(g[k - 1]) + i] = ss[k][i]
  <1> DEFINE g == Flattened(ss)
             n == Len(ss)
  <1>1. n \in Nat /\ \A k \in 1..n : ss[k] \in Seq(S)
    OBVIOUS
  <1>2. /\ Flatten(ss) = g[n] /\ g[0] = <<>>
        /\ \A k \in 1..n : g[k] = Cat(g[k - 1], ss[k])
    BY <1>1, FlattenStep DEF Cat
  <1> HIDE DEF g, n
  <1>3. \A k \in 0..n : g[k] \in Seq(S)
    <2> DEFINE T == {j \in Nat : j <= n => g[j] \in Seq(S)}
    <2>1. 0 \in T
      <3>1. <<>> \in Seq(S)
        OBVIOUS
      <3> QED  BY <1>2, <3>1
    <2>2. ASSUME NEW j \in Nat, j \in T  PROVE j + 1 \in T
      <3>1. SUFFICES ASSUME j + 1 <= n  PROVE g[j + 1] \in Seq(S)
        OBVIOUS
      <3>2. j + 1 \in 1..n /\ (j + 1) - 1 = j /\ g[j] \in Seq(S)
        BY <1>1, <2>2, <3>1
      <3>3. g[j + 1] = Cat(g[j], ss[j + 1])
        BY <1>2, <3>2
      <3>4. ss[j + 1] \in Seq(S)
        BY <1>1, <3>2
      <3>5. Cat(g[j], ss[j + 1]) \in Seq(S)
        BY <3>2, <3>4, CatType
      <3> QED  BY <3>3, <3>5
    <2> HIDE DEF T
    <2>3. Nat \subseteq T
      BY <2>1, <2>2, Induction
    <2> QED  BY <1>1, <2>3 DEF T
  <1>4. ASSUME NEW k \in 1..n  PROVE /\ g[k - 1] \in Seq(S) /\ ss[k] \in Seq(S)
                                     /\ Len(g[k]) = Len(g[k - 1]) + Len(ss[k])
    <2>1. k - 1 \in 0..n
      BY <1>1
    <2>2. g[k - 1] \in Seq(S) /\ ss[k] \in Seq(S)
      BY <1>1, <1>3, <2>1
    <2>3. g[k] = Cat(g[k - 1], ss[k])
      BY <1>2
    <2>4. Len(Cat(g[k - 1], ss[k])) = Len(g[k - 1]) + Len(ss[k])
      BY <2>2, CatType
    <2> QED  BY <2>2, <2>3, <2>4
  <1>5. ASSUME NEW k \in 0..n
        PROVE  Len(g[k]) <= Len(g[n]) /\ \A i \in 1..Len(g[k]) : g[n][i] = g[k][i]
    <2> DEFINE T == {j \in Nat : k + j <= n =>
                        /\ Len(g[k]) <= Len(g[k + j])
                        /\ \A i \in 1..Len(g[k]) : g[k + j][i] = g[k][i]}
    <2>1. 0 \in T
      <3>1. k + 0 = k /\ Len(g[k]) \in Nat
        BY <1>1, <1>3
      <3> QED  BY <3>1
    <2>2. ASSUME NEW j \in Nat, j \in T  PROVE j + 1 \in T
      <3> DEFINE a == g[k + j]
                 b == g[(k + j) + 1]
                 d == ss[(k + j) + 1]
      <3>1. SUFFICES ASSUME k + (j + 1) <= n
                     PROVE  Len(g[k]) <= Len(b) /\ \A i \in 1..Len(g[k]) : b[i] = g[k][i]
        <4>1. k + (j + 1) = (k + j) + 1
          BY <1>1
        <4> QED  BY <3>1, <4>1
      <3>2. (k + j) + 1 \in 1..n /\ ((k + j) + 1) - 1 = k + j /\ k + j <= n
        BY <1>1, <3>1
      <3>3. a \in Seq(S) /\ d \in Seq(S) /\ Len(b) = Len(a) + Len(d)
        BY <1>4, <3>2
      <3>4. b = Cat(a, d)
        BY <1>2, <3>2
      <3>5. Len(g[k]) <= Len(a) /\ \A i \in 1..Len(g[k]) : a[i] = g[k][i]
        BY <2>2, <3>2
      <3>6. Len(g[k]) \in Nat /\ Len(a) \in Nat /\ Len(d) \in Nat
        BY <1>3, <3>3
      <3> HIDE DEF a, b, d
      <3>7. \A i \in 1..Len(a) : b[i] = a[i]
        BY <3>3, <3>4, CatFront
      <3>8. Len(g[k]) <= Len(b) /\ \A i \in 1..Len(g[k]) : i \in 1..Len(a)
        BY <3>3, <3>5, <3>6
      <3> QED  BY <3>5, <3>7, <3>8
    <2> HIDE DEF T
    <2>3. Nat \subseteq T
      BY <2>1, <2>2, Induction
    <2>4. n - k \in T /\ k + (n - k) = n
      BY <1>1, <2>3
    <2> QED  BY <2>4 DEF T
  <1>6. ASSUME NEW k \in 1..n, NEW i \in 1..Len(ss[k])
        PROVE  g[n][Len(g[k - 1]) + i] = ss[k][i]
    <2> DEFINE a == g[k - 1]
               d == ss[k]
               at == Len(a) + i
    <2>1. a \in Seq(S) /\ d \in Seq(S) /\ Len(g[k]) = Len(a) + Len(d) /\ i \in 1..Len(d)
      BY <1>4
    <2>2. g[k] = Cat(a, d)
      BY <1>2
    <2> HIDE DEF a, d
    <2>3. Cat(a, d)[Len(a) + i] = d[i]
      BY <2>1, CatBack
    <2>4. at \in 1..Len(g[k]) /\ k \in 0..n
      BY <1>1, <2>1
    <2> HIDE DEF at
    <2>5. g[n][at] = g[k][at]
      BY <1>5, <2>4
    <2> QED  BY <2>2, <2>3, <2>5 DEF a, d, at
  <1> QED  BY <1>2, <1>3, <1>4, <1>5, <1>6 DEF g, n

\* A block on the wire: its length and the packet.
Part(w) == <<LenUnit(Len(AeadWire(PacketOf(w))))>> \o AeadWire(PacketOf(w))

LEMMA PartUnits ==
    ASSUME NEW w, SealedItem(w), w.aad # None
    PROVE  /\ Part(w) \in Seq(Units) /\ Len(Part(w)) = Size(w) + 1 /\ Size(w) \in Nat
           /\ Part(w)[1] = LenUnit(Size(w))
           /\ \A i \in 1..Size(w) : Part(w)[i + 1] = AeadWire(PacketOf(w))[i]
  <1> DEFINE t == AeadWire(PacketOf(w))
             z == Size(w)
             h == <<LenUnit(Len(t))>>
             s == Cat(h, t)
  <1>1. z \in Nat
    BY SizeOfWire
  <1>2. t \in Seq(Units) /\ Len(t) = z
    BY AeadWireUnits DEF Size
  <1>3. Part(w) = s
    BY DEF Part, Cat
  <1> HIDE DEF z, t
  <1>4. h \in Seq(Units) /\ Len(h) = 1 /\ h[1] = LenUnit(z)
    <2>1. Len(t) \in Nat
      BY <1>1, <1>2
    <2>2. LenUnit(Len(t)) \in Units
      BY <2>1, LengthOnWire
    <2> QED  BY <1>2, <2>2
  <1> HIDE DEF h
  <1>5. h \in Seq(Units) /\ t \in Seq(Units)
    BY <1>2, <1>4
  <1>6. s \in Seq(Units) /\ Len(s) = Len(h) + Len(t)
    BY <1>5, CatType
  <1>7. \A i \in 1..Len(h) : s[i] = h[i]
    BY <1>5, CatFront
  <1>8. \A i \in 1..Len(t) : s[Len(h) + i] = t[i]
    BY <1>5, CatBack
  <1> HIDE DEF s
  <1>9. Len(s) = z + 1 /\ s[1] = LenUnit(z)
    <2>1. 1 \in 1..1
      OBVIOUS
    <2> QED  BY <1>1, <1>2, <1>4, <1>6, <1>7, <2>1
  <1>10. ASSUME NEW i \in 1..z  PROVE s[i + 1] = t[i]
    <2>1. Len(h) + i = i + 1
      BY <1>1, <1>4
    <2> QED  BY <1>2, <1>8, <2>1
  <1> QED  BY <1>1, <1>3, <1>6, <1>9, <1>10 DEF z, t

LEMMA Appended ==
    ASSUME NEW S, NEW B \in Seq(S), NEW p
    PROVE  LET A == Append(B, p) IN
           /\ A \in Seq(S \cup {p}) /\ Len(A) = Len(B) + 1
           /\ \A i \in 1..Len(B) : A[i] = B[i]
           /\ A[Len(B) + 1] = p
  <1> DEFINE T == S \cup {p}
  <1>1. B \in Seq(T) /\ p \in T
    OBVIOUS
  <1> HIDE DEF T
  <1>2. Append(B, p) \in Seq(T) /\ Len(Append(B, p)) = Len(B) + 1
    BY <1>1
  <1>3. \A i \in 1..Len(B) : Append(B, p)[i] = B[i]
    BY <1>1
  <1>4. Append(B, p)[Len(B) + 1] = p
    BY <1>1
  <1> QED  BY <1>2, <1>3, <1>4 DEF T

\* An error, or blocks one of which has no tag; nothing parsed later mends it.
Spoilt(s) == s = Err \/ /\ s.at \in Nat /\ \E S : s.blocks \in Seq(S)
                        /\ \E k \in DOMAIN s.blocks : s.blocks[k] \in Packet /\ s.blocks[k].mac = None

LEMMA SpoiltBy ==
    ASSUME NEW S, NEW B \in Seq(S), NEW q \in Packet, q.mac = None, NEW at \in Nat
    PROVE  Spoilt([at |-> at, blocks |-> Append(B, q)])
  <1> DEFINE A == Append(B, q)
             T == S \cup {q}
             n == Len(B) + 1
  <1>1. A \in Seq(T) /\ Len(A) = n /\ A[n] = q /\ Len(B) \in Nat
    BY Appended
  <1> HIDE DEF A, T
  <1>2. n \in DOMAIN A
    BY <1>1
  <1> DEFINE s == [at |-> at, blocks |-> A]
  <1>3. s.at \in Nat /\ s.blocks = A
    OBVIOUS
  <1> HIDE DEF s, n
  <1>4. \E k \in DOMAIN s.blocks : s.blocks[k] \in Packet /\ s.blocks[k].mac = None
    BY <1>1, <1>2, <1>3
  <1>5. \E R : s.blocks \in Seq(R)
    BY <1>1, <1>3
  <1> QED  BY <1>3, <1>4, <1>5 DEF Spoilt, s, A

LEMMA SpoiltStays ==
    ASSUME NEW v \in Seq(Units), NEW s, Spoilt(s)
    PROVE  Spoilt(ParseBlock(v, s))
  <1> DEFINE at == s.at
             B == s.blocks
             m == v[at + 1][2]
             end == at + 1 + m
             p == AeadParse(SubSeq(v, at + 2, end))
             r == ParseBlock(v, s)
  <1>1. CASE s = Err
    BY <1>1 DEF ParseBlock, Spoilt
  <1>2. CASE s # Err /\ ~HasLen(v, at + 1, 0)
    BY <1>2 DEF ParseBlock, Spoilt
  <1>3. CASE s # Err /\ HasLen(v, at + 1, 0)
    <2>1. r = IF p = Err THEN Err ELSE [at |-> end, blocks |-> Append(B, p)]
      BY <1>3 DEF ParseBlock
    <2>2. PICK S : B \in Seq(S)
      BY <1>3 DEF Spoilt
    <2>3. PICK k \in DOMAIN B : B[k] \in Packet /\ B[k].mac = None
      BY <1>3 DEF Spoilt
    <2>4. at \in Nat
      BY <1>3 DEF Spoilt
    <2> HIDE DEF at, B
    <2>5. m \in Nat
      <3>1. Len(v) >= at + 1 /\ v[at + 1][1] = "len"
        BY <1>3 DEF HasLen
      <3>2. at + 1 \in 1..Len(v)
        BY <2>4, <3>1
      <3>3. v[at + 1] \in Units
        BY <3>2
      <3> QED  BY <3>1, <3>3 DEF Units
    <2>6. end \in Nat
      <3> HIDE DEF m
      <3> QED  BY <2>4, <2>5
    <2> HIDE DEF p, end
    <2>7. CASE p = Err
      BY <2>1, <2>7 DEF Spoilt
    <2>8. CASE p # Err
      <3> DEFINE A == Append(B, p)
                 T == S \cup {p}
                 u == [at |-> end, blocks |-> A]
      <3>1. r = u
        BY <2>1, <2>8
      <3>2. A \in Seq(T) /\ Len(A) = Len(B) + 1 /\ \A i \in 1..Len(B) : A[i] = B[i]
        BY <2>2, Appended
      <3>3. Len(B) \in Nat /\ DOMAIN B = 1..Len(B)
        BY <2>2
      <3> HIDE DEF A, T
      <3>4. DOMAIN A = 1..(Len(B) + 1)
        BY <3>2
      <3>5. k \in DOMAIN A /\ A[k] = B[k]
        BY <2>3, <3>2, <3>3, <3>4
      <3>6. u.at \in Nat /\ u.blocks = A
        BY <2>6
      <3> HIDE DEF u
      <3>7. Spoilt(u)
        <4>1. \E i \in DOMAIN u.blocks : u.blocks[i] \in Packet /\ u.blocks[i].mac = None
          BY <2>3, <3>5, <3>6
        <4>2. \E R : u.blocks \in Seq(R)
          BY <3>2, <3>6
        <4> QED  BY <3>6, <4>1, <4>2 DEF Spoilt
      <3> QED  BY <3>1, <3>7
    <2> QED  BY <2>7, <2>8
  <1> QED  BY <1>1, <1>2, <1>3

\* A block is parsed when all of it is there and its length fits.
LEMMA BlockParsed ==
    ASSUME NEW w, SealedItem(w), w.aad # None, NEW v \in Seq(Units),
           NEW at \in Nat, NEW S, NEW B \in Seq(S), NEW s, s = [at |-> at, blocks |-> B], s # Err,
           \A i \in 1..(Size(w) + 1) : at + i <= Len(v) => v[at + i] = Part(w)[i]
    PROVE  IF Len(v) >= at + (Size(w) + 1) /\ Size(w) < LenMod
           THEN ParseBlock(v, s) = [at |-> at + (Size(w) + 1), blocks |-> Append(B, PacketOf(w))]
           ELSE Spoilt(ParseBlock(v, s))
  <1> DEFINE z == Size(w)
             m == LenUnit(z)[2]
             t == AeadWire(PacketOf(w))
             end == at + 1 + m
             rest == SubSeq(v, at + 2, end)
             q == AeadParse(rest)
             r == ParseBlock(v, s)
             full == Len(v) >= at + (z + 1) /\ z < LenMod
  <1>0. z = Len(w.aad) + Len(w.out) + 4 /\ Len(w.aad) \in Nat /\ Len(w.out) \in Nat
    BY SizeOfWire
  <1>1. z \in Nat /\ Len(v) \in Nat /\ LenMod \in Nat \ {0}
    <2>1. Len(v) \in Nat
      OBVIOUS
    <2> QED  BY <2>1, SizeOfWire, CodecAssumption
  <1>2. /\ Part(w)[1] = LenUnit(z)
        /\ \A i \in 1..z : Part(w)[i + 1] = t[i]
    BY PartUnits
  <1>3. Len(t) = z /\ t \in Seq(Units)
    BY AeadWireUnits DEF Size
  <1>4. m \in 0..z /\ (z < LenMod => m = z) /\ (~(z < LenMod) => m < z)
        /\ LenUnit(z)[1] = "len"
    BY <1>1, LengthOnWire
  <1>5. s.at = at /\ s.blocks = B
    OBVIOUS
  <1>6. ASSUME Len(v) >= at + 1
        PROVE  v[at + 1] = LenUnit(z) /\ v[at + 1][2] = m /\ v[at + 1][1] = "len"
    <2> HIDE DEF z
    <2>1. 1 \in 1..(z + 1) /\ at + 1 <= Len(v)
      BY <1>1, <1>6
    <2>2. v[at + 1] = Part(w)[1]
      BY <2>1 DEF z
    <2> QED  BY <1>2, <1>4, <2>2
  <1> HIDE DEF z, t, m
  <1>7. CASE ~(Len(v) >= end)
    <2>1. ~HasLen(v, at + 1, 0)
      BY <1>1, <1>4, <1>6, <1>7 DEF HasLen
    <2>2. r = Err
      BY <1>5, <2>1 DEF ParseBlock
    <2>3. ~full
      BY <1>1, <1>4, <1>7
    <2> QED  BY <2>2, <2>3 DEF Spoilt, z
  <1>8. CASE Len(v) >= end
    <2>1. HasLen(v, at + 1, 0) /\ end \in Nat
      BY <1>1, <1>4, <1>6, <1>8 DEF HasLen
    <2>2. r = IF q = Err THEN Err ELSE [at |-> end, blocks |-> Append(B, q)]
      <3>1. Len(v) >= at + 1
        BY <1>1, <1>4, <1>8
      <3>2. v[at + 1][2] = m
        BY <1>6, <3>1
      <3> QED  BY <1>5, <2>1, <3>2 DEF ParseBlock
    <2>3. /\ rest \in Seq(Units) /\ Len(rest) = m
          /\ \A i \in 1..m : rest[i] = v[(at + 2) + i - 1]
      <3> DEFINE a == at + 2
                 b == at + 1 + m
      <3>1. a \in Nat \ {0} /\ b \in Nat /\ b <= Len(v) /\ b - a + 1 = m /\ m \in Nat
        BY <1>1, <1>4, <1>8
      <3> HIDE DEF a, b
      <3>2. \A i \in a..b : i \in 1..Len(v)
        BY <1>1, <3>1
      <3>3. /\ SubSeq(v, a, b) \in Seq(Units) /\ Len(SubSeq(v, a, b)) = b - a + 1
            /\ \A i \in 1..(b - a + 1) : SubSeq(v, a, b)[i] = v[a + i - 1]
        BY <3>1, <3>2
      <3>4. rest = SubSeq(v, a, b)
        BY DEF a, b
      <3> HIDE DEF rest
      <3>5. /\ rest \in Seq(Units) /\ Len(rest) = m
            /\ \A i \in 1..m : rest[i] = v[a + i - 1]
        BY <3>1, <3>3, <3>4
      <3> QED  BY <3>5 DEF a
    <2> HIDE DEF rest
    <2>4. Follows(rest, t)
      <3>1. ASSUME NEW i \in 1..m  PROVE rest[i] = t[i]
        <4>1. /\ (at + 2) + i - 1 = at + (i + 1) /\ i + 1 \in 1..(z + 1) /\ i \in 1..z
              /\ at + (i + 1) <= Len(v)
          BY <1>1, <1>4, <1>8
        <4>2. rest[i] = v[at + (i + 1)]
          BY <2>3, <4>1
        <4>3. v[at + (i + 1)] = Part(w)[i + 1]
          BY <4>1 DEF z
        <4> QED  BY <1>2, <4>1, <4>2, <4>3
      <3> QED  BY <2>3, <3>1 DEF Follows
    <2>5. IF m >= z /\ Len(w.out) < LenMod /\ Len(w.aad) < LenMod
          THEN q = PacketOf(w) ELSE Untagged(q)
      <3>1. IF Len(rest) >= Size(w) /\ Len(w.out) < LenMod /\ Len(w.aad) < LenMod
            THEN AeadParse(rest) = PacketOf(w) ELSE Untagged(AeadParse(rest))
        BY <2>3, <2>4, AeadParsed DEF t
      <3> QED  BY <2>3, <3>1 DEF z
    <2>6. PacketOf(w) # Err
      BY PacketType, NoneAssumption
    <2> HIDE DEF q, end
    <2>7. CASE z < LenMod
      <3>1. m = z /\ Len(w.out) < LenMod /\ Len(w.aad) < LenMod
        <4> DEFINE l == Len(w.out)
                   x == Len(w.aad)
        <4>1. z = x + l + 4 /\ x \in Nat /\ l \in Nat
          BY <1>0
        <4> HIDE DEF l, x
        <4>2. l < LenMod /\ x < LenMod
          BY <1>1, <2>7, <4>1
        <4> QED  BY <1>4, <2>7, <4>2 DEF l, x
      <3>2. q = PacketOf(w)
        BY <1>1, <2>5, <3>1
      <3>3. end = at + (z + 1)
        BY <1>1, <3>1 DEF end
      <3>4. r = [at |-> at + (z + 1), blocks |-> Append(B, PacketOf(w))]
        BY <2>2, <2>6, <3>2, <3>3, Zenon
      <3>5. full
        BY <1>8, <2>7, <3>3
      <3> QED  BY <3>4, <3>5 DEF z
    <2>8. CASE ~(z < LenMod)
      <3>1. ~(m >= z) /\ ~full
        BY <1>1, <1>4, <2>8
      <3>2. Untagged(q)
        BY <2>5, <3>1
      <3>3. Spoilt(r)
        <4>1. CASE q = Err
          BY <2>2, <4>1 DEF Spoilt
        <4>2. CASE q # Err
          <5>1. q \in Packet /\ q.mac = None
            BY <3>2, <4>2 DEF Untagged
          <5>2. Spoilt([at |-> end, blocks |-> Append(B, q)])
            BY <2>1, <5>1, SpoiltBy
          <5> QED  BY <2>2, <4>2, <5>2
        <4> QED  BY <4>1, <4>2
      <3> QED  BY <3>1, <3>3 DEF z
    <2> QED  BY <2>7, <2>8
  <1> QED  BY <1>7, <1>8

\* The blocks parsed so far, for every number of them.
ParsesTo(g, v, n) ==
    g = [k \in 0..n |-> IF k = 0 THEN [at |-> 3, blocks |-> <<>>] ELSE ParseBlock(v, g[k - 1])]

LEMMA ParsesExist == ASSUME NEW v, NEW n \in Nat  PROVE \E g : ParsesTo(g, v, n)
  <1> DEFINE S == {m \in Nat : \E g : ParsesTo(g, v, m)}
             next(f, k) == IF k = 0 THEN [at |-> 3, blocks |-> <<>>] ELSE ParseBlock(v, f[k - 1])
  <1>1. 0 \in S
    <2> DEFINE g == [k \in 0..0 |-> [at |-> 3, blocks |-> <<>>]]
    <2>1. g = [k \in 0..0 |-> next(g, k)]
      OBVIOUS
    <2> QED  BY <2>1 DEF ParsesTo
  <1>2. ASSUME NEW m \in Nat, m \in S  PROVE m + 1 \in S
    <2>1. PICK g : ParsesTo(g, v, m)
      BY <1>2
    <2> DEFINE h == [k \in 0..(m + 1) |-> next(g, k)]
    <2>2. \A k \in 0..m : g[k] = next(g, k)
      <3>1. g = [k \in 0..m |-> next(g, k)]
        BY <2>1 DEF ParsesTo
      <3> HIDE DEF next
      <3> QED  BY <3>1
    <2>3. \A k \in 0..m : h[k] = next(g, k)
      <3> HIDE DEF next
      <3> QED  OBVIOUS
    <2>4. \A k \in 0..m : h[k] = g[k]
      <3> HIDE DEF h, next
      <3> QED  BY <2>2, <2>3
    <2>5. \A k \in 1..(m + 1) : k - 1 \in 0..m /\ h[k - 1] = g[k - 1]
      <3>1. \A k \in 1..(m + 1) : k - 1 \in 0..m
        OBVIOUS
      <3> HIDE DEF h
      <3> QED  BY <2>4, <3>1
    <2>6. h = [k \in 0..(m + 1) |-> next(h, k)]
      <3>1. ASSUME NEW k \in 0..(m + 1)  PROVE next(g, k) = next(h, k)
        <4> HIDE DEF h
        <4>1. k # 0 => k \in 1..(m + 1)
          OBVIOUS
        <4>2. k # 0 => g[k - 1] = h[k - 1]
          BY <2>5, <4>1
        <4> QED  BY <4>2
      <3> HIDE DEF next
      <3> QED  BY <3>1
    <2> HIDE DEF h
    <2>7. ParsesTo(h, v, m + 1)
      BY <2>6 DEF ParsesTo
    <2> QED  BY <2>7
  <1> HIDE DEF S
  <1>3. Nat \subseteq S
    BY <1>1, <1>2, Induction
  <1> QED  BY <1>3 DEF S

LEMMA ParseSteps ==
    ASSUME NEW v, ~(Len(v) < 3), v[1][2] \in Nat
    PROVE  \E g : /\ ParallelParse(v) = g[v[1][2]]
                  /\ g[0] = [at |-> 3, blocks |-> <<>>]
                  /\ \A k \in 1..v[1][2] : g[k] = ParseBlock(v, g[k - 1])
  <1> DEFINE m == v[1][2]
             after == CHOOSE g : ParsesTo(g, v, m)
  <1>1. ParallelParse(v) = after[m]
    BY DEF ParallelParse, ParsesTo
  <1>2. \E g : ParsesTo(g, v, m)
    <2> HIDE DEF m
    <2>1. m \in Nat
      BY DEF m
    <2> QED  BY <2>1, ParsesExist
  <1>3. ParsesTo(after, v, m)
    BY <1>2
  <1> HIDE DEF after, m
  <1> DEFINE next(k) == IF k = 0 THEN [at |-> 3, blocks |-> <<>>] ELSE ParseBlock(v, after[k - 1])
  <1>4. \A k \in 0..m : after[k] = next(k)
    <2>1. after = [k \in 0..m |-> next(k)]
      BY <1>3 DEF ParsesTo
    <2> HIDE DEF next
    <2> QED  BY <2>1
  <1>5. m \in Nat /\ 0 \in 0..m /\ \A k \in 1..m : k \in 0..m /\ k # 0
    BY DEF m
  <1>6. after[0] = [at |-> 3, blocks |-> <<>>]
    BY <1>4, <1>5
  <1>7. \A k \in 1..m : after[k] = ParseBlock(v, after[k - 1])
    BY <1>4, <1>5
  <1> QED  BY <1>1, <1>6, <1>7 DEF m

\* The units of a parallel packet, block by block.
Laid(wire, at, n, ws, root) ==
    /\ wire \in Seq(Units) /\ Len(wire) >= 3
    /\ wire[1] = LenUnit(n) /\ wire[3] = <<"root", root>>
    /\ at[0] = 3
    /\ \A k \in 0..n : at[k] \in Nat /\ at[k] <= Len(wire)
    /\ \A k \in 1..n : at[k] = at[k - 1] + (Size(ws[k]) + 1)
    /\ \A k \in 1..n : \A i \in 1..(Size(ws[k]) + 1) :
           wire[at[k - 1] + i] = Part(ws[k])[i]

LEMMA ParallelWireUnits ==
    ASSUME NEW n \in Nat, NEW blocks, NEW size \in Nat, NEW ws,
           \A k \in 1..n : SealedItem(ws[k]) /\ ws[k].aad # None, blocks = [k \in 1..n |-> PacketOf(ws[k])]
    PROVE  \E at : Laid(ParallelWire(blocks, size), at, n, ws, MerkleRoot(blocks))
  <1> DEFINE wire == ParallelWire(blocks, size)
             parts == [k \in 1..n |-> Part(ws[k])]
             whole == Flatten(parts)
             g == Flattened(parts)
             head == <<LenUnit(n), LenUnit(size), <<"root", MerkleRoot(blocks)>>>>
             s == Cat(head, whole)
  <1>0. DOMAIN blocks = 1..n /\ \A k \in 1..n : blocks[k] = PacketOf(ws[k])
    OBVIOUS
  <1>1. Len(blocks) = n
    <2>1. \A k \in 1..n : PacketOf(ws[k]) \in Packet
      BY PacketType
    <2>2. blocks \in [1..n -> Packet]
      BY <2>1
    <2>3. blocks \in Seq(Packet)
      BY <2>2, SeqDef
    <2> QED  BY <1>0, <2>3
  <1>2. wire = s
    <2>1. \A k \in DOMAIN blocks : <<LenUnit(Len(AeadWire(blocks[k])))>> \o AeadWire(blocks[k])
                                     = Part(ws[k])
      BY <1>0 DEF Part
    <2>2. [k \in DOMAIN blocks |-> <<LenUnit(Len(AeadWire(blocks[k])))>> \o AeadWire(blocks[k])]
            = parts
      BY <1>0, <2>1
    <2>3. wire = <<LenUnit(Len(blocks)), LenUnit(size), Unit("root", MerkleRoot(blocks))>>
                   \o Flatten([k \in DOMAIN blocks |->
                        <<LenUnit(Len(AeadWire(blocks[k])))>> \o AeadWire(blocks[k])])
      BY DEF ParallelWire
    <2> HIDE DEF parts, wire
    <2> QED  BY <1>1, <2>2, <2>3 DEF Cat, Unit
  <1>3. MerkleRoot(blocks) \in Seq(Commitments)
    <2>1. MerkleRoot(blocks) = [k \in 1..n |-> blocks[k].mac]
      BY <1>0 DEF MerkleRoot
    <2>2. ASSUME NEW k \in 1..n  PROVE blocks[k].mac \in Commitments
      <3>1. blocks[k].mac = ws[k].mac
        BY <1>0 DEF PacketOf
      <3> QED  BY <3>1, PacketType
    <2>3. MerkleRoot(blocks) \in [1..n -> Commitments]
      BY <2>1, <2>2
    <2> QED  BY <2>3, SeqDef
  <1>4. head \in Seq(Units) /\ Len(head) = 3 /\ head[1] = LenUnit(n)
        /\ head[3] = <<"root", MerkleRoot(blocks)>>
    <2>1. LenUnit(n) \in Units /\ LenUnit(size) \in Units
      BY LengthOnWire
    <2>2. <<"root", MerkleRoot(blocks)>> \in Units
      BY <1>3 DEF Units
    <2> QED  BY <2>1, <2>2
  <1>5. \A k \in 1..n : /\ parts[k] = Part(ws[k]) /\ parts[k] \in Seq(Units)
                        /\ Len(parts[k]) = Size(ws[k]) + 1 /\ Size(ws[k]) \in Nat
    BY PartUnits, PacketType
  <1>6. parts \in Seq(Seq(Units)) /\ Len(parts) = n
    <2>1. parts \in [1..n -> Seq(Units)]
      BY <1>5
    <2> HIDE DEF parts
    <2>2. parts \in Seq(Seq(Units))
      BY <2>1, SeqDef
    <2> QED  BY <2>1, <2>2
  <1> HIDE DEF parts, head, wire
  <1>7. /\ \A k \in 0..n : g[k] \in Seq(Units) /\ Len(g[k]) <= Len(whole)
        /\ \A k \in 1..n : Len(g[k]) = Len(g[k - 1]) + Len(parts[k])
        /\ \A k \in 1..n : \A i \in 1..Len(parts[k]) :
               whole[Len(g[k - 1]) + i] = parts[k][i]
    BY <1>6, PartsInFlatten
  <1>8. g[0] = <<>> /\ whole = g[n]
    BY <1>6, FlattenStep
  <1> HIDE DEF g, whole
  <1>9. whole \in Seq(Units)
    BY <1>7, <1>8
  <1>10. s \in Seq(Units) /\ Len(s) = 3 + Len(whole) /\ Len(whole) \in Nat
    <2>1. head \in Seq(Units)
      BY <1>4
    <2>2. s \in Seq(Units) /\ Len(s) = Len(head) + Len(whole)
      BY <1>9, <2>1, CatType
    <2> QED  BY <1>4, <1>9, <2>2
  <1>11. s[1] = LenUnit(n) /\ s[3] = <<"root", MerkleRoot(blocks)>>
    <2>1. head \in Seq(Units)
      BY <1>4
    <2>2. \A k \in 1..Len(head) : s[k] = head[k]
      BY <1>9, <2>1, CatFront
    <2>3. 1 \in 1..3 /\ 3 \in 1..3
      OBVIOUS
    <2> HIDE DEF s
    <2> QED  BY <1>4, <2>2, <2>3
  <1>12. \A i \in 1..Len(whole) : s[3 + i] = whole[i]
    <2>1. head \in Seq(Units)
      BY <1>4
    <2>2. \A i \in 1..Len(whole) : s[Len(head) + i] = whole[i]
      BY <1>9, <2>1, CatBack
    <2> QED  BY <1>4, <2>2
  <1> HIDE DEF s
  <1> DEFINE at == [k \in 0..n |-> 3 + Len(g[k])]
  <1>13. \A k \in 0..n : at[k] = 3 + Len(g[k]) /\ Len(g[k]) \in Nat
    BY <1>7
  <1>14. \A k \in 1..n : k \in 0..n /\ k - 1 \in 0..n
    OBVIOUS
  <1> HIDE DEF at
  <1>15. at[0] = 3
    <2>1. Len(g[0]) = 0 /\ 0 \in 0..n
      BY <1>8
    <2> QED  BY <1>13, <2>1
  <1>16. ASSUME NEW k \in 0..n  PROVE at[k] \in Nat /\ at[k] <= Len(s)
    <2> DEFINE x == Len(g[k])
               l == Len(whole)
    <2>1. at[k] = 3 + x /\ x \in Nat /\ x <= l /\ l \in Nat /\ Len(s) = 3 + l
      BY <1>7, <1>10, <1>13
    <2> HIDE DEF x, l
    <2> QED  BY <2>1
  <1>17. ASSUME NEW k \in 1..n  PROVE at[k] = at[k - 1] + (Size(ws[k]) + 1)
    <2>1. at[k] = 3 + Len(g[k]) /\ Len(g[k]) \in Nat
      BY <1>13, <1>14
    <2>2. at[k - 1] = 3 + Len(g[k - 1]) /\ Len(g[k - 1]) \in Nat
      BY <1>13, <1>14
    <2>3. Len(g[k]) = Len(g[k - 1]) + Len(parts[k])
      BY <1>7
    <2>4. Len(parts[k]) = Size(ws[k]) + 1 /\ Size(ws[k]) \in Nat
      BY <1>5
    <2> DEFINE x == Len(g[k])
               y == Len(g[k - 1])
               z == Len(parts[k])
               l == Size(ws[k])
    <2>5. /\ at[k] = 3 + x /\ x \in Nat /\ at[k - 1] = 3 + y /\ y \in Nat
          /\ x = y + z /\ z = l + 1 /\ l \in Nat
      BY <2>1, <2>2, <2>3, <2>4
    <2> HIDE DEF x, y, z, l
    <2>6. at[k] = at[k - 1] + (l + 1)
      BY <2>5
    <2> QED  BY <2>6 DEF l
  <1>18. ASSUME NEW k \in 1..n, NEW i \in 1..(Size(ws[k]) + 1)
         PROVE  s[at[k - 1] + i] = Part(ws[k])[i]
    <2> DEFINE a == Len(g[k - 1]) + i
    <2>1. i \in 1..Len(parts[k])
      BY <1>5
    <2>2. whole[a] = Part(ws[k])[i]
      BY <1>5, <1>7, <2>1
    <2>3. a \in 1..Len(whole)
      <3>1. Len(g[k]) <= Len(whole)
        BY <1>7, <1>14
      <3>2. Len(g[k]) = Len(g[k - 1]) + Len(parts[k])
        BY <1>7
      <3>3. Len(g[k - 1]) \in Nat
        BY <1>13, <1>14
      <3>4. Len(parts[k]) \in Nat
        BY <1>5
      <3> DEFINE x == Len(g[k])
                 y == Len(g[k - 1])
                 z == Len(parts[k])
                 l == Len(whole)
      <3>5. x <= l /\ x = y + z /\ y \in Nat /\ z \in Nat /\ i \in 1..z /\ l \in Nat
        BY <1>10, <2>1, <3>1, <3>2, <3>3, <3>4
      <3> HIDE DEF x, y, z, l
      <3>6. y + i \in 1..l
        BY <3>5
      <3> QED  BY <3>6 DEF y, l
    <2>4. at[k - 1] + i = 3 + a
      <3>1. at[k - 1] = 3 + Len(g[k - 1]) /\ Len(g[k - 1]) \in Nat
        BY <1>13, <1>14
      <3>2. i \in Nat
        BY <1>5, <2>1
      <3> QED  BY <3>1, <3>2
    <2> HIDE DEF a
    <2> QED  BY <1>12, <2>2, <2>3, <2>4
  <1>19. Len(s) >= 3
    BY <1>10
  <1>20. Laid(s, at, n, ws, MerkleRoot(blocks))
    BY <1>10, <1>11, <1>15, <1>16, <1>17, <1>18, <1>19 DEF Laid
  <1> QED  BY <1>2, <1>20 DEF wire

\* What is parsed: the first blocks, when they have arrived whole under lengths
\* that fit; else an error, or blocks that do not open.
FirstBlocks(at, ws, m) == [at |-> at[m], blocks |-> [k \in 1..m |-> PacketOf(ws[k])]]

LEMMA BlocksParsed ==
    ASSUME NEW n \in Nat, NEW m \in 0..n, NEW ws, NEW at, NEW wire, NEW root,
           \A k \in 1..n : SealedItem(ws[k]) /\ ws[k].aad # None,
           Laid(wire, at, n, ws, root),
           NEW v \in Seq(Units), Follows(v, wire),
           NEW g, g[0] = [at |-> 3, blocks |-> <<>>],
           \A k \in 1..m : g[k] = ParseBlock(v, g[k - 1])
    PROVE  /\ g[m] = FirstBlocks(at, ws, m) \/ Spoilt(g[m])
           /\ Len(v) >= at[m] /\ (\A k \in 1..m : Size(ws[k]) < LenMod)
                => g[m] = FirstBlocks(at, ws, m)
  <1> DEFINE firsts(k) == [j \in 1..k |-> PacketOf(ws[j])]
             r(k) == [at |-> at[k], blocks |-> firsts(k)]
             fit(k) == Len(v) >= at[k] /\ \A j \in 1..k : Size(ws[j]) < LenMod
             T == {k \in Nat : k <= m => (g[k] = r(k) \/ Spoilt(g[k])) /\ (fit(k) => g[k] = r(k))}
  <1>1. \A k \in 1..n : PacketOf(ws[k]) \in Packet /\ Size(ws[k]) \in Nat
    BY PacketType, SizeOfWire
  <1>11. /\ wire \in Seq(Units) /\ at[0] = 3
         /\ \A k \in 0..n : at[k] \in Nat /\ at[k] <= Len(wire)
         /\ \A k \in 1..n : at[k] = at[k - 1] + (Size(ws[k]) + 1)
         /\ \A k \in 1..n : \A i \in 1..(Size(ws[k]) + 1) :
                wire[at[k - 1] + i] = Part(ws[k])[i]
    BY DEF Laid
  <1>2. \A k \in 0..m : firsts(k) \in Seq(Packet) /\ Len(firsts(k)) = k /\ r(k) # Err
    <2>1. ASSUME NEW k \in 0..m
          PROVE  firsts(k) \in Seq(Packet) /\ Len(firsts(k)) = k /\ r(k) # Err
      <3> DEFINE f == firsts(k)
                 a == at[k]
      <3>1. k \in Nat /\ f \in [1..k -> Packet] /\ a \in Nat
        <4>1. k \in 0..n /\ \A j \in 1..k : j \in 1..n
          OBVIOUS
        <4>2. f \in [1..k -> Packet]
          BY <1>1, <4>1
        <4> QED  BY <1>11, <4>1, <4>2
      <3> HIDE DEF f, a
      <3>2. f \in Seq(Packet) /\ Len(f) = k
        BY <3>1, SeqDef
      <3>3. [at |-> a, blocks |-> f] \in [at : Nat, blocks : Seq(Packet)]
        BY <3>1, <3>2
      <3>4. [at |-> a, blocks |-> f] # Err
        BY <3>3, NoneAssumption
      <3> QED  BY <3>2, <3>4 DEF f, a
    <2> HIDE DEF firsts, r
    <2> QED  BY <2>1
  <1>3. 0 \in T
    <2>1. firsts(0) = <<>>
      <3>1. 1..0 = {}
        OBVIOUS
      <3> QED  BY <3>1
    <2> HIDE DEF firsts
    <2>2. g[0] = r(0)
      BY <1>11, <2>1
    <2> HIDE DEF r
    <2> QED  BY <2>2
  <1>4. ASSUME NEW j \in Nat, j \in T  PROVE j + 1 \in T
    <2> DEFINE k == j + 1
               w == ws[k]
               l == Size(w)
               a == at[j]
               f == firsts(j)
               s == [at |-> a, blocks |-> f]
    <2>1. SUFFICES ASSUME k <= m
                   PROVE  (g[k] = r(k) \/ Spoilt(g[k])) /\ (fit(k) => g[k] = r(k))
      OBVIOUS
    <2>2. k \in 1..m /\ k \in 1..n /\ k - 1 = j /\ j \in 0..m /\ j \in 0..n
      BY <2>1
    <2>3. (g[j] = s \/ Spoilt(g[j])) /\ (fit(j) => g[j] = s)
      BY <1>4, <2>2
    <2>4. g[k] = ParseBlock(v, g[j])
      BY <2>2
    <2>5. /\ SealedItem(w) /\ w.aad # None /\ l \in Nat
          /\ at[k] = a + (l + 1) /\ a \in Nat /\ at[k] <= Len(wire)
      <3>1. SealedItem(w) /\ w.aad # None /\ l \in Nat
        BY <1>1, <2>2
      <3>2. at[k] = at[k - 1] + (l + 1) /\ k \in 0..n
        BY <1>11, <2>2
      <3> QED  BY <1>11, <2>2, <3>1, <3>2
    <2>6. f \in Seq(Packet) /\ Len(f) = j /\ s # Err
      BY <1>2, <2>2
    <2>7. r(k) = [at |-> a + (l + 1), blocks |-> Append(f, PacketOf(w))]
      <3>2. firsts(k) = Append(f, PacketOf(w))
        <4> DEFINE b == Append(f, PacketOf(w))
                   d == firsts(k)
        <4>1. PacketOf(w) \in Packet
          BY <1>1, <2>2
        <4>2. \A i \in 1..j : f[i] = PacketOf(ws[i])
          OBVIOUS
        <4>3. \A i \in 1..k : d[i] = PacketOf(ws[i])
          OBVIOUS
        <4>4. d = [i \in 1..k |-> d[i]]
          OBVIOUS
        <4> DEFINE p == PacketOf(w)
        <4> HIDE DEF f, d, p
        <4>5. Append(f, p) \in Seq(Packet) /\ Len(Append(f, p)) = k
              /\ Append(f, p)[k] = p /\ \A i \in 1..j : Append(f, p)[i] = f[i]
          BY <2>6, <4>1 DEF p
        <4> DEFINE e == Append(f, p)
        <4>6. e = [i \in 1..k |-> e[i]]
          <5> HIDE DEF e
          <5>1. e \in Seq(Packet) /\ Len(e) = k
            BY <4>5 DEF e
          <5> QED  BY <5>1
        <4>7. ASSUME NEW i \in 1..k  PROVE e[i] = d[i]
          <5>1. CASE i = k
            BY <4>3, <4>5, <5>1 DEF p
          <5>2. CASE i # k
            <6>1. i \in 1..j
              BY <5>2
            <6>2. e[i] = f[i]
              BY <4>5, <6>1
            <6>3. f[i] = PacketOf(ws[i]) /\ d[i] = PacketOf(ws[i])
              BY <4>2, <4>3, <6>1
            <6> HIDE DEF e
            <6> QED  BY <6>2, <6>3
          <5> QED  BY <5>1, <5>2
        <4> HIDE DEF e
        <4>8. e = d
          BY <4>4, <4>6, <4>7
        <4> QED  BY <4>8 DEF e, d, p
      <3> HIDE DEF firsts, f
      <3> QED  BY <2>5, <3>2, Zenon
    <2>8. fit(k) => fit(j) /\ l < LenMod
      <3>1. SUFFICES ASSUME fit(k)  PROVE fit(j) /\ l < LenMod
        OBVIOUS
      <3>2. Len(v) >= at[k] /\ \A i \in 1..k : Size(ws[i]) < LenMod
        BY <3>1
      <3>3. Len(v) \in Nat
        OBVIOUS
      <3>4. k \in 1..k /\ \A i \in 1..j : i \in 1..k
        BY <2>2
      <3>5. l < LenMod
        BY <3>2, <3>4
      <3>6. \A i \in 1..j : Size(ws[i]) < LenMod
        BY <3>2, <3>4
      <3> HIDE DEF l
      <3>7. Len(v) >= at[j]
        BY <2>5, <3>2, <3>3
      <3> QED  BY <3>5, <3>6, <3>7
    <2> HIDE DEF firsts, r, T, f, w, l, a, fit
    <2>9. CASE g[j] # s
      <3>1. Spoilt(g[k])
        BY <2>3, <2>4, <2>9, SpoiltStays
      <3>2. ~fit(k)
        BY <2>3, <2>8, <2>9
      <3> QED  BY <3>1, <3>2
    <2>10. CASE g[j] = s
      <3>2. \A i \in 1..(l + 1) : a + i <= Len(v) => v[a + i] = Part(w)[i]
        <4>1. ASSUME NEW i \in 1..(l + 1), a + i <= Len(v)  PROVE v[a + i] = Part(w)[i]
          <5>1. a + i \in 1..Len(v) /\ a + i <= Len(wire)
            BY <2>5, <4>1
          <5>2. v[a + i] = wire[a + i]
            BY <5>1 DEF Follows
          <5>3. wire[a + i] = Part(w)[i]
            <6>1. i \in 1..(Size(ws[k]) + 1)
              BY DEF l, w
            <6>2. wire[at[k - 1] + i] = Part(ws[k])[i]
              BY <1>11, <2>2, <6>1
            <6> QED  BY <2>2, <6>2 DEF a, w
          <5> QED  BY <5>2, <5>3
        <4> QED  BY <4>1
      <3>3. IF Len(v) >= a + (l + 1) /\ l < LenMod
            THEN ParseBlock(v, s) = [at |-> a + (l + 1), blocks |-> Append(f, PacketOf(w))]
            ELSE Spoilt(ParseBlock(v, s))
        <4> DEFINE u == s
        <4>1. u = [at |-> a, blocks |-> f] /\ u # Err
          BY <2>6
        <4> HIDE DEF u
        <4>2. /\ SealedItem(w) /\ w.aad # None /\ a \in Nat /\ f \in Seq(Packet)
              /\ \A i \in 1..(Size(w) + 1) : a + i <= Len(v) => v[a + i] = Part(w)[i]
          BY <2>5, <2>6, <3>2 DEF l
        <4>3. IF Len(v) >= a + (Size(w) + 1) /\ Size(w) < LenMod
              THEN ParseBlock(v, u) = [at |-> a + (Size(w) + 1), blocks |-> Append(f, PacketOf(w))]
              ELSE Spoilt(ParseBlock(v, u))
          BY <4>1, <4>2, BlockParsed
        <4> QED  BY <4>3 DEF u, l
      <3>4. g[k] = ParseBlock(v, s)
        BY <2>4, <2>10
      <3>5. fit(k) => Len(v) >= a + (l + 1) /\ l < LenMod
        BY <2>5, <2>8 DEF fit
      <3> QED  BY <2>7, <3>3, <3>4, <3>5, Zenon
    <2> QED  BY <2>9, <2>10
  <1> HIDE DEF T
  <1>5. Nat \subseteq T
    BY <1>3, <1>4, Induction
  <1>6. m \in T /\ m <= m
    BY <1>5
  <1> QED  BY <1>6 DEF T, FirstBlocks

LEMMA ReceivedParsed ==
    ASSUME NEW w, SealedItem(w), NEW parsed, NEW intact,
           IF intact THEN parsed = PacketOf(w) ELSE Untagged(parsed),
           Receives(w.text, w.text, intact, IF parsed = Err THEN Err ELSE Opened(parsed))
    PROVE  GotInv'
  <1> DEFINE result == IF parsed = Err THEN Err ELSE Opened(parsed)
  <1>1. CASE intact
    <2>1. parsed = PacketOf(w) /\ parsed # Err
      BY <1>1, PacketType, NoneAssumption
    <2>2. result = w.text
      BY <2>1, IntactOpens
    <2> HIDE DEF result
    <2>3. Receives(w.text, w.text, intact, result)
      BY DEF result
    <2> QED  BY <2>2, <2>3, Received
  <1>2. CASE ~intact
    <2>1. result = Err
      BY <1>2, NoTagFails DEF Untagged
    <2>2. Receives(w.text, w.text, intact, result)
      OBVIOUS
    <2> HIDE DEF result
    <2> QED  BY <1>2, <2>1, <2>2, Received
  <1> QED  BY <1>1, <1>2

\* The forms with one packet.
LEMMA DecodeOneWireGot ==
    ASSUME Inv, SealsInv, NEW c \in DOMAIN jobs, DecodeWire(c), Form(c) # "parallel"
    PROVE  GotInv'
  <1> DEFINE w == work[c][1]
             p == PacketOf(w)
             wire == CASE Form(c) \in {"plain", "stream"} -> PlainWire(p)
                       [] Form(c) = "split" -> SealedWire(p)
                       [] Form(c) = "aead" -> AeadWire(p)
                       [] Form(c) = "parallel" -> ParallelWire(Packets(c), jobs[c].size)
             parsed(v) == CASE Form(c) \in {"plain", "stream"} -> PlainParse(v)
                            [] Form(c) = "split" -> SealedParse(v, w.snap)
                            [] Form(c) = "aead"  -> AeadParse(v)
  <1>1. PICK v \in Connection(wire) :
            Receives(w.text, w.text, Len(v) >= Len(wire) /\ LengthsFit(c),
                     IF parsed(v) = Err THEN Err ELSE Opened(parsed(v)))
    BY DEF DecodeWire
  <1>2. Returned(c) /\ Form(c) \in {"plain", "split", "aead", "stream"}
    <2>1. Form(c) \in Forms
      <3>1. jobs \in Jobs
        BY DEF Inv, CallsInv
      <3> QED  BY <3>1, JobsAssumption DEF Form
    <2>2. Form(c) # "batch" /\ Returned(c)
      BY DEF DecodeWire
    <2> QED  BY <2>1, <2>2 DEF Forms
  <1>3. SealedItem(w) /\ (w.aad = None <=> Form(c) \in {"plain", "split", "stream"})
    <2>1. Single(c)
      BY <1>2 DEF Single
    <2>2. 1 \in DOMAIN work[c]
      BY <1>2, <2>1, CallSealed
    <2>3. SealedItem(work[c][1])
      BY <1>2, <2>2, CallSealed
    <2>4. work[c][1].aad = None <=> Form(c) \in {"plain", "split", "stream"}
      BY <1>2, <2>2, CallSealed
    <2> QED  BY <2>3, <2>4
  <1>4. Len(w.out) = Len(w.text) /\ Len(w.text) \in Nat
    BY <1>3, PacketType
  <1>5. p = [cipher |-> w.out, aad |-> w.aad, snap |-> w.snap, mac |-> w.mac]
    BY DEF PacketOf
  <1> DEFINE intact == Len(v) >= Len(wire) /\ LengthsFit(c)
             r == parsed(v)
  <1>0. LengthsFit(c) <=> Len(w.text) < LenMod /\ (Form(c) = "aead" => Len(w.aad) < LenMod)
    BY <1>2 DEF LengthsFit, Tells
  <1>6. IF intact THEN r = p ELSE Untagged(r)
    <2>1. CASE Form(c) \in {"plain", "stream"}
      <3>1. wire = PlainWire(p) /\ r = PlainParse(v)
        BY <2>1
      <3> HIDE DEF wire, w, r
      <3>2. wire \in Seq(Units) /\ Len(wire) = Len(w.out) + 3
        BY <1>3, <3>1, PlainWireUnits
      <3>3. v \in Seq(Units) /\ Follows(v, wire)
        BY <3>2, ConnectionFollows
      <3>4. IF Len(v) >= Len(w.out) + 3 /\ Len(w.out) < LenMod
            THEN r = [cipher |-> w.out, aad |-> None, snap |-> w.snap, mac |-> w.mac]
            ELSE Untagged(r)
        BY <1>3, <3>1, <3>3, PlainParsed
      <3>5. w.aad = None
        BY <1>3, <2>1
      <3>6. LengthsFit(c) <=> Len(w.out) < LenMod
        BY <1>0, <1>4, <2>1 DEF w
      <3> HIDE DEF p
      <3> QED  BY <1>5, <3>2, <3>4, <3>5, <3>6
    <2>2. CASE Form(c) = "split"
      <3>1. wire = SealedWire(p) /\ r = SealedParse(v, w.snap)
        BY <2>2
      <3> HIDE DEF wire, w, r
      <3>2. wire \in Seq(Units) /\ Len(wire) = Len(w.out) + 2
        BY <1>3, <3>1, SealedWireUnits
      <3>3. v \in Seq(Units) /\ Follows(v, wire)
        BY <3>2, ConnectionFollows
      <3>4. IF Len(v) >= Len(w.out) + 2 /\ Len(w.out) < LenMod
            THEN r = [cipher |-> w.out, aad |-> None, snap |-> w.snap, mac |-> w.mac]
            ELSE Untagged(r)
        BY <1>3, <3>1, <3>3, SealedParsed
      <3>5. w.aad = None
        BY <1>3, <2>2
      <3>6. LengthsFit(c) <=> Len(w.out) < LenMod
        BY <1>0, <1>4, <2>2 DEF w
      <3> HIDE DEF p
      <3> QED  BY <1>5, <3>2, <3>4, <3>5, <3>6
    <2>3. CASE Form(c) = "aead"
      <3>0. w.aad # None
        BY <1>3, <2>3
      <3>1. wire = AeadWire(p) /\ r = AeadParse(v)
        BY <2>3
      <3>5. LengthsFit(c) <=> Len(w.out) < LenMod /\ Len(w.aad) < LenMod
        BY <1>0, <1>4, <2>3
      <3> HIDE DEF wire, w, r
      <3>2. wire \in Seq(Units) /\ Len(wire) = Size(w)
        BY <1>3, <3>0, <3>1, AeadWireUnits DEF Size
      <3>3. v \in Seq(Units) /\ Follows(v, wire)
        BY <3>2, ConnectionFollows
      <3>4. IF Len(v) >= Size(w) /\ Len(w.out) < LenMod /\ Len(w.aad) < LenMod
            THEN r = p ELSE Untagged(r)
        BY <1>3, <3>0, <3>1, <3>3, AeadParsed
      <3> HIDE DEF p
      <3> QED  BY <3>2, <3>4, <3>5
    <2> QED  BY <1>2, <2>1, <2>2, <2>3
  <1>7. Receives(w.text, w.text, intact, IF r = Err THEN Err ELSE Opened(r))
    BY <1>1
  <1> HIDE DEF intact, r, w
  <1> QED  BY <1>3, <1>6, <1>7, ReceivedParsed

\* Blocks one of which has no tag do not open.
LEMMA SpoiltFails ==
    ASSUME NEW s, Spoilt(s), s # Err, NEW root
    PROVE  OpenedParallel(s.blocks, root) = Err
  <1>1. PICK k \in DOMAIN s.blocks : s.blocks[k] \in Packet /\ s.blocks[k].mac = None
    BY DEF Spoilt
  <1>2. Opened(s.blocks[k]) = Err
    BY <1>1, NoTagFails
  <1>3. OpenedAll(s.blocks) = Err
    BY <1>2 DEF OpenedAll
  <1> QED  BY <1>3 DEF OpenedParallel

LEMMA DecodeParallelWireGot ==
    ASSUME Inv, SealsInv, NEW c \in DOMAIN jobs, DecodeWire(c), Form(c) = "parallel"
    PROVE  GotInv'
  <1> DEFINE text == jobs[c].msgs[1].text
             blocks == Packets(c)
             ws == work[c]
             root == MerkleRoot(blocks)
             wire == ParallelWire(blocks, jobs[c].size)
             result(v) == IF ParallelParse(v) = Err THEN Err
                          ELSE OpenedParallel(ParallelParse(v).blocks, v[3][2])
  <1>1. PICK v \in Connection(wire) :
            Receives(text, text, Len(v) >= Len(wire) /\ LengthsFit(c), result(v))
    BY DEF DecodeWire
  <1>2. Returned(c)
    BY DEF DecodeWire
  <1>3. PICK n \in Nat \ {0} : DOMAIN ws = 1..n
    BY <1>2, ParallelBlocks
  <1>4. \A k \in 1..n : SealedItem(ws[k]) /\ ws[k].aad # None
    BY <1>2, <1>3, CallSealed, ParallelBlocks
  <1>5. blocks = [k \in 1..n |-> PacketOf(ws[k])]
    BY <1>3 DEF Packets
  <1>6. jobs[c].size \in Nat
    <2>1. jobs \in Jobs
      BY DEF Inv, CallsInv
    <2> QED  BY <2>1, JobsAssumption
  <1>7. Len(ws) = n
    <2>1. \E m \in Nat : DOMAIN Items(jobs[c]) = 1..m
      <3>1. jobs \in Jobs
        BY DEF Inv, CallsInv
      <3> QED  BY <3>1, ItemsOfCall
    <2> QED  BY <1>3
  <1>8. PICK at : Laid(wire, at, n, ws, root)
    <2> DEFINE size == jobs[c].size
    <2>1. size \in Nat
      BY <1>6
    <2> HIDE DEF blocks, ws, size
    <2>2. \A k \in 1..n : SealedItem(ws[k]) /\ ws[k].aad # None
      BY <1>4
    <2>3. \E a : Laid(ParallelWire(blocks, size), a, n, ws, MerkleRoot(blocks))
      BY <1>5, <2>1, <2>2, ParallelWireUnits
    <2> QED  BY <2>3 DEF size
  <1>a. LengthsFit(c) => n < LenMod /\ \A k \in 1..n : Size(ws[k]) < LenMod
    <2>1. SUFFICES ASSUME LengthsFit(c)
                   PROVE  n < LenMod /\ \A k \in 1..n : Size(ws[k]) < LenMod
      OBVIOUS
    <2>2. Len(ws) < LenMod /\ \A k \in 1..n : Len(AeadWire(blocks[k])) < LenMod
      BY <1>3, <2>1 DEF LengthsFit, Tells
    <2>3. \A k \in 1..n : blocks[k] = PacketOf(ws[k])
      BY <1>5
    <2> HIDE DEF ws, blocks
    <2> QED  BY <1>7, <2>2, <2>3 DEF Size
  <1> HIDE DEF blocks, ws, wire, root
  <1>9. /\ wire \in Seq(Units) /\ Len(wire) >= 3
        /\ wire[1] = LenUnit(n) /\ wire[3] = <<"root", root>>
        /\ \A k \in 0..n : at[k] \in Nat /\ at[k] <= Len(wire)
    BY <1>8 DEF Laid
  <1>10. v \in Seq(Units) /\ Follows(v, wire)
    BY <1>9, ConnectionFollows
  <1>11. Len(v) \in Nat
    BY <1>10
  <1> DEFINE intact == Len(v) >= Len(wire) /\ LengthsFit(c)
             parsed == ParallelParse(v)
  <1>12. Receives(text, text, intact, result(v))
    BY <1>1
  <1>13. CASE Len(v) < 3
    <2>1. parsed = Err
      BY <1>13 DEF ParallelParse
    <2>2. result(v) = Err /\ ~intact
      BY <1>9, <1>11, <1>13, <2>1
    <2> HIDE DEF result, intact, text
    <2> QED  BY <1>12, <2>2, Received
  <1>14. CASE ~(Len(v) < 3)
    <2> DEFINE m == v[1][2]
    <2>1. v[1] = LenUnit(n) /\ v[3] = <<"root", root>>
      <3>1. 1 \in 1..Len(v) /\ 3 \in 1..Len(v) /\ 1 <= Len(wire) /\ 3 <= Len(wire)
        BY <1>9, <1>11, <1>14
      <3> QED  BY <1>9, <1>10, <3>1 DEF Follows
    <2>2. m \in 0..n /\ (n < LenMod => m = n)
      BY <2>1, LengthOnWire
    <2>3. PICK g : /\ parsed = g[m] /\ g[0] = [at |-> 3, blocks |-> <<>>]
                   /\ \A k \in 1..m : g[k] = ParseBlock(v, g[k - 1])
      <3>1. m \in Nat
        BY <2>2
      <3> QED  BY <1>14, <3>1, ParseSteps
    <2> HIDE DEF m, parsed
    <2> DEFINE firsts == [k \in 1..m |-> PacketOf(ws[k])]
               r == [at |-> at[m], blocks |-> firsts]
    <2>4. /\ parsed = r \/ Spoilt(parsed)
          /\ Len(v) >= at[m] /\ (\A k \in 1..m : Size(ws[k]) < LenMod) => parsed = r
      <3>1. /\ g[0] = [at |-> 3, blocks |-> <<>>]
            /\ \A k \in 1..m : g[k] = ParseBlock(v, g[k - 1])
        BY <2>3
      <3>2. wire \in Seq(Units)
        BY <1>9
      <3>3. /\ g[m] = FirstBlocks(at, ws, m) \/ Spoilt(g[m])
            /\ Len(v) >= at[m] /\ (\A k \in 1..m : Size(ws[k]) < LenMod)
                 => g[m] = FirstBlocks(at, ws, m)
        BY <1>4, <1>8, <1>10, <2>2, <3>1, <3>2, BlocksParsed
      <3>4. FirstBlocks(at, ws, m) = r
        BY DEF FirstBlocks
      <3> HIDE DEF r
      <3> QED  BY <2>3, <3>3, <3>4
    <2>5. r # Err
      <3> DEFINE a == at[m]
      <3>1. firsts \in [1..m -> Packet] /\ m \in Nat
        <4>1. \A k \in 1..m : k \in 1..n
          BY <2>2
        <4>2. \A k \in 1..m : PacketOf(ws[k]) \in Packet
          BY <1>4, <4>1, PacketType
        <4> QED  BY <2>2, <4>2
      <3>2. a \in Nat
        BY <1>9, <2>2
      <3> HIDE DEF firsts, a
      <3>3. firsts \in Seq(Packet)
        BY <3>1, SeqDef
      <3>4. r \in [at : Nat, blocks : Seq(Packet)]
        BY <3>2, <3>3 DEF a
      <3> HIDE DEF r
      <3> QED  BY <3>4, NoneAssumption
    <2>6. r.blocks = firsts
      OBVIOUS
    <2>7. intact => parsed = r /\ m = n
      <3>1. ASSUME intact  PROVE parsed = r /\ m = n
        <4>1. m = n
          BY <1>a, <2>2, <3>1
        <4>2. Len(v) >= at[m]
          <5>1. n \in 0..n /\ Len(v) >= Len(wire)
            BY <3>1
          <5>2. at[n] \in Nat /\ at[n] <= Len(wire) /\ Len(wire) \in Nat
            BY <1>9, <5>1
          <5> QED  BY <1>11, <4>1, <5>1, <5>2
        <4>3. \A k \in 1..m : Size(ws[k]) < LenMod
          BY <1>a, <3>1, <4>1
        <4> HIDE DEF r
        <4> QED  BY <2>4, <4>1, <4>2, <4>3
      <3> QED  BY <3>1
    <2> DEFINE opened == OpenedParallel(firsts, root)
    <2>8. result(v) = IF parsed = Err THEN Err ELSE OpenedParallel(parsed.blocks, root)
      BY <2>1 DEF parsed
    <2>11. CASE parsed # r
      <3>1. Spoilt(parsed) /\ ~intact
        BY <2>4, <2>7, <2>11
      <3>2. result(v) = Err
        BY <2>8, <3>1, SpoiltFails
      <3> HIDE DEF result, intact, text
      <3> QED  BY <1>12, <3>1, <3>2, Received
    <2>9. CASE parsed = r /\ m = n
      <3>1. firsts = blocks
        BY <1>5, <2>9
      <3>2. opened = text
        BY <1>2, <3>1, ParallelIntact DEF blocks, root
      <3> HIDE DEF r, opened, firsts
      <3>3. result(v) \in {Err, text} /\ (intact => result(v) = text)
        <4> HIDE DEF result, intact, text
        <4> QED  BY <2>5, <2>6, <2>8, <2>9, <3>2 DEF opened
      <3> HIDE DEF result, intact, text
      <3> QED  BY <1>12, <3>3, Received
    <2>10. CASE parsed = r /\ m # n
      <3> DEFINE S == {blocks[k] : k \in 1..n}
      <3>1. \A k \in 1..n : SealedItem(ws[k]) /\ blocks[k] = PacketOf(ws[k])
        BY <1>4, <1>5
      <3>2. firsts \in Seq(S)
        <4>1. \A k \in 1..m : k \in 1..n
          BY <2>2
        <4>2. \A k \in 1..m : PacketOf(ws[k]) \in S
          BY <3>1, <4>1
        <4>3. firsts \in [1..m -> S] /\ m \in Nat
          <5> HIDE DEF S
          <5> QED  BY <2>2, <4>2
        <4> HIDE DEF firsts, S
        <4> QED  BY <4>3, SeqDef
      <3>3. firsts # blocks
        <4>1. DOMAIN firsts = 1..m /\ DOMAIN blocks = 1..n
          BY <1>5
        <4>2. n \in 1..n /\ n \notin 1..m
          BY <2>2, <2>10
        <4> QED  BY <4>1, <4>2
      <3>4. \A p \in S : \E w : SealedItem(w) /\ w.aad # None /\ p = PacketOf(w)
        BY <1>4, <3>1
      <3> HIDE DEF S, firsts
      <3>5. opened = Err
        BY <1>2, <3>2, <3>3, <3>4, ParallelWhole DEF blocks, root
      <3>6. result(v) = Err /\ ~intact
        <4> HIDE DEF result, intact, r, opened
        <4> QED  BY <2>5, <2>6, <2>7, <2>8, <2>10, <3>5 DEF opened
      <3> HIDE DEF result, intact, text
      <3> QED  BY <1>12, <3>6, Received
    <2> QED  BY <2>9, <2>10, <2>11
  <1> QED  BY <1>13, <1>14

-----------------------------------------------------------------------------
(* Every step. *)

LEMMA GotUntouched == ASSUME GotInv, UNCHANGED got  PROVE GotInv'
  BY DEF GotInv

LEMMA DecodingGot == ASSUME Inv, SealsInv, Decoding  PROVE GotInv' /\ SealsInv'
  <1>1. PICK c \in DOMAIN jobs :
            \/ DecodeBatch(c) \/ DecodeStream(c) \/ DecodeWire(c)
            \/ \E d \in DOMAIN jobs : DecodeOne(c, d) \/ DecodeParallel(c, d)
    BY DEF Decoding
  <1>2. CASE DecodeBatch(c)
    <2>1. UNCHANGED <<jobs, stage, work>>
      BY <1>2 DEF DecodeBatch, Receives
    <2> QED  BY <1>2, <2>1, DecodeBatchGot, SealsUntouched
  <1>3. CASE DecodeStream(c)
    <2>1. UNCHANGED <<jobs, stage, work>>
      BY <1>3 DEF DecodeStream, Receives
    <2> QED  BY <1>3, <2>1, DecodeStreamGot, SealsUntouched
  <1>4. CASE DecodeWire(c)
    <2>1. UNCHANGED <<jobs, stage, work>>
      BY <1>4 DEF DecodeWire, Receives
    <2> QED  BY <1>4, <2>1, DecodeOneWireGot, DecodeParallelWireGot, SealsUntouched
  <1>5. ASSUME NEW d \in DOMAIN jobs, DecodeOne(c, d)  PROVE GotInv' /\ SealsInv'
    <2>1. UNCHANGED <<jobs, stage, work>>
      BY <1>5 DEF DecodeOne, Receives
    <2> QED  BY <1>5, <2>1, DecodeOneGot, SealsUntouched
  <1>6. ASSUME NEW d \in DOMAIN jobs, DecodeParallel(c, d)  PROVE GotInv' /\ SealsInv'
    <2>1. UNCHANGED <<jobs, stage, work>>
      BY <1>6 DEF DecodeParallel, Receives
    <2> QED  BY <1>6, <2>1, DecodeParallelGot, SealsUntouched
  <1> QED  BY <1>1, <1>2, <1>3, <1>4, <1>5, <1>6

LEMMA EncodingGot == ASSUME Encoding  PROVE UNCHANGED got
  <1>1. PICK c \in DOMAIN jobs :
            \/ Update(c) \/ Finalize(c) \/ Return(c)
            \/ \E i \in DOMAIN work[c] :
                 \/ Draw(c, i) \/ DrawFails(c, i) \/ Seal(c, i) \/ SealGroup(c, i)
                 \/ \E b \in 0..(BatchCount(Len(work[c][i].text)) - 1) : XorBatch(c, i, b)
    BY DEF Encoding
  <1>2. CASE Update(c)
    BY <1>2 DEF Update
  <1>3. CASE Finalize(c)
    BY <1>3 DEF Finalize
  <1>4. CASE Return(c)
    BY <1>4 DEF Return
  <1>5. ASSUME NEW i \in DOMAIN work[c], Draw(c, i)  PROVE UNCHANGED got
    BY <1>5 DEF Draw
  <1>6. ASSUME NEW i \in DOMAIN work[c], DrawFails(c, i)  PROVE UNCHANGED got
    BY <1>6 DEF DrawFails
  <1>7. ASSUME NEW i \in DOMAIN work[c], Seal(c, i)  PROVE UNCHANGED got
    BY <1>7 DEF Seal
  <1>8. ASSUME NEW i \in DOMAIN work[c], SealGroup(c, i)  PROVE UNCHANGED got
    BY <1>8 DEF SealGroup
  <1>9. ASSUME NEW i \in DOMAIN work[c],
               NEW b \in 0..(BatchCount(Len(work[c][i].text)) - 1), XorBatch(c, i, b)
        PROVE  UNCHANGED got
    BY <1>9 DEF XorBatch
  <1> QED  BY <1>1, <1>2, <1>3, <1>4, <1>5, <1>6, <1>7, <1>8, <1>9

LEMMA ReceiverStep ==
    ASSUME Inv, SealsInv, GotInv, [SystemNext]_<<vars, qvars>>
    PROVE  SealsInv' /\ GotInv'
  <1>1. CASE EveIntercept \/ BobMeasure \/ Refuses \/ Distill
    <2>1. UNCHANGED vars
      BY <1>1 DEF EveIntercept, BobMeasure, Refuses, Distill
    <2> QED  BY <2>1, SealsUntouched, GotUntouched DEF vars
  <1>2. CASE CodecRuns
    <2>1. CASE Encoding
      BY <2>1, EncodingSeals, EncodingGot, GotUntouched
    <2>2. CASE Decoding
      BY <2>2, DecodingGot
    <2>3. CASE Over
      <3>1. UNCHANGED vars
        BY <2>3 DEF Over
      <3> QED  BY <3>1, SealsUntouched, GotUntouched DEF vars
    <2> QED  BY <1>2, <2>1, <2>2, <2>3 DEF CodecRuns, Next
  <1>3. ASSUME NEW c \in DOMAIN jobs, DecodeQkd(c)  PROVE SealsInv' /\ GotInv'
    <2>1. UNCHANGED <<jobs, stage, work>>
      BY <1>3 DEF DecodeQkd, Receives
    <2> QED  BY <1>3, <2>1, DecodeQkdGot, SealsUntouched
  <1>4. CASE UNCHANGED <<vars, qvars>>
    BY <1>4, SealsUntouched, GotUntouched DEF vars
  <1> QED  BY <1>1, <1>2, <1>3, <1>4 DEF SystemNext

LEMMA ReceiverInit == ASSUME SystemInit  PROVE Inv /\ SealsInv /\ GotInv
  <1>1. Init /\ got = None
    BY DEF SystemInit, Init
  <1> QED  BY <1>1, InitInv, SealsInit DEF GotInv

LEMMA ReceiverInvariant == SystemSpec => [](Inv /\ SealsInv /\ GotInv)
  <1>1. Inv /\ SealsInv /\ GotInv /\ [SystemNext]_<<vars, qvars>> => (Inv /\ SealsInv /\ GotInv)'
    BY SystemStep, ReceiverStep
  <1> QED  BY <1>1, ReceiverInit, PTL DEF SystemSpec

\* Parts that are missing, repeated, out of order or of another message, cut
\* connections, packets in the other form's decoder and lengths that wrapped
\* decode to the message or to an error; blocks of a parallel packet do so
\* under the root they were sent with, and under a root made for them they
\* decode to what they were sealed from: for all lengths of messages, chunks,
\* groups and fields, and every interleaving of the calls.
THEOREM ReceivedSealed == SystemSpec => []DecodesOnlySealed
  <1>1. GotInv => DecodesOnlySealed
    BY DEF GotInv, DecodesOnlySealed
  <1> QED  BY <1>1, ReceiverInvariant, PTL

\* What arrives as it was sent decodes to what was encoded, whichever form
\* encoded it, whole or in pieces, in calls or over a connection.
THEOREM ReceivedIntact == SystemSpec => []IntactDecodes
  <1>1. GotInv => IntactDecodes
    BY DEF GotInv, IntactDecodes
  <1> QED  BY <1>1, ReceiverInvariant, PTL

=============================================================================
