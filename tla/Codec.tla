--------------------------------- MODULE Codec ---------------------------------
(* The symbol codec of src/codec.rs: encoding calls that run at once, split  *)
(* into rayon tasks, over snapshots that are handed out once; and what a     *)
(* receiver makes of packets that arrive cut, incomplete or mixed up.        *)
(*                                                                           *)
(* A byte is a set of symbols and XOR the symmetric difference: a plaintext  *)
(* byte and a key byte are one symbol each.  A commitment is the record of   *)
(* what its MAC covers: the snapshot, and the bytes after it.                *)
EXTENDS Integers, Sequences, FiniteSets

CONSTANTS
    ChunkSize, \* CHUNK_SIZE
    Group,     \* 8: chunks of a keystream batch, messages of a MAC batch
    LenMod,    \* 2^32: lengths on the wire are u32
    Snapshots, \* what gather() and the pool return, each at most once
    Symbols,   \* that the bytes of plaintexts and associated data are made of
    None, Failed, Err,
    Jobs       \* the sets of concurrent calls: sequences of form, msgs, size

ASSUME CodecAssumption ==
    /\ ChunkSize \in Nat \ {0} /\ Group \in Nat \ {0} /\ LenMod \in Nat \ {0}
    /\ None \notin Snapshots

\* What a byte is made of: symbols of plaintexts and of keys; the eight bytes
\* that say how long associated data is are one symbol, and count as one byte.
Marks == Symbols \cup (Snapshots \X Nat \X Nat) \cup ({"len"} \X Nat)

Bytestrings == Seq(SUBSET Marks)
Aads == Seq(SUBSET Symbols)
Commitments == [snap : Snapshots \cup {None}, covered : Bytestrings]
Packet == [cipher : Bytestrings, aad : Bytestrings \cup {None}, snap : Snapshots \cup {None},
           mac : Commitments \cup {None}]

\* None and Err are nothing else that a variable or a parser may hold.
ASSUME NoneAssumption ==
    /\ None \notin Bytestrings /\ None \notin Commitments
    /\ Err \notin Bytestrings /\ Err \notin Seq(Bytestrings)
    /\ Err \notin Packet /\ Err \notin [at : Nat, blocks : Seq(Packet)]

Forms == {"plain", "split", "aead", "batch", "parallel", "stream"}
Messages == [text : Seq(SUBSET Symbols), aad : Aads \cup {None}]

\* A plain or stream message has no associated data.
ASSUME JobsAssumption == \A calls \in Jobs : \A c \in DOMAIN calls :
    /\ calls[c].msgs \in Seq(Messages)
    /\ calls[c].form \in Forms
    /\ calls[c].size \in Nat
    /\ calls[c].form \in {"plain", "split", "aead", "parallel"} => Len(calls[c].msgs) = 1
    /\ \A m \in DOMAIN calls[c].msgs :
           calls[c].msgs[m].aad = None <=> calls[c].form \in {"plain", "split", "stream"}

VARIABLES
    jobs,  \* the calls
    stage, \* per call: "running", "ok", "err" or "panic"
    work,  \* per call, the messages it seals: text, aad, snap, out, done, mac
    fed,   \* per stream encoder, the updates made
    free,  \* the snapshots not handed out yet
    got    \* what a receiver made of an arrival

vars == <<jobs, stage, work, fed, free, got>>

Smaller(a, b) == IF a <= b THEN a ELSE b
CeilDiv(a, b) == (a + b - 1) \div b
Xor(a, b) == (a \ b) \cup (b \ a)

Flatten(ss) ==
    LET upTo[n \in 0..Len(ss)] == IF n = 0 THEN <<>> ELSE upTo[n - 1] \o ss[n]
    IN  upTo[Len(ss)]

-----------------------------------------------------------------------------
(* The keystream: batches of Group chunks, then a partial batch. *)

BatchBytes == ChunkSize * Group
BatchCount(len) == CeilDiv(len, BatchBytes)
OutBatch(len, b) == Smaller(BatchBytes, len - b * BatchBytes)

\* derive_symbol_key, and its batch for Group consecutive indices.
SymbolKey(snap, index, len) == [i \in 0..(len - 1) |-> {<<snap, index, i>>}]
SymbolKeyBatch(snap, base, len) == [c \in 0..(Group - 1) |-> SymbolKey(snap, base + c, len)]

\* Mutant of BaseChunk: batches are numbered instead of their chunks.
BaseChunkOfBatch(b) == b

BaseChunk(b) == b * Group

\* The keys of batch b of len bytes, per chunk of the batch: all at once when
\* the batch is full, one by one otherwise, the last as long as what is left.
BatchKeys(snap, len, b) ==
    LET n == OutBatch(len, b) IN
    IF n = BatchBytes
    THEN SymbolKeyBatch(snap, BaseChunk(b), ChunkSize)
    ELSE [c \in 0..(CeilDiv(n, ChunkSize) - 1) |->
             SymbolKey(snap, BaseChunk(b) + c, Smaller(n - c * ChunkSize, ChunkSize))]

\* The output with batch b filled in.
Filled(out, snap, input, b) ==
    LET keys == BatchKeys(snap, Len(input), b)
        in(i) == i - 1 - b * BatchBytes
    IN  [i \in 1..Len(input) |->
            IF in(i) \in 0..(OutBatch(Len(input), b) - 1)
            THEN Xor(input[i], keys[in(i) \div ChunkSize][in(i) % ChunkSize])
            ELSE out[i]]

Zeros(n) == [i \in 1..n |-> {}]

\* xor_with_keystream as a whole, as the decoding calls use it.
Keystreamed(snap, input) ==
    LET upTo[b \in 0..BatchCount(Len(input))] ==
          IF b = 0 THEN Zeros(Len(input)) ELSE Filled(upTo[b - 1], snap, input, b - 1)
    IN  upTo[BatchCount(Len(input))]

\* commit and commit_aead: one MAC under one key, which is derived from the
\* snapshot.  Of the two forms commit_aead puts aad_len and aad before the
\* ciphertext; nothing else marks the form.
Covered(aad, cipher) == IF aad = None THEN cipher
                        ELSE <<{<<"len", Len(aad)>>}>> \o aad \o cipher
Commit(snap, aad, cipher) == [snap |-> snap, covered |-> Covered(aad, cipher)]

-----------------------------------------------------------------------------
(* Encoding *)

\* plaintext.chunks(size)
Chunks(text, size) == [k \in 1..CeilDiv(Len(text), size) |->
    SubSeq(text, (k - 1) * size + 1, Smaller(k * size, Len(text)))]

\* Refused at once, before any snapshot is drawn.
Refused(job) ==
    \/ job.form \in {"plain", "split", "aead", "parallel"} /\ job.msgs[1].text = <<>>
    \/ job.form = "parallel" /\ job.size = 0

\* What a call seals, each under a snapshot of its own.
Items(job) ==
    CASE Refused(job) -> <<>>
      [] job.form = "stream" -> <<[text |-> <<>>, aad |-> None]>>
      [] job.form = "parallel" /\ ~Refused(job) ->
           LET parts == Chunks(job.msgs[1].text, job.size)
           IN  [k \in DOMAIN parts |-> [text |-> parts[k], aad |-> job.msgs[1].aad]]
      [] OTHER -> job.msgs

NewItem(m) == [text |-> m.text, aad |-> m.aad, snap |-> None,
               out |-> None, done |-> {}, mac |-> None]

Init ==
    /\ jobs \in Jobs
    /\ stage = [c \in DOMAIN jobs |-> "running"]
    /\ work = [c \in DOMAIN jobs |->
                  [i \in DOMAIN Items(jobs[c]) |-> NewItem(Items(jobs[c])[i])]]
    /\ fed = [c \in DOMAIN jobs |-> 0]
    /\ free = Snapshots
    /\ got = None

Form(c) == jobs[c].form
Running(c) == stage[c] = "running"

\* The rayon task of item i: par_chunks(8) of a batch, one item otherwise.
Task(c, i) == IF Form(c) = "batch"
              THEN {k \in DOMAIN work[c] : (k - 1) \div Group = (i - 1) \div Group}
              ELSE {i}
Before(c, i) == {k \in Task(c, i) : k < i}
Grouped(c, i) == Form(c) = "batch" /\ Cardinality(Task(c, i)) = Group
InOneThread(c, i) == Grouped(c, i) \/ Form(c) = "parallel"

TaskFailed(c, i) == \E k \in Task(c, i) : work[c][k].mac = Failed
Complete(w) == w.done = 0..(BatchCount(Len(w.text)) - 1)

\* It is the turn of item i to get its snapshot: a full group draws all of its
\* snapshots first, the tail of a batch finishes one message after the other.
MayDraw(c, i) ==
    /\ Running(c) /\ work[c][i].snap = None /\ ~TaskFailed(c, i)
    /\ \A k \in Before(c, i) :
           IF Grouped(c, i) THEN work[c][k].snap # None ELSE work[c][k].mac # None

\* Only a full group does not ask whether the message is empty.
RefusesEmpty(c, i) == Form(c) = "batch" /\ ~Grouped(c, i) /\ work[c][i].text = <<>>

Draw(c, i) ==
    /\ MayDraw(c, i) /\ ~RefusesEmpty(c, i)
    /\ \E s \in free :
         /\ free' = free \ {s}
         /\ work' = [work EXCEPT ![c][i].snap = s,
                ![c][i].out = IF Form(c) = "stream" THEN None ELSE Zeros(Len(work[c][i].text))]
    /\ UNCHANGED <<jobs, stage, fed, got>>

\* The message is empty, or gather or the pool reports a failure.
DrawFails(c, i) ==
    /\ MayDraw(c, i)
    /\ work' = [work EXCEPT ![c][i].mac = Failed]
    /\ UNCHANGED <<jobs, stage, fed, free, got>>

\* StreamEncoder::update and finalize.
Update(c) ==
    /\ Form(c) = "stream" /\ Running(c) /\ work[c][1].snap # None
    /\ fed[c] < Len(jobs[c].msgs)
    /\ fed' = [fed EXCEPT ![c] = fed[c] + 1]
    /\ work' = [work EXCEPT ![c][1].text = work[c][1].text \o jobs[c].msgs[fed[c] + 1].text]
    /\ UNCHANGED <<jobs, stage, free, got>>

Finalize(c) ==
    /\ Form(c) = "stream" /\ Running(c) /\ work[c][1].snap # None
    /\ fed[c] = Len(jobs[c].msgs) /\ work[c][1].out = None /\ work[c][1].mac = None
    /\ work' = IF work[c][1].text = <<>>
               THEN [work EXCEPT ![c][1].mac = Failed]
               ELSE [work EXCEPT ![c][1].out = Zeros(Len(work[c][1].text))]
    /\ UNCHANGED <<jobs, stage, fed, free, got>>

\* One batch of the keystream of item i; the parallel form takes the batches
\* in any order.
XorBatch(c, i, b) ==
    LET w == work[c][i] IN
    /\ Running(c) /\ w.out # None /\ w.mac = None
    /\ b \in 0..(BatchCount(Len(w.text)) - 1) /\ b \notin w.done
    /\ InOneThread(c, i) => w.done = 0..(b - 1)
    /\ Grouped(c, i) => /\ \A k \in Task(c, i) : work[c][k].out # None
                        /\ \A k \in Before(c, i) : Complete(work[c][k])
    /\ ~TaskFailed(c, i)
    /\ work' = [work EXCEPT ![c][i].out = Filled(w.out, w.snap, w.text, b),
                            ![c][i].done = w.done \cup {b}]
    /\ UNCHANGED <<jobs, stage, fed, free, got>>

Seal(c, i) ==
    LET w == work[c][i] IN
    /\ Running(c) /\ ~Grouped(c, i) /\ w.out # None /\ w.mac = None /\ Complete(w)
    /\ work' = [work EXCEPT ![c][i].mac = Commit(w.snap, w.aad, w.out)]
    /\ UNCHANGED <<jobs, stage, fed, free, got>>

\* Mutant of GroupCommit: every lane takes the associated data of the first.
GroupCommitFirstAad(c, i, k) ==
    Commit(work[c][k].snap, work[c][i].aad, work[c][k].out)

\* commit_aead_batch_8 for the group that starts at i: the tag of item k.
GroupCommit(c, i, k) == Commit(work[c][k].snap, work[c][k].aad, work[c][k].out)

SealGroup(c, i) ==
    /\ Running(c) /\ Grouped(c, i) /\ Before(c, i) = {}
    /\ \A k \in Task(c, i) :
           LET w == work[c][k] IN w.out # None /\ w.mac = None /\ Complete(w)
    /\ work' = [work EXCEPT ![c] = [k \in DOMAIN work[c] |->
           IF k \in Task(c, i) THEN [work[c][k] EXCEPT !.mac = GroupCommit(c, i, k)]
           ELSE work[c][k]]]
    /\ UNCHANGED <<jobs, stage, fed, free, got>>

\* The tasks are joined: those that began end; after a failure the others need
\* not begin.  A failed batch unwinds, every other call returns its error.
TaskOver(c, i) == TaskFailed(c, i) \/ \A k \in Task(c, i) : work[c][k].mac # None
NotBegun(c, i) == \A k \in Task(c, i) : work[c][k].snap = None /\ work[c][k].mac = None
AnyFailed(c) == \E i \in DOMAIN work[c] : work[c][i].mac = Failed

Return(c) ==
    /\ Running(c)
    /\ \A i \in DOMAIN work[c] : TaskOver(c, i) \/ (AnyFailed(c) /\ NotBegun(c, i))
    /\ stage' = [stage EXCEPT ![c] =
           CASE Refused(jobs[c])                   -> "err"
             [] AnyFailed(c) /\ Form(c) = "batch" -> "panic"
             [] AnyFailed(c) /\ Form(c) # "batch" -> "err"
             [] OTHER                              -> "ok"]
    /\ UNCHANGED <<jobs, work, fed, free, got>>

Encoding == \E c \in DOMAIN jobs :
    \/ Update(c) \/ Finalize(c) \/ Return(c)
    \/ \E i \in DOMAIN work[c] :
         \/ Draw(c, i) \/ DrawFails(c, i) \/ Seal(c, i) \/ SealGroup(c, i)
         \/ \E b \in 0..(BatchCount(Len(work[c][i].text)) - 1) : XorBatch(c, i, b)

-----------------------------------------------------------------------------
(* Decoding *)

PacketOf(w) == [cipher |-> w.out, snap |-> w.snap, aad |-> w.aad, mac |-> w.mac]
Packets(c) == [i \in DOMAIN work[c] |-> PacketOf(work[c][i])]

\* verify, verify_aead; then the keystream again.
Opened(p) == IF p.mac = Commit(p.snap, p.aad, p.cipher)
             THEN Keystreamed(p.snap, p.cipher) ELSE Err

\* decode_aead_batch: in the order of the packets, or the first error.
OpenedAll(packets) ==
    IF \E k \in DOMAIN packets : Opened(packets[k]) = Err THEN Err
    ELSE [k \in DOMAIN packets |-> Opened(packets[k])]

\* Mutant of MerkleRoot: the commitments as a set.
MerkleRootUnordered(blocks) == {blocks[k].mac : k \in DOMAIN blocks}

MerkleRoot(blocks) == [k \in DOMAIN blocks |-> blocks[k].mac]

\* decode_parallel
OpenedParallel(blocks, root) ==
    IF blocks = <<>> \/ MerkleRoot(blocks) # root \/ OpenedAll(blocks) = Err
    THEN Err ELSE Flatten(OpenedAll(blocks))

\* StreamDecoder: the pieces of ciphertext in the order of the updates.
OpenedStream(p, pieces) ==
    IF Flatten(pieces) = <<>> THEN Err ELSE Opened([p EXCEPT !.cipher = Flatten(pieces)])

\* The wire forms, in units: a u32 length, a byte, a snapshot, a commitment.
LenUnit(n) == <<"len", n % LenMod>>
Unit(kind, x) == <<kind, x>>
Bytes(string) == [i \in DOMAIN string |-> Unit("byte", string[i])]
Read(u, kind) == IF u[1] = kind THEN u[2] ELSE None
ReadBytes(us) == [i \in DOMAIN us |-> us[i][2]]

\* There is a length at i, and that many units and n more follow.  Of bytes
\* that are read as a length nothing is known but that what follows them is
\* no packet: the parse is taken to fail where it may fail later.
HasLen(w, i, n) == Len(w) >= i /\ w[i][1] = "len" /\ Len(w) >= i + w[i][2] + n

\* The snapshot and the commitment after the first n units.
TailAt(w, n) == SubSeq(w, n + 1, n + 2)

PlainWire(p) == <<LenUnit(Len(p.cipher))>> \o Bytes(p.cipher)
                   \o <<Unit("snap", p.snap), Unit("mac", p.mac)>>
PlainParse(w) ==
    IF ~HasLen(w, 1, 2) THEN Err
    ELSE LET n == 1 + w[1][2]
         IN  [cipher |-> ReadBytes(SubSeq(w, 2, n)), aad |-> None,
              snap |-> Read(TailAt(w, n)[1], "snap"), mac |-> Read(TailAt(w, n)[2], "mac")]

SealedWire(p) == <<LenUnit(Len(p.cipher))>> \o Bytes(p.cipher) \o <<Unit("mac", p.mac)>>
SealedParse(w, snap) ==
    IF ~HasLen(w, 1, 1) THEN Err
    ELSE LET n == 1 + w[1][2]
         IN  [cipher |-> ReadBytes(SubSeq(w, 2, n)), aad |-> None,
              snap |-> snap, mac |-> Read(w[n + 1], "mac")]

AeadWire(p) == <<LenUnit(Len(p.aad))>> \o Bytes(p.aad) \o PlainWire(p)
AeadParse(w) ==
    IF ~HasLen(w, 1, 0) THEN Err
    ELSE LET n == 1 + w[1][2]
             rest == PlainParse(SubSeq(w, n + 1, Len(w)))
         IN  IF rest = Err THEN Err ELSE [rest EXCEPT !.aad = ReadBytes(SubSeq(w, 2, n))]

ParallelWire(blocks, size) ==
    <<LenUnit(Len(blocks)), LenUnit(size), Unit("root", MerkleRoot(blocks))>>
    \o Flatten([k \in DOMAIN blocks |->
                   <<LenUnit(Len(AeadWire(blocks[k])))>> \o AeadWire(blocks[k])])
\* Blocks are parsed one after the other, each from where the last one ended;
\* after an error nothing is.
ParseBlock(w, s) ==
    IF s = Err THEN Err
    ELSE IF ~HasLen(w, s.at + 1, 0) THEN Err
    ELSE LET end == s.at + 1 + w[s.at + 1][2]
             p == AeadParse(SubSeq(w, s.at + 2, end))
         IN  IF p = Err THEN Err ELSE [at |-> end, blocks |-> Append(s.blocks, p)]

ParallelParse(w) ==
    IF Len(w) < 3 THEN Err
    ELSE LET after[k \in 0..w[1][2]] ==
               IF k = 0 THEN [at |-> 3, blocks |-> <<>>] ELSE ParseBlock(w, after[k - 1])
         IN  after[w[1][2]]

-----------------------------------------------------------------------------
(* What the transport makes of the packets of the calls that returned.  It   *)
(* loses, repeats, swaps and cuts; it mixes parts of two packets, under the  *)
(* root that was sent or one made for the parts.  A packet's fields reach    *)
(* its decoder, or that of another form, as they are.                        *)

Returned(c) == stage[c] = "ok"

Lost(s, k) == SubSeq(s, 1, k - 1) \o SubSeq(s, k + 1, Len(s))
Repeated(s, k) == SubSeq(s, 1, k) \o SubSeq(s, k, Len(s))
Swapped(s, k) == [i \in DOMAIN s |-> CASE i = k -> s[k + 1] [] i = k + 1 -> s[k] [] OTHER -> s[i]]
Mangled(s) ==
    {s} \cup (UNION {{Lost(s, k), Repeated(s, k)} : k \in DOMAIN s})
        \cup {Swapped(s, k) : k \in 1..(Len(s) - 1)}
Replaced(s, others) == {[s EXCEPT ![k] = x] : k \in DOMAIN s, x \in others}

\* Packets with the snapshot of another one, or without their associated data.
Torn(packets) ==
    (UNION {{[packets[i] EXCEPT !.snap = packets[k].snap],
             [packets[i] EXCEPT !.aad = <<>>]} : i, k \in DOMAIN packets})
    \ {packets[i] : i \in DOMAIN packets}

\* want is the message, sealed what the parts that arrive were sealed from.
Receives(want, sealed, intact, result) ==
    /\ got = None
    /\ got' = [want |-> want, sealed |-> sealed, intact |-> intact, result |-> result]
    /\ UNCHANGED <<jobs, stage, work, fed, free>>

Single(c) == Returned(c) /\ Form(c) \in {"plain", "split", "aead", "stream"}

\* decode, decode_split and decode_aead: the snapshot of a split message, which
\* travels on a channel of its own, and the associated data may belong to
\* another message; or the fields are given to the decoder of the form that has
\* associated data, or to the one that has none.
DecodeOne(c, d) ==
    LET p == PacketOf(work[c][1])
        o == PacketOf(work[d][1])
    IN  /\ Single(c) /\ Single(d) /\ Form(c) = Form(d)
        /\ \E s \in {p.snap, o.snap}, a \in {p.aad, o.aad, None, <<>>} :
             Receives(work[c][1].text, work[c][1].text, s = p.snap /\ a = p.aad,
                      Opened([p EXCEPT !.snap = s, !.aad = a]))

DecodeBatch(c) ==
    /\ Returned(c) /\ Form(c) = "batch"
    /\ LET packets == Packets(c)
           texts == [i \in DOMAIN packets |-> work[c][i].text]
       IN  \/ \E order \in Mangled([i \in DOMAIN packets |-> i]) :
                LET sent == [k \in DOMAIN order |-> texts[order[k]]]
                IN  Receives(sent, sent, TRUE,
                             OpenedAll([k \in DOMAIN order |-> packets[order[k]]]))
           \/ \E arrived \in Replaced(packets, Torn(packets)) :
                Receives(texts, texts, FALSE, OpenedAll(arrived))

\* Blocks of one packet, or of two, in place of those of the first: under the
\* root of the first, or under the root that compute_merkle_root finds for them.
DecodeParallel(c, d) ==
    /\ Returned(c) /\ Returned(d) /\ Form(c) = "parallel" /\ Form(d) = "parallel"
    /\ LET own == [k \in DOMAIN work[c] |-> <<c, k>>]
           others == {<<d, k>> : k \in DOMAIN work[d]}
       IN  \E arrived \in Mangled(own) \cup Replaced(own, others) :
             LET items == [k \in DOMAIN arrived |-> work[arrived[k][1]][arrived[k][2]]]
                 blocks == [k \in DOMAIN items |-> PacketOf(items[k])]
                 sent == MerkleRoot(Packets(c))
             IN  \E root \in {sent, MerkleRoot(blocks)} :
                   Receives(jobs[c].msgs[1].text,
                            IF root = sent THEN jobs[c].msgs[1].text
                            ELSE Flatten([k \in DOMAIN items |-> items[k].text]),
                            arrived = own, OpenedParallel(blocks, root))

DecodeStream(c) ==
    /\ Single(c) /\ Form(c) # "aead"
    /\ LET p == PacketOf(work[c][1]) IN
       \E cut \in 0..Len(p.cipher) :
         LET pieces == <<SubSeq(p.cipher, 1, cut), SubSeq(p.cipher, cut + 1, Len(p.cipher))>>
         IN  \E arrived \in Mangled(pieces) :
               Receives(work[c][1].text, work[c][1].text, arrived = pieces,
                        OpenedStream(p, arrived))

\* A connection that breaks, or that goes on with the next packet.
Connection(wire) == {SubSeq(wire, 1, n) : n \in 0..Len(wire)} \cup {wire \o wire}

\* No length of the wire form is too large for its field.
Tells(n) == n < LenMod
LengthsFit(c) ==
    IF Form(c) = "parallel"
    THEN Tells(Len(work[c])) /\ \A k \in DOMAIN work[c] : Tells(Len(AeadWire(Packets(c)[k])))
    ELSE Tells(Len(work[c][1].text)) /\ (Form(c) = "aead" => Tells(Len(work[c][1].aad)))

DecodeWire(c) ==
    /\ Returned(c) /\ Form(c) # "batch"
    /\ LET w == work[c][1]
           wire == CASE Form(c) \in {"plain", "stream"} -> PlainWire(PacketOf(w))
                     [] Form(c) = "split" -> SealedWire(PacketOf(w))
                     [] Form(c) = "aead" -> AeadWire(PacketOf(w))
                     [] Form(c) = "parallel" -> ParallelWire(Packets(c), jobs[c].size)
       IN  \E arrived \in Connection(wire) :
             LET intact == Len(arrived) >= Len(wire) /\ LengthsFit(c) IN
             IF Form(c) = "parallel"
             THEN LET text == jobs[c].msgs[1].text
                      parsed == ParallelParse(arrived)
                  IN  Receives(text, text, intact,
                               IF parsed = Err THEN Err
                               ELSE OpenedParallel(parsed.blocks, arrived[3][2]))
             ELSE LET parsed == CASE Form(c) \in {"plain", "stream"} -> PlainParse(arrived)
                                  [] Form(c) = "split" -> SealedParse(arrived, w.snap)
                                  [] Form(c) = "aead"  -> AeadParse(arrived)
                  IN  Receives(w.text, w.text, intact,
                               IF parsed = Err THEN Err ELSE Opened(parsed))

Decoding == \E c \in DOMAIN jobs :
    \/ DecodeBatch(c) \/ DecodeStream(c) \/ DecodeWire(c)
    \/ \E d \in DOMAIN jobs : DecodeOne(c, d) \/ DecodeParallel(c, d)

\* Everything has returned and something was received: nothing more happens.
Over ==
    /\ \A c \in DOMAIN jobs : ~Running(c)
    /\ got # None \/ \A c \in DOMAIN jobs : ~Returned(c)
    /\ UNCHANGED vars

Next == Encoding \/ Decoding \/ Over

Spec == Init /\ [][Next]_vars
-----------------------------------------------------------------------------
(* Properties *)

\* The symbols that the keystream put on the bytes encoded so far.
KeysOf(c, i) == {<<n, Xor(work[c][i].out[n], work[c][i].text[n])>> :
                    n \in {n \in 1..Len(work[c][i].text) :
                              ((n - 1) \div BatchBytes) \in work[c][i].done}}

\* Every byte of every message of every call is encoded under a key symbol of
\* its own ("every symbol in every message gets a unique ... key stream",
\* kdf.rs:15-16), whichever task, batch or tail encodes it.
KeystreamUsedOnce ==
    \A c, d \in DOMAIN jobs : \A i \in DOMAIN work[c], k \in DOMAIN work[d] :
        \A x \in KeysOf(c, i), y \in KeysOf(d, k) :
            /\ x[2] # {}
            /\ x[2] = y[2] => c = d /\ i = k /\ x[1] = y[1]

\* Pieces or parts of packets that are missing, repeated, out of order or of
\* another message, cut connections, packets given to another form's decoder
\* and lengths that do not fit their fields never decode to anything but the
\* message.  Neither do blocks of a parallel packet under the root they were
\* sent with (codec.rs:909-920); under a root made for the blocks that arrive,
\* they decode to nothing but what these blocks were sealed from, in the order
\* they arrive in.
DecodesOnlySealed == got # None => got.result \in {Err, got.sealed}

\* The documented binding of the chunks: whatever arrives in place of a
\* message's parts, and under whatever root, is that message or an error ("no
\* chunk can be reordered, removed, or replaced without detection",
\* codec.rs:829-830).
ChunksBound == got # None => got.result \in {Err, got.want}

\* What arrives as it was sent decodes to what was encoded, in the order of
\* the packets ("Results are returned in the same order as the input slice",
\* codec.rs:717-718, 798-799), whichever form encoded it, whether its messages are
\* empty or not, and over a connection that goes on with the next packet.
IntactDecodes == got # None /\ got.intact => got.result = got.want
=============================================================================
