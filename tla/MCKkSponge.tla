------------------------------ MODULE MCKkSponge ------------------------------
(* Words of four bytes and a rate of three words; two lanes.                 *)
EXTENDS KkSponge

TwoLanes == {1, 2}

\* n bytes that differ with their place, their lane and the argument.
Data(l, p, n) == [i \in 1..n |-> ByteOf((l * 97 + p * 29 + i * 7) % 256)]

Call(kind, simd, parts, domain, outlen, rounds) ==
    [kind |-> kind, simd |-> simd, parts |-> parts, domain |-> domain,
     outlen |-> outlen, rounds |-> rounds]
Both(d) == [l \in TwoLanes |-> d]

KdfCalls == {Call("kdf", simd,
                  [l \in TwoLanes |-> KdfParts(Data(0, 1, k), Data(0, 2, s), Data(l, 3, n[l]))],
                  Both(DomainKdf), len, KdfRounds) :
               simd \in BOOLEAN, k \in {0, 3, 12}, s \in {0, 4, 9},
               n \in {<<0, 0>>, <<3, 3>>, <<2, 13>>, <<8, 5>>}, len \in {0, 12, 13, 37}}

MacCalls == {Call("mac", simd,
                  [l \in TwoLanes |-> MacParts(Data(l, 1, k), Data(l, 2, p), Data(l, 3, n[l]))],
                  Both(DomainMac), 4, FullRounds) :
               simd \in BOOLEAN, k \in {0, 4, 5}, p \in {0, 1, 3, 7},
               n \in {<<0, 0>>, <<1, 1>>, <<3, 3>>, <<8, 8>>, <<12, 12>>, <<20, 20>>,
                      <<24, 24>>, <<31, 31>>, <<5, 13>>}}

MixCalls == {Call("plain", FALSE,
                  [l \in TwoLanes |-> EntropyMixParts(<<Data(l, 1, n), Data(l, 2, 6)>>)],
                  Both(DomainHash), 32, FullRounds) : n \in {0, 8}}

\* Messages that end like a padding, around the end of a block.
Ending == {{}, {0}, {7}, {0, 7}}
Messages == {[i \in 1..n |-> IF i = n THEN e ELSE IF i = n - 1 THEN f ELSE {}] :
               n \in {0, 1, 10, 11, 12, 13}, e \in Ending, f \in Ending}
HashCalls == {Call("plain", FALSE, [l \in TwoLanes |-> HashParts(<<m, n>>[l])],
                   [l \in TwoLanes |-> <<c, d>>[l]], 4, FullRounds) :
               m \in Messages, n \in {x \in Messages : Len(x) \in {0, 11, 12}},
               c \in {DomainHash, DomainKdf}, d \in {DomainHash}}

AllCalls == KdfCalls \cup MacCalls \cup MixCalls \cup HashCalls
=============================================================================
