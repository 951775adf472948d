--------------------------- MODULE MCKkPermutation ---------------------------
(* Words of 16 bits: the constants of the code keep their low 16 bits, its   *)
(* rotations are taken modulo 16.                                            *)
EXTENDS KkPermutation, TLC

Defaults == << <<7, 41>>, <<13, 29>>, <<19, 37>>, <<23, 43>>, <<3, 53>>,
               <<11, 47>>, <<17, 39>>, <<5, 59>>, <<31, 49>>, <<9, 51>>,
               <<15, 33>>, <<21, 45>>, <<27, 35>>, <<1, 57>>, <<25, 55>> >>

SmallRotations == [i \in 0..14 |-> [j \in 1..2 |-> Defaults[i + 1][j] % 16]]

\* The low bits of KK_IV, the zero state, a pattern as in the tests, a single bit.
IvLow == <<51464, 42811, 63531, 14065, 33489, 27679, 48491, 8569, 40664,
           54535, 56599, 22841, 2865, 5393, 36775, 20388, 55707, 7701,
           25546, 57837, 47414, 3135, 59896, 44814, 14643>>
Iv      == [w \in 0..24 |-> IvLow[w + 1]]
Zero    == [w \in 0..24 |-> 0]
Pattern == [w \in 0..24 |-> (w * 31765 + 47806) % 65536]
OneBit  == [w \in 0..24 |-> IF w = 13 THEN 1 ELSE 0]

Lanes2(x, y) == (0 :> x) @@ (1 :> y)

TwoPairs == {Lanes2(Iv, Zero), Lanes2(Pattern, OneBit)}
ThreeEntropies == {<<>>, <<6, 130, 255, 64, 0, 9, 77>>, [i \in 1..32 |-> (37 * i) % 256]}
=============================================================================
