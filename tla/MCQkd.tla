--------------------------------- MODULE MCQkd --------------------------------
(* Chunks of two bytes, groups of two, lengths modulo eleven; six qubits.   *)
EXTENDS Qkd

CONSTANTS s1, s2, s3, s4, s5

PlainSymbols == (1..12) \X (1..13)
FiveSnapshots == {s1, s2, s3, s4, s5}

\* Message m of n bytes.
Text(m, n) == [i \in 1..n |-> {<<m, i>>}]
\* Associated data of n bytes.
H1(n) == Text(11, n)
H2(n) == Text(12, n)
Message(m, n, aad) == [text |-> Text(m, n), aad |-> aad]
Call(form, msgs, size) == [form |-> form, msgs |-> msgs, size |-> size]

Plain(m, n)  == Call("plain", <<Message(m, n, None)>>, 0)
Aead(m, n, a) == Call("aead", <<Message(m, n, a)>>, 0)
Parallel(m, n, size) == Call("parallel", <<Message(m, n, H1(1))>>, size)
Stream(m, cuts) == Call("stream", [k \in DOMAIN cuts |-> Message(m + k, cuts[k], None)], 0)
Batch(ns) == Call("batch", [k \in DOMAIN ns |-> Message(k, ns[k], IF k = 1 THEN H1(1) ELSE H2(2))], 0)

\* Bits and bases are relabelled: the first preparation stands for every other.
SixQubits == {[i \in 1..6 |-> [bit |-> FALSE, basis |-> "+"]],
              [i \in 1..6 |-> [bit |-> i % 2 = 0, basis |-> IF i < 4 THEN "+" ELSE "x"]]}

AllJobs ==
    {<<Plain(1, n), Plain(2, n)>> : n \in {0, 4, 7, 11}}
    \cup {<<Aead(1, n, H1(2)), Aead(2, 3, H2(k))>> : n \in {0, 3, 5}, k \in {0, 2}}
    \cup {<<Aead(1, n, H1(k))>> : n \in {2, 11}, k \in {0, 11, 13}}
    \cup {<<Batch(ns)>> : ns \in {<<0, 3>>, <<5, 0, 2>>, <<1, 2, 0>>, <<6, 4>>}}
    \cup {<<Parallel(1, n, size), Parallel(2, 2, 2)>> : n \in {0, 3, 5}, size \in {0, 2}}
    \cup {<<Parallel(1, n, size)>> : n \in {6, 13}, size \in {5, 6, 12}}
    \cup {<<Call("split", <<Message(1, 3, None)>>, 0)>>}
    \cup {<<Stream(1, cuts), Plain(9, 2)>> : cuts \in {<<>>, <<0>>, <<2, 3>>}}

\* One parallel call with two chunks.
ChunkJobs == {<<Parallel(1, 4, 2)>>}
=============================================================================
