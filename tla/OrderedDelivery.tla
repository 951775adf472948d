--------------------------- MODULE OrderedDelivery ---------------------------
(***************************************************************************)
(* What a one-way session promises to the application, whatever the        *)
(* transport does: the receiver takes messages that the sender offered in  *)
(* the same direction, each at most once, in the order they were offered.  *)
(* Messages may be passed over; nothing else may happen.                   *)
(***************************************************************************)
EXTENDS Naturals, Sequences

CONSTANTS
    Contexts,  \* the directions of communication
    Counters,  \* the natural numbers a message can be offered under
    Bodies     \* what a message can say

VARIABLES
    offered,   \* per direction, the set of messages the sender has offered
    taken      \* per direction, the sequence of messages the receiver has taken

vars == <<offered, taken>>

(* A message carries the counter under which it was offered. *)
Message == [counter : Counters, body : Bodies]

Init ==
    /\ offered = [d \in Contexts |-> {}]
    /\ taken   = [d \in Contexts |-> << >>]

(* The sender offers a message under a counter above every one it used. *)
Offer(d) ==
    \E m \in Message :
        /\ \A o \in offered[d] : o.counter < m.counter
        /\ offered' = [offered EXCEPT ![d] = @ \cup {m}]
        /\ UNCHANGED taken

(* The receiver takes an offered message that comes after all it has taken. *)
Take(d) ==
    \E m \in offered[d] :
        /\ \A i \in 1 .. Len(taken[d]) : taken[d][i].counter < m.counter
        /\ taken' = [taken EXCEPT ![d] = Append(@, m)]
        /\ UNCHANGED offered

Next == \E d \in Contexts : Offer(d) \/ Take(d)

Spec == Init /\ [][Next]_vars
=============================================================================
