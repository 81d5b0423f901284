------------------------------ MODULE ByteFifo ------------------------------
(***************************************************************************)
(* What the receive path promises of each ring: a queue of bounded         *)
(* capacity.  A burst is accepted up to the room left and its tail is      *)
(* dropped; the consumer takes blocks from the front.  Bytes are named by  *)
(* their number among the accepted ones.                                   *)
(***************************************************************************)
EXTENDS Integers, Sequences, SequencesExt

CONSTANTS NRings, Capacity, MaxBurst

VARIABLES queue, taken

Rings == 1 .. NRings

Count(k) == Len(taken[k]) + Len(queue[k])

Init == queue = [k \in Rings |-> <<>>] /\ taken = [k \in Rings |-> <<>>]

Put(k, n) ==
    LET room == Capacity - Len(queue[k])
        m    == IF n <= room THEN n ELSE room
    IN  /\ queue' = [queue EXCEPT ![k] = @ \o [i \in 1 .. m |-> Count(k) + i]]
        /\ UNCHANGED taken

Take(k, n) ==
    /\ taken' = [taken EXCEPT ![k] = @ \o SubSeq(queue[k], 1, n)]
    /\ queue' = [queue EXCEPT ![k] = SubSeq(@, n + 1, Len(@))]

Next == \E k \in Rings :
            \/ \E n \in 1 .. MaxBurst : Put(k, n)
            \/ \E n \in 1 .. Len(queue[k]) : Take(k, n)

Spec == Init /\ [][Next]_<<queue, taken>>
=============================================================================
