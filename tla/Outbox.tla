------------------------------- MODULE Outbox -------------------------------
(***************************************************************************)
(* What the notifications of an eUICC are promised by SGP.22, as lpa and   *)
(* v2 carry it out: each is kept until its SM-DP+ has it, which may get it *)
(* more than once; none is made up, and none comes back.                   *)
(***************************************************************************)
EXTENDS Integers

VARIABLES
    count,      \* notifications so far, numbered from 1
    kept,       \* those the eUICC has
    delivered   \* those the SM-DP+ has

Init == count = 1 /\ kept = {1} /\ delivered = {}

Make ==
    /\ count' = count + 1 /\ kept' = kept \cup {count + 1}
    /\ UNCHANGED delivered

Deliver(n) ==
    /\ n \in 1..count
    /\ delivered' = delivered \cup {n}
    /\ UNCHANGED <<count, kept>>

Forget(n) ==
    /\ n \in kept /\ n \in delivered
    /\ kept' = kept \ {n}
    /\ UNCHANGED <<count, delivered>>

Next == Make \/ \E n \in 1..count : Deliver(n) \/ Forget(n)

Spec == Init /\ [][Next]_<<count, kept, delivered>>
=============================================================================
