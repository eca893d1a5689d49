------------------------------ MODULE FdLease -------------------------------
(***************************************************************************)
(* What the acquire/release/Close discipline of driver/qmi/qrtr/conn.go    *)
(* promises: descriptors are leased while the connection is open, Close    *)
(* ends the leasing, and the kernel gets them back after the last lease.   *)
(***************************************************************************)
CONSTANT Users

VARIABLES phase, holders

Init == phase = "open" /\ holders = {}

Acquire(u) ==
    /\ phase = "open" /\ u \notin holders
    /\ holders' = holders \cup {u}
    /\ UNCHANGED phase

Release(u) ==
    /\ u \in holders
    /\ holders' = holders \ {u}
    /\ UNCHANGED phase

Shut ==
    /\ phase = "open"
    /\ phase' = "closing"
    /\ UNCHANGED holders

Free ==
    /\ phase = "closing" /\ holders = {}
    /\ phase' = "freed"
    /\ UNCHANGED holders

Next == Shut \/ Free \/ \E u \in Users : Acquire(u) \/ Release(u)

Spec == Init /\ [][Next]_<<phase, holders>>
=============================================================================
