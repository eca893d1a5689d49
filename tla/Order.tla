-------------------------------- MODULE Order --------------------------------
(***************************************************************************)
(* What DownloadProfile of lpa/download.go leads the user, the eUICC and   *)
(* the SM-DP+ through, whatever fails on the way: the sessions are opened  *)
(* before the user is asked, the package is bound and installed after the  *)
(* user agreed, and the SM-DP+ drops an order that no eUICC carries out.   *)
(***************************************************************************)

VARIABLES
    agreed,     \* the user agreed to this order, with the code it asks for
    euicc,      \* "idle", "open", or "installed" in this call
    server      \* "idle", "open", "bound" or "canceled"

Init == agreed = FALSE /\ euicc = "idle" /\ server = "idle"

\* A call starts; what the one before it left open stays as it is.
Begin ==
    /\ agreed' = FALSE
    /\ euicc' = IF euicc = "installed" THEN "idle" ELSE euicc
    /\ UNCHANGED server

OpenServer ==
    /\ ~agreed /\ euicc = "idle"
    /\ server' = "open"
    /\ UNCHANGED <<agreed, euicc>>

OpenCard ==
    /\ ~agreed /\ euicc = "idle" /\ server = "open"
    /\ euicc' = "open"
    /\ UNCHANGED <<agreed, server>>

Agree ==
    /\ euicc = "open" /\ server = "open"
    /\ agreed' = TRUE
    /\ UNCHANGED <<euicc, server>>

Bind ==
    /\ agreed /\ euicc = "open" /\ server = "open"
    /\ server' = "bound"
    /\ UNCHANGED <<agreed, euicc>>

Install ==
    /\ agreed /\ euicc = "open" /\ server = "bound"
    /\ euicc' = "installed"
    /\ UNCHANGED <<agreed, server>>

\* The eUICC ends a session, asked to or by a new challenge.
Drop ==
    /\ euicc = "open"
    /\ euicc' = "idle"
    /\ UNCHANGED <<agreed, server>>

Cancel ==
    /\ euicc = "idle" /\ server \in {"open", "bound"}
    /\ server' = "canceled"
    /\ UNCHANGED <<agreed, euicc>>

Next ==
    \/ Begin \/ OpenServer \/ OpenCard \/ Agree \/ Bind \/ Install
    \/ Drop \/ Cancel

Spec == Init /\ [][Next]_<<agreed, euicc, server>>
=============================================================================
