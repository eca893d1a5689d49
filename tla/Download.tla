------------------------------ MODULE Download ------------------------------
(***************************************************************************)
(* DownloadProfile of lpa/download.go: one action per exchange with the    *)
(* eUICC (an APDU leg) or the SM-DP+ (an HTTP leg), in the order of the    *)
(* code, with what it does when a leg fails, when the user or the context  *)
(* cancels, and when a later call starts over.                             *)
(*                                                                         *)
(* A leg may fail before or after the other side has acted on it.  The     *)
(* eUICC and the SM-DP+ are external: card and server say how far each is  *)
(* in its session.  An eUICC that refuses answers with an error object,    *)
(* which Valid lets through and the client forwards; the server rejects it.*)
(***************************************************************************)
EXTENDS Integers

CONSTANTS
    Segments,  \* segments of the bound profile package
    Replies,   \* what an HTTP leg may end in
    MaxCalls   \* bound on the calls of DownloadProfile

ASSUME SegmentsAssumption == Segments \in Nat \ {0}
ASSUME RepliesAssumption == Replies \subseteq {"ok", "rejected", "unreachable", "noStatus"}
ASSUME MaxCallsAssumption == MaxCalls \in Nat

VARIABLES
    pc,        \* the leg or the check that comes next
    calls,     \* calls of DownloadProfile so far
    ctx,       \* the context is done
    ccRequired, code,  \* confirmation code: asked for by the server; entered
    refused,   \* the eUICC's last answer is an error object
    seg,       \* segments sent
    pending,   \* what cancelSession's caller will return
    outcome,   \* what the last call returned
    card, server,  \* the two sessions
    installed, \* the eUICC installed the profile of this call
    known, consented, early, canceled
               \* history of the call: AuthenticateClient succeeded; the user
               \* agreed; the context was done before the last check; how the
               \* cancellation went

local   == <<calls, ccRequired, code, refused, seg, pending>>
history == <<known, consented, canceled>>
vars    == <<pc, local, ctx, early, outcome, card, server, installed, history>>

InSession == {"authenticated", "prepared", "loading"}
Working   == {"challenge", "info", "initiate", "imei", "authServer", "authClient",
              "metadata", "confirm", "code", "check2", "prepare", "getBPP", "check3"}

TypeOK ==
    /\ pc \in Working \cup {"idle", "segment", "cancelCard", "cancelServer", "panicked"}
    /\ calls \in Nat /\ ctx \in BOOLEAN /\ ccRequired \in BOOLEAN
    /\ code \in {"none", "right", "wrong"} /\ refused \in BOOLEAN
    /\ seg \in 0..Segments
    /\ pending \in {"none", "canceled", "failed", "loadFailed"}
    /\ outcome \in {"none", "installed", "canceled", "failed", "loadFailed"}
    /\ card \in InSession \cup {"idle", "challenged"}
    /\ server \in {"idle", "initiated", "authenticated", "bound", "canceled"}
    /\ installed \in BOOLEAN /\ known \in BOOLEAN /\ consented \in BOOLEAN
    /\ early \in BOOLEAN
    /\ canceled \in {"no", "cardFailed", "serverFailed", "done"}

Init ==
    /\ pc = "idle" /\ calls = 0 /\ ctx = FALSE
    /\ ccRequired = FALSE /\ code = "none" /\ refused = FALSE /\ seg = 0
    /\ pending = "none" /\ outcome = "none"
    /\ card = "idle" /\ server = "idle" /\ installed = FALSE
    /\ known = FALSE /\ consented = FALSE /\ early = FALSE /\ canceled = "no"

-----------------------------------------------------------------------------
(* How a call goes on.                                                     *)

Continue(l) == pc' = l /\ UNCHANGED <<pending, outcome>>
Return(o)   == pc' = "idle" /\ outcome' = o /\ UNCHANGED pending
Panic       == pc' = "panicked" /\ UNCHANGED <<pending, outcome>>

\* cancelSession, for a call that will then return p: abort, or isCanceled.
CancelSession(p) == pc' = "cancelCard" /\ pending' = p /\ UNCHANGED outcome

\* An APDU leg that reaches the eUICC takes it to state took.
CardTakes(took) == card' = took /\ UNCHANGED <<server, installed>>
\* One that fails may still have reached it.
CardMayTake(took) == card' \in {card, took} /\ UNCHANGED <<server, installed>>

ServerTakes(took) == server' = took /\ UNCHANGED <<card, installed>>
ServerMayTake(took) == server' \in {server, took} /\ UNCHANGED <<card, installed>>
NeitherSide == UNCHANGED <<card, server, installed>>

\* InvokeHTTP: a reply is accepted, rejected with its status, lost, or comes
\* without a status, on which FunctionExecutionStatus panics.
InvokeHTTP(accepts, took, Accepted, Rejected, Lost) ==
    \/ "ok" \in Replies /\ accepts /\ ServerTakes(took) /\ Accepted
    \/ "rejected" \in Replies /\ NeitherSide /\ Rejected
    \/ /\ "unreachable" \in Replies
       /\ ServerMayTake(IF accepts THEN took ELSE server) /\ Lost
    \/ "noStatus" \in Replies /\ NeitherSide /\ Panic

-----------------------------------------------------------------------------
(* authenticateClient.                                                     *)

DownloadProfile ==
    /\ pc = "idle" /\ calls < MaxCalls
    /\ calls' = calls + 1
    /\ \/ Continue("challenge")
       \/ Return("failed")                     \* the activation code is invalid
    /\ ctx' = FALSE /\ refused' = FALSE /\ ccRequired' = FALSE /\ seg' = 0
    /\ installed' = FALSE
    /\ known' = FALSE /\ consented' = FALSE /\ early' = FALSE /\ canceled' = "no"
    /\ UNCHANGED <<code, card, server>>

EUICCChallenge ==
    /\ pc = "challenge"
    /\ \/ CardTakes("challenged") /\ Continue("info")
       \/ CardMayTake("challenged") /\ Return("failed")
    /\ UNCHANGED <<calls, ccRequired, code, refused, seg, ctx, early, history>>

EUICCInfo1 ==
    /\ pc = "info"
    /\ Continue("initiate") \/ Return("failed")
    /\ NeitherSide
    /\ UNCHANGED <<calls, ccRequired, code, refused, seg, ctx, early, history>>

InitiateAuthentication ==
    /\ pc = "initiate"
    /\ InvokeHTTP(TRUE, "initiated", Continue("imei"), Return("failed"), Return("failed"))
    /\ UNCHANGED <<calls, ccRequired, code, refused, seg, ctx, early, history>>

NewIMEI ==
    /\ pc = "imei"
    /\ Continue("authServer") \/ Return("failed")
    /\ NeitherSide
    /\ UNCHANGED <<calls, ccRequired, code, refused, seg, ctx, early, history>>

AuthenticateServer ==
    /\ pc = "authServer"
    /\ \/ CardTakes("authenticated") /\ Continue("authClient") /\ refused' = FALSE
       \/ NeitherSide /\ Continue("authClient") /\ refused' = TRUE
       \/ CardMayTake("authenticated") /\ Return("failed") /\ UNCHANGED refused
    /\ UNCHANGED <<calls, ccRequired, code, seg, ctx, early, history>>

\* Mutant: the status of the answer is not looked at.
RejectionIgnored ==
    /\ pc = "authClient"
    /\ InvokeHTTP(~refused, "authenticated", Continue("metadata"), Continue("metadata"), Panic)
    /\ known' = (pc' = "metadata")
    /\ IF pc' = "metadata" THEN ccRequired' \in BOOLEAN ELSE UNCHANGED ccRequired
    /\ UNCHANGED <<calls, code, refused, seg, ctx, early, consented, canceled>>

\* A lost reply leaves a response without a header, whose status is asked for.
AuthenticateClient ==
    /\ pc = "authClient"
    /\ InvokeHTTP(~refused, "authenticated", Continue("metadata"), Return("failed"), Panic)
    /\ known' = (pc' = "metadata")
    /\ IF pc' = "metadata" THEN ccRequired' \in BOOLEAN ELSE UNCHANGED ccRequired
    /\ UNCHANGED <<calls, code, refused, seg, ctx, early, consented, canceled>>

ProfileMetadata ==
    /\ pc = "metadata"
    /\ Continue("confirm") \/ CancelSession("failed")
    /\ NeitherSide
    /\ UNCHANGED <<calls, ccRequired, code, refused, seg, ctx, early, history>>

-----------------------------------------------------------------------------
(* The user, the confirmation code and authenticateServer.                 *)

\* Mutant: OnConfirm's answer is not looked at.
ConfirmIgnored ==
    /\ pc = "confirm" /\ ~ctx
    /\ Continue("code") /\ NeitherSide
    /\ UNCHANGED <<calls, ccRequired, code, refused, seg, ctx, early, history>>

\* isCanceled, then OnConfirm when there is one.
Confirm ==
    /\ pc = "confirm"
    /\ \/ CancelSession("canceled") /\ UNCHANGED consented
       \/ ~ctx /\ Continue("code") /\ consented' = TRUE
    /\ NeitherSide
    /\ UNCHANGED <<calls, ccRequired, code, refused, seg, ctx, early, known, canceled>>

\* The code stays in the ActivationCode, for the next call too.
EnterConfirmationCode ==
    /\ pc = "code"
    /\ \/ /\ ~ccRequired \/ code # "none"
          /\ Continue("check2") /\ UNCHANGED code
       \/ /\ ccRequired /\ code = "none"
          /\ \/ code' \in {"right", "wrong"} /\ Continue("check2")
             \/ CancelSession("failed") /\ UNCHANGED code
    /\ NeitherSide
    /\ UNCHANGED <<calls, ccRequired, refused, seg, ctx, early, history>>

\* Mutant: the context is not looked at again.
CheckSkipped(l, next) ==
    /\ pc = l
    /\ Continue(next) /\ NeitherSide
    /\ UNCHANGED <<calls, ccRequired, code, refused, seg, ctx, early, history>>

\* The two checks of the context, before authenticateServer and install.
CheckContext(l, next) ==
    /\ pc = l
    /\ \/ ctx /\ CancelSession("canceled")
       \/ ~ctx /\ Continue(next)
    /\ NeitherSide
    /\ UNCHANGED <<calls, ccRequired, code, refused, seg, ctx, early, history>>

PrepareDownload ==
    /\ pc = "prepare"
    /\ \/ CardTakes("prepared") /\ Continue("getBPP") /\ refused' = FALSE
       \/ NeitherSide /\ Continue("getBPP") /\ refused' = TRUE
       \/ CardMayTake("prepared") /\ CancelSession("failed") /\ UNCHANGED refused
    /\ UNCHANGED <<calls, ccRequired, code, seg, ctx, early, history>>

\* Mutant: a failed GetBoundProfilePackage is returned without an abort.
GetWithoutAbort ==
    /\ pc = "getBPP"
    /\ InvokeHTTP(~refused /\ (ccRequired => code = "right"), "bound",
                  Continue("check3"), Return("failed"), Return("failed"))
    /\ UNCHANGED <<calls, ccRequired, code, refused, seg, ctx, early, history>>

GetBoundProfilePackage ==
    /\ pc = "getBPP"
    /\ InvokeHTTP(~refused /\ (ccRequired => code = "right"), "bound",
                  Continue("check3"), CancelSession("failed"), CancelSession("failed"))
    /\ UNCHANGED <<calls, ccRequired, code, refused, seg, ctx, early, history>>

-----------------------------------------------------------------------------
(* install.                                                                *)

\* SegmentedBoundProfilePackage rejects the package.
BadPackage ==
    /\ pc = "segment" /\ seg = 0
    /\ CancelSession("failed") /\ NeitherSide
    /\ UNCHANGED <<calls, ccRequired, code, refused, seg, ctx, early, history>>

\* One segment.  Without an answer the next one follows; after the last, the
\* missing answer cannot be parsed.
Segment ==
    /\ pc = "segment" /\ seg < Segments
    /\ seg' = seg + 1
    /\ CardTakes("loading")
    /\ IF seg' = Segments THEN CancelSession("failed") ELSE Continue("segment")
    /\ UNCHANGED <<calls, ccRequired, code, refused, ctx, early, history>>

\* The answer to the last segment: the profile is installed.  Its loss is an
\* error like any other.
LastSegment ==
    /\ pc = "segment" /\ seg + 1 = Segments
    /\ seg' = seg + 1
    /\ card' = "idle" /\ installed' = TRUE /\ UNCHANGED server
    /\ Return("installed") \/ CancelSession("failed")
    /\ UNCHANGED <<calls, ccRequired, code, refused, ctx, early, history>>

\* The answer to any segment: an error result, which install returns as well.
SegmentRejected ==
    /\ pc = "segment" /\ seg < Segments
    /\ seg' = seg + 1
    /\ CardTakes("idle")
    /\ CancelSession("loadFailed")
    /\ UNCHANGED <<calls, ccRequired, code, refused, ctx, early, history>>

SegmentFails ==
    /\ pc = "segment" /\ seg < Segments
    /\ CardMayTake("loading")
    /\ CancelSession("failed")
    /\ UNCHANGED <<calls, ccRequired, code, refused, seg, ctx, early, history>>

-----------------------------------------------------------------------------
(* cancelSession: the eUICC first, which signs what the SM-DP+ is sent.    *)

\* isCanceled's branches return the error of cancelSession itself, abort the
\* error that led to it.
CancelFailed == Return(IF pending = "canceled" THEN "failed" ELSE pending)

\* Mutants: the SM-DP+ is told whatever becomes of the eUICC's answer; its own
\* failure is not reported.
CancelCardIgnored ==
    /\ pc = "cancelCard"
    /\ Continue("cancelServer") /\ NeitherSide /\ refused' = FALSE
    /\ UNCHANGED <<calls, ccRequired, code, seg, ctx, early, history>>

CancelServerIgnored ==
    /\ pc = "cancelServer"
    /\ InvokeHTTP(~refused, "canceled", Return(pending), Return(pending), Return(pending))
    /\ canceled' = IF server' = "canceled" THEN "done" ELSE "serverFailed"
    /\ UNCHANGED <<calls, ccRequired, code, refused, seg, ctx, early, known, consented>>

CancelCard ==
    /\ pc = "cancelCard"
    /\ \/ /\ card \in InSession
          /\ CardTakes("idle") /\ Continue("cancelServer")
          /\ refused' = FALSE /\ UNCHANGED canceled
       \/ /\ card \notin InSession
          /\ NeitherSide /\ Continue("cancelServer")
          /\ refused' = TRUE /\ UNCHANGED canceled
       \/ /\ CardMayTake(IF card \in InSession THEN "idle" ELSE card)
          /\ CancelFailed /\ canceled' = "cardFailed" /\ UNCHANGED refused
    /\ UNCHANGED <<calls, ccRequired, code, seg, ctx, early, known, consented>>

CancelServer ==
    /\ pc = "cancelServer"
    /\ InvokeHTTP(~refused, "canceled", Return(pending), CancelFailed, CancelFailed)
    /\ canceled' = IF server' = "canceled" THEN "done" ELSE "serverFailed"
    /\ UNCHANGED <<calls, ccRequired, code, refused, seg, ctx, early, known, consented>>

-----------------------------------------------------------------------------
\* The caller cancels the context of a running call.
ContextDone ==
    /\ pc \notin {"idle", "panicked"} /\ ~ctx
    /\ ctx' = TRUE
    /\ early' = (pc \in Working)
    /\ UNCHANGED <<pc, local, outcome, card, server, installed, history>>

Next ==
    \/ DownloadProfile \/ EUICCChallenge \/ EUICCInfo1 \/ InitiateAuthentication
    \/ NewIMEI \/ AuthenticateServer \/ AuthenticateClient \/ ProfileMetadata
    \/ Confirm \/ EnterConfirmationCode \/ CheckContext("check2", "prepare")
    \/ PrepareDownload \/ GetBoundProfilePackage \/ CheckContext("check3", "segment")
    \/ BadPackage \/ Segment \/ LastSegment \/ SegmentRejected \/ SegmentFails
    \/ CancelCard \/ CancelServer \/ ContextDone

Spec == Init /\ [][Next]_vars

-----------------------------------------------------------------------------
(* Properties.                                                             *)

\* A profile is installed only with the user's consent and, if the server asks
\* for it, the right confirmation code, whatever was entered in earlier calls.
InstalledWithConsent ==
    installed => consented /\ (ccRequired => code = "right")

\* A context that is done while DownloadProfile has not yet passed its last
\* check keeps every segment of the package off the card.
CanceledInTime == early => seg = 0 /\ ~installed

\* Once AuthenticateClient has succeeded, every way out of DownloadProfile but
\* success has tried to cancel the session.
NoSessionForgotten ==
    pc = "idle" /\ known => outcome = "installed" \/ canceled # "no"

\* The SM-DP+ drops a session only after the eUICC has, and never one whose
\* profile the eUICC installed: cancelSession asks the eUICC first.
CardCanceledFirst ==
    server = "canceled" => card \notin InSession /\ ~installed

\* DownloadProfile returns no error only with the profile installed, or with no
\* result and the session dropped on both sides.
NilErrorMeansSettled ==
    /\ pc = "idle" /\ outcome = "installed" => installed /\ server = "bound"
    /\ pc = "idle" /\ outcome = "canceled" =>
           server = "canceled" /\ card = "idle" /\ ~installed

\* A refinement of Order: the steps of the user, the eUICC and the SM-DP+ come in
\* its order in every call, the first or a later one, whatever fails.
Agreed == consented /\ (ccRequired => code = "right")
EUICC  == IF installed THEN "installed" ELSE IF card \in InSession THEN "open" ELSE "idle"
Server == IF server \in {"initiated", "authenticated"} THEN "open" ELSE server

Ord == INSTANCE Order WITH agreed <- Agreed, euicc <- EUICC, server <- Server

OrderSpec == Ord!Spec

\* A failed exchange makes DownloadProfile return an error: the guard of its
\* first abort allows for a response without a status.
NeverPanics == pc # "panicked"
=============================================================================
