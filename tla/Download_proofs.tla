--------------------------- MODULE Download_proofs --------------------------
(***************************************************************************)
(* Proofs about Download, for any number of segments and of calls, and any *)
(* set of HTTP outcomes.  Progress says what each point of DownloadProfile *)
(* has established; Settled what a call that is over, or is being          *)
(* cancelled, leaves behind.  Led says how far the two sessions are at     *)
(* each point, which is why every step is one of Order or none.            *)
(*                                                                         *)
(* Then about the octets it exchanges.  The lengths, tags, integers, bit   *)
(* strings and digits of Bertlv: what is written is read back, whatever    *)
(* follows it, and where it is not.                                        *)
(*                                                                         *)
(* Then about Codec, for all trees, packages, values and octets.  Its      *)
(* functions are recursive over trees and over positions, so that first    *)
(* each is shown to exist and to be what its recursion says.  Induction is *)
(* over sets (a set of numbers that has 0 and the successors of its        *)
(* members has all), from the well-foundedness of the order of numbers;    *)
(* AllSequences and AllTrees are the same for sequences and trees.         *)
(* WrittenIsRead is by induction over the tree, ListSettles and ListLonger *)
(* over the position, from the end.  CodecIInv says whose the octets are.  *)
(***************************************************************************)
EXTENDS Download, Codec, SequenceTheorems, WellFoundedInduction, TLAPS

BeforeAnswer  == {"challenge", "info", "initiate", "imei", "authServer", "authClient"}
AfterConsent  == {"code", "check2", "prepare", "getBPP", "check3", "segment"}
AfterInitiate == (Working \ {"challenge", "info", "initiate"}) \cup {"segment"}

\* What DownloadProfile knows where it stands.
Progress ==
    /\ pc \in BeforeAnswer => ~known
    /\ pc \in AfterConsent => consented
    /\ pc \in {"check3", "segment"} => server = "bound" /\ (ccRequired => code = "right")
    /\ pc \in AfterInitiate => server # "canceled"
    /\ pc \in Working => seg = 0 /\ ~installed
    /\ pc = "segment" => ~installed /\ ~early
    /\ early => ctx

\* The eUICC's session and the profile it installed.
Settled ==
    /\ installed => card = "idle"
    /\ pc = "cancelServer" /\ ~refused => card = "idle" /\ ~installed

IInv == /\ TypeOK /\ Progress /\ Settled
        /\ InstalledWithConsent /\ CanceledInTime /\ NoSessionForgotten
        /\ CardCanceledFirst /\ NilErrorMeansSettled

LEMMA IInvInit == Init => IInv
<1>1. Init => TypeOK
  <2>1. Init => 0 \in 0..Segments
    BY SegmentsAssumption
  <2>2. Init => /\ ctx \in BOOLEAN /\ ccRequired \in BOOLEAN /\ refused \in BOOLEAN
                /\ installed \in BOOLEAN /\ known \in BOOLEAN /\ consented \in BOOLEAN
                /\ early \in BOOLEAN
    BY Zenon DEF Init
  <2> QED BY <2>1, <2>2 DEF Init, TypeOK
<1>2. Init => Progress /\ Settled
  BY DEF Init, Progress, Settled, Working, BeforeAnswer, AfterConsent, AfterInitiate
<1>3. Init => /\ InstalledWithConsent /\ CanceledInTime /\ NoSessionForgotten
              /\ CardCanceledFirst /\ NilErrorMeansSettled
  BY DEF Init, InstalledWithConsent, CanceledInTime, NoSessionForgotten,
     CardCanceledFirst, NilErrorMeansSettled
<1> QED BY <1>1, <1>2, <1>3 DEF IInv

\* authenticateClient keeps the invariant.
LEMMA AuthenticateKeeps ==
    ASSUME IInv,
           \/ DownloadProfile \/ EUICCChallenge \/ EUICCInfo1 \/ InitiateAuthentication
           \/ NewIMEI \/ AuthenticateServer \/ AuthenticateClient \/ ProfileMetadata
    PROVE  IInv'
<1> USE SegmentsAssumption
    DEF IInv, TypeOK, Progress, Settled, InstalledWithConsent, CanceledInTime,
        NoSessionForgotten, CardCanceledFirst, NilErrorMeansSettled, Working,
        BeforeAnswer, AfterConsent, AfterInitiate, InSession, history,
        Continue, Return, Panic, CancelSession, CardTakes, CardMayTake,
        ServerTakes, ServerMayTake, NeitherSide, InvokeHTTP
<1>1. CASE DownloadProfile
  <2>1. TypeOK'
    <3>1. /\ ctx' \in BOOLEAN /\ refused' \in BOOLEAN /\ ccRequired' \in BOOLEAN
          /\ installed' \in BOOLEAN /\ known' \in BOOLEAN /\ consented' \in BOOLEAN
          /\ early' \in BOOLEAN
      BY <1>1, Zenon DEF DownloadProfile
    <3>2. seg' \in 0..Segments /\ calls' \in Nat /\ canceled' = "no"
      BY <1>1 DEF DownloadProfile
    <3> QED BY <1>1, <3>1, <3>2 DEF DownloadProfile
  <2>2. Progress' /\ Settled'
    BY <1>1 DEF DownloadProfile
  <2>3. InstalledWithConsent' /\ CanceledInTime' /\ NoSessionForgotten'
    BY <1>1 DEF DownloadProfile
  <2>4. CardCanceledFirst' /\ NilErrorMeansSettled'
    BY <1>1 DEF DownloadProfile
  <2> QED BY <2>1, <2>2, <2>3, <2>4
<1>2. CASE EUICCChallenge
  BY <1>2 DEF EUICCChallenge
<1>3. CASE EUICCInfo1
  BY <1>3 DEF EUICCInfo1
<1>4. CASE InitiateAuthentication
  BY <1>4 DEF InitiateAuthentication
<1>5. CASE NewIMEI
  BY <1>5 DEF NewIMEI
<1>6. CASE AuthenticateServer
  <2>0. refused' = refused \/ refused' = TRUE \/ refused' = FALSE
    BY <1>6, Zenon DEF AuthenticateServer
  <2>1. TypeOK'
    <3>1. refused' \in BOOLEAN
      BY <2>0
    <3> QED BY <1>6, <3>1 DEF AuthenticateServer
  <2>2. Progress' /\ Settled'
    BY <1>6 DEF AuthenticateServer
  <2>3. InstalledWithConsent' /\ CanceledInTime' /\ NoSessionForgotten'
    BY <1>6 DEF AuthenticateServer
  <2>4. CardCanceledFirst' /\ NilErrorMeansSettled'
    BY <1>6 DEF AuthenticateServer
  <2> QED BY <2>1, <2>2, <2>3, <2>4
<1>7. CASE AuthenticateClient
  BY <1>7 DEF AuthenticateClient
<1>8. CASE ProfileMetadata
  BY <1>8 DEF ProfileMetadata
<1> QED BY <1>1, <1>2, <1>3, <1>4, <1>5, <1>6, <1>7, <1>8

\* The confirmation, authenticateServer and the checks of the context do.
LEMMA PrepareKeeps ==
    ASSUME IInv,
           \/ Confirm \/ EnterConfirmationCode \/ CheckContext("check2", "prepare")
           \/ PrepareDownload \/ GetBoundProfilePackage \/ CheckContext("check3", "segment")
           \/ ContextDone
    PROVE  IInv'
<1> USE SegmentsAssumption
    DEF IInv, TypeOK, Progress, Settled, InstalledWithConsent, CanceledInTime,
        NoSessionForgotten, CardCanceledFirst, NilErrorMeansSettled, Working,
        BeforeAnswer, AfterConsent, AfterInitiate, InSession, history, local,
        Continue, Return, Panic, CancelSession, CardTakes, CardMayTake,
        ServerTakes, ServerMayTake, NeitherSide, InvokeHTTP
<1>1. CASE Confirm
  <2>0. consented' = consented \/ consented' = TRUE \/ consented' = FALSE
    BY <1>1, Zenon DEF Confirm
  <2>1. TypeOK'
    <3>1. consented' \in BOOLEAN
      BY <2>0
    <3> QED BY <1>1, <3>1 DEF Confirm
  <2>2. Progress' /\ Settled'
    BY <1>1 DEF Confirm
  <2>3. InstalledWithConsent' /\ CanceledInTime' /\ NoSessionForgotten'
    BY <1>1 DEF Confirm
  <2>4. CardCanceledFirst' /\ NilErrorMeansSettled'
    BY <1>1 DEF Confirm
  <2> QED BY <2>1, <2>2, <2>3, <2>4
<1>2. CASE EnterConfirmationCode
  BY <1>2 DEF EnterConfirmationCode
<1>3. CASE CheckContext("check2", "prepare")
  BY <1>3 DEF CheckContext
<1>4. CASE PrepareDownload
  <2>0. refused' = refused \/ refused' = TRUE \/ refused' = FALSE
    BY <1>4, Zenon DEF PrepareDownload
  <2>1. TypeOK'
    <3>1. refused' \in BOOLEAN
      BY <2>0
    <3> QED BY <1>4, <3>1 DEF PrepareDownload
  <2>2. Progress' /\ Settled'
    BY <1>4 DEF PrepareDownload
  <2>3. InstalledWithConsent' /\ CanceledInTime' /\ NoSessionForgotten'
    BY <1>4 DEF PrepareDownload
  <2>4. CardCanceledFirst' /\ NilErrorMeansSettled'
    BY <1>4 DEF PrepareDownload
  <2> QED BY <2>1, <2>2, <2>3, <2>4
<1>5. CASE GetBoundProfilePackage
  BY <1>5 DEF GetBoundProfilePackage
<1>6. CASE CheckContext("check3", "segment")
  BY <1>6 DEF CheckContext
<1>7. CASE ContextDone
  BY <1>7 DEF ContextDone
<1> QED BY <1>1, <1>2, <1>3, <1>4, <1>5, <1>6, <1>7

\* install and cancelSession do.
LEMMA InstallKeeps ==
    ASSUME IInv,
           \/ BadPackage \/ Segment \/ LastSegment \/ SegmentRejected \/ SegmentFails
           \/ CancelCard \/ CancelServer
    PROVE  IInv'
<1> USE SegmentsAssumption
    DEF IInv, TypeOK, Progress, Settled, InstalledWithConsent, CanceledInTime,
        NoSessionForgotten, CardCanceledFirst, NilErrorMeansSettled, Working,
        BeforeAnswer, AfterConsent, AfterInitiate, InSession, history,
        Continue, Return, Panic, CancelSession, CardTakes, CardMayTake,
        ServerTakes, ServerMayTake, NeitherSide, InvokeHTTP, CancelFailed
<1>1. CASE BadPackage
  BY <1>1 DEF BadPackage
<1>2. CASE Segment
  BY <1>2 DEF Segment
<1>3. CASE LastSegment
  BY <1>3 DEF LastSegment
<1>4. CASE SegmentRejected
  BY <1>4 DEF SegmentRejected
<1>5. CASE SegmentFails
  BY <1>5 DEF SegmentFails
<1>6. CASE CancelCard
  <2>0. refused' = refused \/ refused' = TRUE \/ refused' = FALSE
    BY <1>6, Zenon DEF CancelCard
  <2>1. TypeOK'
    <3>1. refused' \in BOOLEAN
      BY <2>0
    <3> QED BY <1>6, <3>1 DEF CancelCard
  <2>2. Progress' /\ Settled'
    BY <1>6 DEF CancelCard
  <2>3. InstalledWithConsent' /\ CanceledInTime' /\ NoSessionForgotten'
    BY <1>6 DEF CancelCard
  <2>4. CardCanceledFirst' /\ NilErrorMeansSettled'
    BY <1>6 DEF CancelCard
  <2> QED BY <2>1, <2>2, <2>3, <2>4
<1>7. CASE CancelServer
  BY <1>7 DEF CancelServer
<1> QED BY <1>1, <1>2, <1>3, <1>4, <1>5, <1>6, <1>7

LEMMA IInvStep == IInv /\ [Next]_vars => IInv'
<1> SUFFICES ASSUME IInv, [Next]_vars PROVE IInv'
  OBVIOUS
<1>1. CASE Next
  BY <1>1, AuthenticateKeeps, PrepareKeeps, InstallKeeps DEF Next
<1>2. CASE UNCHANGED vars
  BY <1>2 DEF vars, local, history, IInv, TypeOK, Progress, Settled, InstalledWithConsent,
     CanceledInTime, NoSessionForgotten, CardCanceledFirst, NilErrorMeansSettled
<1> QED BY <1>1, <1>2

LEMMA IInvAlways == Spec => []IInv
BY IInvInit, IInvStep, PTL DEF Spec

-----------------------------------------------------------------------------
\* Type correctness of the download session.
THEOREM TypeCorrect == Spec => []TypeOK
<1>1. IInv => TypeOK
  BY DEF IInv
<1> QED BY <1>1, IInvAlways, PTL

\* No profile is installed without the consent and the code it asks for.
THEOREM NothingUnwanted == Spec => []InstalledWithConsent
<1>1. IInv => InstalledWithConsent
  BY DEF IInv
<1> QED BY <1>1, IInvAlways, PTL

\* A context that ends before the package is loaded keeps it off the card.
THEOREM NothingAfterCancel == Spec => []CanceledInTime
<1>1. IInv => CanceledInTime
  BY DEF IInv
<1> QED BY <1>1, IInvAlways, PTL

\* Whatever fails, an authenticated session is cancelled or was tried to be.
THEOREM SessionsClosed == Spec => []NoSessionForgotten
<1>1. IInv => NoSessionForgotten
  BY DEF IInv
<1> QED BY <1>1, IInvAlways, PTL

\* The eUICC is told of a cancellation before the SM-DP+.
THEOREM CardFirst == Spec => []CardCanceledFirst
<1>1. IInv => CardCanceledFirst
  BY DEF IInv
<1> QED BY <1>1, IInvAlways, PTL

\* A call without an error has installed the profile or settled the session.
THEOREM NilErrorSettled == Spec => []NilErrorMeansSettled
<1>1. IInv => NilErrorMeansSettled
  BY DEF IInv
<1> QED BY <1>1, IInvAlways, PTL

-----------------------------------------------------------------------------
(* DownloadProfile leads the three parties in the order of Order.          *)

BothOpen == {"metadata", "confirm", "code", "check2", "prepare"}

\* How far the two sessions are at each point of DownloadProfile, and that the
\* user is asked once they are open.
Led ==
    /\ pc \in BeforeAnswer \cup {"metadata", "confirm"} => ~consented
    /\ pc \in {"info", "initiate", "imei", "authServer"} => card = "challenged"
    /\ pc \in {"imei", "authServer", "authClient"} => server = "initiated"
    /\ pc = "authClient" /\ ~refused => card = "authenticated"
    /\ pc \in BothOpen => card = "authenticated"
    /\ pc \in BothOpen \cup {"getBPP"} => server = "authenticated"
    /\ pc = "getBPP" /\ ~refused => card = "prepared"
    /\ pc \in {"check3", "segment"} => card \in {"prepared", "loading"}
    /\ pc \in {"cancelCard", "cancelServer"} => server \in {"authenticated", "bound"}

\* Each step of DownloadProfile leaves the sessions where the next one needs them.
LEMMA LedKept ==
    ASSUME IInv, Led, Next
    PROVE  Led'
<1> USE DEF IInv, TypeOK, Progress, Settled, Led, BothOpen, Working, BeforeAnswer,
        AfterConsent, AfterInitiate, InSession, history, local, Continue, Return, Panic,
        CancelSession, CardTakes, CardMayTake, ServerTakes, ServerMayTake, NeitherSide,
        InvokeHTTP, CancelFailed
<1>1. CASE DownloadProfile \/ EUICCChallenge \/ EUICCInfo1
  BY <1>1 DEF DownloadProfile, EUICCChallenge, EUICCInfo1
<1>2. CASE InitiateAuthentication \/ NewIMEI
  BY <1>2 DEF InitiateAuthentication, NewIMEI
<1>3. CASE AuthenticateServer
  BY <1>3 DEF AuthenticateServer
<1>4. CASE AuthenticateClient
  BY <1>4 DEF AuthenticateClient
<1>5. CASE ProfileMetadata
  BY <1>5 DEF ProfileMetadata
<1>6. CASE Confirm
  BY <1>6 DEF Confirm
<1>7. CASE EnterConfirmationCode
  BY <1>7 DEF EnterConfirmationCode
<1>8. CASE CheckContext("check2", "prepare") \/ CheckContext("check3", "segment")
  BY <1>8 DEF CheckContext
<1>9. CASE PrepareDownload
  BY <1>9 DEF PrepareDownload
<1>10. CASE GetBoundProfilePackage
  BY <1>10 DEF GetBoundProfilePackage
<1>11. CASE BadPackage \/ Segment \/ LastSegment \/ SegmentRejected \/ SegmentFails
  BY <1>11 DEF BadPackage, Segment, LastSegment, SegmentRejected, SegmentFails
<1>12. CASE CancelCard
  BY <1>12 DEF CancelCard
<1>13. CASE CancelServer
  BY <1>13 DEF CancelServer
<1>14. CASE ContextDone
  BY <1>14 DEF ContextDone
<1> QED BY <1>1, <1>2, <1>3, <1>4, <1>5, <1>6, <1>7, <1>8, <1>9, <1>10, <1>11, <1>12,
           <1>13, <1>14 DEF Next

Seen == <<Agreed, EUICC, Server>>

\* Until the user is asked, the sessions are opened, the SM-DP+'s first.
LEMMA OpenSteps ==
    ASSUME IInv, Led,
           \/ DownloadProfile \/ EUICCChallenge \/ EUICCInfo1 \/ InitiateAuthentication
           \/ NewIMEI \/ AuthenticateServer \/ AuthenticateClient \/ ProfileMetadata
    PROVE  Ord!Next \/ UNCHANGED Seen
<1> USE DEF IInv, TypeOK, Settled, Progress, Led, BothOpen, BeforeAnswer, InSession, history,
        local, Continue, Return, Panic, CancelSession, CardTakes, CardMayTake, ServerTakes,
        ServerMayTake, NeitherSide, InvokeHTTP, Working
<1>1. CASE DownloadProfile
  BY <1>1 DEF DownloadProfile, Ord!Next, Ord!Begin, Agreed, EUICC, Server
<1>2. CASE EUICCChallenge
  BY <1>2 DEF EUICCChallenge, Ord!Next, Ord!Drop, Agreed, EUICC, Server, Seen
<1>3. CASE InitiateAuthentication
  BY <1>3 DEF InitiateAuthentication, Ord!Next, Ord!OpenServer, Agreed, EUICC, Server, Seen
<1>4. CASE AuthenticateServer
  BY <1>4 DEF AuthenticateServer, Ord!Next, Ord!OpenCard, Agreed, EUICC, Server, Seen
<1>5. CASE AuthenticateClient
  BY <1>5 DEF AuthenticateClient, Agreed, EUICC, Server, Seen
<1>6. CASE EUICCInfo1 \/ NewIMEI \/ ProfileMetadata
  BY <1>6 DEF EUICCInfo1, NewIMEI, ProfileMetadata, Agreed, EUICC, Server, Seen
<1> QED BY <1>1, <1>2, <1>3, <1>4, <1>5, <1>6

\* Then the user agrees, and the SM-DP+ binds the package to this eUICC.
LEMMA BindSteps ==
    ASSUME IInv, Led,
           \/ Confirm \/ EnterConfirmationCode \/ CheckContext("check2", "prepare")
           \/ PrepareDownload \/ GetBoundProfilePackage \/ CheckContext("check3", "segment")
           \/ ContextDone
    PROVE  Ord!Next \/ UNCHANGED Seen
<1> USE DEF IInv, TypeOK, Settled, Progress, Led, BothOpen, AfterConsent, InSession, history,
        local, Continue, Return, Panic, CancelSession, CardTakes, CardMayTake, ServerTakes,
        ServerMayTake, NeitherSide, InvokeHTTP, Working
<1>1. CASE Confirm
  BY <1>1 DEF Confirm, Ord!Next, Ord!Agree, Agreed, EUICC, Server, Seen
<1>2. CASE EnterConfirmationCode
  BY <1>2 DEF EnterConfirmationCode, Ord!Next, Ord!Agree, Agreed, EUICC, Server, Seen
<1>3. CASE PrepareDownload
  BY <1>3 DEF PrepareDownload, Agreed, EUICC, Server, Seen
<1>4. CASE GetBoundProfilePackage
  BY <1>4 DEF GetBoundProfilePackage, Ord!Next, Ord!Bind, Agreed, EUICC, Server, Seen
<1>5. CASE \/ CheckContext("check2", "prepare") \/ CheckContext("check3", "segment")
           \/ ContextDone
  BY <1>5 DEF CheckContext, ContextDone, Agreed, EUICC, Server, Seen
<1> QED BY <1>1, <1>2, <1>3, <1>4, <1>5

\* Then the eUICC installs the profile, or drops its session before the SM-DP+.
LEMMA InstallSteps ==
    ASSUME IInv, Led,
           \/ BadPackage \/ Segment \/ LastSegment \/ SegmentRejected \/ SegmentFails
           \/ CancelCard \/ CancelServer
    PROVE  Ord!Next \/ UNCHANGED Seen
<1> USE DEF IInv, TypeOK, Settled, Progress, Led, AfterConsent, InSession, history,
        Continue, Return, Panic, CancelSession, CardTakes, CardMayTake, ServerTakes,
        ServerMayTake, NeitherSide, InvokeHTTP, CancelFailed
<1>1. CASE BadPackage \/ Segment \/ SegmentFails
  BY <1>1 DEF BadPackage, Segment, SegmentFails, Agreed, EUICC, Server, Seen
<1>2. CASE LastSegment
  BY <1>2 DEF LastSegment, Ord!Next, Ord!Install, Agreed, EUICC, Server, Seen
<1>3. CASE SegmentRejected
  BY <1>3 DEF SegmentRejected, Ord!Next, Ord!Drop, Agreed, EUICC, Server, Seen
<1>4. CASE CancelCard
  BY <1>4 DEF CancelCard, Ord!Next, Ord!Drop, Agreed, EUICC, Server, Seen
<1>5. CASE CancelServer
  BY <1>5 DEF CancelServer, Ord!Next, Ord!Cancel, Agreed, EUICC, Server, Seen
<1> QED BY <1>1, <1>2, <1>3, <1>4, <1>5

\* In every call and whatever fails, the user agrees to open sessions, the
\* SM-DP+ binds and the eUICC installs what the user agreed to, and the SM-DP+
\* cancels what the eUICC has dropped: DownloadProfile implements Order.
THEOREM ImplementsOrder == Spec => OrderSpec
<1>1. Init => Ord!Init
  BY DEF Init, Ord!Init, Agreed, EUICC, Server, InSession
<1>2. Init => Led
  BY DEF Init, Led, BothOpen, BeforeAnswer
<1>3. IInv /\ Led /\ [Next]_vars => Led'
  <2>1. Led /\ UNCHANGED vars => Led'
    BY DEF Led, vars, local, history
  <2> QED BY <2>1, LedKept
<1>4. IInv /\ Led /\ [Next]_vars => [Ord!Next]_Seen
  <2>1. UNCHANGED vars => UNCHANGED Seen
    BY DEF vars, local, history, Seen, Agreed, EUICC, Server
  <2> QED BY <2>1, OpenSteps, BindSteps, InstallSteps DEF Next
<1> QED BY <1>1, <1>2, <1>3, <1>4, IInvAlways, PTL DEF Spec, OrderSpec, Ord!Spec, Seen

-----------------------------------------------------------------------------
(* The octets of what is sent.                                             *)

Lengths == {n \in Nat : n < 16777216}
TagNumbers == {v \in Nat : v <= MaxTagNumber}

-----------------------------------------------------------------------------
(* What readLength makes of each form.                                     *)

\* A length below 128 is its own octet.
LEMMA ReadShortForm ==
    ASSUME NEW s \in Seq(Nat), Len(s) >= 1, s[1] < 128
    PROVE  ReadLength(s, 1) = [ok |-> TRUE, value |-> s[1], next |-> 2]
<1>1. s[1] \in Nat /\ s[1] \notin 129..131 /\ ~(1 > Len(s)) /\ ~(s[1] >= 128)
  BY SMT
<1> QED
  BY SMT, <1>1 DEF ReadLength

\* The form of one octet, 81.
LEMMA ReadOneOctet ==
    ASSUME NEW s \in Seq(Nat), Len(s) >= 2, s[1] = 129
    PROVE  ReadLength(s, 1) = [ok |-> TRUE, value |-> s[2], next |-> 3]
<1>1. s[1] \in 129..131 /\ ~(1 > Len(s)) /\ s[1] - 128 = 1
  BY SMT
<1> QED
  BY SMT, <1>1 DEF ReadLength

\* The form of two octets, 82.
LEMMA ReadTwoOctets ==
    ASSUME NEW s \in Seq(Nat), Len(s) >= 3, s[1] = 130
    PROVE  ReadLength(s, 1) = [ok |-> TRUE, value |-> s[2] * 256 + s[3], next |-> 4]
<1>1. s[1] \in 129..131 /\ ~(1 > Len(s)) /\ s[1] - 128 = 2 /\ s[2] \in Nat /\ s[3] \in Nat
  BY SMT
<1> QED
  BY SMT, <1>1 DEF ReadLength

\* The form of three octets, 83.
LEMMA ReadThreeOctets ==
    ASSUME NEW s \in Seq(Nat), Len(s) >= 4, s[1] = 131
    PROVE  ReadLength(s, 1)
             = [ok |-> TRUE, value |-> s[2] * 65536 + s[3] * 256 + s[4], next |-> 5]
<1>1. /\ s[1] \in 129..131 /\ ~(1 > Len(s)) /\ s[1] - 128 = 3
      /\ s[2] \in Nat /\ s[3] \in Nat /\ s[4] \in Nat
  BY SMT
<1> QED
  BY SMT, <1>1 DEF ReadLength

-----------------------------------------------------------------------------
(* What marshalLength writes.                                              *)

\* The octets of a length make the length.
LEMMA LengthDigits ==
    ASSUME NEW n \in Lengths
    PROVE  /\ n % 256 \in Octet /\ (n \div 256) % 256 \in Octet
           /\ n \div 65536 \in Octet
           /\ n < 65536 => n \div 256 \in Octet /\ (n \div 256) * 256 + (n % 256) = n
           /\ (n \div 65536) * 65536 + ((n \div 256) % 256) * 256 + (n % 256) = n
BY SMT DEF Lengths, Octet

\* A length that marshalLength wrote is read back by readLength, with the
\* position after it, whatever octets follow.
THEOREM LengthReadsBack ==
    ASSUME NEW n \in Lengths, NEW rest \in Seq(Nat)
    PROVE  ReadLength(MarshalLength(n) \o rest, 1)
             = [ok |-> TRUE, value |-> n, next |-> Len(MarshalLength(n)) + 1]
<1> n \in Nat
  BY DEF Lengths
<1> DEFINE s == MarshalLength(n) \o rest
<1>1. CASE n < 128
  <2>1. MarshalLength(n) = <<n>>
    BY SMT, <1>1 DEF MarshalLength
  <2>2. s \in Seq(Nat) /\ Len(s) >= 1 /\ s[1] = n /\ Len(MarshalLength(n)) = 1
    BY SMT, <2>1
  <2> HIDE DEF s
  <2>3. ReadLength(s, 1) = [ok |-> TRUE, value |-> s[1], next |-> 2]
    BY SMT, <1>1, <2>2, ReadShortForm
  <2> QED
    BY SMT, <2>2, <2>3 DEF s
<1>2. CASE n >= 128 /\ n < 256
  <2>1. MarshalLength(n) = <<129, n>>
    BY SMT, <1>2 DEF MarshalLength
  <2>2. /\ s \in Seq(Nat) /\ Len(s) >= 2 /\ s[1] = 129 /\ s[2] = n
        /\ Len(MarshalLength(n)) = 2
    BY SMT, <2>1
  <2> HIDE DEF s
  <2>3. ReadLength(s, 1) = [ok |-> TRUE, value |-> s[2], next |-> 3]
    BY SMT, <2>2, ReadOneOctet
  <2> QED
    BY SMT, <2>2, <2>3 DEF s
<1>3. CASE n >= 256 /\ n < 65536
  <2> DEFINE a == n \div 256
             b == n % 256
  <2>1. MarshalLength(n) = <<130, a, b>>
    BY SMT, <1>3 DEF MarshalLength
  <2>2. a \in Nat /\ b \in Nat /\ a * 256 + b = n
    BY SMT, <1>3
  <2> HIDE DEF a, b
  <2>3. /\ s \in Seq(Nat) /\ Len(s) >= 3 /\ s[1] = 130 /\ s[2] = a /\ s[3] = b
        /\ Len(MarshalLength(n)) = 3
    BY SMT, <2>1, <2>2
  <2> HIDE DEF s
  <2>4. ReadLength(s, 1) = [ok |-> TRUE, value |-> s[2] * 256 + s[3], next |-> 4]
    BY SMTT(60), <2>3, ReadTwoOctets
  <2>5. s[2] * 256 + s[3] = n
    BY SMT, <2>2, <2>3
  <2> QED
    BY SMT, <2>3, <2>4, <2>5 DEF s
<1>4. CASE n >= 65536
  <2> DEFINE a == n \div 65536
             b == (n \div 256) % 256
             c == n % 256
  <2>1. MarshalLength(n) = <<131, a, b, c>>
    BY SMT, <1>4 DEF MarshalLength
  <2>2. a \in Nat /\ b \in Nat /\ c \in Nat /\ a * 65536 + b * 256 + c = n
    BY SMT, LengthDigits DEF Octet
  <2> HIDE DEF a, b, c
  <2>3. /\ s \in Seq(Nat) /\ Len(s) >= 4 /\ s[1] = 131 /\ s[2] = a /\ s[3] = b /\ s[4] = c
        /\ Len(MarshalLength(n)) = 4
    BY SMT, <2>1, <2>2
  <2> HIDE DEF s
  <2>4. ReadLength(s, 1)
          = [ok |-> TRUE, value |-> s[2] * 65536 + s[3] * 256 + s[4], next |-> 5]
    BY SMTT(60), <2>3, ReadThreeOctets
  <2>5. s[2] * 65536 + s[3] * 256 + s[4] = n
    BY SMT, <2>2, <2>3
  <2> QED
    BY SMT, <2>3, <2>4, <2>5 DEF s
<1> QED
  BY SMT, <1>1, <1>2, <1>3, <1>4

-----------------------------------------------------------------------------
(* Tags.  (CHOOSE is given to Zenon only, with the fact that makes it      *)
(* defined.)                                                               *)

\* A number has one group of seven bits exactly when it is below 128.
LEMMA Groups ==
    ASSUME NEW v \in TagNumbers, v >= 1
    PROVE  GroupsOf(v) \in 1..4 /\ (v < 128 <=> GroupsOf(v) = 1)
<1> DEFINE P(k) == v >= Weight[k] /\ (k < 4 => v < Weight[k+1])
<1>1. Weight[1] = 1 /\ Weight[2] = 128 /\ Weight[3] = 16384 /\ Weight[4] = 2097152
  BY SMT DEF Weight
<1>2. \E k \in 1..4 : P(k)
  BY SMT, <1>1 DEF TagNumbers
<1>3. GroupsOf(v) \in 1..4 /\ P(GroupsOf(v))
  BY Zenon, <1>2 DEF GroupsOf
<1> QED
  BY SMT, <1>1, <1>3 DEF TagNumbers

\* A tag that NewTag made for a number of 128 or more is never read: its last
\* octet says that another follows.
THEOREM LongTagsRunOn ==
    ASSUME NEW class \in 0..3, NEW form \in {Primitive, Constructed},
           NEW v \in TagNumbers, v >= 128
    PROVE  ReadTag(NewTag(class, form, v), 1) = Failed
<1> DEFINE g == GroupsOf(v)
           tag == NewTag(class, form, v)
           first == class * 64 + form * 32 + 31
           low == [k \in 1..g |-> ((v \div Weight[k]) % 128) + 128]
<1>1. g \in 1..4 /\ g > 1
  BY SMT, Groups DEF TagNumbers
<1>2. tag = <<first>> \o low
  BY SMT, <1>1 DEF NewTag, TagNumbers
<1>3. \A k \in 1..4 : Weight[k] \in Nat \ {0}
  BY SMT DEF Weight
<1>4. \A k \in 1..g : low[k] \in Nat /\ low[k] >= 128
  BY SMT, <1>1, <1>3 DEF TagNumbers
<1>5. first \in Nat /\ first % 32 = 31
  BY SMT DEF Primitive, Constructed
<1> HIDE DEF first, low, g
<1>6. low \in Seq(Nat) /\ Len(low) = g
  BY SMT, <1>1, <1>4 DEF low
<1>7. /\ tag[1] = first /\ Len(tag) = g + 1
      /\ \A j \in 2..Len(tag) : tag[j] = low[j-1]
  BY SMT, <1>1, <1>2, <1>5, <1>6
<1>8. TagEnds(tag, 1) = {}
  <2>1. ASSUME NEW j \in (1+1)..(1+10), j <= Len(tag)
        PROVE  ~(tag[j] < 128)
    <3>1. j \in 2..Len(tag) /\ j - 1 \in 1..g
      BY SMT, <1>1, <1>7, <2>1
    <3>2. tag[j] = low[j-1] /\ low[j-1] \in Nat /\ low[j-1] >= 128
      BY Zenon, <1>4, <1>7, <3>1
    <3> QED
      BY SMT, <3>2
  <2> QED
    BY Zenon, <2>1 DEF TagEnds
<1>9. ~(1 > Len(tag)) /\ tag[1] % 32 = 31
  BY SMT, <1>1, <1>5, <1>7
<1> QED
  BY SMT, <1>8, <1>9 DEF ReadTag

\* Two octets are told by their elements.
LEMMA PairsEqual ==
    ASSUME NEW s \in Seq(Nat), NEW t \in Seq(Nat), Len(s) = 2, Len(t) = 2,
           s[1] = t[1], s[2] = t[2]
    PROVE  s = t
<1>1. \A i \in 1..2 : i = 1 \/ i = 2
  BY SMT
<1>2. \A i \in 1..Len(s) : s[i] = t[i]
  BY Zenon, <1>1
<1> QED
  BY Zenon, <1>2, SeqEqual

\* A tag whose number is below 128 is read back, with the position after it,
\* whatever octets follow.
THEOREM ShortTagReadsBack ==
    ASSUME NEW class \in 0..3, NEW form \in {Primitive, Constructed},
           NEW v \in TagNumbers, v < 128, NEW rest \in Seq(Nat)
    PROVE  LET tag == NewTag(class, form, v)
           IN  ReadTag(tag \o rest, 1) = [ok |-> TRUE, tag |-> tag, next |-> Len(tag) + 1]
<1> DEFINE tag == NewTag(class, form, v)
           s == tag \o rest
           q == class * 2 + form
<1>1. q \in Nat /\ class * 64 + form * 32 = 32 * q /\ v \in Nat
  BY SMT DEF Primitive, Constructed, TagNumbers
<1> HIDE DEF q
<1>2. CASE v < 31
  <2>1. tag = <<32 * q + v>>
    BY SMT, <1>1, <1>2 DEF NewTag
  <2>2. 32 * q + v \in Nat /\ (32 * q + v) % 32 # 31
    BY SMT, <1>1, <1>2
  <2> HIDE DEF tag
  <2>3. s[1] = 32 * q + v /\ ~(1 > Len(s)) /\ Len(tag) = 1
    BY SMT, <2>1, <2>2
  <2> HIDE DEF s
  <2>4. ReadTag(s, 1) = [ok |-> TRUE, tag |-> <<s[1]>>, next |-> 2]
    BY SMT, <2>2, <2>3 DEF ReadTag
  <2> QED
    BY SMT, <2>1, <2>3, <2>4 DEF s, tag
<1>3. CASE v >= 31
  <2>1. GroupsOf(v) = 1 /\ Weight[1] = 1
    BY SMT, <1>3, Groups DEF TagNumbers, Weight
  <2>2. (v \div Weight[1]) % 128 = v
    BY SMT, <1>1, <2>1
  <2>3. [k \in 1..1 |-> ((v \div Weight[k]) % 128) + 0] = <<v>>
    <3>1. ASSUME NEW k \in 1..1
          PROVE  ((v \div Weight[k]) % 128) + 0 = v
      BY SMT, <1>1, <2>2
    <3>2. [k \in 1..1 |-> ((v \div Weight[k]) % 128) + 0] = [k \in 1..1 |-> v]
      BY Zenon, <3>1
    <3> QED
      BY SMT, <1>1, <3>2
  <2>4. tag = <<32 * q + 31>> \o <<v>>
    BY SMT, <1>1, <1>3, <2>1, <2>3 DEF NewTag
  <2>5. 32 * q + 31 \in Nat /\ (32 * q + 31) % 32 = 31
    BY SMT, <1>1
  <2> HIDE DEF tag
  <2>6. tag = <<32 * q + 31, v>>
    <3>1. Len(tag) = 2 /\ tag \in Seq(Nat) /\ tag[1] = 32 * q + 31 /\ tag[2] = v
      BY SMT, <1>1, <2>4, <2>5
    <3>2. LET t == <<32 * q + 31, v>>
          IN  t \in Seq(Nat) /\ Len(t) = 2 /\ t[1] = 32 * q + 31 /\ t[2] = v
      BY SMT, <1>1, <2>5
    <3> QED
      BY Zenon, <3>1, <3>2, PairsEqual
  <2>7. /\ s \in Seq(Nat) /\ s[1] = 32 * q + 31 /\ s[2] = v /\ Len(s) >= 2
        /\ Len(tag) = 2 /\ tag \in Seq(Nat)
    BY SMT, <1>1, <2>5, <2>6
  <2>8. SubSeq(s, 1, 2) = tag
    <3>1. /\ SubSeq(s, 1, 2) \in Seq(Nat) /\ Len(SubSeq(s, 1, 2)) = 2
          /\ SubSeq(s, 1, 2)[1] = tag[1] /\ SubSeq(s, 1, 2)[2] = tag[2]
      BY SMT, <1>1, <2>6, <2>7
    <3> QED
      BY Zenon, <2>7, <3>1, PairsEqual
  <2> HIDE DEF s
  <2>9. 2 \in TagEnds(s, 1) /\ \A k \in TagEnds(s, 1) : 2 <= k
    BY SMT, <1>3, <2>7 DEF TagEnds
  <2>10. EndOfTag(s, 1) \in TagEnds(s, 1) /\ \A k \in TagEnds(s, 1) : EndOfTag(s, 1) <= k
    BY Zenon, <2>9 DEF EndOfTag
  <2>11. EndOfTag(s, 1) = 2 /\ EndOfTag(s, 1) + 1 = 3
    BY SMT, <2>9, <2>10 DEF TagEnds
  <2>12. ~(1 > Len(s)) /\ ~(s[1] % 32 # 31) /\ ~(TagEnds(s, 1) = {})
    BY SMT, <2>5, <2>7, <2>9
  <2>13. ReadTag(s, 1) = [ok |-> TRUE, tag |-> tag, next |-> 3]
    <3>1. ReadTag(s, 1) = [ok |-> TRUE, tag |-> SubSeq(s, 1, EndOfTag(s, 1)),
                           next |-> EndOfTag(s, 1) + 1]
      BY Zenon, <2>12 DEF ReadTag
    <3> QED
      BY Zenon, <2>8, <2>11, <3>1
  <2> QED
    BY SMT, <2>7, <2>13 DEF s, tag
<1> QED
  BY SMT, <1>1, <1>2, <1>3

-----------------------------------------------------------------------------
(* Integers.                                                               *)

\* The integers of size octets.
HalfOf(size) == Pow256[size] * 128
IntsOf(size) == {v \in Int : -HalfOf(size) <= v /\ v < HalfOf(size)}

\* The sign that the first octet gives a value.
Signed(b) == IF b > 127 THEN b - 256 ELSE b

\* What fits does not overflow.
LEMMA WrapKeeps ==
    ASSUME NEW size \in 1..4, NEW x \in IntsOf(size)
    PROVE  Wrap(size, x) = x
<1>1. CASE size = 1
  BY <1>1 DEF Wrap, IntsOf, HalfOf, Pow256, IntWidth
<1>2. CASE size = 2
  BY <1>2 DEF Wrap, IntsOf, HalfOf, Pow256, IntWidth
<1>3. CASE size = 3
  BY <1>3 DEF Wrap, IntsOf, HalfOf, Pow256, IntWidth
<1>4. CASE size = 4
  BY <1>4 DEF Wrap, IntWidth
<1> QED
  BY <1>1, <1>2, <1>3, <1>4

\* The elements of a sequence of octets, for the provers' arithmetic.
LEMMA OctetsAre ==
    ASSUME NEW s \in Seq(Octet)
    PROVE  Len(s) \in Nat /\ \A i \in 1..Len(s) : s[i] \in 0..255
<1>1. Len(s) \in Nat /\ \A i \in 1..Len(s) : s[i] \in Octet
  OBVIOUS
<1> QED
  BY <1>1 DEF Octet

\* One octet more, and one turn of the loop.
Shift(x, b) == x * 256 + b
Turn(size, x, b) == Wrap(size, Shift(x, b))

\* The loop of UnmarshalInt, turn by turn.
LEMMA Turns ==
    ASSUME NEW size, NEW sign, NEW s \in Seq(Octet), Len(s) \in 1..4
    PROVE  \E n :
             /\ Accumulate(size, sign, s) = n[Len(s)]
             /\ n[1] = Turn(size, sign, s[1])
             /\ Len(s) >= 2 => n[2] = Turn(size, n[1], s[2])
             /\ Len(s) >= 3 => n[3] = Turn(size, n[2], s[3])
             /\ Len(s) >= 4 => n[4] = Turn(size, n[3], s[4])
<1> DEFINE W(x, k) == Turn(size, x, s[k])
           t1 == W(sign, 1)
           t2 == W(t1, 2)
           t3 == W(t2, 3)
           t4 == W(t3, 4)
           n == CHOOSE n : n = [k \in 0..Len(s) |-> IF k = 0 THEN sign ELSE W(n[k-1], k)]
           g == [k \in 0..Len(s) |-> IF k = 0 THEN sign ELSE IF k = 1 THEN t1
                                     ELSE IF k = 2 THEN t2 ELSE IF k = 3 THEN t3 ELSE t4]
<1>1. Accumulate(size, sign, s) = n[Len(s)]
  BY DEF Accumulate, Turn, Shift
<1>2. g = [k \in 0..Len(s) |-> IF k = 0 THEN sign ELSE W(g[k-1], k)]
  <2> HIDE DEF W
  <2>1. ASSUME NEW k \in 0..Len(s)
        PROVE  g[k] = IF k = 0 THEN sign ELSE W(g[k-1], k)
    BY <2>1
  <2> QED
    BY <2>1
<1>3. n = [k \in 0..Len(s) |-> IF k = 0 THEN sign ELSE W(n[k-1], k)]
  <2> HIDE DEF W, g
  <2> QED
    BY <1>2
<1>4. /\ n[1] = W(sign, 1)
      /\ Len(s) >= 2 => n[2] = W(n[1], 2)
      /\ Len(s) >= 3 => n[3] = W(n[2], 3)
      /\ Len(s) >= 4 => n[4] = W(n[3], 4)
  <2> HIDE DEF W, n
  <2> QED
    BY SMT, <1>3
<1> HIDE DEF n
<1> QED
  BY <1>1, <1>4

\* The value of up to four octets, and the octets MarshalInt writes: the first
\* does not repeat the sign of the second.
ValueOf(s) ==
    IF Len(s) = 1 THEN Signed(s[1])
    ELSE IF Len(s) = 2 THEN Shift(Signed(s[1]), s[2])
    ELSE IF Len(s) = 3 THEN Shift(Shift(Signed(s[1]), s[2]), s[3])
    ELSE Shift(Shift(Shift(Signed(s[1]), s[2]), s[3]), s[4])

Repeats(a, b) == (a = 0 /\ b < 128) \/ (a = 255 /\ b >= 128)
Shortest(s) == Len(s) \in 1..4 /\ (Len(s) > 1 => ~Repeats(s[1], s[2]))

\* A wider integer type holds what a narrower one holds.
LEMMA MoreInts ==
    ASSUME NEW size \in 1..4, NEW k \in 1..size, NEW x \in IntsOf(k)
    PROVE  x \in IntsOf(size)
<1>1. size = 1 \/ size = 2 \/ size = 3 \/ size = 4
  BY SMT
<1>2. k = 1 \/ k = 2 \/ k = 3 \/ k = 4
  BY SMT
<1>3. HalfOf(1) = 128 /\ HalfOf(2) = 32768 /\ HalfOf(3) = 8388608 /\ HalfOf(4) = 2147483648
  BY SMT DEF HalfOf, Pow256
<1> QED
  BY SMT, <1>1, <1>2, <1>3 DEF IntsOf

\* The first octet with its sign.
LEMMA SignedIs ==
    ASSUME NEW b \in 0..255
    PROVE  /\ Signed(b) \in IntsOf(1)
           /\ Shift(IF b > 127 THEN -1 ELSE 0, b) = Signed(b)
<1>0. HalfOf(1) = 128
  BY SMT DEF HalfOf, Pow256
<1>1. CASE b > 127
  <2>1. Signed(b) = b - 256
    BY <1>1 DEF Signed
  <2> QED
    BY SMT, <1>0, <1>1, <2>1 DEF IntsOf, Shift
<1>2. CASE ~(b > 127)
  <2>1. Signed(b) = b
    BY <1>2 DEF Signed
  <2> QED
    BY SMT, <1>0, <1>2, <2>1 DEF IntsOf, Shift
<1> QED
  BY <1>1, <1>2

\* An octet more needs one octet more, and no more.
LEMMA ShiftFits ==
    ASSUME NEW k \in 1..3, NEW a \in IntsOf(k), NEW b \in 0..255
    PROVE  Shift(a, b) \in IntsOf(k + 1)
<1>1. CASE k = 1
  BY SMT, <1>1 DEF IntsOf, HalfOf, Pow256, Shift
<1>2. CASE k = 2
  BY SMT, <1>2 DEF IntsOf, HalfOf, Pow256, Shift
<1>3. CASE k = 3
  BY SMT, <1>3 DEF IntsOf, HalfOf, Pow256, Shift
<1> QED
  BY SMT, <1>1, <1>2, <1>3

\* A part of the octets is a value of its own size, so nothing overflows.
LEMMA LoopValue ==
    ASSUME NEW size \in 1..4, NEW s \in Seq(Octet), Len(s) \in 1..size
    PROVE  Accumulate(size, IF s[1] > 127 THEN -1 ELSE 0, s) = ValueOf(s)
<1>0. Len(s) \in 1..4 /\ Len(s) \in Nat /\ Len(s) <= size
  <2>1. \A k \in 1..size : k \in 1..4 /\ k \in Nat /\ k <= size
    BY SMT
  <2> QED
    BY Zenon, <2>1
<1>a. /\ s[1] \in 0..255
      /\ Len(s) >= 2 => s[2] \in 0..255
      /\ Len(s) >= 3 => s[3] \in 0..255
      /\ Len(s) >= 4 => s[4] \in 0..255
  BY <1>0, OctetsAre
<1> DEFINE sign == IF s[1] > 127 THEN -1 ELSE 0
           t1 == Signed(s[1])
           t2 == Shift(t1, s[2])
           t3 == Shift(t2, s[3])
           t4 == Shift(t3, s[4])
<1>1. t1 \in IntsOf(1) /\ Shift(sign, s[1]) = t1
  BY Zenon, <1>a, SignedIs
<1>s. \A k \in 1..3 : \A a \in IntsOf(k), b \in 0..255 : Shift(a, b) \in IntsOf(k + 1)
  BY Zenon, ShiftFits
<1>k. /\ 1 \in 1..3 /\ 2 \in 1..3 /\ 3 \in 1..3 /\ 1 + 1 = 2 /\ 2 + 1 = 3 /\ 3 + 1 = 4
      /\ 1 \in 1..size /\ (Len(s) >= 2 => 2 \in 1..size)
      /\ (Len(s) >= 3 => Len(s) >= 2 /\ 3 \in 1..size)
      /\ (Len(s) >= 4 => Len(s) >= 3 /\ 4 \in 1..size)
  BY SMT, <1>0
<1> HIDE DEF t1, sign
<1>2. Len(s) >= 2 => t2 \in IntsOf(2)
  BY Zenon, <1>a, <1>k, <1>1, <1>s
<1> HIDE DEF t2
<1>3. Len(s) >= 3 => t3 \in IntsOf(3)
  BY Zenon, <1>a, <1>k, <1>2, <1>s
<1> HIDE DEF t3
<1>4. Len(s) >= 4 => t4 \in IntsOf(4)
  BY Zenon, <1>a, <1>k, <1>3, <1>s
<1> HIDE DEF t4
<1>5. \A k \in 1..size : \A x \in IntsOf(k) : Wrap(size, x) = x
  BY Zenon, MoreInts, WrapKeeps
<1>9. Turn(size, sign, s[1]) = t1
  BY Zenon, <1>1, <1>5, <1>k DEF Turn
<1>10. Len(s) >= 2 => Turn(size, t1, s[2]) = t2
  BY Zenon, <1>2, <1>5, <1>k DEF t2, Turn
<1>11. Len(s) >= 3 => Turn(size, t2, s[3]) = t3
  BY Zenon, <1>3, <1>5, <1>k DEF t3, Turn
<1>12. Len(s) >= 4 => Turn(size, t3, s[4]) = t4
  BY Zenon, <1>4, <1>5, <1>k DEF t4, Turn
<1>13. PICK n : /\ Accumulate(size, sign, s) = n[Len(s)]
                /\ n[1] = Turn(size, sign, s[1])
                /\ Len(s) >= 2 => n[2] = Turn(size, n[1], s[2])
                /\ Len(s) >= 3 => n[3] = Turn(size, n[2], s[3])
                /\ Len(s) >= 4 => n[4] = Turn(size, n[3], s[4])
  BY SMT, <1>0, Turns
<1>14. Accumulate(size, sign, s) =
          IF Len(s) = 1 THEN t1 ELSE IF Len(s) = 2 THEN t2
          ELSE IF Len(s) = 3 THEN t3 ELSE t4
  <2>1. CASE Len(s) = 1
    BY SMT, <1>9, <1>13, <2>1
  <2>2. CASE Len(s) = 2
    BY SMT, <1>9, <1>10, <1>13, <2>2
  <2>3. CASE Len(s) = 3
    BY SMT, <1>9, <1>10, <1>11, <1>13, <2>3
  <2>4. CASE Len(s) = 4
    BY SMT, <1>9, <1>10, <1>11, <1>12, <1>13, <2>4
  <2> QED
    BY SMT, <1>0, <2>1, <2>2, <2>3, <2>4
<1> QED
  BY SMT, <1>14 DEF ValueOf, t1, t2, t3, t4, sign

\* An octet of signs that the next does not repeat has another first bit.
LEMMA SignsDiffer ==
    ASSUME NEW a \in {0, 255}, NEW b \in 0..255, ~Repeats(a, b)
    PROVE  b \div 128 # a \div 128
BY SMT DEF Repeats

\* Of the octets MarshalInt writes none is skipped.
LEMMA NoneSkipped ==
    ASSUME NEW s \in Seq(Octet), Shortest(s)
    PROVE  SignsSkipped(s) = 1
<1> DEFINE n == Len(s)
           Stops(k) == s[k] # s[1] \/ s[k+1] \div 128 # s[1] \div 128
           P(k) == (Stops(k) \/ k = n - 1) /\ \A j \in 1..(k-1) : ~Stops(j)
<1>1. n \in 1..4 /\ (n > 1 => ~Repeats(s[1], s[2]) /\ s[1] \in 0..255 /\ s[2] \in 0..255)
  <2>1. n \in 1..4 /\ (n > 1 => ~Repeats(s[1], s[2]))
    BY SMT, OctetsAre DEF Shortest
  <2>2. \A i \in 1..Len(s) : s[i] \in 0..255
    BY OctetsAre
  <2> QED
    BY <2>1, <2>2, SMT
<1>2. SignsSkipped(s) = IF n = 1 \/ s[1] \notin {0, 255} THEN 1
                        ELSE CHOOSE k \in 1..(n-1) : P(k)
  BY DEF SignsSkipped
<1>3. ASSUME n # 1, s[1] \in {0, 255}
      PROVE  (CHOOSE k \in 1..(n-1) : P(k)) = 1
  <2>1. Stops(1) /\ 1 \in 1..(n-1)
    <3>1. /\ n \in 1..4 /\ n # 1 /\ s[1] \in {0, 255} /\ s[2] \in 0..255
          /\ ~Repeats(s[1], s[2])
      BY SMT, <1>1, <1>3
    <3>2. s[1+1] = s[2]
      BY SMT
    <3>3. s[2] \div 128 # s[1] \div 128
      <4>1. PICK a \in {0, 255} : a = s[1]
        BY Zenon, <3>1
      <4>2. PICK b \in 0..255 : b = s[2]
        BY Zenon, <3>1
      <4>3. ~Repeats(a, b)
        BY Zenon, <3>1, <4>1, <4>2
      <4>4. b \div 128 # a \div 128
        BY ONLY <4>3, SignsDiffer, Zenon
      <4> QED
        BY Zenon, <4>1, <4>2, <4>4
    <3>4. 1 \in 1..(n-1)
      BY SMT, <3>1
    <3> QED
      BY Zenon, <3>2, <3>3, <3>4
  <2> HIDE DEF Stops
  <2>2. P(1)
    BY <2>1
  <2>3. ASSUME NEW k \in 1..(n-1), P(k)
        PROVE  k = 1
    BY <1>1, <2>1, <2>3
  <2> HIDE DEF P
  <2> QED
    BY <2>1, <2>2, <2>3
<1> HIDE DEF P
<1> QED
  BY <1>2, <1>3

\* What UnmarshalInt makes of the shortest octets of a value.
LEMMA ReadsValue ==
    ASSUME NEW size \in 1..4, NEW s \in Seq(Octet), Shortest(s)
    PROVE  UnmarshalInt(size, s) =
             IF Len(s) > size THEN Failed ELSE [ok |-> TRUE, value |-> ValueOf(s)]
<1>1. Len(s) \in 1..4 /\ s # <<>> /\ SubSeq(s, 1, Len(s)) = s
  <2>1. Len(s) \in 1..4
    BY Zenon DEF Shortest
  <2> QED
    BY SMT, <2>1, OctetsAre
<1>2. UnmarshalInt(size, s) =
        IF Len(s) > size THEN Failed
        ELSE [ok |-> TRUE,
              value |-> Accumulate(size, IF s[1] > 127 THEN -1 ELSE 0, s)]
  <2> DEFINE rest == SubSeq(s, SignsSkipped(s), Len(s))
  <2>1. rest = s
    BY Zenon, <1>1, NoneSkipped
  <2>2. UnmarshalInt(size, s) =
          IF Len(s) > size THEN Failed
          ELSE [ok |-> TRUE,
                value |-> IF s = <<>> THEN 0
                          ELSE Accumulate(size, IF rest[1] > 127 THEN -1 ELSE 0, rest)]
    BY Zenon DEF UnmarshalInt
  <2> HIDE DEF rest
  <2> QED
    BY Zenon, <1>1, <2>1, <2>2
<1>3. Len(s) <= size => Accumulate(size, IF s[1] > 127 THEN -1 ELSE 0, s) = ValueOf(s)
  <2>1. \A k \in 1..4 : k <= size => k \in 1..size
    BY SMT
  <2> QED
    BY Zenon, <1>1, <2>1, LoopValue
<1>4. Len(s) > size \/ Len(s) <= size
  <2>1. \A k \in 1..4 : k > size \/ k <= size
    BY SMT
  <2> QED
    BY Zenon, <1>1, <2>1
<1> QED
  BY Zenon, <1>2, <1>3, <1>4

\* A value that is too large stays so with an octet more.
LEMMA ShiftExceeds ==
    ASSUME NEW k \in 1..3, NEW a \in Int, a \notin IntsOf(k), NEW b \in 0..255
    PROVE  Shift(a, b) \in Int /\ Shift(a, b) \notin IntsOf(k + 1)
<1>1. CASE k = 1
  BY SMT, <1>1 DEF IntsOf, HalfOf, Pow256, Shift
<1>2. CASE k = 2
  BY SMT, <1>2 DEF IntsOf, HalfOf, Pow256, Shift
<1>3. CASE k = 3
  BY SMT, <1>3 DEF IntsOf, HalfOf, Pow256, Shift
<1> QED
  BY SMT, <1>1, <1>2, <1>3

\* A first octet that repeats the sign adds nothing; one that does not needs its place.
LEMMA SignRepeated ==
    ASSUME NEW a \in 0..255, NEW b \in 0..255
    PROVE  /\ Repeats(a, b) => Shift(Signed(a), b) = Signed(b)
           /\ ~Repeats(a, b) => Shift(Signed(a), b) \notin IntsOf(1)
           /\ Shift(Signed(a), b) \in Int
<1>0. HalfOf(1) = 128
  BY SMT DEF HalfOf, Pow256
<1>1. CASE a = 0
  BY SMT, <1>0, <1>1 DEF Repeats, Shift, Signed, IntsOf
<1>2. CASE a = 255
  BY SMT, <1>0, <1>2 DEF Repeats, Shift, Signed, IntsOf
<1>3. CASE a # 0 /\ a # 255 /\ a > 127
  BY SMT, <1>0, <1>3 DEF Repeats, Shift, Signed, IntsOf
<1>4. CASE a # 0 /\ a # 255 /\ ~(a > 127)
  BY SMT, <1>0, <1>4 DEF Repeats, Shift, Signed, IntsOf
<1> QED
  BY SMT, <1>1, <1>2, <1>3, <1>4

\* The octets of an integer of IntWidth octets.
Buffer(v) == [k \in 1..IntWidth |-> (v \div Pow256[IntWidth + 1 - k]) % 256]

\* They are octets, and have its value.
LEMMA OctetsOf ==
    ASSUME NEW v \in IntsOf(4)
    PROVE  LET d == Buffer(v)
           IN  /\ d \in [1..4 -> 0..255]
               /\ Shift(Shift(Shift(Signed(d[1]), d[2]), d[3]), d[4]) = v
<1> DEFINE d == Buffer(v)
           q1 == v \div 256
           q2 == v \div 65536
           q3 == v \div 16777216
<1>1. v \in Int /\ -2147483648 <= v /\ v < 2147483648
  BY SMT DEF IntsOf, HalfOf, Pow256
<1>2. d[1] = q3 % 256 /\ d[2] = q2 % 256 /\ d[3] = q1 % 256 /\ d[4] = v % 256
  BY SMT, <1>1 DEF Pow256, Buffer, IntWidth
<1>3. q1 \in Int /\ q2 \in Int /\ q3 \in Int /\ -128 <= q3 /\ q3 <= 127
  BY SMT, <1>1
<1>4. q1 * 256 + (v % 256) = v
  BY SMT, <1>1
<1>5. q2 * 256 + (q1 % 256) = q1
  BY SMT, <1>1
<1>6. q3 * 256 + (q2 % 256) = q2
  BY SMT, <1>1
<1> HIDE DEF q1, q2, q3
<1>7. Signed(q3 % 256) = q3
  BY SMT, <1>3 DEF Signed
<1>8. q1 % 256 \in 0..255 /\ q2 % 256 \in 0..255 /\ q3 % 256 \in 0..255 /\ v % 256 \in 0..255
  BY SMT, <1>1, <1>3
<1>9. Shift(Shift(Shift(Signed(d[1]), d[2]), d[3]), d[4]) = v
  <2>1. Shift(q3, q2 % 256) = q2 /\ Shift(q2, q1 % 256) = q1 /\ Shift(q1, v % 256) = v
    BY Zenon, <1>4, <1>5, <1>6 DEF Shift
  <2> HIDE DEF d
  <2> QED
    BY Zenon, <1>2, <1>7, <2>1
<1>10. d \in [1..4 -> 0..255]
  <2>1. d = [k \in 1..4 |-> d[k]]
    BY Zenon DEF Buffer, IntWidth
  <2>2. \A k \in 1..4 : k = 1 \/ k = 2 \/ k = 3 \/ k = 4
    BY SMT
  <2> HIDE DEF d
  <2>3. \A k \in 1..4 : d[k] \in 0..255
    BY SMT, <1>2, <1>8, <2>2
  <2> QED
    BY Zenon, <2>1, <2>3
<1> HIDE DEF d
<1> QED
  BY Zenon, <1>9, <1>10 DEF d

\* MarshalInt writes the shortest octets that have the value.
LEMMA Written ==
    ASSUME NEW v \in IntsOf(4)
    PROVE  /\ MarshalInt(v) \in Seq(Octet)
           /\ Shortest(MarshalInt(v)) /\ ValueOf(MarshalInt(v)) = v
<1> DEFINE d == Buffer(v)
           Skip(k) == k < 4 /\ Repeats(d[k], d[k+1])
           P(k) == ~Skip(k) /\ \A j \in 1..(k-1) : Skip(j)
           start == CHOOSE k \in 1..4 : P(k)
           s == SubSeq(d, start, 4)
<1>1. MarshalInt(v) = s
  BY DEF MarshalInt, Buffer, Repeats, IntWidth
<1>2. /\ d \in [1..4 -> 0..255]
      /\ Shift(Shift(Shift(Signed(d[1]), d[2]), d[3]), d[4]) = v
  BY Zenon, OctetsOf
<1> HIDE DEF d
<1>3. \E k \in 1..4 : P(k)
  <2>1. ~Skip(4)
    BY SMT
  <2>2. 1..(1-1) = {} /\ 1..(2-1) = {1} /\ 1..(3-1) = {1, 2} /\ 1..(4-1) = {1, 2, 3}
    BY SMT
  <2>3. 1 \in 1..4 /\ 2 \in 1..4 /\ 3 \in 1..4 /\ 4 \in 1..4
    BY SMT
  <2> HIDE DEF Skip
  <2> QED
    BY Zenon, <2>1, <2>2, <2>3
<1>4. start \in 1..4 /\ P(start)
  <2> HIDE DEF P
  <2> QED
    BY Zenon, <1>3
<1> HIDE DEF start
<1>5. start = 1 \/ start = 2 \/ start = 3 \/ start = 4
  BY SMT, <1>4
<1>6. /\ d[1] \in 0..255 /\ d[2] \in 0..255 /\ d[3] \in 0..255 /\ d[4] \in 0..255
  BY SMT, <1>2
<1>s. /\ s \in Seq(Octet) /\ Len(s) = 5 - start
      /\ \A i \in 1..(5 - start) : s[i] = d[start + i - 1]
  <2>1. start \in Int /\ 4 \in Int /\ start <= 4 /\ 4 - start + 1 = 5 - start
    BY SMT, <1>4
  <2>2. \A i \in start..4 : d[i] \in Octet
    BY SMT, <1>2, <1>4 DEF Octet
  <2> HIDE DEF d
  <2> QED
    BY SMT, <2>1, <2>2, SubSeqProperties
<1>7. CASE start = 1
  <2>1. s \in Seq(Octet) /\ Len(s) = 4 /\ s[1] = d[1] /\ s[2] = d[2] /\ s[3] = d[3] /\ s[4] = d[4]
    BY SMT, <1>s, <1>7
  <2>2. ~Repeats(d[1], d[2])
    BY SMT, <1>4, <1>7
  <2> HIDE DEF s
  <2> QED
    BY SMT, <1>1, <1>2, <2>1, <2>2 DEF Shortest, ValueOf
<1>8. CASE start = 2
  <2>1. s \in Seq(Octet) /\ Len(s) = 3 /\ s[1] = d[2] /\ s[2] = d[3] /\ s[3] = d[4]
    BY SMT, <1>s, <1>8
  <2>2. Repeats(d[1], d[2]) /\ ~Repeats(d[2], d[3])
    BY SMT, <1>4, <1>8
  <2>3. Shift(Signed(d[1]), d[2]) = Signed(d[2])
    BY Zenon, <1>6, <2>2, SignRepeated
  <2> HIDE DEF s
  <2> QED
    BY SMT, <1>1, <1>2, <2>1, <2>2, <2>3 DEF Shortest, ValueOf
<1>9. CASE start = 3
  <2>1. s \in Seq(Octet) /\ Len(s) = 2 /\ s[1] = d[3] /\ s[2] = d[4]
    BY SMT, <1>s, <1>9
  <2>2. Repeats(d[1], d[2]) /\ Repeats(d[2], d[3]) /\ ~Repeats(d[3], d[4])
    BY SMT, <1>4, <1>9
  <2>3. Shift(Signed(d[1]), d[2]) = Signed(d[2]) /\ Shift(Signed(d[2]), d[3]) = Signed(d[3])
    BY Zenon, <1>6, <2>2, SignRepeated
  <2> HIDE DEF s
  <2> QED
    BY SMT, <1>1, <1>2, <2>1, <2>2, <2>3 DEF Shortest, ValueOf
<1>10. CASE start = 4
  <2>1. s \in Seq(Octet) /\ Len(s) = 1 /\ s[1] = d[4]
    BY SMT, <1>s, <1>10
  <2>2. Repeats(d[1], d[2]) /\ Repeats(d[2], d[3]) /\ Repeats(d[3], d[4])
    BY SMT, <1>4, <1>10
  <2>3. /\ Shift(Signed(d[1]), d[2]) = Signed(d[2]) /\ Shift(Signed(d[2]), d[3]) = Signed(d[3])
        /\ Shift(Signed(d[3]), d[4]) = Signed(d[4])
    BY Zenon, <1>6, <2>2, SignRepeated
  <2> HIDE DEF s
  <2> QED
    BY SMT, <1>1, <1>2, <2>1, <2>3 DEF Shortest, ValueOf
<1> QED
  BY <1>5, <1>7, <1>8, <1>9, <1>10

\* The shortest octets of a value are as many as it needs.
LEMMA FitsExactly ==
    ASSUME NEW size \in 1..4, NEW s \in Seq(Octet), Shortest(s)
    PROVE  ValueOf(s) \in IntsOf(size) <=> Len(s) <= size
<1>1. Len(s) = 1 \/ Len(s) = 2 \/ Len(s) = 3 \/ Len(s) = 4
  BY SMT DEF Shortest
<1>2. /\ s[1] \in 0..255
      /\ Len(s) >= 2 => s[2] \in 0..255 /\ ~Repeats(s[1], s[2])
      /\ Len(s) >= 3 => s[3] \in 0..255
      /\ Len(s) >= 4 => s[4] \in 0..255
  <2>1. /\ 1 \in 1..Len(s) /\ (Len(s) >= 2 => Len(s) > 1 /\ 2 \in 1..Len(s))
        /\ Len(s) >= 3 => 3 \in 1..Len(s)
        /\ Len(s) >= 4 => 4 \in 1..Len(s)
    BY SMT, <1>1
  <2> QED
    BY Zenon, <2>1, OctetsAre DEF Shortest
<1> DEFINE t1 == Signed(s[1])
           t2 == Shift(t1, s[2])
           t3 == Shift(t2, s[3])
           t4 == Shift(t3, s[4])
<1>k. 1 \in 1..3 /\ 2 \in 1..3 /\ 3 \in 1..3 /\ 1 + 1 = 2 /\ 2 + 1 = 3 /\ 3 + 1 = 4
  BY SMT
<1>s. \A k \in 1..3 : \A a \in IntsOf(k), b \in 0..255 : Shift(a, b) \in IntsOf(k + 1)
  BY Zenon, ShiftFits
<1>x. \A k \in 1..3 : \A a \in Int, b \in 0..255 :
          a \notin IntsOf(k) => Shift(a, b) \in Int /\ Shift(a, b) \notin IntsOf(k + 1)
  BY Zenon, ShiftExceeds
<1>3. t1 \in IntsOf(1)
  BY Zenon, <1>2, SignedIs
<1>4. Len(s) >= 2 => t2 \in Int /\ t2 \notin IntsOf(1) /\ t2 \in IntsOf(2)
  BY Zenon, <1>2, <1>3, <1>k, <1>s, SignRepeated
<1> HIDE DEF t1
<1> HIDE DEF t2
<1>5. (Len(s) >= 3 => Len(s) >= 2) /\ (Len(s) >= 4 => Len(s) >= 3)
  BY SMT, <1>1
<1>6. Len(s) >= 3 => t3 \in Int /\ t3 \notin IntsOf(2) /\ t3 \in IntsOf(3)
  <2>1. CASE Len(s) >= 3
    <3>1. t2 \in Int /\ t2 \notin IntsOf(1) /\ t2 \in IntsOf(2) /\ s[3] \in 0..255
      BY Zenon, <1>2, <1>4, <1>5, <2>1
    <3>2. t3 \in Int /\ t3 \notin IntsOf(1 + 1)
      BY Zenon, <3>1, <1>k, <1>x
    <3>3. t3 \in IntsOf(2 + 1)
      BY Zenon, <3>1, <1>k, <1>s
    <3> QED
      BY Zenon, <3>2, <3>3, <1>k
  <2> QED
    BY Zenon, <2>1
<1> HIDE DEF t3
<1>7. Len(s) >= 4 => t4 \notin IntsOf(3) /\ t4 \in IntsOf(4)
  <2>1. CASE Len(s) >= 4
    <3>1. t3 \in Int /\ t3 \notin IntsOf(2) /\ t3 \in IntsOf(3) /\ s[4] \in 0..255
      BY Zenon, <1>2, <1>5, <1>6, <2>1
    <3>2. t4 \notin IntsOf(2 + 1)
      BY Zenon, <3>1, <1>k, <1>x
    <3>3. t4 \in IntsOf(3 + 1)
      BY Zenon, <3>1, <1>k, <1>s
    <3> QED
      BY Zenon, <3>2, <3>3, <1>k
  <2> QED
    BY Zenon, <2>1
<1> HIDE DEF t4
<1>8. ValueOf(s) \in IntsOf(Len(s)) /\ (Len(s) > 1 => ValueOf(s) \notin IntsOf(Len(s) - 1))
  <2>1. CASE Len(s) = 1
    BY SMT, <1>3, <2>1 DEF ValueOf, t1
  <2>2. CASE Len(s) = 2
    BY SMT, <1>4, <2>2 DEF ValueOf, t1, t2
  <2>3. CASE Len(s) = 3
    BY SMT, <1>6, <2>3 DEF ValueOf, t1, t2, t3
  <2>4. CASE Len(s) = 4
    BY SMT, <1>7, <2>4 DEF ValueOf, t1, t2, t3, t4
  <2> QED
    BY SMT, <1>1, <2>1, <2>2, <2>3, <2>4
<1>9. CASE Len(s) <= size
  <2>1. \A k \in 1..4 : k <= size => k \in 1..size
    BY SMT
  <2>2. Len(s) \in 1..4
    BY SMT, <1>1
  <2> QED
    BY Zenon, <1>8, <1>9, <2>1, <2>2, MoreInts
<1>10. CASE ~(Len(s) <= size)
  <2>1. \A k \in 1..4 : ~(k <= size) => k > 1 /\ k - 1 \in 1..4 /\ size \in 1..(k - 1)
    BY SMT
  <2>2. Len(s) \in 1..4
    BY SMT, <1>1
  <2>3. Len(s) > 1 /\ Len(s) - 1 \in 1..4 /\ size \in 1..(Len(s) - 1)
    BY Zenon, <1>10, <2>1, <2>2
  <2> QED
    BY Zenon, <1>8, <1>10, <2>3, MoreInts
<1> QED
  BY <1>9, <1>10

\* An integer reads back into every integer type that holds it, and is refused
\* by every one that does not.
THEOREM IntegersReadBack ==
    ASSUME NEW v \in IntsOf(IntWidth), NEW size \in 1..IntWidth
    PROVE  UnmarshalInt(size, MarshalInt(v)) =
             IF v \in IntsOf(size) THEN [ok |-> TRUE, value |-> v] ELSE Failed
<1> DEFINE s == MarshalInt(v)
<1>1. v \in IntsOf(4) /\ size \in 1..4
  BY Zenon DEF IntWidth
<1>2. s \in Seq(Octet) /\ Shortest(s) /\ ValueOf(s) = v
  BY Zenon, <1>1, Written
<1> HIDE DEF s
<1>3. UnmarshalInt(size, s) =
        IF Len(s) > size THEN Failed ELSE [ok |-> TRUE, value |-> v]
  BY Zenon, <1>1, <1>2, ReadsValue
<1>4. v \in IntsOf(size) <=> ~(Len(s) > size)
  <2>1. v \in IntsOf(size) <=> Len(s) <= size
    BY Zenon, <1>1, <1>2, FitsExactly
  <2>2. \A k \in 1..4 : k <= size <=> ~(k > size)
    BY SMT, <1>1
  <2>3. Len(s) \in 1..4
    BY Zenon, <1>2 DEF Shortest
  <2> QED
    BY Zenon, <2>1, <2>2, <2>3
<1> QED
  BY Zenon, <1>3, <1>4 DEF s

-----------------------------------------------------------------------------
(* Bit strings and digits.                                                 *)

\* Every bit of an octet is found in its place.
LEMMA BitOfOctet ==
    ASSUME NEW b \in [1..8 -> {0, 1}]
    PROVE  OctetOf(b) \in Octet /\ \A x \in 0..7 : Bit(OctetOf(b), x) = b[x + 1]
<1>1. /\ b[1] \in {0, 1} /\ b[2] \in {0, 1} /\ b[3] \in {0, 1} /\ b[4] \in {0, 1}
      /\ b[5] \in {0, 1} /\ b[6] \in {0, 1} /\ b[7] \in {0, 1} /\ b[8] \in {0, 1}
  OBVIOUS
<1>2. OctetOf(b) \in Octet
  BY SMT, <1>1 DEF OctetOf, Octet
<1>3. Bit(OctetOf(b), 0) = b[1]
  BY SMT, <1>1 DEF Bit, OctetOf
<1>4. Bit(OctetOf(b), 1) = b[2]
  BY SMT, <1>1 DEF Bit, OctetOf
<1>5. Bit(OctetOf(b), 2) = b[3]
  BY SMT, <1>1 DEF Bit, OctetOf
<1>6. Bit(OctetOf(b), 3) = b[4]
  BY SMT, <1>1 DEF Bit, OctetOf
<1>7. Bit(OctetOf(b), 4) = b[5]
  BY SMT, <1>1 DEF Bit, OctetOf
<1>8. Bit(OctetOf(b), 5) = b[6]
  BY SMT, <1>1 DEF Bit, OctetOf
<1>9. Bit(OctetOf(b), 6) = b[7]
  BY SMT, <1>1 DEF Bit, OctetOf
<1>10. Bit(OctetOf(b), 7) = b[8]
  BY SMT, <1>1 DEF Bit, OctetOf
<1>11. \A x \in 0..7 : x \in {0, 1, 2, 3, 4, 5, 6, 7}
  BY SMT
<1> QED
  BY SMT, <1>2, <1>3, <1>4, <1>5, <1>6, <1>7, <1>8, <1>9, <1>10, <1>11

\* Where bit number i of a string is written.
LEMMA BitPlace ==
    ASSUME NEW n \in Nat, NEW i \in 1..n
    PROVE  /\ (i - 1) \div 8 + 1 \in 1..(n \div 8 + 1) /\ (i - 1) % 8 \in 0..7
           /\ (((i - 1) \div 8 + 1) - 1) * 8 + (((i - 1) % 8) + 1) = i
           /\ 2 + (i - 1) \div 8 = ((i - 1) \div 8 + 1) + 1
BY SMT

\* Where the bits of the last octet are, and which are the padding.
LEMMA Padding ==
    ASSUME NEW n \in Nat
    PROVE  /\ n \div 8 \in Nat /\ n % 8 \in 0..7 /\ n = (n \div 8) * 8 + (n % 8)
           /\ ((n \div 8 + 2) - 1) * 8 - (8 - (n % 8)) = n
           /\ 8 - (8 - (n % 8)) = n % 8
           /\ \A x \in (n % 8)..7 : ((n \div 8 + 1) - 1) * 8 + (x + 1) > n
BY SMT

\* A bit string reads back as it was written, unless its length is a multiple of
\* eight: then MarshalBitString counts eight bits of padding, which
\* UnmarshalBitString refuses.
THEOREM BitsReadBack ==
    ASSUME NEW bits \in Seq({0, 1})
    PROVE  UnmarshalBitString(MarshalBitString(bits)) =
             IF Len(bits) % 8 = 0 THEN Failed ELSE [ok |-> TRUE, value |-> bits]
<1> DEFINE n == Len(bits)
           m == n \div 8 + 1
           pad == 8 - (n % 8)
           Row(k) == [x \in 1..8 |-> LET i == (k-1) * 8 + x IN IF i <= n THEN bits[i] ELSE 0]
           rows == [k \in 1..m |-> OctetOf(Row(k))]
           data == MarshalBitString(bits)
<1>1. n \in Nat /\ m \in Nat \ {0} /\ pad \in 1..8 /\ (pad = 8 <=> n % 8 = 0)
  BY SMT
<1>2. data = <<pad>> \o rows
  BY Zenon DEF MarshalBitString
<1>3. ASSUME NEW k \in 1..m
      PROVE  Row(k) \in [1..8 -> {0, 1}]
  <2>1. ASSUME NEW x \in 1..8
        PROVE  (IF (k-1) * 8 + x <= n THEN bits[(k-1) * 8 + x] ELSE 0) \in {0, 1}
    <3>1. (k-1) * 8 + x \in Nat \ {0}
      BY SMT, <1>1
    <3> QED
      BY SMT, <1>1, <3>1
  <2> QED
    BY Zenon, <2>1
<1>4. ASSUME NEW k \in 1..m
      PROVE  rows[k] \in Nat /\ \A x \in 0..7 : Bit(rows[k], x) = Row(k)[x + 1]
  <2>1. rows[k] = OctetOf(Row(k))
    BY Zenon
  <2> HIDE DEF Row, rows
  <2>2. /\ OctetOf(Row(k)) \in Octet
        /\ \A x \in 0..7 : Bit(OctetOf(Row(k)), x) = Row(k)[x + 1]
    BY Zenon, <1>3, BitOfOctet
  <2>3. \A o \in Octet : o \in Nat
    BY SMT DEF Octet
  <2> QED
    BY Zenon, <2>1, <2>2, <2>3
<1>5. ASSUME NEW k \in 1..m, NEW x \in 1..8
      PROVE  Row(k)[x] = IF (k-1) * 8 + x <= n THEN bits[(k-1) * 8 + x] ELSE 0
  BY Zenon
<1> HIDE DEF Row
<1>6. rows \in Seq(Nat) /\ Len(rows) = m
  <2>1. \A k \in 1..m : rows[k] \in Nat
    BY <1>4
  <2> HIDE DEF m
  <2> QED
    BY SMT, <1>1, <2>1
<1> HIDE DEF rows
<1>7. /\ Len(data) = m + 1 /\ data[1] = pad
      /\ \A k \in 1..m : data[k + 1] = rows[k]
  BY SMT, <1>1, <1>2, <1>6
<1> HIDE DEF data
<1>8. CASE n % 8 = 0
  <2>1. data[1] > 7
    BY SMT, <1>1, <1>7, <1>8
  <2> QED
    BY SMT, <1>8, <2>1 DEF UnmarshalBitString, data
<1>9. CASE n % 8 # 0
  <2>1. ~(data[1] > 7) /\ ~(Len(data) = 1 /\ data[1] > 0)
    BY SMT, <1>1, <1>7, <1>9
  <2>2. ASSUME NEW x \in (8 - data[1])..7
        PROVE  Bit(data[Len(data)], x) = 0
    <3>1. x \in (n % 8)..7 /\ x \in 0..7 /\ x + 1 \in 1..8 /\ (m - 1) * 8 + (x + 1) > n
      BY SMT, <1>1, <1>7, Padding
    <3>2. m \in 1..m /\ data[Len(data)] = rows[m]
      BY SMT, <1>1, <1>7
    <3>3. Bit(rows[m], x) = Row(m)[x + 1]
      BY SMT, <1>4, <3>1, <3>2
    <3>4. Row(m)[x + 1] = IF (m-1) * 8 + (x + 1) <= n THEN bits[(m-1) * 8 + (x + 1)] ELSE 0
      BY Zenon, <1>5, <3>1, <3>2
    <3>5. ~((m-1) * 8 + (x + 1) <= n)
      BY SMT, <1>1, <3>1
    <3> QED
      BY Zenon, <3>2, <3>3, <3>4, <3>5
  <2>3. ~(\E x \in (8 - data[1])..7 : Bit(data[Len(data)], x) = 1)
    BY SMT, <2>2
  <2> DEFINE value == [i \in 1..((Len(data)-1) * 8 - data[1]) |->
                          Bit(data[2 + (i-1) \div 8], (i-1) % 8)]
  <2>4. UnmarshalBitString(data) = [ok |-> TRUE, value |-> value]
    BY Zenon, <2>1, <2>3 DEF UnmarshalBitString
  <2>5. (Len(data)-1) * 8 - data[1] = n
    BY SMT, <1>1, <1>7, Padding
  <2>6. ASSUME NEW i \in 1..n
        PROVE  Bit(data[2 + (i-1) \div 8], (i-1) % 8) = bits[i]
    <3> DEFINE k == (i-1) \div 8 + 1
               x == (i-1) % 8
    <3>1. k \in 1..m /\ x \in 0..7 /\ (k-1) * 8 + (x + 1) = i /\ 2 + (i-1) \div 8 = k + 1
      BY SMT, <1>1, BitPlace
    <3> HIDE DEF k, x
    <3>2. data[k + 1] = rows[k] /\ Bit(rows[k], x) = Row(k)[x + 1] /\ x + 1 \in 1..8
      <4>1. data[k + 1] = rows[k] /\ Bit(rows[k], x) = Row(k)[x + 1]
        BY Zenon, <1>4, <1>7, <3>1
      <4>2. \A y \in 0..7 : y + 1 \in 1..8
        BY SMT
      <4> QED
        BY Zenon, <3>1, <4>1, <4>2
    <3>3. Row(k)[x + 1] = IF (k-1) * 8 + (x + 1) <= n THEN bits[(k-1) * 8 + (x + 1)] ELSE 0
      BY Zenon, <1>5, <3>1, <3>2
    <3>4. i <= n
      BY SMT, <1>1
    <3> QED
      BY Zenon, <3>1, <3>2, <3>3, <3>4 DEF x
  <2>7. value = [i \in 1..n |-> bits[i]]
    BY Zenon, <2>5, <2>6
  <2>8. bits = [i \in 1..n |-> bits[i]]
    BY SMT
  <2> QED
    BY Zenon, <1>9, <2>4, <2>7, <2>8 DEF data
<1> QED
  BY <1>8, <1>9

\* Where a half of an octet is written.
LEMMA Halves ==
    ASSUME NEW a \in 0..15, NEW b \in 0..15
    PROVE  /\ b * 16 + a \in Nat
           /\ (b * 16 + a) % 16 = a /\ (b * 16 + a) \div 16 = b
BY SMT

\* The two digits of an octet, by their places.
LEMMA HalfPlace ==
    ASSUME NEW h \in Nat, NEW k \in 1..(2 * h)
    PROVE  /\ (k + 1) \div 2 \in 1..h
           /\ k % 2 = 1 => k = 2 * ((k + 1) \div 2) - 1
           /\ k % 2 # 1 => k = 2 * ((k + 1) \div 2)
BY SMT

\* An even number of digits is written and read half octet by half octet.
LEMMA PointsReadBack ==
    ASSUME NEW padded \in Seq(0..15), NEW h \in Nat, Len(padded) = 2 * h
    PROVE  LET data == [k \in 1..h |-> padded[2*k] * 16 + padded[2*k - 1]]
           IN  /\ Len(data) = h
               /\ [k \in 1..(2 * h) |->
                     LET b == data[(k + 1) \div 2] IN IF k % 2 = 1 THEN b % 16 ELSE b \div 16]
                    = padded
<1> DEFINE data == [k \in 1..h |-> padded[2*k] * 16 + padded[2*k - 1]]
           Half(k) == LET b == data[(k + 1) \div 2] IN IF k % 2 = 1 THEN b % 16 ELSE b \div 16
<1>1. ASSUME NEW k \in 1..h
      PROVE  /\ padded[2*k] \in 0..15 /\ padded[2*k - 1] \in 0..15
             /\ data[k] = padded[2*k] * 16 + padded[2*k - 1]
             /\ data[k] \in Nat /\ data[k] % 16 = padded[2*k - 1] /\ data[k] \div 16 = padded[2*k]
  <2>1. 2*k \in 1..Len(padded) /\ 2*k - 1 \in 1..Len(padded)
    BY SMT
  <2>2. padded[2*k] \in 0..15 /\ padded[2*k - 1] \in 0..15
    BY SMT, <2>1
  <2>3. data[k] = padded[2*k] * 16 + padded[2*k - 1]
    BY Zenon
  <2> HIDE DEF data
  <2> DEFINE a == padded[2*k - 1]
             b == padded[2*k]
  <2>4. a \in 0..15 /\ b \in 0..15 /\ data[k] = b * 16 + a
    BY Zenon, <2>2, <2>3
  <2> HIDE DEF a, b
  <2>5. data[k] \in Nat /\ data[k] % 16 = a /\ data[k] \div 16 = b
    BY SMT, <2>4, Halves
  <2> QED
    BY Zenon, <2>2, <2>3, <2>5 DEF a, b
<1>2. data \in Seq(Nat) /\ Len(data) = h
  BY SMT, <1>1
<1> HIDE DEF data
<1>3. ASSUME NEW k \in 1..(2 * h)
      PROVE  Half(k) = padded[k]
  <2> DEFINE o == (k + 1) \div 2
  <2>1. /\ o \in 1..h
        /\ k % 2 = 1 => k = 2 * o - 1
        /\ k % 2 # 1 => k = 2 * o
    BY SMT, HalfPlace
  <2>2. Half(k) = IF k % 2 = 1 THEN data[o] % 16 ELSE data[o] \div 16
    BY Zenon
  <2> HIDE DEF o, Half
  <2>3. data[o] % 16 = padded[2 * o - 1] /\ data[o] \div 16 = padded[2 * o]
    BY Zenon, <1>1, <2>1
  <2>4. CASE k % 2 = 1
    BY Zenon, <2>1, <2>2, <2>3, <2>4
  <2>5. CASE k % 2 # 1
    BY Zenon, <2>1, <2>2, <2>3, <2>5
  <2> QED
    BY <2>4, <2>5
<1> HIDE DEF Half
<1>4. [k \in 1..(2 * h) |-> Half(k)] = [k \in 1..(2 * h) |-> padded[k]]
  BY Zenon, <1>3
<1>5. padded = [k \in 1..(2 * h) |-> padded[k]]
  BY SMT
<1> QED
  BY Zenon, <1>2, <1>4, <1>5 DEF data, Half

\* Digits read back, in any number: the F that pads an odd number of them is
\* the only one, and is cut off again.
THEOREM DigitsReadBack ==
    ASSUME NEW d \in Seq(0..14)
    PROVE  DecodeBCD(EncodeBCD(d)) = d
<1> DEFINE odd == Len(d) % 2 = 1
           padded == IF odd THEN Append(d, 15) ELSE d
           h == Len(padded) \div 2
           data == [k \in 1..h |-> padded[2*k] * 16 + padded[2*k - 1]]
           fs == {k \in 1..Len(padded) : padded[k] = 15}
<1>1. /\ padded \in Seq(0..15) /\ Len(padded) \in Nat
      /\ \A k \in 1..Len(d) : padded[k] = d[k] /\ d[k] \in 0..14
  BY SMT
<1>2. /\ odd => Len(padded) = Len(d) + 1 /\ padded[Len(d) + 1] = 15
      /\ ~odd => padded = d
  BY SMT
<1>3. EncodeBCD(d) = data
  BY Zenon DEF EncodeBCD
<1> HIDE DEF padded
<1>4. h \in Nat /\ Len(padded) = 2 * h
  <2>1. CASE odd
    BY SMT, <1>1, <1>2, <2>1
  <2>2. CASE ~odd
    BY SMT, <1>1, <1>2, <2>2
  <2> QED
    BY <2>1, <2>2
<1> HIDE DEF h
<1>5. Len(data) = h
  BY Zenon, <1>1, <1>4, PointsReadBack
<1>6. [k \in 1..(2 * h) |->
         LET b == data[(k + 1) \div 2] IN IF k % 2 = 1 THEN b % 16 ELSE b \div 16] = padded
  BY Zenon, <1>1, <1>4, PointsReadBack
<1> HIDE DEF data
<1> DEFINE CutOff(p) ==
             LET f == {k \in 1..Len(p) : p[k] = 15}
             IN  IF f = {} THEN p
                 ELSE SubSeq(p, 1, (CHOOSE k \in f : \A j \in f : j <= k) - 1)
<1>7. DecodeBCD(data) = CutOff(padded)
  <2> DEFINE points == [k \in 1..(2 * Len(data)) |->
               LET b == data[(k + 1) \div 2] IN IF k % 2 = 1 THEN b % 16 ELSE b \div 16]
  <2>1. points = padded
    BY Zenon, <1>5, <1>6
  <2>2. DecodeBCD(data) = CutOff(points)
    BY Zenon DEF DecodeBCD
  <2> HIDE DEF points, CutOff
  <2> QED
    BY Zenon, <2>1, <2>2
<1>8. CASE ~odd
  <2>1. \A n \in 0..14 : n # 15
    BY SMT
  <2>2. \A k \in 1..Len(padded) : padded[k] \in 0..14
    BY Zenon, <1>1, <1>2, <1>8
  <2>3. fs = {}
    BY Zenon, <2>1, <2>2
  <2> QED
    BY Zenon, <1>2, <1>3, <1>7, <1>8, <2>3
<1>9. CASE odd
  <2>1. fs = {Len(d) + 1}
    BY SMT, <1>1, <1>2, <1>9
  <2>2. (CHOOSE k \in fs : \A j \in fs : j <= k) \in fs
    <3>1. \E k \in fs : \A j \in fs : j <= k
      BY SMT, <2>1
    <3> QED
      BY Zenon, <3>1
  <2>3. (CHOOSE k \in fs : \A j \in fs : j <= k) = Len(d) + 1
    BY Zenon, <2>1, <2>2
  <2> HIDE DEF fs
  <2>4. (Len(d) + 1) - 1 = Len(d) /\ fs # {}
    BY SMT, <2>1
  <2>5. SubSeq(padded, 1, Len(d)) = d
    BY SMT, <1>1, <1>2, <1>9
  <2>6. DecodeBCD(data) = SubSeq(padded, 1, (CHOOSE k \in fs : \A j \in fs : j <= k) - 1)
    BY Zenon, <1>7, <2>4 DEF fs
  <2> QED
    BY Zenon, <1>3, <2>3, <2>4, <2>5, <2>6
<1> QED
  BY <1>8, <1>9

-----------------------------------------------------------------------------
(* Induction over numbers, sequences and positions.                        *)

Below == {p \in Nat \X Nat : p[1] < p[2]}

\* The numbers have no infinite descent.
LEMMA BelowWellFounded == IsWellFoundedOn(Below, Nat)
<1>1. Below = OpToRel(<, Nat)
  BY DEF Below, OpToRel
<1> QED
  BY <1>1, NatLessThanWellFounded

\* Every set of numbers that is not empty has a least one.
LEMMA LeastOne ==
    ASSUME NEW T, T \subseteq Nat, T # {}
    PROVE  \E x \in T : \A y \in T : x <= y
<1>1. PICK x \in T : \A y \in T : ~(<<y, x>> \in Below)
  BY BelowWellFounded, WFMin
<1>2. ASSUME NEW y \in T PROVE x <= y
  <2>1. <<y, x>> \in Nat \X Nat /\ x \in Nat /\ y \in Nat
    OBVIOUS
  <2>2. ~(y < x)
    BY <1>1, <2>1 DEF Below
  <2> QED
    BY <2>1, <2>2
<1> QED
  BY <1>2

\* Induction, for a set of numbers.
LEMMA AllNumbers ==
    ASSUME NEW T, 0 \in T, \A n \in Nat : n \in T => n + 1 \in T
    PROVE  \A n \in Nat : n \in T
<1> DEFINE M == {n \in Nat : n \notin T}
<1>1. SUFFICES M = {}
  BY Zenon
<1>2. SUFFICES ASSUME M # {} PROVE FALSE
  OBVIOUS
<1>3. PICK x \in M : \A y \in M : x <= y
  BY <1>2, LeastOne, Zenon
<1>4. x \in Nat /\ x # 0 /\ x \notin T
  BY <1>3
<1>5. x - 1 \in Nat /\ x - 1 < x /\ (x - 1) + 1 = x
  BY <1>4
<1>6. x - 1 \in T
  BY <1>3, <1>5
<1> QED
  BY <1>4, <1>5, <1>6

\* Induction, for a set of sequences that grow at their end, or at their front.
LEMMA AllSequences ==
    ASSUME NEW A, NEW T, <<>> \in T,
           \A s \in Seq(A), e \in A : s \in T => Append(s, e) \in T
    PROVE  \A s \in Seq(A) : s \in T
<1> DEFINE K == {n \in Nat : \A s \in Seq(A) : Len(s) = n => s \in T}
<1>1. 0 \in K
  BY EmptySeq
<1>2. ASSUME NEW n \in Nat, n \in K PROVE n + 1 \in K
  <2>1. ASSUME NEW s \in Seq(A), Len(s) = n + 1 PROVE s \in T
    <3>1. s # <<>>
      BY <2>1
    <3>2. PICK f \in Seq(A), e \in A : s = Append(f, e)
      BY <3>1, SequenceEmptyOrAppend, Zenon
    <3>3. Len(f) = n
      BY <2>1, <3>2
    <3> QED
      BY <1>2, <3>2, <3>3
  <2> QED
    BY <2>1
<1> HIDE DEF K
<1>3. \A n \in Nat : n \in K
  BY <1>1, <1>2, AllNumbers, Zenon
<1> QED
  BY <1>3, LenProperties DEF K

\* The same from the other end: sequences grow in front.
LEMMA AllSequencesFront ==
    ASSUME NEW A, NEW T, <<>> \in T,
           \A s \in Seq(A), e \in A : s \in T => <<e>> \o s \in T
    PROVE  \A s \in Seq(A) : s \in T
<1> DEFINE K == {n \in Nat : \A s \in Seq(A) : Len(s) = n => s \in T}
<1>1. 0 \in K
  BY EmptySeq
<1>2. ASSUME NEW n \in Nat, n \in K PROVE n + 1 \in K
  <2>1. ASSUME NEW s \in Seq(A), Len(s) = n + 1 PROVE s \in T
    <3>1. s # <<>> /\ Head(s) \in A /\ Tail(s) \in Seq(A) /\ Len(Tail(s)) = n
      BY <2>1
    <3>2. s = <<Head(s)>> \o Tail(s)
      BY <2>1, <3>1
    <3> QED
      BY <1>2, <3>1, <3>2
  <2> QED
    BY <2>1
<1> HIDE DEF K
<1>3. \A n \in Nat : n \in K
  BY <1>1, <1>2, AllNumbers, Zenon
<1> QED
  BY <1>3, LenProperties DEF K

-----------------------------------------------------------------------------
(* Sums.                                                                   *)

\* u[k] is the sum of the first k.
SumsTo(u, ls, n) ==
    /\ u \in [0..n -> Nat] /\ u[0] = 0
    /\ \A k \in 1..n : u[k] = u[k-1] + ls[k]

\* The partial sums that Sum chooses exist.
LEMMA SumsExist ==
    ASSUME NEW ls \in Seq(Nat)
    PROVE  \E u : SumsTo(u, ls, Len(ls))
<1> DEFINE T == {n \in Nat : n <= Len(ls) => \E u : SumsTo(u, ls, n)}
<1>1. 0 \in T
  <2>1. SumsTo([k \in 0..0 |-> 0], ls, 0)
    BY DEF SumsTo
  <2> QED
    BY <2>1
<1>2. ASSUME NEW n \in Nat, n \in T PROVE n + 1 \in T
  <2>1. SUFFICES ASSUME n + 1 <= Len(ls) PROVE \E u : SumsTo(u, ls, n + 1)
    OBVIOUS
  <2>2. PICK u : SumsTo(u, ls, n)
    BY <1>2, <2>1
  <2> DEFINE v == [k \in 0..(n+1) |-> IF k <= n THEN u[k] ELSE u[n] + ls[n+1]]
  <2>3. ls[n+1] \in Nat /\ u[n] \in Nat
    BY <2>1, <2>2 DEF SumsTo
  <2>4. v \in [0..(n+1) -> Nat] /\ v[0] = 0
    BY <2>2, <2>3 DEF SumsTo
  <2>5. ASSUME NEW k \in 1..(n+1) PROVE v[k] = v[k-1] + ls[k]
    <3>1. CASE k = n + 1
      BY <3>1
    <3>2. CASE k # n + 1
      <4>1. k \in 1..n /\ k - 1 \in 0..(n+1) /\ k - 1 <= n /\ k <= n
        BY <3>2
      <4> QED
        BY <2>2, <4>1 DEF SumsTo
    <3> QED
      BY <3>1, <3>2
  <2>6. SumsTo(v, ls, n + 1)
    BY <2>4, <2>5, Zenon DEF SumsTo
  <2> QED
    BY <2>6
<1> HIDE DEF T
<1>3. \A n \in Nat : n \in T
  BY <1>1, <1>2, AllNumbers, Zenon
<1> QED
  BY <1>3 DEF T

\* Sum is the last of them.
LEMMA SumIs ==
    ASSUME NEW ls \in Seq(Nat), NEW u, SumsTo(u, ls, Len(ls))
    PROVE  Sum(ls) = u[Len(ls)]
<1> DEFINE n == Len(ls)
           f == CHOOSE f : f = [k \in 0..n |-> IF k = 0 THEN 0 ELSE f[k-1] + ls[k]]
<1>1. Sum(ls) = f[n]
  BY DEF Sum
<1>2. u = [k \in 0..n |-> IF k = 0 THEN 0 ELSE u[k-1] + ls[k]]
  BY DEF SumsTo
<1>3. f = [k \in 0..n |-> IF k = 0 THEN 0 ELSE f[k-1] + ls[k]]
  BY <1>2
<1> HIDE DEF f
<1> DEFINE T == {k \in Nat : k <= n => f[k] = u[k]}
<1>4. 0 \in T
  BY <1>3 DEF SumsTo
<1>5. ASSUME NEW k \in Nat, k \in T PROVE k + 1 \in T
  BY <1>3, <1>5 DEF SumsTo
<1> HIDE DEF T
<1>6. \A k \in Nat : k \in T
  BY <1>4, <1>5, AllNumbers, Zenon
<1> QED
  BY <1>1, <1>6 DEF T

\* Nothing sums to zero.
LEMMA SumEmpty == Sum(<<>>) = 0
<1>1. SumsTo([k \in 0..0 |-> 0], <<>>, 0)
  BY DEF SumsTo
<1>2. <<>> \in Seq(Nat) /\ Len(<<>>) = 0
  OBVIOUS
<1> QED
  BY <1>1, <1>2, SumIs

\* The sum of one number more.
LEMMA SumAppend ==
    ASSUME NEW ls \in Seq(Nat), NEW x \in Nat
    PROVE  Sum(Append(ls, x)) = Sum(ls) + x /\ Sum(ls) \in Nat
<1> DEFINE n == Len(ls)
           all == Append(ls, x)
<1>1. all \in Seq(Nat) /\ Len(all) = n + 1 /\ all[n+1] = x /\ \A k \in 1..n : all[k] = ls[k]
  OBVIOUS
<1>2. PICK u : SumsTo(u, all, n + 1)
  BY <1>1, SumsExist
<1> HIDE DEF all
<1>3. Sum(all) = u[n+1]
  BY <1>1, <1>2, SumIs, Zenon
<1>7. u[n+1] = u[n] + x
  BY <1>1, <1>2 DEF SumsTo
<1> DEFINE v == [k \in 0..n |-> u[k]]
<1>4. SumsTo(v, ls, n)
  BY <1>1, <1>2 DEF SumsTo
<1>5. v[n] = u[n] /\ u[n] \in Nat
  BY <1>2 DEF SumsTo
<1> HIDE DEF v
<1>6. Sum(ls) = v[n]
  BY <1>4, SumIs
<1> QED
  BY <1>3, <1>5, <1>6, <1>7 DEF all

\* The sum of two lists.
LEMMA SumConcat ==
    ASSUME NEW a \in Seq(Nat)
    PROVE  /\ Sum(a) \in Nat
           /\ \A b \in Seq(Nat) : Sum(a \o b) = Sum(a) + Sum(b)
<1>0. \A c \in Seq(Nat) : Sum(c) \in Nat
  BY SumAppend
<1> DEFINE T == {b \in Seq(Nat) : Sum(a \o b) = Sum(a) + Sum(b)}
<1>1. <<>> \in T
  BY <1>0, SumEmpty, ConcatEmptySeq
<1>2. ASSUME NEW b \in Seq(Nat), NEW x \in Nat, b \in T PROVE Append(b, x) \in T
  <2>1. a \o Append(b, x) = Append(a \o b, x)
    OBVIOUS
  <2>2. Sum(Append(a \o b, x)) = Sum(a \o b) + x /\ Sum(Append(b, x)) = Sum(b) + x
    <3>1. a \o b \in Seq(Nat)
      OBVIOUS
    <3> QED
      BY <3>1, SumAppend, Zenon
  <2>3. Sum(a \o b) = Sum(a) + Sum(b)
    BY <1>2, Zenon
  <2>4. Sum(a) \in Nat /\ Sum(b) \in Nat
    BY <1>0
  <2>5. Sum(a \o Append(b, x)) = Sum(a) + Sum(Append(b, x))
    <3>1. Sum(a \o Append(b, x)) = Sum(a \o b) + x
      BY <2>1, <2>2, Zenon
    <3> HIDE DEF T
    <3> QED
      BY <3>1, <2>2, <2>3, <2>4
  <2>6. Append(b, x) \in Seq(Nat)
    OBVIOUS
  <2> QED
    BY <2>5, <2>6, Zenon
<1> HIDE DEF T
<1>3. \A b \in Seq(Nat) : b \in T
  BY <1>1, <1>2, AllSequences, Zenon
<1> QED
  BY <1>0, <1>3 DEF T

\* The sum of one number before a list.
LEMMA SumFront ==
    ASSUME NEW x \in Nat, NEW b \in Seq(Nat)
    PROVE  Sum(<<x>> \o b) = x + Sum(b)
<1>1. <<x>> = Append(<<>>, x) /\ <<x>> \in Seq(Nat) /\ <<>> \in Seq(Nat)
  OBVIOUS
<1>2. Sum(<<x>>) = 0 + x
  BY <1>1, SumAppend, SumEmpty, Zenon
<1>3. Sum(<<x>> \o b) = Sum(<<x>>) + Sum(b)
  BY <1>1, SumConcat, Zenon
<1> QED
  BY <1>2, <1>3

-----------------------------------------------------------------------------
(* Concatenations.                                                         *)

\* u[k] is the concatenation of the first k.
JoinsTo(A, u, qs, n) ==
    /\ u \in [1..n -> Seq(A)] /\ u[1] = qs[1]
    /\ \A k \in 2..n : u[k] = u[k-1] \o qs[k]

\* The partial concatenations that FlattenSeq chooses exist.
LEMMA JoinsExist ==
    ASSUME NEW A, NEW qs \in Seq(Seq(A)), Len(qs) >= 1
    PROVE  \E u : JoinsTo(A, u, qs, Len(qs))
<1> DEFINE T == {n \in Nat : n < Len(qs) => \E u : JoinsTo(A, u, qs, n + 1)}
<1>0. \A k \in 1..Len(qs) : qs[k] \in Seq(A)
  OBVIOUS
<1>1. 0 \in T
  <2>1. qs[1] \in Seq(A)
    BY <1>0
  <2>2. JoinsTo(A, [k \in 1..1 |-> qs[1]], qs, 1)
    BY <2>1 DEF JoinsTo
  <2> QED
    BY <2>2
<1>2. ASSUME NEW n \in Nat, n \in T PROVE n + 1 \in T
  <2>1. SUFFICES ASSUME n + 1 < Len(qs) PROVE \E u : JoinsTo(A, u, qs, n + 2)
    BY SMT
  <2>2. PICK u : JoinsTo(A, u, qs, n + 1)
    BY <1>2, <2>1
  <2> DEFINE v == [k \in 1..(n+2) |-> IF k <= n + 1 THEN u[k] ELSE u[n+1] \o qs[n+2]]
  <2>3. qs[n+2] \in Seq(A) /\ u[n+1] \in Seq(A)
    BY <1>0, <2>1, <2>2 DEF JoinsTo
  <2>c. u[n+1] \o qs[n+2] \in Seq(A)
    BY <2>3
  <2>4. v \in [1..(n+2) -> Seq(A)] /\ v[1] = qs[1]
    BY <2>2, <2>c DEF JoinsTo
  <2>5. ASSUME NEW k \in 2..(n+2) PROVE v[k] = v[k-1] \o qs[k]
    <3>1. CASE k = n + 2
      <4>1. /\ n + 2 \in 1..(n+2) /\ n + 1 \in 1..(n+2) /\ ~(n + 2 <= n + 1)
            /\ n + 1 <= n + 1 /\ (n + 2) - 1 = n + 1
        OBVIOUS
      <4>2. v[n+2] = u[n+1] \o qs[n+2] /\ v[n+1] = u[n+1]
        BY <4>1, Zenon
      <4> HIDE DEF v
      <4> QED
        BY <3>1, <4>1, <4>2, Zenon
    <3>2. CASE k # n + 2
      <4>1. k \in 2..(n+1) /\ k - 1 \in 1..(n+2) /\ k - 1 <= n + 1 /\ k <= n + 1 /\ k \in 1..(n+2)
        BY <3>2
      <4>2. u[k] = u[k-1] \o qs[k]
        BY <2>2, <4>1, Zenon DEF JoinsTo
      <4>3. v[k] = u[k] /\ v[k-1] = u[k-1]
        BY <4>1, Zenon
      <4> QED
        BY <4>2, <4>3, Zenon
    <3> QED
      BY <3>1, <3>2
  <2>6. JoinsTo(A, v, qs, n + 2)
    BY <2>4, <2>5, Zenon DEF JoinsTo
  <2> QED
    BY <2>6
<1> HIDE DEF T
<1>3. \A n \in Nat : n \in T
  BY <1>1, <1>2, AllNumbers, Zenon
<1>4. Len(qs) - 1 \in T /\ Len(qs) - 1 < Len(qs) /\ (Len(qs) - 1) + 1 = Len(qs)
  BY <1>3
<1> QED
  BY <1>4, Zenon DEF T

\* FlattenSeq is the last of them.
LEMMA FlattenIs ==
    ASSUME NEW A, NEW qs \in Seq(Seq(A)), Len(qs) >= 1, NEW u, JoinsTo(A, u, qs, Len(qs))
    PROVE  FlattenSeq(qs) = u[Len(qs)]
<1> DEFINE n == Len(qs)
           f == CHOOSE f : f = [k \in 1..n |-> IF k = 1 THEN qs[k] ELSE f[k-1] \o qs[k]]
<1>0. n \in Nat /\ n # 0
  OBVIOUS
<1>1. FlattenSeq(qs) = f[n]
  BY <1>0, Zenon DEF FlattenSeq
<1>2. u = [k \in 1..n |-> IF k = 1 THEN qs[k] ELSE u[k-1] \o qs[k]]
  <2>1. \A k \in 1..n : k = 1 \/ k \in 2..n
    OBVIOUS
  <2>2. u = [k \in 1..n |-> u[k]]
    BY Zenon DEF JoinsTo
  <2>3. \A k \in 1..n : u[k] = IF k = 1 THEN qs[k] ELSE u[k-1] \o qs[k]
    BY <2>1, Zenon DEF JoinsTo
  <2> QED
    BY <2>2, <2>3, Zenon
<1>3. f = [k \in 1..n |-> IF k = 1 THEN qs[k] ELSE f[k-1] \o qs[k]]
  BY <1>2, Zenon
<1> HIDE DEF f
<1> DEFINE T == {k \in Nat : k < n => f[k+1] = u[k+1]}
<1>4. 0 \in T
  <2>1. 1 \in 1..n /\ 0 + 1 = 1
    BY <1>0
  <2>2. f[1] = u[1]
    BY <1>3, <2>1, Zenon DEF JoinsTo
  <2> QED
    BY <2>1, <2>2
<1>5. ASSUME NEW k \in Nat, k \in T PROVE k + 1 \in T
  <2>1. SUFFICES ASSUME k + 1 < n PROVE f[k+2] = u[k+2]
    BY SMT
  <2>2. k + 2 \in 1..n /\ k + 2 # 1 /\ (k + 2) - 1 = k + 1 /\ k < n
    BY <1>0, <2>1
  <2>3. f[k+2] = f[k+1] \o qs[k+2] /\ u[k+2] = u[k+1] \o qs[k+2]
    <3> HIDE DEF n, T
    <3>1. f[k+2] = f[(k+2)-1] \o qs[k+2]
      BY <1>3, <2>2, Zenon
    <3>2. u[k+2] = u[(k+2)-1] \o qs[k+2]
      BY <1>2, <2>2, Zenon
    <3> QED
      BY <3>1, <3>2, <2>2, Zenon
  <2> QED
    BY <1>5, <2>2, <2>3, Zenon
<1> HIDE DEF T
<1>6. \A k \in Nat : k \in T
  BY <1>4, <1>5, AllNumbers, Zenon
<1>7. n - 1 \in T /\ n - 1 < n /\ (n - 1) + 1 = n
  BY <1>0, <1>6
<1> QED
  BY <1>1, <1>7, Zenon DEF T

\* Nothing flattens to nothing.
LEMMA FlattenEmpty == FlattenSeq(<<>>) = <<>>
BY DEF FlattenSeq

\* One sequence more at the end.
LEMMA FlattenAppend ==
    ASSUME NEW A, NEW qs \in Seq(Seq(A)), NEW x \in Seq(A)
    PROVE  FlattenSeq(Append(qs, x)) = FlattenSeq(qs) \o x /\ FlattenSeq(qs) \in Seq(A)
<1> DEFINE n == Len(qs)
           all == Append(qs, x)
<1>1. /\ all \in Seq(Seq(A)) /\ Len(all) = n + 1 /\ all[n+1] = x
      /\ \A k \in 1..n : all[k] = qs[k]
  BY AppendProperties
<1>0. n \in Nat /\ n + 1 >= 1
  OBVIOUS
<1>2. PICK u : JoinsTo(A, u, all, n + 1)
  BY <1>0, <1>1, JoinsExist, Zenon
<1>3. FlattenSeq(all) = u[n+1]
  BY <1>0, <1>1, <1>2, FlattenIs, Zenon
<1> HIDE DEF all
<1>4. CASE n = 0
  <2>1. qs = <<>>
    BY <1>4
  <2>2. FlattenSeq(qs) = <<>> /\ <<>> \in Seq(A)
    BY <2>1, FlattenEmpty
  <2>3. u[n+1] = x
    BY <1>1, <1>2, <1>4 DEF JoinsTo
  <2>4. <<>> \o x = x
    BY ConcatEmptySeq
  <2> QED
    BY <1>3, <2>2, <2>3, <2>4, Zenon DEF all
<1>5. CASE n # 0
  <2> DEFINE v == [k \in 1..n |-> u[k]]
  <2>0. /\ 1 \in 1..n /\ n \in 1..n /\ n + 1 \in 2..(n+1) /\ (n + 1) - 1 = n /\ n >= 1
        /\ \A k \in 1..n : k \in 1..(n+1)
        /\ \A k \in 2..n : k \in 2..(n+1) /\ k \in 1..n /\ k - 1 \in 1..n
    BY <1>0, <1>5
  <2>1. JoinsTo(A, v, qs, n)
    <3>1. v \in [1..n -> Seq(A)] /\ v[1] = qs[1]
      BY <1>1, <1>2, <2>0, Zenon DEF JoinsTo
    <3>2. \A k \in 2..n : v[k] = v[k-1] \o qs[k]
      BY <1>1, <1>2, <2>0, Zenon DEF JoinsTo
    <3> QED
      BY <3>1, <3>2, Zenon DEF JoinsTo
  <2>2. u[n+1] = u[n] \o x
    <3>1. u[n+1] = u[(n+1)-1] \o all[n+1]
      BY <1>2, <2>0, Zenon DEF JoinsTo
    <3> QED
      BY <1>1, <2>0, <3>1, Zenon
  <2>3. v[n] = u[n] /\ u[n] \in Seq(A)
    BY <1>2, <2>0, Zenon DEF JoinsTo
  <2> HIDE DEF v
  <2>4. FlattenSeq(qs) = v[n]
    BY <2>0, <2>1, FlattenIs, Zenon
  <2> QED
    BY <1>3, <2>2, <2>3, <2>4, Zenon DEF all
<1> QED
  BY <1>4, <1>5

\* What two lists of sequences flatten to.
LEMMA FlattenConcat ==
    ASSUME NEW A, NEW p \in Seq(Seq(A))
    PROVE  /\ FlattenSeq(p) \in Seq(A)
           /\ \A q \in Seq(Seq(A)) : FlattenSeq(p \o q) = FlattenSeq(p) \o FlattenSeq(q)
<1> DEFINE B == Seq(A)
<1>0. \A q \in Seq(B) : FlattenSeq(q) \in B
  <2>1. <<>> \in B
    OBVIOUS
  <2> QED
    BY <2>1, FlattenAppend, Zenon
<1> DEFINE T == {q \in Seq(B) : FlattenSeq(p \o q) = FlattenSeq(p) \o FlattenSeq(q)}
<1>1. <<>> \in T
  <2>1. <<>> \in Seq(B) /\ p \o <<>> = p
    OBVIOUS
  <2>2. FlattenSeq(p) \o <<>> = FlattenSeq(p)
    BY <1>0, ConcatEmptySeq
  <2> QED
    BY <2>1, <2>2, FlattenEmpty, Zenon
<1>2. ASSUME NEW q \in Seq(B), NEW x \in B, q \in T PROVE Append(q, x) \in T
  <2>1. p \o Append(q, x) = Append(p \o q, x) /\ p \o q \in Seq(B) /\ Append(q, x) \in Seq(B)
    BY SMT
  <2>2. /\ FlattenSeq(Append(p \o q, x)) = FlattenSeq(p \o q) \o x
        /\ FlattenSeq(Append(q, x)) = FlattenSeq(q) \o x
    BY <2>1, FlattenAppend, Zenon
  <2>3. FlattenSeq(p \o q) = FlattenSeq(p) \o FlattenSeq(q)
    BY <1>2, Zenon
  <2>4. (FlattenSeq(p) \o FlattenSeq(q)) \o x = FlattenSeq(p) \o (FlattenSeq(q) \o x)
    <3>1. FlattenSeq(p) \in Seq(A) /\ FlattenSeq(q) \in Seq(A) /\ x \in Seq(A)
      BY <1>0, Zenon
    <3> QED
      BY <3>1, ConcatAssociative
  <2> QED
    BY <2>1, <2>2, <2>3, <2>4, Zenon
<1> HIDE DEF T
<1>3. \A q \in Seq(B) : q \in T
  BY <1>1, <1>2, AllSequences, Zenon
<1> QED
  BY <1>0, <1>3, Zenon DEF T

\* One sequence flattens to itself.
LEMMA FlattenOne ==
    ASSUME NEW A, NEW x \in Seq(A)
    PROVE  FlattenSeq(<<x>>) = x
<1>1. <<x>> = Append(<<>>, x) /\ <<>> \in Seq(Seq(A)) /\ <<>> \o x = x
  BY ConcatEmptySeq
<1> QED
  BY <1>1, FlattenAppend, FlattenEmpty, Zenon

\* One sequence before the others.
LEMMA FlattenFront ==
    ASSUME NEW A, NEW x \in Seq(A), NEW q \in Seq(Seq(A))
    PROVE  FlattenSeq(<<x>> \o q) = x \o FlattenSeq(q)
<1>1. <<x>> \in Seq(Seq(A))
  OBVIOUS
<1>2. FlattenSeq(<<x>> \o q) = FlattenSeq(<<x>>) \o FlattenSeq(q)
  BY <1>1, FlattenConcat, Zenon
<1> QED
  BY <1>2, FlattenOne, Zenon

-----------------------------------------------------------------------------
(* Trees.                                                                  *)

\* The bound on levels is a number.
LEMMA Bounds == MaxLevels \in Nat
BY CodecAssumption, Zenon

\* The bounds on octets, as the assumption on the constants gives them.
LEMMA OctetBounds ==
    /\ MaxOctets \in Nat /\ 4 * MaxOctets <= MaxLength /\ MaxOctets <= 2 * MaxLevels
    /\ MaxArrived \in Nat /\ MaxArrived <= MaxOctets
<1>1. /\ MaxOctets \in Nat /\ 4 * MaxOctets <= MaxLength /\ MaxArrived \in 0..MaxOctets
      /\ MaxOctets <= 2 * MaxLevels
  BY CodecAssumption, Zenon
<1> QED
  BY <1>1, SMT

\* A number of levels more.
Grown(X) == [tag : Seq(Octet), value : Seq(Octet), children : Seq(X)]

\* The levels of the TLVs are what TLVs says: the recursion has a solution.
LEMMA TLVsAre ==
    /\ TLVs[0] = {Nil}
    /\ \A n \in Nat : n < MaxLevels => TLVs[n+1] = Grown(TLVs[n])
<1> DEFINE M == MaxLevels
           P(g, m) == g = [n \in 0..m |-> IF n = 0 THEN {Nil} ELSE Grown(g[n-1])]
           T == {m \in Nat : \E g : P(g, m)}
<1>0. M \in Nat
  BY Bounds
<1>1. 0 \in T
  <2>1. P([n \in 0..0 |-> {Nil}], 0)
    OBVIOUS
  <2> QED
    BY <2>1
<1>2. ASSUME NEW m \in Nat, m \in T PROVE m + 1 \in T
  <2>1. PICK g : P(g, m)
    BY <1>2
  <2> DEFINE h == [n \in 0..(m+1) |-> IF n <= m THEN g[n] ELSE Grown(g[m])]
  <2>2. ASSUME NEW n \in 0..(m+1) PROVE h[n] = IF n = 0 THEN {Nil} ELSE Grown(h[n-1])
    <3>1. CASE n = m + 1
      <4>1. /\ m + 1 \in 0..(m+1) /\ m \in 0..(m+1) /\ ~(m + 1 <= m) /\ m <= m
            /\ (m + 1) - 1 = m /\ m + 1 # 0
        OBVIOUS
      <4>2. h[m+1] = Grown(g[m]) /\ h[m] = g[m]
        BY <4>1, Zenon
      <4> HIDE DEF h
      <4> QED
        BY <3>1, <4>1, <4>2, Zenon
    <3>2. CASE n # m + 1
      <4>1. n \in 0..m /\ n <= m /\ (n # 0 => n - 1 \in 0..(m+1) /\ n - 1 <= m)
        BY <3>2
      <4> QED
        BY <2>1, <4>1, Zenon
    <3> QED
      BY <3>1, <3>2
  <2>3. P(h, m + 1)
    BY <2>2, Zenon
  <2>4. m + 1 \in Nat
    OBVIOUS
  <2> QED
    BY <2>3, <2>4, Zenon
<1> HIDE DEF T
<1>3. \A m \in Nat : m \in T
  BY <1>1, <1>2, AllNumbers, Zenon
<1>4. \E g : P(g, M)
  BY <1>0, <1>3, Zenon DEF T
<1>5. TLVs = CHOOSE g : P(g, M)
  BY Zenon DEF TLVs, Grown
<1>6. P(TLVs, M)
  BY <1>4, <1>5, Zenon
<1> QED
  <2>1. TLVs = [n \in 0..M |-> IF n = 0 THEN {Nil} ELSE Grown(TLVs[n-1])]
    BY <1>6, Zenon
  <2>2. 0 \in 0..M
    BY <1>0
  <2>3. ASSUME NEW n \in Nat, n < M PROVE TLVs[n+1] = Grown(TLVs[n])
    <3>1. n + 1 \in 0..M /\ n + 1 # 0 /\ (n + 1) - 1 = n
      BY <1>0, <2>3
    <3>2. TLVs[n+1] = Grown(TLVs[(n+1)-1])
      BY <2>1, <3>1, Zenon
    <3> QED
      BY <3>1, <3>2, Zenon
  <2>4. TLVs[0] = {Nil}
    BY <2>1, <2>2, Zenon
  <2> QED
    BY <2>3, <2>4, Zenon

\* A missing child has every number of levels.
LEMMA NilGrown == \A X : Nil \in Grown(X)
BY DEF Nil, Grown

\* A TLV of n levels is one of n + 1.
LEMMA MoreLevels ==
    ASSUME NEW n \in Nat, n < MaxLevels
    PROVE  TLVs[n] \subseteq TLVs[n+1]
<1> DEFINE T == {m \in Nat : m < MaxLevels => TLVs[m] \subseteq TLVs[m+1]}
<1>1. 0 \in T
  BY TLVsAre, NilGrown, Zenon
<1>2. ASSUME NEW m \in Nat, m \in T PROVE m + 1 \in T
  <2>1. SUFFICES ASSUME m + 1 < MaxLevels PROVE TLVs[m+1] \subseteq TLVs[(m+1)+1]
    OBVIOUS
  <2>2. m < MaxLevels /\ m + 1 \in Nat
    BY <2>1, Bounds
  <2>3. TLVs[m+1] = Grown(TLVs[m]) /\ TLVs[(m+1)+1] = Grown(TLVs[m+1])
    BY <2>1, <2>2, TLVsAre, Zenon
  <2>4. TLVs[m] \subseteq TLVs[m+1]
    BY <1>2, <2>2, Zenon
  <2>5. Seq(TLVs[m]) \subseteq Seq(TLVs[m+1])
    BY <2>4, SeqMonotonic, Zenon
  <2> QED
    <3>1. Grown(TLVs[m]) \subseteq Grown(TLVs[m+1])
      BY <2>5, SMT DEF Grown
    <3> QED
      BY <2>3, <3>1, Zenon
<1> HIDE DEF T
<1>3. \A m \in Nat : m \in T
  BY <1>1, <1>2, AllNumbers, Zenon
<1> QED
  BY <1>3, Zenon DEF T

\* And of any number more.
LEMMA LevelsGrow ==
    ASSUME NEW n \in Nat
    PROVE  \A m \in Nat : n + m <= MaxLevels => TLVs[n] \subseteq TLVs[n+m]
<1> DEFINE T == {m \in Nat : n + m <= MaxLevels => TLVs[n] \subseteq TLVs[n+m]}
<1>1. 0 \in T
  OBVIOUS
<1>2. ASSUME NEW m \in Nat, m \in T PROVE m + 1 \in T
  <2>1. SUFFICES ASSUME n + (m + 1) <= MaxLevels PROVE TLVs[n] \subseteq TLVs[n+(m+1)]
    OBVIOUS
  <2>2. n + m \in Nat /\ n + m < MaxLevels /\ n + (m + 1) = (n + m) + 1 /\ n + m <= MaxLevels
    BY <2>1, Bounds
  <2>3. TLVs[n+m] \subseteq TLVs[(n+m)+1] /\ TLVs[n] \subseteq TLVs[n+m]
    BY <1>2, <2>2, MoreLevels, Zenon
  <2> QED
    BY <2>2, <2>3, Zenon
<1> HIDE DEF T
<1>3. \A m \in Nat : m \in T
  BY <1>1, <1>2, AllNumbers, Zenon
<1> QED
  BY <1>3, Zenon DEF T

\* Every level is among the TLVs.
LEMMA AnyLevels ==
    ASSUME NEW n \in Nat, n <= MaxLevels
    PROVE  TLVs[n] \subseteq TLV
<1>1. MaxLevels - n \in Nat /\ n + (MaxLevels - n) = MaxLevels /\ MaxLevels <= MaxLevels
  BY Bounds
<1>2. TLVs[n] \subseteq TLVs[n + (MaxLevels - n)]
  BY <1>1, LevelsGrow, Zenon
<1> QED
  BY <1>1, <1>2, Zenon DEF TLV

\* A missing child is one of the TLVs.
LEMMA NilIsTLV == Nil \in TLV
<1>1. TLVs[0] \subseteq TLV
  BY AnyLevels, Bounds
<1> QED
  BY <1>1, TLVsAre, Zenon

\* The parts of a TLV of some levels, and of any.
LEMMA PartsOfLevel ==
    ASSUME NEW n \in Nat, n < MaxLevels, NEW t \in TLVs[n+1]
    PROVE  /\ t.tag \in Seq(Octet) /\ t.value \in Seq(Octet) /\ t.children \in Seq(TLVs[n])
           /\ t = Tlv(t.tag, t.value, t.children)
<1>1. t \in Grown(TLVs[n])
  BY TLVsAre, Zenon
<1> QED
  BY <1>1 DEF Grown, Tlv

\* What a TLV is made of.
LEMMA PartsOfTLV ==
    ASSUME NEW t \in TLV
    PROVE  /\ t.tag \in Seq(Octet) /\ t.value \in Seq(Octet) /\ t.children \in Seq(TLV)
           /\ t = Tlv(t.tag, t.value, t.children)
<1>1. CASE MaxLevels = 0
  <2>1. t = Nil
    BY <1>1, TLVsAre, Zenon DEF TLV
  <2> QED
    BY <2>1 DEF Nil, Tlv
<1>2. CASE MaxLevels # 0
  <2>1. MaxLevels - 1 \in Nat /\ MaxLevels - 1 < MaxLevels /\ (MaxLevels - 1) + 1 = MaxLevels
        /\ MaxLevels - 1 <= MaxLevels
    BY <1>2, Bounds
  <2>2. t \in TLVs[(MaxLevels-1)+1]
    BY <2>1, Zenon DEF TLV
  <2>3. Seq(TLVs[MaxLevels-1]) \subseteq Seq(TLV)
    BY <2>1, AnyLevels, SeqMonotonic, Zenon
  <2> QED
    BY <2>1, <2>2, <2>3, PartsOfLevel, Zenon
<1> QED
  BY <1>1, <1>2

\* Induction over trees.
LEMMA AllTrees ==
    ASSUME NEW T, Nil \in T,
           \A t \in TLV : (\A i \in DOMAIN t.children : t.children[i] \in T) => t \in T
    PROVE  \A t \in TLV : t \in T
<1> DEFINE K == {n \in Nat : n <= MaxLevels => TLVs[n] \subseteq T}
<1>1. 0 \in K
  BY TLVsAre, Zenon
<1>2. ASSUME NEW n \in Nat, n \in K PROVE n + 1 \in K
  <2>1. SUFFICES ASSUME n + 1 <= MaxLevels, NEW t \in TLVs[n+1] PROVE t \in T
    OBVIOUS
  <2>2. n < MaxLevels /\ n <= MaxLevels /\ n + 1 \in Nat
    BY <2>1, Bounds
  <2>3. t.children \in Seq(TLVs[n]) /\ t \in TLV
    BY <2>1, <2>2, PartsOfLevel, AnyLevels, Zenon
  <2>4. \A i \in DOMAIN t.children : t.children[i] \in TLVs[n]
    BY <2>3, SMT
  <2>5. TLVs[n] \subseteq T
    BY <1>2, <2>2, Zenon
  <2> QED
    BY <2>3, <2>4, <2>5, Zenon
<1> HIDE DEF K
<1>3. \A n \in Nat : n \in K
  BY <1>1, <1>2, AllNumbers, Zenon
<1>4. MaxLevels \in Nat /\ MaxLevels <= MaxLevels
  BY Bounds
<1> QED
  BY <1>3, <1>4, Zenon DEF K, TLV

\* A function of the children does not see what is no child.
\* Functions that agree on the TLVs of n levels, and on a list of TLVs.
Alike(f, g, n) == \A c \in TLVs[n] : f[c] = g[c]
SameEach(f, g, ts) == Each(f, ts) = Each(g, ts)

\* Functions that agree one level down give the same for the children.
LEMMA SameOnChildren ==
    ASSUME NEW n \in Nat, n < MaxLevels, NEW t \in TLVs[n+1], NEW f, NEW g, Alike(f, g, n)
    PROVE  SameEach(f, g, t.children)
<1>1. t.children \in Seq(TLVs[n])
  BY PartsOfLevel, Zenon
<1>2. \A i \in DOMAIN t.children : t.children[i] \in TLVs[n]
  BY <1>1, SMT
<1> QED
  BY <1>2, Zenon DEF Each, Alike, SameEach

-----------------------------------------------------------------------------
(* The functions of trees exist.                                           *)

TlvLenOf(f, t) ==
    IF t = Nil THEN 0 ELSE WithHeader(t.tag, ContentLength(t, f))

\* TlvLen exists and is what its recursion says.
LEMMA TlvLenIs == \A t \in TLV : TlvLen[t] = TlvLenOf(TlvLen, t)
<1> DEFINE P(g, n) == g = [t \in TLVs[n] |-> TlvLenOf(g, t)]
           T == {n \in Nat : n <= MaxLevels => \E g : P(g, n)}
<1>1. 0 \in T
  <2> DEFINE g == [t \in TLVs[0] |-> 0]
  <2>1. \A t \in TLVs[0] : TlvLenOf(g, t) = 0
    BY TLVsAre, Zenon DEF TlvLenOf
  <2>2. P(g, 0)
    BY <2>1, Zenon
  <2> QED
    BY <2>2, SMT
<1>2. ASSUME NEW n \in Nat, n \in T PROVE n + 1 \in T
  <2>1. SUFFICES ASSUME n + 1 <= MaxLevels PROVE \E g : P(g, n + 1)
    BY SMT
  <2>2. n < MaxLevels /\ n <= MaxLevels
    BY <2>1, Bounds
  <2>3. PICK g : P(g, n)
    BY <1>2, <2>2, Zenon
  <2> DEFINE h == [t \in TLVs[n+1] |-> TlvLenOf(g, t)]
  <2>4. \A c \in TLVs[n] : h[c] = g[c]
    BY <2>2, <2>3, MoreLevels, Zenon
  <2> HIDE DEF h
  <2>5. ASSUME NEW t \in TLVs[n+1] PROVE TlvLenOf(g, t) = TlvLenOf(h, t)
    <3>1. Each(h, t.children) = Each(g, t.children)
      <4>1. Alike(h, g, n)
        BY <2>4, Zenon DEF Alike
      <4>2. SameEach(h, g, t.children)
        BY <2>2, <4>1, SameOnChildren, Zenon
      <4> QED
        BY <4>2, Zenon DEF SameEach
    <3>2. ContentLength(t, h) = ContentLength(t, g)
      BY <3>1, Zenon DEF ContentLength
    <3> QED
      BY <3>2, Zenon DEF TlvLenOf
  <2>6. P(h, n + 1)
    BY <2>5, Zenon DEF h
  <2> QED
    BY <2>6, Zenon
<1> HIDE DEF T
<1>3. \A n \in Nat : n \in T
  BY <1>1, <1>2, AllNumbers, Zenon
<1>4. MaxLevels \in Nat /\ MaxLevels <= MaxLevels
  BY Bounds
<1>5. \E g : P(g, MaxLevels)
  BY <1>3, <1>4, Zenon DEF T
<1>6. TlvLen = CHOOSE g : P(g, MaxLevels)
  BY Zenon DEF TlvLen, TlvLenOf, TLV
<1>7. P(TlvLen, MaxLevels)
  BY <1>5, <1>6, Zenon
<1> QED
  BY <1>7, Zenon DEF TLV

WriteToOf(f, t) ==
    IF t = Nil THEN <<>>
    ELSE t.tag \o MarshalLength(ContentLength(t, TlvLen)) \o
            (IF FormOf(t.tag) = Primitive THEN t.value
             ELSE FlattenSeq(Each(f, t.children)))

\* WriteTo exists and is what its recursion says.
LEMMA WriteToIs == \A t \in TLV : WriteTo[t] = WriteToOf(WriteTo, t)
<1> DEFINE P(g, n) == g = [t \in TLVs[n] |-> WriteToOf(g, t)]
           T == {n \in Nat : n <= MaxLevels => \E g : P(g, n)}
<1>1. 0 \in T
  <2> DEFINE g == [t \in TLVs[0] |-> <<>>]
  <2>1. \A t \in TLVs[0] : WriteToOf(g, t) = <<>>
    BY TLVsAre, Zenon DEF WriteToOf
  <2>2. P(g, 0)
    BY <2>1, Zenon
  <2> QED
    BY <2>2, SMT
<1>2. ASSUME NEW n \in Nat, n \in T PROVE n + 1 \in T
  <2>1. SUFFICES ASSUME n + 1 <= MaxLevels PROVE \E g : P(g, n + 1)
    BY SMT
  <2>2. n < MaxLevels /\ n <= MaxLevels
    BY <2>1, Bounds
  <2>3. PICK g : P(g, n)
    BY <1>2, <2>2, Zenon
  <2> DEFINE h == [t \in TLVs[n+1] |-> WriteToOf(g, t)]
  <2>4. \A c \in TLVs[n] : h[c] = g[c]
    BY <2>2, <2>3, MoreLevels, Zenon
  <2> HIDE DEF h
  <2>5. ASSUME NEW t \in TLVs[n+1] PROVE WriteToOf(g, t) = WriteToOf(h, t)
    <3>1. Each(h, t.children) = Each(g, t.children)
      <4>1. Alike(h, g, n)
        BY <2>4, Zenon DEF Alike
      <4>2. SameEach(h, g, t.children)
        BY <2>2, <4>1, SameOnChildren, Zenon
      <4> QED
        BY <4>2, Zenon DEF SameEach
    <3> QED
      BY <3>1, Zenon DEF WriteToOf
  <2>6. P(h, n + 1)
    BY <2>5, Zenon DEF h
  <2> QED
    BY <2>6, Zenon
<1> HIDE DEF T
<1>3. \A n \in Nat : n \in T
  BY <1>1, <1>2, AllNumbers, Zenon
<1>4. MaxLevels \in Nat /\ MaxLevels <= MaxLevels
  BY Bounds
<1>5. \E g : P(g, MaxLevels)
  BY <1>3, <1>4, Zenon DEF T
<1>6. WriteTo = CHOOSE g : P(g, MaxLevels)
  BY Zenon DEF WriteTo, WriteToOf, TLV
<1>7. P(WriteTo, MaxLevels)
  BY <1>5, <1>6, Zenon
<1> QED
  BY <1>7, Zenon DEF TLV

CloneOf(f, t) ==
    IF t = Nil THEN Nil
    ELSE IF FormOf(t.tag) = Primitive THEN Tlv(t.tag, t.value, <<>>)
    ELSE Tlv(t.tag, <<>>, Present(Each(f, t.children)))

\* Clone exists and is what its recursion says.
LEMMA CloneIs == \A t \in TLV : Clone[t] = CloneOf(Clone, t)
<1> DEFINE P(g, n) == g = [t \in TLVs[n] |-> CloneOf(g, t)]
           T == {n \in Nat : n <= MaxLevels => \E g : P(g, n)}
<1>1. 0 \in T
  <2> DEFINE g == [t \in TLVs[0] |-> Nil]
  <2>1. \A t \in TLVs[0] : CloneOf(g, t) = Nil
    BY TLVsAre, Zenon DEF CloneOf
  <2>2. P(g, 0)
    BY <2>1, Zenon
  <2> QED
    BY <2>2, SMT
<1>2. ASSUME NEW n \in Nat, n \in T PROVE n + 1 \in T
  <2>1. SUFFICES ASSUME n + 1 <= MaxLevels PROVE \E g : P(g, n + 1)
    BY SMT
  <2>2. n < MaxLevels /\ n <= MaxLevels
    BY <2>1, Bounds
  <2>3. PICK g : P(g, n)
    BY <1>2, <2>2, Zenon
  <2> DEFINE h == [t \in TLVs[n+1] |-> CloneOf(g, t)]
  <2>4. \A c \in TLVs[n] : h[c] = g[c]
    BY <2>2, <2>3, MoreLevels, Zenon
  <2> HIDE DEF h
  <2>5. ASSUME NEW t \in TLVs[n+1] PROVE CloneOf(g, t) = CloneOf(h, t)
    <3>1. Each(h, t.children) = Each(g, t.children)
      <4>1. Alike(h, g, n)
        BY <2>4, Zenon DEF Alike
      <4>2. SameEach(h, g, t.children)
        BY <2>2, <4>1, SameOnChildren, Zenon
      <4> QED
        BY <4>2, Zenon DEF SameEach
    <3> QED
      BY <3>1, Zenon DEF CloneOf
  <2>6. P(h, n + 1)
    BY <2>5, Zenon DEF h
  <2> QED
    BY <2>6, Zenon
<1> HIDE DEF T
<1>3. \A n \in Nat : n \in T
  BY <1>1, <1>2, AllNumbers, Zenon
<1>4. MaxLevels \in Nat /\ MaxLevels <= MaxLevels
  BY Bounds
<1>5. \E g : P(g, MaxLevels)
  BY <1>3, <1>4, Zenon DEF T
<1>6. Clone = CHOOSE g : P(g, MaxLevels)
  BY Zenon DEF Clone, CloneOf, TLV
<1>7. P(Clone, MaxLevels)
  BY <1>5, <1>6, Zenon
<1> QED
  BY <1>7, Zenon DEF TLV

NodesOf(f, t) ==
    IF t = Nil THEN {}
    ELSE {t} \cup UNION {f[t.children[i]] : i \in DOMAIN t.children}

\* Nodes exists and is what its recursion says.
LEMMA NodesIs == \A t \in TLV : Nodes[t] = NodesOf(Nodes, t)
<1> DEFINE P(g, n) == g = [t \in TLVs[n] |-> NodesOf(g, t)]
           T == {n \in Nat : n <= MaxLevels => \E g : P(g, n)}
<1>1. 0 \in T
  <2> DEFINE g == [t \in TLVs[0] |-> {}]
  <2>1. \A t \in TLVs[0] : NodesOf(g, t) = {}
    BY TLVsAre, Zenon DEF NodesOf
  <2>2. P(g, 0)
    BY <2>1, Zenon
  <2> QED
    BY <2>2, SMT
<1>2. ASSUME NEW n \in Nat, n \in T PROVE n + 1 \in T
  <2>1. SUFFICES ASSUME n + 1 <= MaxLevels PROVE \E g : P(g, n + 1)
    BY SMT
  <2>2. n < MaxLevels /\ n <= MaxLevels
    BY <2>1, Bounds
  <2>3. PICK g : P(g, n)
    BY <1>2, <2>2, Zenon
  <2> DEFINE h == [t \in TLVs[n+1] |-> NodesOf(g, t)]
  <2>4. \A c \in TLVs[n] : h[c] = g[c]
    BY <2>2, <2>3, MoreLevels, Zenon
  <2> HIDE DEF h
  <2>5. ASSUME NEW t \in TLVs[n+1] PROVE NodesOf(g, t) = NodesOf(h, t)
    <3>1. \A i \in DOMAIN t.children : t.children[i] \in TLVs[n]
      <4>1. t.children \in Seq(TLVs[n])
        BY <2>2, PartsOfLevel, Zenon
      <4> QED
        BY <4>1, SMT
    <3>2. \A i \in DOMAIN t.children : h[t.children[i]] = g[t.children[i]]
      BY <2>4, <3>1, Zenon
    <3>3. {h[t.children[i]] : i \in DOMAIN t.children}
            = {g[t.children[i]] : i \in DOMAIN t.children}
      BY <3>2, Zenon
    <3> QED
      BY <3>3, Zenon DEF NodesOf
  <2>6. P(h, n + 1)
    BY <2>5, Zenon DEF h
  <2> QED
    BY <2>6, Zenon
<1> HIDE DEF T
<1>3. \A n \in Nat : n \in T
  BY <1>1, <1>2, AllNumbers, Zenon
<1>4. MaxLevels \in Nat /\ MaxLevels <= MaxLevels
  BY Bounds
<1>5. \E g : P(g, MaxLevels)
  BY <1>3, <1>4, Zenon DEF T
<1>6. Nodes = CHOOSE g : P(g, MaxLevels)
  BY Zenon DEF Nodes, NodesOf, TLV
<1>7. P(Nodes, MaxLevels)
  BY <1>5, <1>6, Zenon
<1> QED
  BY <1>7, Zenon DEF TLV

-----------------------------------------------------------------------------
(* Sequences of results.                                                   *)

\* The children of a TLV are TLVs.
LEMMA ChildrenAre ==
    ASSUME NEW t \in TLV
    PROVE  /\ t.children \in Seq(TLV)
           /\ \A i \in DOMAIN t.children : t.children[i] \in TLV
<1>1. t.children \in Seq(TLV)
  BY PartsOfTLV, Zenon
<1> QED
  BY <1>1, SMT

\* The type of what Each makes.
LEMMA EachIs ==
    ASSUME NEW A, NEW B, NEW f, \A a \in A : f[a] \in B, NEW ts \in Seq(A)
    PROVE  Each(f, ts) \in Seq(B)
<1>1. DOMAIN ts = 1..Len(ts) /\ Len(ts) \in Nat /\ \A i \in 1..Len(ts) : ts[i] \in A
  BY SMT
<1>2. Each(f, ts) = [i \in 1..Len(ts) |-> f[ts[i]]]
  BY <1>1, Zenon DEF Each
<1>3. \A i \in 1..Len(ts) : f[ts[i]] \in B
  BY <1>1, Zenon
<1> QED
  BY <1>1, <1>2, <1>3, SMT

\* What Each makes, place by place.
LEMMA EachAt ==
    ASSUME NEW A, NEW f, NEW ts \in Seq(A)
    PROVE  /\ Len(Each(f, ts)) = Len(ts)
           /\ \A i \in 1..Len(ts) : Each(f, ts)[i] = f[ts[i]]
<1> DEFINE B == {f[a] : a \in A}
<1>1. DOMAIN ts = 1..Len(ts) /\ Len(ts) \in Nat /\ \A i \in 1..Len(ts) : ts[i] \in A
  BY SMT
<1>2. Each(f, ts) = [i \in 1..Len(ts) |-> f[ts[i]]]
  BY <1>1, Zenon DEF Each
<1>3. \A i \in 1..Len(ts) : f[ts[i]] \in B
  BY <1>1, Zenon
<1> HIDE DEF B
<1> QED
  BY <1>1, <1>2, <1>3, SMT

\* Each of nothing.
LEMMA EachEmpty ==
    ASSUME NEW f
    PROVE  Each(f, <<>>) = <<>>
BY SMT DEF Each

\* Each of two lists.
LEMMA EachConcat ==
    ASSUME NEW A, NEW f, NEW p \in Seq(A), NEW q \in Seq(A)
    PROVE  Each(f, p \o q) = Each(f, p) \o Each(f, q)
<1> DEFINE B == {f[a] : a \in A}
           r == p \o q
           e == Each(f, r)
           g == Each(f, p)
           h == Each(f, q)
<1>0. \A a \in A : f[a] \in B
  OBVIOUS
<1> HIDE DEF B
<1>1. r \in Seq(A)
  BY SMT
<1> HIDE DEF r
<1>2. g \in Seq(B) /\ h \in Seq(B) /\ e \in Seq(B)
  BY <1>0, <1>1, EachIs, Zenon
<1>a. Len(e) = Len(r) /\ \A i \in 1..Len(r) : e[i] = f[r[i]]
  BY <1>1, EachAt, SMT
<1>b. Len(g) = Len(p) /\ \A i \in 1..Len(p) : g[i] = f[p[i]]
  BY EachAt, SMT
<1>c. Len(h) = Len(q) /\ \A i \in 1..Len(q) : h[i] = f[q[i]]
  BY EachAt, SMT
<1> HIDE DEF e, g, h
<1>3. /\ Len(r) = Len(p) + Len(q)
      /\ \A i \in 1..(Len(p) + Len(q)) : r[i] = IF i <= Len(p) THEN p[i] ELSE q[i - Len(p)]
  BY ConcatProperties, Zenon DEF r
<1>4. /\ g \o h \in Seq(B) /\ Len(g \o h) = Len(g) + Len(h)
      /\ \A i \in 1..(Len(g) + Len(h)) : (g \o h)[i] = IF i <= Len(g) THEN g[i] ELSE h[i - Len(g)]
  BY <1>2, ConcatProperties, Zenon
<1>5. Len(p) \in Nat /\ Len(q) \in Nat
  BY SMT
<1>6. ASSUME NEW i \in 1..(Len(p) + Len(q)) PROVE e[i] = (g \o h)[i]
  <2>0. i \in 1..Len(r) /\ i \in 1..(Len(g) + Len(h))
    BY <1>3, <1>b, <1>c, Zenon
  <2>1. CASE i <= Len(p)
    <3>1. i \in 1..Len(p)
      BY <1>5, <2>1, SMT
    <3>2. r[i] = p[i] /\ (g \o h)[i] = g[i]
      BY <1>3, <1>4, <1>b, <2>0, <2>1, Zenon
    <3> QED
      BY <1>a, <1>b, <2>0, <3>1, <3>2, Zenon
  <2>2. CASE ~(i <= Len(p))
    <3>1. i - Len(p) \in 1..Len(q)
      BY <1>5, <2>2, SMT
    <3>2. r[i] = q[i - Len(p)] /\ (g \o h)[i] = h[i - Len(p)]
      BY <1>3, <1>4, <1>b, <2>0, <2>2, Zenon
    <3> QED
      BY <1>a, <1>c, <2>0, <3>1, <3>2, Zenon
  <2> QED
    BY <2>1, <2>2
<1>7. e = g \o h
  <2>1. Len(e) = Len(p) + Len(q) /\ Len(g \o h) = Len(e)
    BY <1>3, <1>4, <1>a, <1>b, <1>c, Zenon
  <2> QED
    BY <1>2, <1>4, <1>6, <2>1, SeqEqual, Zenon
<1> QED
  BY <1>7, Zenon DEF e, g, h, r

\* Each of one element.
LEMMA EachOne ==
    ASSUME NEW f, NEW x
    PROVE  Each(f, <<x>>) = <<f[x]>>
BY SMT DEF Each

\* No summand exceeds its sum.
LEMMA SumBounds ==
    ASSUME NEW ls \in Seq(Nat), NEW i \in 1..Len(ls)
    PROVE  ls[i] <= Sum(ls)
<1> DEFINE T == {a \in Seq(Nat) : \A k \in 1..Len(a) : a[k] <= Sum(a)}
<1>1. <<>> \in T
  BY SMT
<1>2. ASSUME NEW a \in Seq(Nat), NEW x \in Nat, a \in T PROVE Append(a, x) \in T
  <2>1. Sum(Append(a, x)) = Sum(a) + x /\ Sum(a) \in Nat
    BY SumAppend, Zenon
  <2>2. \A k \in 1..Len(a) : a[k] <= Sum(a) /\ a[k] \in Nat
    BY <1>2, SMT
  <2>3. /\ Append(a, x) \in Seq(Nat) /\ Len(Append(a, x)) = Len(a) + 1 /\ Len(a) \in Nat
        /\ \A k \in 1..Len(a) : Append(a, x)[k] = a[k]
        /\ Append(a, x)[Len(a) + 1] = x
    BY AppendProperties, LenProperties
  <2>4. \A k \in 1..(Len(a) + 1) : k \in 1..Len(a) \/ k = Len(a) + 1
    BY <2>3, SMT
  <2>5. x <= Sum(a) + x /\ \A k \in 1..Len(a) : a[k] <= Sum(a) + x
    BY <2>1, <2>2, SMT
  <2>6. \A k \in 1..Len(Append(a, x)) : Append(a, x)[k] <= Sum(Append(a, x))
    BY <2>1, <2>3, <2>4, <2>5, Zenon
  <2> QED
    BY <2>3, <2>6, Zenon
<1> HIDE DEF T
<1>3. \A a \in Seq(Nat) : a \in T
  BY <1>1, <1>2, AllSequences, Zenon
<1> QED
  BY <1>3, Zenon DEF T

\* The length of a concatenation.
Lens(qs) == [i \in 1..Len(qs) |-> Len(qs[i])]

\* The lengths of a list of sequences.
LEMMA LensAre ==
    ASSUME NEW A, NEW qs \in Seq(Seq(A))
    PROVE  /\ Lens(qs) \in Seq(Nat) /\ Len(Lens(qs)) = Len(qs)
           /\ \A i \in 1..Len(qs) : Lens(qs)[i] = Len(qs[i])
<1>1. Len(qs) \in Nat /\ \A i \in 1..Len(qs) : Len(qs[i]) \in Nat
  <2>1. Len(qs) \in Nat /\ \A i \in 1..Len(qs) : qs[i] \in Seq(A)
    BY SMT
  <2> QED
    BY <2>1, LenProperties, Zenon
<1> QED
  BY <1>1, SMT DEF Lens

\* What is joined is as long as its parts together.
LEMMA FlattenLen ==
    ASSUME NEW A, NEW qs \in Seq(Seq(A))
    PROVE  Len(FlattenSeq(qs)) = Sum(Lens(qs))
<1> DEFINE B == Seq(A)
           T == {q \in Seq(B) : Len(FlattenSeq(q)) = Sum(Lens(q))}
<1>1. <<>> \in T
  <2>1. Lens(<<>>) = <<>> /\ Len(<<>>) = 0 /\ <<>> \in Seq(B)
    BY SMT DEF Lens
  <2> QED
    BY <2>1, FlattenEmpty, SumEmpty, Zenon
<1>2. ASSUME NEW q \in Seq(B), NEW x \in B, q \in T PROVE Append(q, x) \in T
  <2>1. FlattenSeq(Append(q, x)) = FlattenSeq(q) \o x /\ FlattenSeq(q) \in Seq(A)
    BY FlattenAppend, Zenon
  <2>2. Len(FlattenSeq(q) \o x) = Len(FlattenSeq(q)) + Len(x)
    BY <2>1, ConcatProperties, Zenon
  <2>3. /\ Append(q, x) \in Seq(B) /\ Len(Append(q, x)) = Len(q) + 1 /\ Len(q) \in Nat
        /\ \A k \in 1..Len(q) : Append(q, x)[k] = q[k]
        /\ Append(q, x)[Len(q) + 1] = x
    BY AppendProperties, LenProperties
  <2>4. /\ Lens(q) \in Seq(Nat) /\ Len(Lens(q)) = Len(q)
        /\ \A i \in 1..Len(q) : Lens(q)[i] = Len(q[i])
    BY LensAre, Zenon
  <2>5. /\ Lens(Append(q, x)) \in Seq(Nat) /\ Len(Lens(Append(q, x))) = Len(q) + 1
        /\ \A i \in 1..(Len(q) + 1) : Lens(Append(q, x))[i] = Len(Append(q, x)[i])
    BY <2>3, LensAre, Zenon
  <2>6. Len(x) \in Nat
    BY LenProperties, Zenon
  <2>7. /\ Append(Lens(q), Len(x)) \in Seq(Nat) /\ Len(Append(Lens(q), Len(x))) = Len(q) + 1
        /\ \A k \in 1..Len(q) : Append(Lens(q), Len(x))[k] = Lens(q)[k]
        /\ Append(Lens(q), Len(x))[Len(q) + 1] = Len(x)
    BY <2>4, <2>6, AppendProperties
  <2>8. \A k \in 1..(Len(q) + 1) : k \in 1..Len(q) \/ k = Len(q) + 1
    BY <2>3, SMT
  <2>9. \A k \in 1..(Len(q) + 1) : Lens(Append(q, x))[k] = Append(Lens(q), Len(x))[k]
    BY <2>3, <2>4, <2>5, <2>7, <2>8, Zenon
  <2>10. Lens(Append(q, x)) = Append(Lens(q), Len(x))
    BY <2>5, <2>7, <2>9, SeqEqual, Zenon
  <2>11. Sum(Append(Lens(q), Len(x))) = Sum(Lens(q)) + Len(x)
    BY <2>4, <2>6, SumAppend, Zenon
  <2>12. Len(FlattenSeq(q)) = Sum(Lens(q))
    BY <1>2, Zenon
  <2> QED
    BY <2>1, <2>2, <2>3, <2>10, <2>11, <2>12, Zenon
<1> HIDE DEF T
<1>3. \A q \in Seq(B) : q \in T
  BY <1>1, <1>2, AllSequences, Zenon
<1> QED
  BY <1>3, Zenon DEF T

-----------------------------------------------------------------------------
(* Lengths of trees.                                                       *)

HeaderLen(n) == IF n < 128 THEN 1 ELSE IF n < 256 THEN 2 ELSE IF n < 65536 THEN 3 ELSE 4

\* TLV.Len is a number.
LEMMA TlvLenNat ==
    \A t \in TLV : TlvLen[t] \in Nat
<1> DEFINE T == {t \in TLV : TlvLen[t] \in Nat}
<1>1. Nil \in T
  BY NilIsTLV, TlvLenIs, SMT DEF TlvLenOf
<1>2. ASSUME NEW t \in TLV, \A i \in DOMAIN t.children : t.children[i] \in T
      PROVE  t \in T
  <2>1. t.children \in Seq(T) /\ t.tag \in Seq(Octet) /\ t.value \in Seq(Octet)
    <3>1. t.children \in Seq(TLV) /\ t.tag \in Seq(Octet) /\ t.value \in Seq(Octet)
      BY PartsOfTLV, Zenon
    <3> HIDE DEF T
    <3>2. t.children \in Seq(T)
      BY <1>2, <3>1, SMT
    <3> QED
      BY <3>1, <3>2
  <2>2. Each(TlvLen, t.children) \in Seq(Nat)
    <3>1. \A a \in T : TlvLen[a] \in Nat
      OBVIOUS
    <3> HIDE DEF T
    <3> QED
      BY <2>1, <3>1, EachIs, Zenon
  <2>3. Sum(Each(TlvLen, t.children)) \in Nat
    BY <2>2, SumConcat, Zenon
  <2>4. Len(t.value) \in Nat /\ Len(t.tag) \in Nat
    BY <2>1, LenProperties, Zenon
  <2>5. ContentLength(t, TlvLen) \in Nat
    BY <2>3, <2>4, Zenon DEF ContentLength
  <2>6. WithHeader(t.tag, ContentLength(t, TlvLen)) \in Nat
    BY <2>4, <2>5, SMT DEF WithHeader
  <2>7. TlvLen[t] \in Nat
    <3>1. TlvLen[t] = 0 \/ TlvLen[t] = WithHeader(t.tag, ContentLength(t, TlvLen))
      BY TlvLenIs, Zenon DEF TlvLenOf
    <3> QED
      BY <2>6, <3>1, SMT
  <2> QED
    BY <2>7
<1> HIDE DEF T
<1>3. \A t \in TLV : t \in T
  BY <1>1, <1>2, AllTrees, Zenon
<1> QED
  BY <1>3, Zenon DEF T

\* The length of a TLV is that of its contents, its tag and its length octets.
LEMMA LengthParts ==
    ASSUME NEW t \in TLV
    PROVE  /\ Each(TlvLen, t.children) \in Seq(Nat) /\ Sum(Each(TlvLen, t.children)) \in Nat
           /\ ContentLength(t, TlvLen) \in Nat
           /\ t # Nil => TlvLen[t] = ContentLength(t, TlvLen) + Len(t.tag)
                                       + HeaderLen(ContentLength(t, TlvLen))
           /\ t = Nil => TlvLen[t] = 0
           /\ t # Nil => TlvLen[t] > ContentLength(t, TlvLen)
           /\ Len(t.tag) \in Nat /\ Len(t.value) \in Nat
<1>1. t.children \in Seq(TLV) /\ t.tag \in Seq(Octet) /\ t.value \in Seq(Octet)
  BY PartsOfTLV, Zenon
<1>2. Each(TlvLen, t.children) \in Seq(Nat)
  BY <1>1, TlvLenNat, EachIs, Zenon
<1>3. Sum(Each(TlvLen, t.children)) \in Nat
  BY <1>2, SumConcat, Zenon
<1>4. Len(t.value) \in Nat /\ Len(t.tag) \in Nat
  BY <1>1, LenProperties, Zenon
<1>5. ContentLength(t, TlvLen) \in Nat
  BY <1>3, <1>4, Zenon DEF ContentLength
<1>6. t # Nil => TlvLen[t] = ContentLength(t, TlvLen) + Len(t.tag)
                               + HeaderLen(ContentLength(t, TlvLen))
  <2>1. t # Nil => TlvLen[t] = WithHeader(t.tag, ContentLength(t, TlvLen))
    BY TlvLenIs, Zenon DEF TlvLenOf
  <2> QED
    BY <2>1, SMT DEF WithHeader, HeaderLen
<1>7. t = Nil => TlvLen[t] = 0
  BY TlvLenIs, Zenon DEF TlvLenOf
<1>8. HeaderLen(ContentLength(t, TlvLen)) \in 1..4
  BY <1>5, SMT DEF HeaderLen
<1>9. t # Nil => TlvLen[t] > ContentLength(t, TlvLen)
  BY <1>4, <1>5, <1>6, <1>8, SMT
<1> QED
  BY <1>2, <1>3, <1>4, <1>5, <1>6, <1>7, <1>9, Zenon

\* A child of a constructed TLV is shorter.
LEMMA ChildLength ==
    ASSUME NEW t \in TLV, t # Nil, FormOf(t.tag) # Primitive, NEW i \in DOMAIN t.children
    PROVE  TlvLen[t.children[i]] < TlvLen[t]
<1>1. t.children \in Seq(TLV)
  BY PartsOfTLV, Zenon
<1>2. i \in 1..Len(t.children)
  BY <1>1, LenProperties, Zenon
<1> DEFINE e == Each(TlvLen, t.children)
<1>3. e \in Seq(Nat) /\ Len(e) = Len(t.children) /\ e[i] = TlvLen[t.children[i]]
  <2>1. e \in Seq(Nat)
    BY <1>1, TlvLenNat, EachIs, Zenon
  <2> QED
    BY <1>1, <1>2, <2>1, EachAt, SMT
<1> HIDE DEF e
<1>4. e[i] <= Sum(e)
  BY <1>2, <1>3, SumBounds, Zenon
<1>5. ContentLength(t, TlvLen) = Sum(e)
  BY Zenon DEF ContentLength, e
<1>6. TlvLen[t] > Sum(e) /\ Sum(e) \in Nat /\ TlvLen[t] \in Nat
  BY <1>5, LengthParts, TlvLenNat, Zenon
<1>7. e[i] \in Nat
  BY <1>2, <1>3, SMT
<1>8. e[i] < TlvLen[t]
  BY <1>4, <1>6, <1>7, SMT
<1> QED
  BY <1>3, <1>8, Zenon

-----------------------------------------------------------------------------
(* What is written.                                                        *)

\* The TLVs whose length has a form.
Fit == {t \in TLV : TlvLen[t] <= MaxLength}

\* How many octets MarshalLength writes.
LEMMA HeaderOctets ==
    ASSUME NEW n \in Nat, n <= MaxLength
    PROVE  MarshalLength(n) \in Seq(Octet) /\ Len(MarshalLength(n)) = HeaderLen(n)
<1>1. n < 16777216
  BY SMT DEF MaxLength
<1>2. /\ n % 256 \in 0..255 /\ (n \div 256) % 256 \in 0..255 /\ n \div 65536 \in 0..255
      /\ n < 65536 => n \div 256 \in 0..255
      /\ 129 \in 0..255 /\ 130 \in 0..255 /\ 131 \in 0..255
      /\ n < 256 => n \in 0..255
  BY <1>1, SMT
<1> DEFINE a == n % 256
           b == (n \div 256) % 256
           c == n \div 65536
           d == n \div 256
<1> HIDE DEF a, b, c, d
<1>3. MarshalLength(n) = IF n < 128 THEN <<n>> ELSE IF n < 256 THEN <<129, n>>
                         ELSE IF n < 65536 THEN <<130, d, a>> ELSE <<131, c, b, a>>
  BY SMT DEF MarshalLength, a, b, c, d
<1>4. /\ a \in 0..255 /\ b \in 0..255 /\ c \in 0..255 /\ (n < 65536 => d \in 0..255)
  BY <1>2, SMT DEF a, b, c, d
<1>5. CASE n < 128
  BY <1>2, <1>3, <1>5, SMT DEF Octet, HeaderLen
<1>6. CASE ~(n < 128) /\ n < 256
  BY <1>2, <1>3, <1>6, SMT DEF Octet, HeaderLen
<1>7. CASE ~(n < 128) /\ ~(n < 256) /\ n < 65536
  BY <1>2, <1>3, <1>4, <1>7, SMT DEF Octet, HeaderLen
<1>8. CASE ~(n < 128) /\ ~(n < 256) /\ ~(n < 65536)
  BY <1>2, <1>3, <1>4, <1>8, SMT DEF Octet, HeaderLen
<1> QED
  BY <1>5, <1>6, <1>7, <1>8

\* The octets of a TLV after its header.
Contents(t) ==
    IF FormOf(t.tag) = Primitive THEN t.value ELSE FlattenSeq(Each(WriteTo, t.children))

\* What WriteTo writes: the tag, the length and the contents.
LEMMA WriteToParts ==
    ASSUME NEW t \in TLV, t # Nil
    PROVE  WriteTo[t] = t.tag \o MarshalLength(ContentLength(t, TlvLen)) \o Contents(t)
BY WriteToIs, Zenon DEF WriteToOf, Contents

\* A list of TLVs, as octets.
LEMMA ListOctets ==
    ASSUME NEW K, K \subseteq TLV,
           \A c \in K : WriteTo[c] \in Seq(Octet) /\ Len(WriteTo[c]) = TlvLen[c],
           NEW ts \in Seq(K)
    PROVE  /\ Each(WriteTo, ts) \in Seq(Seq(Octet)) /\ Each(TlvLen, ts) \in Seq(Nat)
           /\ FlattenSeq(Each(WriteTo, ts)) \in Seq(Octet)
           /\ Len(FlattenSeq(Each(WriteTo, ts))) = Sum(Each(TlvLen, ts))
<1> DEFINE w == Each(WriteTo, ts)
           e == Each(TlvLen, ts)
<1>1. w \in Seq(Seq(Octet))
  BY EachIs, Zenon
<1>2. e \in Seq(Nat)
  <2>1. \A c \in K : TlvLen[c] \in Nat
    BY TlvLenNat, Zenon
  <2> QED
    BY <2>1, EachIs, Zenon
<1>3. Len(w) = Len(ts) /\ \A i \in 1..Len(ts) : w[i] = WriteTo[ts[i]]
  BY EachAt, SMT
<1>4. Len(e) = Len(ts) /\ \A i \in 1..Len(ts) : e[i] = TlvLen[ts[i]]
  BY EachAt, SMT
<1>5. \A i \in 1..Len(ts) : ts[i] \in K
  BY SMT
<1> HIDE DEF w, e
<1>6. Lens(w) \in Seq(Nat) /\ Len(Lens(w)) = Len(w) /\ \A i \in 1..Len(w) : Lens(w)[i] = Len(w[i])
  BY <1>1, LensAre, Zenon
<1>7. \A i \in 1..Len(ts) : Lens(w)[i] = e[i]
  BY <1>3, <1>4, <1>5, <1>6, Zenon
<1>8. Lens(w) = e
  BY <1>2, <1>3, <1>4, <1>6, <1>7, SeqEqual, Zenon
<1>9. Len(FlattenSeq(w)) = Sum(e)
  BY <1>1, <1>8, FlattenLen, Zenon
<1>10. FlattenSeq(w) \in Seq(Octet)
  BY <1>1, FlattenConcat, Zenon
<1> QED
  BY <1>1, <1>2, <1>9, <1>10, Zenon DEF w, e

\* The children of a constructed TLV fit when it does.
LEMMA FitChildren ==
    ASSUME NEW t \in Fit, t # Nil, FormOf(t.tag) # Primitive
    PROVE  t.children \in Seq(Fit) /\ \A i \in DOMAIN t.children : t.children[i] \in Fit
<1>1. t \in TLV /\ TlvLen[t] <= MaxLength
  BY Zenon DEF Fit
<1>2. t.children \in Seq(TLV) /\ \A i \in DOMAIN t.children : t.children[i] \in TLV
  BY <1>1, ChildrenAre, Zenon
<1>3. ASSUME NEW i \in DOMAIN t.children PROVE t.children[i] \in Fit
  <2>1. TlvLen[t.children[i]] < TlvLen[t]
    BY <1>1, ChildLength, Zenon
  <2>2. TlvLen[t.children[i]] \in Nat /\ TlvLen[t] \in Nat
    BY <1>1, <1>2, TlvLenNat, Zenon
  <2>3. MaxLength \in Nat
    BY SMT DEF MaxLength
  <2>4. TlvLen[t.children[i]] <= MaxLength
    BY <1>1, <2>1, <2>2, <2>3, SMT
  <2> QED
    BY <1>2, <2>4, Zenon DEF Fit
<1>4. t.children \in Seq(Fit)
  BY <1>2, <1>3, SMT
<1> QED
  BY <1>3, <1>4, Zenon

\* MarshalBinary writes as many octets as Len says.
LEMMA WrittenOctets ==
    \A t \in Fit : WriteTo[t] \in Seq(Octet) /\ Len(WriteTo[t]) = TlvLen[t]
<1> DEFINE T == {t \in TLV : t \in Fit => WriteTo[t] \in Seq(Octet) /\ Len(WriteTo[t]) = TlvLen[t]}
<1>1. Nil \in T
  <2>1. WriteTo[Nil] = <<>> /\ TlvLen[Nil] = 0
    BY NilIsTLV, WriteToIs, TlvLenIs, Zenon DEF WriteToOf, TlvLenOf
  <2>2. <<>> \in Seq(Octet) /\ Len(<<>>) = 0
    OBVIOUS
  <2> QED
    BY <2>1, <2>2, NilIsTLV, Zenon
<1>2. ASSUME NEW t \in TLV, \A i \in DOMAIN t.children : t.children[i] \in T
      PROVE  t \in T
  <2>1. SUFFICES ASSUME t \in Fit, t # Nil
                 PROVE  WriteTo[t] \in Seq(Octet) /\ Len(WriteTo[t]) = TlvLen[t]
    BY <1>1, Zenon
  <2> DEFINE n == ContentLength(t, TlvLen)
  <2>2. t.tag \in Seq(Octet) /\ t.value \in Seq(Octet) /\ n \in Nat /\ TlvLen[t] \in Nat
        /\ TlvLen[t] = n + Len(t.tag) + HeaderLen(n) /\ TlvLen[t] > n
    BY <2>1, PartsOfTLV, LengthParts, TlvLenNat, Zenon
  <2>3. TlvLen[t] <= MaxLength
    BY <2>1, Zenon DEF Fit
  <2>4. n <= MaxLength
    <3>1. MaxLength \in Nat
      BY SMT DEF MaxLength
    <3> HIDE DEF n
    <3> QED
      BY <2>2, <2>3, <3>1, SMT
  <2>5. Contents(t) \in Seq(Octet) /\ Len(Contents(t)) = n
    <3>1. CASE FormOf(t.tag) = Primitive
      BY <2>2, <3>1, Zenon DEF Contents, ContentLength
    <3>2. CASE FormOf(t.tag) # Primitive
      <4> DEFINE K == T \cap Fit
      <4>1. t.children \in Seq(Fit) /\ \A i \in DOMAIN t.children : t.children[i] \in Fit
        BY <2>1, <3>2, FitChildren, Zenon
      <4>2. K \subseteq TLV /\ \A c \in K : WriteTo[c] \in Seq(Octet) /\ Len(WriteTo[c]) = TlvLen[c]
        BY Zenon
      <4>3. \A i \in DOMAIN t.children : t.children[i] \in K
        BY <1>2, <4>1, Zenon
      <4> HIDE DEF K
      <4>4. t.children \in Seq(K)
        BY <4>1, <4>3, SMT
      <4>5. /\ FlattenSeq(Each(WriteTo, t.children)) \in Seq(Octet)
            /\ Len(FlattenSeq(Each(WriteTo, t.children))) = Sum(Each(TlvLen, t.children))
        BY <4>2, <4>4, ListOctets, Zenon
      <4> QED
        BY <3>2, <4>5, Zenon DEF Contents, ContentLength
    <3> QED
      BY <3>1, <3>2
  <2>6. MarshalLength(n) \in Seq(Octet) /\ Len(MarshalLength(n)) = HeaderLen(n)
    BY <2>2, <2>4, HeaderOctets, Zenon
  <2>7. WriteTo[t] = t.tag \o MarshalLength(n) \o Contents(t)
    BY <2>1, WriteToParts, Zenon
  <2> HIDE DEF n, T
  <2>8. /\ t.tag \o MarshalLength(n) \in Seq(Octet)
        /\ Len(t.tag \o MarshalLength(n)) = Len(t.tag) + Len(MarshalLength(n))
    BY <2>2, <2>6, ConcatProperties, Zenon
  <2>9. /\ WriteTo[t] \in Seq(Octet)
        /\ Len(WriteTo[t]) = Len(t.tag \o MarshalLength(n)) + Len(Contents(t))
    BY <2>5, <2>7, <2>8, ConcatProperties, Zenon
  <2>10. Len(t.tag) \in Nat /\ HeaderLen(n) \in Nat
    BY <2>2, SMT DEF HeaderLen
  <2>11. Len(WriteTo[t]) = TlvLen[t]
    BY <2>2, <2>5, <2>6, <2>8, <2>9, <2>10, SMT
  <2> QED
    BY <2>9, <2>11, Zenon
<1> HIDE DEF T
<1>3. \A t \in TLV : t \in T
  BY <1>1, <1>2, AllTrees, Zenon
<1> QED
  BY <1>3, Zenon DEF T, Fit

-----------------------------------------------------------------------------
(* What is read at a position.                                             *)

\* The octets w are those of s from i on.
At(s, i, w) ==
    /\ i + Len(w) <= Len(s) + 1
    /\ \A k \in 1..Len(w) : s[i+k-1] = w[k]

\* s2 begins with s.
Begins(s, s2) == Len(s) <= Len(s2) /\ \A k \in 1..Len(s) : s2[k] = s[k]

\* Octets are where they begin.
LEMMA AtWhole ==
    ASSUME NEW w \in Seq(Octet)
    PROVE  At(w, 1, w)
BY SMT DEF At

\* Octets that follow one another, each in its place.
LEMMA AtConcat ==
    ASSUME NEW s \in Seq(Octet), NEW i \in Nat, i >= 1,
           NEW a \in Seq(Octet), NEW b \in Seq(Octet), At(s, i, a \o b)
    PROVE  At(s, i, a) /\ At(s, i + Len(a), b)
<1> DEFINE w == a \o b
           m == Len(a)
           n == Len(b)
<1>1. /\ m \in Nat /\ n \in Nat /\ Len(w) = m + n
      /\ \A k \in 1..(m+n) : w[k] = IF k <= m THEN a[k] ELSE b[k-m]
  <2>1. /\ Len(w) = Len(a) + Len(b)
        /\ \A k \in 1..(Len(a) + Len(b)) : w[k] = IF k <= Len(a) THEN a[k] ELSE b[k-Len(a)]
    BY ConcatProperties, Zenon
  <2>2. m \in Nat /\ n \in Nat
    BY LenProperties, Zenon
  <2> QED
    BY <2>1, <2>2, Zenon
<1>2. i + Len(w) <= Len(s) + 1 /\ \A k \in 1..Len(w) : s[i+k-1] = w[k]
  BY Zenon DEF At
<1>3. Len(s) \in Nat
  BY LenProperties, Zenon
<1> HIDE DEF w, m, n
<1>4. i + m <= Len(s) + 1 /\ (i + m) + n <= Len(s) + 1
  BY <1>1, <1>2, <1>3, SMT
<1>5. ASSUME NEW k \in 1..m PROVE s[i+k-1] = a[k]
  <2>1. k \in 1..(m+n) /\ k <= m /\ k \in 1..Len(w)
    BY <1>1, SMT
  <2> QED
    BY <1>1, <1>2, <2>1, Zenon
<1>6. ASSUME NEW k \in 1..n PROVE s[(i+m)+k-1] = b[k]
  <2>1. m + k \in 1..(m+n) /\ ~(m + k <= m) /\ m + k \in 1..Len(w)
        /\ (m + k) - m = k /\ i + (m + k) - 1 = (i+m) + k - 1
    BY <1>1, SMT
  <2>2. s[i+(m+k)-1] = b[(m+k)-m]
    BY <1>1, <1>2, <2>1, Zenon
  <2> QED
    BY <2>1, <2>2, SMT
<1> QED
  BY <1>4, <1>5, <1>6, Zenon DEF At, m, n

\* What is cut out of octets at their place.
LEMMA AtSubSeq ==
    ASSUME NEW s \in Seq(Octet), NEW i \in Nat, i >= 1, NEW w \in Seq(Octet), At(s, i, w)
    PROVE  SubSeq(s, i, i + Len(w) - 1) = w
<1> DEFINE m == Len(w)
           e == i + m - 1
<1>1. m \in Nat /\ Len(s) \in Nat
  BY LenProperties, Zenon
<1>2. i + m <= Len(s) + 1 /\ \A k \in 1..m : s[i+k-1] = w[k]
  BY Zenon DEF At
<1> HIDE DEF m
<1>3. i \in Int /\ e \in Int /\ \A k \in i..e : s[k] \in Octet
  BY <1>1, <1>2, SMT
<1>4. /\ SubSeq(s, i, e) \in Seq(Octet) /\ Len(SubSeq(s, i, e)) = IF i <= e THEN e-i+1 ELSE 0
      /\ \A k \in 1..(e-i+1) : SubSeq(s, i, e)[k] = s[i+k-1]
  BY <1>3, SubSeqProperties
<1>5. Len(SubSeq(s, i, e)) = m /\ e-i+1 = m
  BY <1>1, <1>4, SMT
<1> HIDE DEF e
<1>6. \A k \in 1..m : SubSeq(s, i, e)[k] = w[k]
  BY <1>2, <1>4, <1>5, Zenon
<1>7. SubSeq(s, i, e) = w
  BY <1>4, <1>5, <1>6, SeqEqual, Zenon DEF m
<1> QED
  BY <1>7, Zenon DEF e, m

\* Part of a sequence is where it was taken from.
LEMMA SubSeqAt ==
    ASSUME NEW s \in Seq(Octet), NEW i \in Nat, i >= 1, NEW e \in Nat, i <= e + 1, e <= Len(s)
    PROVE  /\ SubSeq(s, i, e) \in Seq(Octet) /\ Len(SubSeq(s, i, e)) = (e + 1) - i
           /\ At(s, i, SubSeq(s, i, e))
<1>1. Len(s) \in Nat /\ \A k \in 1..Len(s) : s[k] \in Octet
  BY SMT
<1>2. i \in Int /\ e \in Int /\ \A k \in i..e : s[k] \in Octet
  BY <1>1, SMT
<1> DEFINE w == SubSeq(s, i, e)
<1>4. /\ w \in Seq(Octet) /\ Len(w) = IF i <= e THEN e-i+1 ELSE 0
      /\ \A k \in 1..(e-i+1) : w[k] = s[i+k-1]
  BY <1>2, SubSeqProperties
<1> HIDE DEF w
<1>5. Len(w) = (e + 1) - i /\ (e + 1) - i = e-i+1
  BY <1>4, SMT
<1>6. i + Len(w) <= Len(s) + 1
  BY <1>1, <1>5, SMT
<1>7. \A k \in 1..Len(w) : s[i+k-1] = w[k]
  BY <1>4, <1>5, Zenon
<1> QED
  BY <1>4, <1>5, <1>6, <1>7, Zenon DEF At, w

\* More octets at the end move none.
LEMMA AtLonger ==
    ASSUME NEW s \in Seq(Octet), NEW s2 \in Seq(Octet), Begins(s, s2),
           NEW i \in Nat, i >= 1, NEW w \in Seq(Octet), At(s, i, w)
    PROVE  At(s2, i, w)
<1>1. Len(w) \in Nat /\ Len(s) \in Nat /\ Len(s2) \in Nat /\ Len(s) <= Len(s2)
      /\ i + Len(w) <= Len(s) + 1
  BY SMT DEF At, Begins
<1>2. i + Len(w) <= Len(s2) + 1
  BY <1>1, SMT
<1>3. ASSUME NEW k \in 1..Len(w) PROVE s2[i+k-1] = w[k]
  <2>1. i+k-1 \in 1..Len(s)
    BY <1>1, SMT
  <2> QED
    BY <2>1, Zenon DEF At, Begins
<1> QED
  BY <1>2, <1>3, Zenon DEF At

\* The octets are the numbers below 256.
LEMMA OctetIs == \A b \in Octet : b \in Nat /\ b < 256
BY SMT DEF Octet

\* The octets of a number make the number.
LEMMA DigitsOf ==
    \A n \in Nat : /\ (n \div 256) * 256 + (n % 256) = n
                   /\ (n \div 65536) * 65536 + ((n \div 256) % 256) * 256 + (n % 256) = n
BY SMT

\* The numbers of two and three octets.
Two(a, b) == a * 256 + b
Three(a, b, c) == a * 65536 + b * 256 + c

\* Two and three octets are a length, and one that needs no longer form.
LEMMA FewDigits ==
    \A a \in Octet, b \in Octet, c \in Octet :
        /\ Two(a, b) \in Nat /\ HeaderLen(Two(a, b)) <= 3 /\ Two(a, b) <= MaxLength
        /\ Three(a, b, c) \in Nat /\ HeaderLen(Three(a, b, c)) <= 4 /\ Three(a, b, c) <= MaxLength
BY SMT DEF Octet, Two, Three, HeaderLen, MaxLength

\* And so is one octet.
LEMMA OneDigit ==
    \A a \in Octet : /\ a \in Nat /\ HeaderLen(a) <= 2 /\ a <= MaxLength
                     /\ a < 128 => HeaderLen(a) <= 1
BY SMT DEF Octet, HeaderLen, MaxLength

-----------------------------------------------------------------------------
(* Tags, at any position.                                                  *)

\* The octets that Tag.ReadFrom reads as one tag.
TagShape(tag) ==
    /\ Len(tag) >= 1
    /\ IF tag[1] % 32 # 31 THEN Len(tag) = 1
       ELSE /\ Len(tag) \in 2..11 /\ tag[Len(tag)] < 128
            /\ \A k \in 2..(Len(tag) - 1) : tag[k] >= 128

\* A tag is read where it was written, whatever follows.
LEMMA TagAt ==
    ASSUME NEW s \in Seq(Octet), NEW i \in Nat, i >= 1, NEW tag \in Seq(Octet),
           TagShape(tag), At(s, i, tag)
    PROVE  ReadTag(s, i) = [ok |-> TRUE, tag |-> tag, next |-> i + Len(tag)]
<1> DEFINE m == Len(tag)
           e == i + m - 1
<1>1. m \in Nat /\ m >= 1 /\ Len(s) \in Nat /\ i + m <= Len(s) + 1
      /\ (\A k \in 1..m : s[i+k-1] = tag[k]) /\ (\A k \in 1..m : tag[k] \in Octet)
  <2>1. m \in Nat /\ Len(s) \in Nat /\ \A k \in 1..m : tag[k] \in Octet
    BY SMT
  <2> QED
    BY <2>1, Zenon DEF At, TagShape
<1>2. s[i] = tag[1] /\ ~(i > Len(s))
  <2>1. 1 \in 1..m /\ i+1-1 = i /\ ~(i > Len(s))
    BY <1>1, SMT
  <2>2. s[i+1-1] = tag[1]
    BY <1>1, <2>1, Zenon
  <2> QED
    BY <2>1, <2>2, SMT
<1>3. CASE tag[1] % 32 # 31
  <2>1. m = 1
    BY <1>3, Zenon DEF TagShape
  <2>2. ReadTag(s, i) = [ok |-> TRUE, tag |-> <<s[i]>>, next |-> i + 1]
    BY <1>2, <1>3, Zenon DEF ReadTag
  <2>3. <<s[i]>> = tag
    <3>1. <<s[i]>> \in Seq(Octet) /\ Len(<<s[i]>>) = 1 /\ <<s[i]>>[1] = tag[1]
      BY <1>1, <1>2, SMT
    <3>2. \A k \in 1..1 : k = 1
      BY SMT
    <3>3. \A k \in 1..Len(<<s[i]>>) : <<s[i]>>[k] = tag[k]
      BY <3>1, <3>2, Zenon
    <3> QED
      BY <2>1, <3>1, <3>3, SeqEqual, Zenon
  <2> QED
    BY <2>1, <2>2, <2>3, Zenon
<1>4. CASE tag[1] % 32 = 31
  <2>1. m \in 2..11 /\ tag[m] < 128 /\ \A k \in 2..(m-1) : tag[k] >= 128
    BY <1>4, Zenon DEF TagShape
  <2> HIDE DEF m
  <2>2. e \in TagEnds(s, i)
    <3>1. e \in (i+1)..(i+10) /\ e <= Len(s) /\ m \in 1..m /\ i+m-1 = e
      BY <1>1, <2>1, SMT
    <3>2. s[e] < 128
      BY <1>1, <2>1, <3>1, Zenon
    <3> QED
      BY <3>1, <3>2, Zenon DEF TagEnds
  <2>3. ASSUME NEW k \in TagEnds(s, i) PROVE e <= k
    <3>1. k \in (i+1)..(i+10) /\ k <= Len(s) /\ s[k] < 128
      BY Zenon DEF TagEnds
    <3>2. SUFFICES ASSUME k < e PROVE FALSE
      BY <1>1, <3>1, SMT
    <3>3. (k-i)+1 \in 2..(m-1) /\ (k-i)+1 \in 1..m /\ i+((k-i)+1)-1 = k
      BY <1>1, <3>1, <3>2, SMT
    <3>4. tag[(k-i)+1] >= 128 /\ s[i+((k-i)+1)-1] = tag[(k-i)+1] /\ tag[(k-i)+1] \in Octet
      BY <1>1, <2>1, <3>3, Zenon
    <3> QED
      BY <3>1, <3>3, <3>4, OctetIs, SMT
  <2>4. EndOfTag(s, i) \in TagEnds(s, i) /\ \A k \in TagEnds(s, i) : EndOfTag(s, i) <= k
    BY <2>2, <2>3, Zenon DEF EndOfTag
  <2>5. EndOfTag(s, i) = e
    <3>1. EndOfTag(s, i) <= e /\ e <= EndOfTag(s, i)
      BY <2>2, <2>3, <2>4, Zenon
    <3>2. EndOfTag(s, i) \in Int /\ e \in Int
      BY <1>1, <2>4, SMT DEF TagEnds
    <3> QED
      BY <3>1, <3>2, SMT
  <2>6. ReadTag(s, i) = [ok |-> TRUE, tag |-> SubSeq(s, i, e), next |-> e + 1]
    <3>1. ~(s[i] % 32 # 31) /\ ~(TagEnds(s, i) = {})
      BY <1>2, <1>4, <2>2, Zenon
    <3> HIDE DEF e
    <3> QED
      BY <1>2, <2>5, <3>1, Zenon DEF ReadTag
  <2>7. SubSeq(s, i, e) = tag
    BY AtSubSeq, Zenon DEF m
  <2>8. e + 1 = i + m
    BY <1>1, SMT
  <2> HIDE DEF e
  <2> QED
    BY <2>6, <2>7, <2>8, Zenon DEF m
<1> QED
  BY <1>3, <1>4

\* What Tag.ReadFrom reads is such a tag, and lies where it was read.
LEMMA TagRead ==
    ASSUME NEW s \in Seq(Octet), NEW i \in Nat, i >= 1, ReadTag(s, i).ok
    PROVE  \E tag \in Seq(Octet) :
              /\ TagShape(tag) /\ At(s, i, tag)
              /\ ReadTag(s, i) = [ok |-> TRUE, tag |-> tag, next |-> i + Len(tag)]
<1>0. Len(s) \in Nat /\ (\A k \in 1..Len(s) : s[k] \in Octet) /\ ~Failed.ok
  BY SMT DEF Failed
<1>1. ~(i > Len(s))
  BY <1>0, Zenon DEF ReadTag
<1>2. CASE s[i] % 32 # 31
  <2>1. SubSeq(s, i, i) \in Seq(Octet) /\ Len(SubSeq(s, i, i)) = 1 /\ At(s, i, SubSeq(s, i, i))
    <3>1. i \in Nat /\ i <= i + 1 /\ i <= Len(s) /\ (i+1)-i = 1
      BY <1>0, <1>1, SMT
    <3> QED
      BY <3>1, SubSeqAt, Zenon
  <2> DEFINE tag == SubSeq(s, i, i)
  <2>2. tag[1] = s[i]
    <3>1. 1 \in 1..1 /\ i+1-1 = i
      BY SMT
    <3>2. s[i+1-1] = tag[1]
      BY <2>1, <3>1, Zenon DEF At
    <3> QED
      BY <3>1, <3>2, SMT
  <2> HIDE DEF tag
  <2>3. TagShape(tag)
    <3>1. 1 >= 1
      BY SMT
    <3> QED
      BY <1>2, <2>1, <2>2, <3>1, Zenon DEF TagShape, tag
  <2>4. ReadTag(s, i) = [ok |-> TRUE, tag |-> tag, next |-> i + Len(tag)]
    BY <2>1, <2>3, TagAt, Zenon DEF tag
  <2> QED
    BY <2>1, <2>3, <2>4, Zenon DEF tag
<1>3. CASE ~(s[i] % 32 # 31)
  <2>1. TagEnds(s, i) # {}
    BY <1>0, <1>1, <1>3, Zenon DEF ReadTag
  <2>2. TagEnds(s, i) \subseteq Nat
    BY SMT DEF TagEnds
  <2>3. PICK e \in TagEnds(s, i) : \A k \in TagEnds(s, i) : e <= k
    BY <2>1, <2>2, LeastOne, Zenon
  <2>4. e \in Nat /\ e \in (i+1)..(i+10) /\ e <= Len(s) /\ s[e] < 128
    <3>1. e \in (i+1)..(i+10) /\ e <= Len(s) /\ s[e] < 128
      BY <2>3, Zenon DEF TagEnds
    <3> QED
      BY <3>1, SMT
  <2> DEFINE tag == SubSeq(s, i, e)
             m == Len(tag)
  <2>5. tag \in Seq(Octet) /\ m = (e + 1) - i /\ At(s, i, tag)
    <3>1. i <= e + 1
      BY <2>4, SMT
    <3> QED
      BY <2>4, <3>1, SubSeqAt, Zenon
  <2>6. \A k \in 1..m : s[i+k-1] = tag[k]
    BY <2>5, Zenon DEF At
  <2> HIDE DEF tag
  <2>7. m \in 2..11 /\ m >= 1 /\ 1 \in 1..m /\ m \in 1..m /\ i+m-1 = e /\ i+1-1 = i
    BY <2>4, <2>5, SMT
  <2>8. tag[1] = s[i] /\ tag[m] = s[e]
    <3>1. s[i+1-1] = tag[1] /\ s[i+m-1] = tag[m]
      BY <2>6, <2>7, Zenon
    <3> HIDE DEF m
    <3> QED
      BY <2>7, <3>1, SMT
  <2>9. ASSUME NEW k \in 2..(m-1) PROVE tag[k] >= 128
    <3> HIDE DEF m
    <3>1. k \in 1..m /\ i+k-1 \in (i+1)..(i+10) /\ i+k-1 <= Len(s) /\ ~(e <= i+k-1)
          /\ i+k-1 \in 1..Len(s)
      BY <1>0, <2>4, <2>5, <2>7, SMT
    <3>2. i+k-1 \notin TagEnds(s, i)
      BY <2>3, <3>1, Zenon
    <3>3. ~(s[i+k-1] < 128) /\ s[i+k-1] = tag[k] /\ s[i+k-1] \in Octet
      BY <1>0, <2>6, <3>1, <3>2, Zenon DEF TagEnds
    <3> QED
      BY <3>3, OctetIs, SMT
  <2>10. TagShape(tag)
    BY <1>3, <2>4, <2>7, <2>8, <2>9, Zenon DEF TagShape
  <2>11. ReadTag(s, i) = [ok |-> TRUE, tag |-> tag, next |-> i + Len(tag)]
    BY <2>5, <2>10, TagAt, Zenon
  <2> QED
    BY <2>5, <2>10, <2>11, Zenon
<1> QED
  BY <1>2, <1>3

\* The shape is what FromOctets asks of a tag; NewTag gives it to a tag of one or
\* two octets, and to no longer one.
LEMMA ShapeOfTags ==
    ASSUME NEW tag \in Seq(Octet)
    PROVE  /\ FromOctets(tag) <=> TagShape(tag)
           /\ FromNewTag(tag) => (TagShape(tag) <=> Len(tag) <= 2)
<1>1. Len(tag) \in Nat /\ \A k \in 1..Len(tag) : tag[k] \in Octet
  BY SMT
<1>2. At(tag, 1, tag) /\ 1 \in Nat /\ 1 >= 1 /\ 1 + Len(tag) = Len(tag) + 1
  BY <1>1, AtWhole, SMT
<1>3. ASSUME TagShape(tag) PROVE FromOctets(tag)
  <2>1. ReadTag(tag, 1) = [ok |-> TRUE, tag |-> tag, next |-> 1 + Len(tag)]
    BY <1>2, <1>3, TagAt, Zenon
  <2> QED
    BY <1>2, <2>1, Zenon DEF FromOctets
<1>4. ASSUME FromOctets(tag) PROVE TagShape(tag)
  <2>1. ReadTag(tag, 1) = [ok |-> TRUE, tag |-> tag, next |-> Len(tag) + 1]
    BY <1>4, Zenon DEF FromOctets
  <2>2. ReadTag(tag, 1).ok /\ ReadTag(tag, 1).tag = tag
    BY <2>1, SMT
  <2>3. PICK t \in Seq(Octet) :
              /\ TagShape(t) /\ At(tag, 1, t)
              /\ ReadTag(tag, 1) = [ok |-> TRUE, tag |-> t, next |-> 1 + Len(t)]
    BY <1>2, <2>2, TagRead, Zenon
  <2>4. ReadTag(tag, 1).tag = t
    BY <2>3, SMT
  <2> QED
    BY <2>2, <2>3, <2>4, Zenon
<1>5. ASSUME FromNewTag(tag), TagShape(tag) PROVE Len(tag) <= 2
  <2>1. SUFFICES ASSUME Len(tag) > 2 PROVE FALSE
    BY <1>1, SMT
  <2>2. tag[1] % 32 = 31 /\ \A k \in 2..Len(tag) : tag[k] >= 128
    BY <1>1, <1>5, <2>1, SMT DEF FromNewTag
  <2>3. tag[Len(tag)] < 128
    BY <1>5, <2>2, Zenon DEF TagShape
  <2>4. Len(tag) \in 2..Len(tag) /\ Len(tag) \in 1..Len(tag)
    BY <1>1, <2>1, SMT
  <2>5. tag[Len(tag)] >= 128 /\ tag[Len(tag)] \in Octet
    BY <1>1, <2>2, <2>4, Zenon
  <2> QED
    BY <2>3, <2>5, OctetIs, SMT
<1>6. ASSUME FromNewTag(tag), Len(tag) <= 2 PROVE TagShape(tag)
  <2>1. \/ Len(tag) = 1 /\ tag[1] % 32 # 31
        \/ Len(tag) = 2 /\ tag[1] % 32 = 31 /\ tag[2] < 128
    BY <1>1, <1>6, SMT DEF FromNewTag
  <2> QED
    BY <2>1, SMT DEF TagShape
<1> QED
  BY <1>3, <1>4, <1>5, <1>6

-----------------------------------------------------------------------------
(* Lengths, at any position.                                               *)

\* The octets of a length after its first.
Wide(b) == IF b \in 129..131 THEN b - 128 ELSE 0

ValueAt(s, i, wide) ==
    IF wide = 0 THEN s[i]
    ELSE IF wide = 1 THEN s[i+1]
    ELSE IF wide = 2 THEN Two(s[i+1], s[i+2])
    ELSE Three(s[i+1], s[i+2], s[i+3])

\* What readLength makes of its first octet and those that follow it.
LEMMA ReadLengthIs ==
    ASSUME NEW s, NEW i
    PROVE  ReadLength(s, i) =
              IF i > Len(s) THEN Failed
              ELSE IF (s[i] >= 128 /\ Wide(s[i]) = 0) \/ i + Wide(s[i]) > Len(s) THEN Failed
              ELSE [ok |-> TRUE, value |-> ValueAt(s, i, Wide(s[i])), next |-> i + Wide(s[i]) + 1]
BY SMT DEF ReadLength, Wide, ValueAt, Two, Three

\* A length that is read has a value that can be written, in no more octets.
LEMMA LengthRead ==
    ASSUME NEW s \in Seq(Octet), NEW i \in Nat, i >= 1, ReadLength(s, i).ok
    PROVE  \E n \in Nat, k \in Nat :
              /\ n <= MaxLength /\ HeaderLen(n) <= k /\ k >= 1 /\ i + k <= Len(s) + 1
              /\ ReadLength(s, i) = [ok |-> TRUE, value |-> n, next |-> i + k]
              /\ \A s2 \in Seq(Octet) : Begins(s, s2) => ReadLength(s2, i) = ReadLength(s, i)
<1>0. Len(s) \in Nat /\ (\A k \in 1..Len(s) : s[k] \in Octet) /\ ~Failed.ok
  BY SMT DEF Failed
<1>1. ~(i > Len(s))
  BY <1>0, ReadLengthIs, Zenon
<1>2. s[i] \in Octet
  BY <1>0, <1>1, SMT
<1> DEFINE w == Wide(s[i])
<1>3. ~(s[i] >= 128 /\ w = 0) /\ ~(i + w > Len(s))
  BY <1>0, <1>1, ReadLengthIs, Zenon
<1>4. w \in 0..3
  BY <1>2, OctetIs, SMT DEF Wide
<1>5. w = 0 => s[i] < 128
  BY <1>2, <1>3, OctetIs, SMT
<1> HIDE DEF w
<1>6. ASSUME NEW k \in 1..3, k <= w PROVE s[i+k] \in Octet
  <2>1. i + k \in 1..Len(s)
    BY <1>0, <1>3, <1>4, <1>6, SMT
  <2> QED
    BY <1>0, <2>1, Zenon
<1> DEFINE n == ValueAt(s, i, w)
<1>8. n \in Nat /\ n <= MaxLength /\ HeaderLen(n) <= w + 1
  <2>1. CASE w = 0
    <3>1. n = s[i] /\ s[i] < 128 /\ w + 1 = 1
      BY <1>5, <2>1, SMT DEF ValueAt
    <3> QED
      BY <1>2, <3>1, OneDigit, Zenon
  <2>2. CASE w = 1
    <3>1. s[i+1] \in Octet /\ n = s[i+1] /\ w + 1 = 2
      BY <1>6, <2>2, SMT DEF ValueAt
    <3> QED
      BY <3>1, OneDigit, Zenon
  <2>3. CASE w = 2
    <3>1. s[i+1] \in Octet /\ s[i+2] \in Octet /\ n = Two(s[i+1], s[i+2]) /\ w + 1 = 3
      BY <1>6, <2>3, SMT DEF ValueAt
    <3> QED
      BY <3>1, FewDigits, Zenon
  <2>4. CASE w = 3
    <3>1. /\ s[i+1] \in Octet /\ s[i+2] \in Octet /\ s[i+3] \in Octet
          /\ n = Three(s[i+1], s[i+2], s[i+3]) /\ w + 1 = 4
      BY <1>6, <2>4, SMT DEF ValueAt
    <3> QED
      BY <3>1, FewDigits, Zenon
  <2> QED
    BY <1>4, <2>1, <2>2, <2>3, <2>4, SMT
<1>9. ReadLength(s, i) = [ok |-> TRUE, value |-> n, next |-> i + (w + 1)]
  <2>1. ReadLength(s, i) = [ok |-> TRUE, value |-> n, next |-> i + w + 1]
    BY <1>1, <1>3, ReadLengthIs, Zenon DEF w
  <2>2. i + w + 1 = i + (w + 1)
    BY <1>4, SMT
  <2> QED
    BY <2>1, <2>2, Zenon
<1>10. ASSUME NEW s2 \in Seq(Octet), Begins(s, s2) PROVE ReadLength(s2, i) = ReadLength(s, i)
  <2>1. Len(s2) \in Nat /\ Len(s) <= Len(s2) /\ \A k \in 1..Len(s) : s2[k] = s[k]
    BY <1>10, LenProperties, Zenon DEF Begins
  <2>2. ~(i > Len(s2)) /\ ~(i + w > Len(s2)) /\ i \in 1..Len(s)
    BY <1>0, <1>1, <1>3, <1>4, <2>1, SMT
  <2>3. s2[i] = s[i]
    BY <2>1, <2>2, Zenon
  <2>4. ASSUME NEW k \in 1..3, k <= w PROVE s2[i+k] = s[i+k]
    <3>1. i + k \in 1..Len(s)
      BY <1>0, <1>3, <1>4, <2>4, SMT
    <3> QED
      BY <2>1, <3>1, Zenon
  <2>5. ValueAt(s2, i, w) = n
    BY <1>4, <2>3, <2>4, SMT DEF ValueAt
  <2> HIDE DEF n
  <2>6. ReadLength(s2, i) = [ok |-> TRUE, value |-> n, next |-> i + w + 1]
    BY <1>3, <2>2, <2>3, <2>5, ReadLengthIs, Zenon DEF w
  <2>7. ReadLength(s, i) = [ok |-> TRUE, value |-> n, next |-> i + w + 1]
    BY <1>1, <1>3, ReadLengthIs, Zenon DEF w, n
  <2> QED
    BY <2>6, <2>7, Zenon
<1>11. w + 1 \in Nat /\ w + 1 >= 1 /\ i + (w + 1) <= Len(s) + 1
  BY <1>0, <1>3, <1>4, SMT
<1> HIDE DEF n
<1> QED
  BY <1>8, <1>9, <1>10, <1>11, Zenon

\* What marshalLength wrote is read wherever it is.
LEMMA LengthAt ==
    ASSUME NEW s \in Seq(Octet), NEW i \in Nat, i >= 1, NEW n \in Nat, n <= MaxLength,
           At(s, i, MarshalLength(n))
    PROVE  ReadLength(s, i) = [ok |-> TRUE, value |-> n, next |-> i + HeaderLen(n)]
<1> DEFINE h == HeaderLen(n)
           v == MarshalLength(n)
<1>0. h \in 1..4 /\ Len(s) \in Nat /\ (\A k \in 1..Len(s) : s[k] \in Octet)
  BY SMT DEF MaxLength, HeaderLen
<1>1. Len(v) = h /\ v \in Seq(Octet)
  BY HeaderOctets, Zenon
<1>2. i + h <= Len(s) + 1 /\ \A k \in 1..h : s[i+k-1] = v[k]
  BY <1>1, Zenon DEF At
<1> HIDE DEF h
<1>3. ~(i > Len(s)) /\ s[i] = v[1] /\ s[i] \in Octet
  <2>1. ~(i > Len(s)) /\ 1 \in 1..h /\ i+1-1 = i /\ i \in 1..Len(s)
    BY <1>0, <1>2, SMT
  <2>2. s[i+1-1] = v[1] /\ s[i] \in Octet
    BY <1>0, <1>2, <2>1, Zenon
  <2> HIDE DEF v
  <2> QED
    BY <2>1, <2>2, SMT
<1>4. ASSUME NEW k \in 1..3, k < h PROVE s[i+k] = v[k+1]
  <2>1. k + 1 \in 1..h /\ i + (k+1) - 1 = i+k
    BY <1>0, <1>4, SMT
  <2>2. s[i+(k+1)-1] = v[k+1]
    BY <1>2, <2>1, Zenon
  <2> HIDE DEF v
  <2> QED
    BY <2>1, <2>2, SMT
<1>5. /\ n < 128 => v = <<n>> /\ h = 1
      /\ n >= 128 /\ n < 256 => v = <<129, n>> /\ h = 2
      /\ n >= 256 /\ n < 65536 => v = <<130, n \div 256, n % 256>> /\ h = 3
      /\ n >= 65536 => v = <<131, n \div 65536, (n \div 256) % 256, n % 256>> /\ h = 4
  BY SMT DEF MarshalLength, HeaderLen, h
<1>6. Wide(s[i]) = h - 1 /\ (Wide(s[i]) = 0 => s[i] < 128)
  <2>1. \/ v[1] = n /\ n < 128 /\ h = 1
        \/ v[1] = 129 /\ h = 2
        \/ v[1] = 130 /\ h = 3
        \/ v[1] = 131 /\ h = 4
    <3> HIDE DEF v
    <3> QED
      BY <1>5, SMT
  <2> HIDE DEF v
  <2> QED
    BY <1>3, <2>1, SMT DEF Wide
<1>7. ValueAt(s, i, h - 1) = n
  <2> HIDE DEF v
  <2>1. CASE n < 128
    BY <1>3, <1>5, <2>1, SMT DEF ValueAt
  <2>2. CASE n >= 128 /\ n < 256
    <3>1. s[i+1] = v[1+1]
      BY <1>4, <1>5, <2>2, SMT
    <3> QED
      BY <1>5, <2>2, <3>1, SMT DEF ValueAt
  <2>3. CASE n >= 256 /\ n < 65536
    <3>1. s[i+1] = v[1+1] /\ s[i+2] = v[2+1]
      BY <1>4, <1>5, <2>3, SMT
    <3>2. s[i+1] = n \div 256 /\ s[i+2] = n % 256 /\ h - 1 = 2
      BY <1>5, <2>3, <3>1, SMT
    <3>3. (n \div 256) * 256 + (n % 256) = n
      BY DigitsOf, SMT
    <3> QED
      BY <3>2, <3>3, SMT DEF ValueAt, Two, Three
  <2>4. CASE n >= 65536
    <3>1. s[i+1] = v[1+1] /\ s[i+2] = v[2+1] /\ s[i+3] = v[3+1]
      BY <1>4, <1>5, <2>4, SMT
    <3>2. s[i+1] = n \div 65536 /\ s[i+2] = (n \div 256) % 256 /\ s[i+3] = n % 256 /\ h - 1 = 3
      BY <1>5, <2>4, <3>1, SMT
    <3>3. (n \div 65536) * 65536 + ((n \div 256) % 256) * 256 + (n % 256) = n
      BY DigitsOf, SMT
    <3> QED
      BY <3>2, <3>3, SMT DEF ValueAt, Two, Three
  <2> QED
    BY <2>1, <2>2, <2>3, <2>4, SMT
<1>8. ~(s[i] >= 128 /\ Wide(s[i]) = 0) /\ ~(i + Wide(s[i]) > Len(s))
      /\ i + (h - 1) + 1 = i + h
  BY <1>0, <1>2, <1>3, <1>6, OctetIs, SMT
<1>9. ReadLength(s, i) = [ok |-> TRUE, value |-> n, next |-> i + (h - 1) + 1]
  BY <1>3, <1>6, <1>7, <1>8, ReadLengthIs, Zenon
<1> QED
  BY <1>8, <1>9, Zenon DEF h

-----------------------------------------------------------------------------
(* The reader's recursion.                                                 *)

\* What ReadFrom makes of a header that was read: its tag, the position after it
\* and the length it announces.
After(s, tag, p, n, children) ==
    IF FormOf(tag) = Constructed
    THEN IF children[<<p, p + n>>].ok
         THEN [ok |-> TRUE, tlv |-> Tlv(tag, <<>>, children[<<p, p + n>>].children),
               next |-> children[<<p, p + n>>].next]
         ELSE Failed
    ELSE [ok |-> TRUE, tlv |-> Tlv(tag, SubSeq(s, p, p + n - 1), <<>>), next |-> p + n]

AfterHeader(s, tag, p, n, children) ==
    IF FormOf(tag) # Constructed /\ p + n - 1 > Len(s) THEN Failed
    ELSE After(s, tag, p, n, children)

\* The tag at i, and the length n after it.
HeaderIs(s, i, tag, q, n, p) ==
    /\ ReadTag(s, i) = [ok |-> TRUE, tag |-> tag, next |-> q]
    /\ ReadLength(s, q) = [ok |-> TRUE, value |-> n, next |-> p]

\* ReadFrom after a tag and a length.
LEMMA ReadHeader ==
    ASSUME NEW s, NEW i, NEW f, NEW tag, NEW q, NEW n, NEW p,
           HeaderIs(s, i, tag, q, n, p)
    PROVE  ReadFrom(s, i, f) = AfterHeader(s, tag, p, n, f)
<1> DEFINE t == ReadTag(s, i)
           l == ReadLength(s, t.next)
           c == f[<<l.next, l.next + l.value>>]
<1>1. t.ok /\ t.tag = tag /\ t.next = q
  BY SMT DEF HeaderIs
<1>2. l = ReadLength(s, q)
  BY <1>1, Zenon
<1>3. l.ok /\ l.value = n /\ l.next = p
  BY <1>2, SMT DEF HeaderIs
<1>4. c = f[<<p, p + n>>]
  BY <1>3, Zenon
<1>5. ReadFrom(s, i, f) =
        IF ~t.ok THEN Failed
        ELSE IF ~l.ok THEN Failed
        ELSE IF FormOf(t.tag) = Constructed
        THEN IF c.ok THEN [ok |-> TRUE, tlv |-> Tlv(t.tag, <<>>, c.children), next |-> c.next]
             ELSE Failed
        ELSE IF l.next + l.value - 1 > Len(s) THEN Failed
        ELSE [ok |-> TRUE, tlv |-> Tlv(t.tag, SubSeq(s, l.next, l.next + l.value - 1), <<>>),
              next |-> l.next + l.value]
  BY Zenon DEF ReadFrom
<1> HIDE DEF t, l, c
<1>6. ReadFrom(s, i, f) =
        IF FormOf(tag) = Constructed
        THEN IF c.ok THEN [ok |-> TRUE, tlv |-> Tlv(tag, <<>>, c.children), next |-> c.next]
             ELSE Failed
        ELSE IF p + n - 1 > Len(s) THEN Failed
        ELSE [ok |-> TRUE, tlv |-> Tlv(tag, SubSeq(s, p, p + n - 1), <<>>), next |-> p + n]
  BY <1>1, <1>3, <1>5, Zenon
<1> QED
  BY <1>4, <1>6, Zenon DEF After, AfterHeader

\* ReadFrom fails or succeeds.
LEMMA FailedOrOk ==
    ASSUME NEW s, NEW i, NEW f
    PROVE  ReadFrom(s, i, f) = Failed \/ ReadFrom(s, i, f).ok
BY SMT DEF ReadFrom, Failed

\* What was read has a tag and a length, and they are read wherever these octets
\* begin a sequence.
LEMMA ReadStep ==
    ASSUME NEW s \in Seq(Octet), NEW i \in Nat, i >= 1, NEW f, ReadFrom(s, i, f).ok
    PROVE  \E tag \in Seq(Octet), n \in Nat, p \in Nat :
              /\ TagShape(tag) /\ At(s, i, tag) /\ n <= MaxLength
              /\ i + Len(tag) + HeaderLen(n) <= p /\ p <= Len(s) + 1 /\ i < p
              /\ FormOf(tag) # Constructed => p + n <= Len(s) + 1
              /\ \A s2 \in Seq(Octet) : \A f2 : Begins(s, s2) => ReadFrom(s2, i, f2) = After(s, tag, p, n, f2)
<1> DEFINE t == ReadTag(s, i)
           l == ReadLength(s, t.next)
<1>0. ~Failed.ok
  BY SMT DEF Failed
<1>1. t.ok
  BY <1>0, Zenon DEF ReadFrom
<1>2. PICK tag \in Seq(Octet) :
              /\ TagShape(tag) /\ At(s, i, tag)
              /\ t = [ok |-> TRUE, tag |-> tag, next |-> i + Len(tag)]
  BY <1>1, TagRead, Zenon
<1> DEFINE q == i + Len(tag)
<1>3. t.next = q /\ q \in Nat /\ q >= 1 /\ Len(tag) \in Nat /\ Len(tag) >= 1 /\ Len(s) \in Nat
  <2>1. t.next = q
    BY <1>2, SMT
  <2>2. Len(tag) \in Nat /\ Len(tag) >= 1 /\ Len(s) \in Nat
    BY <1>2, LenProperties, Zenon DEF TagShape
  <2> HIDE DEF t
  <2> QED
    BY <2>1, <2>2, SMT
<1>4. l.ok
  BY <1>0, <1>1, Zenon DEF ReadFrom
<1>5. l = ReadLength(s, q) /\ ReadLength(s, q).ok
  BY <1>3, <1>4, Zenon
<1>6. PICK n \in Nat, k \in Nat :
              /\ n <= MaxLength /\ HeaderLen(n) <= k /\ k >= 1 /\ q + k <= Len(s) + 1
              /\ ReadLength(s, q) = [ok |-> TRUE, value |-> n, next |-> q + k]
              /\ \A s2 \in Seq(Octet) : Begins(s, s2) => ReadLength(s2, q) = ReadLength(s, q)
  <2> HIDE DEF q, l
  <2> QED
    BY <1>3, <1>5, LengthRead, Zenon
<1> DEFINE p == q + k
<1>7. HeaderLen(n) \in Nat
  BY SMT DEF HeaderLen
<1>8. /\ p \in Nat /\ i + Len(tag) + HeaderLen(n) <= p /\ p <= Len(s) + 1 /\ i < p
  BY <1>3, <1>6, <1>7, SMT
<1>9. ReadFrom(s, i, f) = AfterHeader(s, tag, p, n, f)
  <2> HIDE DEF q, p
  <2>1. t = [ok |-> TRUE, tag |-> tag, next |-> q]
    BY <1>2, Zenon DEF q
  <2>2. ReadLength(s, q) = [ok |-> TRUE, value |-> n, next |-> p]
    BY <1>6, Zenon DEF p
  <2>3. HeaderIs(s, i, tag, q, n, p)
    BY <2>1, <2>2, Zenon DEF HeaderIs
  <2> QED
    BY <2>3, ReadHeader, SMT
<1> HIDE DEF q, p, t, l
<1>10. FormOf(tag) # Constructed => p + n <= Len(s) + 1
  <2>1. FormOf(tag) # Constructed => ~(p + n - 1 > Len(s))
    BY <1>0, <1>9, Zenon DEF AfterHeader
  <2> QED
    BY <1>3, <1>8, <2>1, SMT
<1>11. ASSUME NEW s2 \in Seq(Octet), NEW f2, Begins(s, s2)
       PROVE  ReadFrom(s2, i, f2) = After(s, tag, p, n, f2)
  <2>1. At(s2, i, tag)
    BY <1>2, <1>11, AtLonger, Zenon
  <2>2. ReadTag(s2, i) = [ok |-> TRUE, tag |-> tag, next |-> q]
    BY <1>2, <2>1, TagAt, Zenon DEF q
  <2>3. ReadLength(s2, q) = [ok |-> TRUE, value |-> n, next |-> p]
    BY <1>6, <1>11, Zenon DEF p
  <2>4. ReadFrom(s2, i, f2) = AfterHeader(s2, tag, p, n, f2)
    <3>1. HeaderIs(s2, i, tag, q, n, p)
      BY <2>2, <2>3, Zenon DEF HeaderIs
    <3> QED
      BY <3>1, ReadHeader, SMT
  <2>5. CASE FormOf(tag) = Constructed
    BY <2>4, <2>5, Zenon DEF After, AfterHeader
  <2>6. CASE FormOf(tag) # Constructed
    <3>1. Len(s2) \in Nat /\ Len(s) <= Len(s2)
      BY <1>11, LenProperties, Zenon DEF Begins
    <3>2. p + n <= Len(s) + 1 /\ ~(p + n - 1 > Len(s2))
      BY <1>3, <1>8, <1>10, <2>6, <3>1, SMT
    <3>3. SubSeq(s2, p, p + n - 1) = SubSeq(s, p, p + n - 1)
      <4> DEFINE e == p + n - 1
                 w == SubSeq(s, p, e)
      <4>1. e \in Nat /\ p <= e + 1 /\ e <= Len(s) /\ p >= 1 /\ (e + 1) - p = n /\ p + n - 1 = e
        BY <1>3, <1>8, <3>2, SMT
      <4> HIDE DEF e
      <4>2. w \in Seq(Octet) /\ Len(w) = (e + 1) - p /\ At(s, p, w)
        BY <1>8, <4>1, SubSeqAt, Zenon
      <4> HIDE DEF w
      <4>3. At(s2, p, w)
        BY <1>8, <1>11, <4>1, <4>2, AtLonger, Zenon
      <4>4. SubSeq(s2, p, p + Len(w) - 1) = w
        BY <1>8, <4>1, <4>2, <4>3, AtSubSeq, Zenon
      <4>5. SubSeq(s2, p, e) = w
        BY <4>1, <4>2, <4>4, Zenon
      <4> QED
        BY <4>5, Zenon DEF e, w
    <3> QED
      BY <2>4, <2>6, <3>2, <3>3, Zenon DEF After, AfterHeader
  <2> QED
    BY <2>5, <2>6
<1> QED
  BY <1>2, <1>6, <1>8, <1>10, <1>11, Zenon

\* Every sequence begins itself.
LEMMA BeginsItself ==
    ASSUME NEW s \in Seq(Octet)
    PROVE  Begins(s, s)
BY SMT DEF Begins

\* Positions from the last one down.
LEMMA AllPositions ==
    ASSUME NEW L \in Nat, NEW T,
           \A i \in 1..(L+1) : (\A k \in (i+1)..(L+1) : k \in T) => i \in T
    PROVE  \A i \in 1..(L+1) : i \in T
<1> DEFINE K == {n \in Nat : \A i \in 1..(L+1) : (L + 1) - i <= n => i \in T}
<1>1. 0 \in K
  <2>1. SUFFICES ASSUME NEW i \in 1..(L+1), (L + 1) - i <= 0 PROVE i \in T
    BY SMT
  <2>2. \A k \in (i+1)..(L+1) : k \in T
    BY <2>1, SMT
  <2> QED
    BY <2>2, Zenon
<1>2. ASSUME NEW n \in Nat, n \in K PROVE n + 1 \in K
  <2>0. n + 1 \in Nat
    BY SMT
  <2>1. SUFFICES ASSUME NEW i \in 1..(L+1), (L + 1) - i <= n + 1 PROVE i \in T
    BY <2>0, Zenon
  <2>2. ASSUME NEW k \in (i+1)..(L+1) PROVE k \in T
    <3>1. k \in 1..(L+1) /\ (L + 1) - k <= n
      BY <2>1, SMT
    <3> QED
      BY <1>2, <3>1, Zenon
  <2> QED
    BY <2>2, Zenon
<1> HIDE DEF K
<1>3. \A n \in Nat : n \in K
  BY <1>1, <1>2, AllNumbers, Zenon
<1>4. ASSUME NEW i \in 1..(L+1) PROVE i \in T
  <2>1. (L + 1) - i \in Nat /\ (L + 1) - i <= (L + 1) - i
    BY SMT
  <2>2. (L + 1) - i \in K
    BY <1>3, <2>1, Zenon
  <2> QED
    BY <2>1, <2>2, Zenon DEF K
<1> QED
  BY <1>4

-----------------------------------------------------------------------------
(* The children that are read.                                             *)

\* What the loop makes of the octets from i up to stop, given what it makes of
\* those further on.
ChildrenFrom(s, f, i, stop) ==
    LET child == ReadFrom(s, i, f)
        rest  == f[<<child.next, stop>>]
    IN  IF i >= stop THEN [ok |-> TRUE, children |-> <<>>, next |-> i]
        ELSE IF ~child.ok THEN Failed
        ELSE IF ~rest.ok THEN Failed
        ELSE [ok |-> TRUE, children |-> <<child.tlv>> \o rest.children, next |-> rest.next]

\* The loop, from position lo on.
IsFrom(s, f, lo) ==
    f = [p \in (lo..(Len(s)+1)) \X Nat |-> ChildrenFrom(s, f, p[1], p[2])]

\* It does not read past the end.
Within(s, f, k, stop) == f[<<k, stop>>].ok => f[<<k, stop>>].next \in k..(Len(s)+1)

\* What is read at i with what f makes of the positions after it.
LEMMA ReadWithin ==
    ASSUME NEW s \in Seq(Octet), NEW i \in 1..(Len(s)+1), NEW f,
           \A k \in (i+1)..(Len(s)+1), m \in Nat : Within(s, f, k, m),
           ReadFrom(s, i, f).ok
    PROVE  /\ ReadFrom(s, i, f).next \in (i+1)..(Len(s)+1)
           /\ \A g : (\A k \in (i+1)..(Len(s)+1), m \in Nat : g[<<k, m>>] = f[<<k, m>>])
                       => ReadFrom(s, i, g) = ReadFrom(s, i, f)
<1>0. Len(s) \in Nat /\ i \in Nat /\ i >= 1 /\ ~Failed.ok /\ Begins(s, s)
  BY BeginsItself, SMT DEF Failed
<1>1. PICK tag \in Seq(Octet), n \in Nat, p \in Nat :
              /\ TagShape(tag) /\ At(s, i, tag) /\ n <= MaxLength
              /\ i + Len(tag) + HeaderLen(n) <= p /\ p <= Len(s) + 1 /\ i < p
              /\ FormOf(tag) # Constructed => p + n <= Len(s) + 1
              /\ \A s2 \in Seq(Octet) : \A f2 : Begins(s, s2) => ReadFrom(s2, i, f2) = After(s, tag, p, n, f2)
  BY <1>0, ReadStep, Zenon
<1>2. \A g : ReadFrom(s, i, g) = After(s, tag, p, n, g)
  BY <1>0, <1>1, Zenon
<1>3. p \in (i+1)..(Len(s)+1) /\ p + n \in Nat
  BY <1>0, <1>1, SMT
<1>4. ReadFrom(s, i, f) = After(s, tag, p, n, f)
  BY <1>2, Zenon
<1>5. ReadFrom(s, i, f).next \in (i+1)..(Len(s)+1)
  <2>1. CASE FormOf(tag) = Constructed
    <3>1. f[<<p, p + n>>].ok
      BY <1>0, <1>4, <2>1, Zenon DEF After
    <3>2. f[<<p, p + n>>].next \in p..(Len(s)+1)
      BY <1>3, <3>1, Zenon DEF Within
    <3>3. ReadFrom(s, i, f).next = f[<<p, p + n>>].next
      BY <1>4, <2>1, <3>1, SMT DEF After
    <3> HIDE DEF Failed
    <3>4. f[<<p, p + n>>].next \in (i+1)..(Len(s)+1)
      BY <1>0, <1>3, <3>2, SMT
    <3> QED
      BY <3>3, <3>4, Zenon
  <2>2. CASE FormOf(tag) # Constructed
    <3>1. ReadFrom(s, i, f).next = p + n
      BY <1>4, <2>2, SMT DEF After
    <3>2. p + n \in (i+1)..(Len(s)+1)
      BY <1>0, <1>1, <1>3, <2>2, SMT
    <3> QED
      BY <3>1, <3>2, Zenon
  <2> QED
    BY <2>1, <2>2
<1>6. ASSUME NEW g, \A k \in (i+1)..(Len(s)+1), m \in Nat : g[<<k, m>>] = f[<<k, m>>]
      PROVE  ReadFrom(s, i, g) = ReadFrom(s, i, f)
  <2>1. g[<<p, p + n>>] = f[<<p, p + n>>]
    BY <1>3, <1>6, Zenon
  <2>2. After(s, tag, p, n, g) = After(s, tag, p, n, f)
    BY <2>1, Zenon DEF After
  <2> QED
    BY <1>2, <2>2, Zenon
<1> QED
  BY <1>5, <1>6, Zenon

\* One round of the loop stays within the octets, and asks only for what comes later.
LEMMA ChildrenWithin ==
    ASSUME NEW s \in Seq(Octet), NEW i \in 1..(Len(s)+1), NEW f, NEW stop \in Nat,
           \A k \in (i+1)..(Len(s)+1), m \in Nat : Within(s, f, k, m)
    PROVE  /\ ChildrenFrom(s, f, i, stop).ok => ChildrenFrom(s, f, i, stop).next \in i..(Len(s)+1)
           /\ \A g : (\A k \in (i+1)..(Len(s)+1), m \in Nat : g[<<k, m>>] = f[<<k, m>>])
                       => ChildrenFrom(s, g, i, stop) = ChildrenFrom(s, f, i, stop)
<1> DEFINE child == ReadFrom(s, i, f)
           rest == f[<<child.next, stop>>]
<1>0. Len(s) \in Nat /\ i \in Nat /\ i >= 1 /\ ~Failed.ok /\ i \in i..(Len(s)+1)
  BY SMT DEF Failed
<1>1. child.ok => child.next \in (i+1)..(Len(s)+1)
  BY ReadWithin, Zenon
<1>2. ASSUME ChildrenFrom(s, f, i, stop).ok
      PROVE  ChildrenFrom(s, f, i, stop).next \in i..(Len(s)+1)
  <2>1. CASE i >= stop
    <3>1. ChildrenFrom(s, f, i, stop).next = i
      BY <2>1, SMT DEF ChildrenFrom
    <3> QED
      BY <1>0, <3>1, Zenon
  <2>2. CASE ~(i >= stop)
    <3>1. child.ok /\ rest.ok
      BY <1>0, <1>2, <2>2, Zenon DEF ChildrenFrom
    <3>2. ChildrenFrom(s, f, i, stop)
            = [ok |-> TRUE, children |-> <<child.tlv>> \o rest.children, next |-> rest.next]
      BY <2>2, <3>1, Zenon DEF ChildrenFrom
    <3>3. child.next \in (i+1)..(Len(s)+1) /\ rest.next \in child.next..(Len(s)+1)
      BY <1>1, <3>1, Zenon DEF Within
    <3> HIDE DEF child, rest
    <3>4. ChildrenFrom(s, f, i, stop).next = rest.next
      BY <3>2, SMT
    <3>5. rest.next \in i..(Len(s)+1)
      BY <1>0, <3>3, SMT
    <3> QED
      BY <3>4, <3>5, Zenon
  <2> QED
    BY <2>1, <2>2
<1>3. ASSUME NEW g, \A k \in (i+1)..(Len(s)+1), m \in Nat : g[<<k, m>>] = f[<<k, m>>]
      PROVE  ChildrenFrom(s, g, i, stop) = ChildrenFrom(s, f, i, stop)
  <2>1. ReadFrom(s, i, g) = child
    <3>1. CASE child.ok
      BY <1>3, <3>1, ReadWithin, Zenon
    <3>2. CASE ~child.ok
      <4>1. child = Failed
        BY <3>2, FailedOrOk, Zenon
      <4>2. CASE ReadFrom(s, i, g).ok
        <5>1. \A k \in (i+1)..(Len(s)+1), m \in Nat : Within(s, g, k, m)
          BY <1>3, Zenon DEF Within
        <5>2. \A k \in (i+1)..(Len(s)+1), m \in Nat : f[<<k, m>>] = g[<<k, m>>]
          BY <1>3, Zenon
        <5>3. ReadFrom(s, i, f) = ReadFrom(s, i, g)
          BY <4>2, <5>1, <5>2, ReadWithin, Zenon
        <5> QED
          BY <5>3, Zenon
      <4>3. CASE ~ReadFrom(s, i, g).ok
        <5>1. ReadFrom(s, i, g) = Failed
          BY <4>3, FailedOrOk, Zenon
        <5> QED
          BY <4>1, <5>1, Zenon
      <4> QED
        BY <4>2, <4>3
    <3> QED
      BY <3>1, <3>2
  <2>2. CASE child.ok
    <3>1. g[<<child.next, stop>>] = rest
      BY <1>1, <1>3, <2>2, Zenon
    <3> QED
      BY <2>1, <3>1, Zenon DEF ChildrenFrom
  <2>3. CASE ~child.ok
    BY <2>1, <2>3, Zenon DEF ChildrenFrom
  <2> QED
    BY <2>2, <2>3
<1> QED
  BY <1>2, <1>3, Zenon

\* The lists of the loop from a place on, by their recursion.
LEMMA IsFromAt ==
    ASSUME NEW s, NEW f, NEW lo, IsFrom(s, f, lo), NEW k \in lo..(Len(s)+1), NEW m \in Nat
    PROVE  f[<<k, m>>] = ChildrenFrom(s, f, k, m)
<1>1. <<k, m>> \in (lo..(Len(s)+1)) \X Nat
  OBVIOUS
<1>2. f[<<k, m>>] = ChildrenFrom(s, f, <<k, m>>[1], <<k, m>>[2])
  BY <1>1, Zenon DEF IsFrom
<1> QED
  BY <1>2, Zenon

\* Whatever satisfies the loop's equation stays within the octets.
LEMMA FromWithin ==
    ASSUME NEW s \in Seq(Octet), NEW f, NEW lo \in 1..(Len(s)+1), IsFrom(s, f, lo)
    PROVE  \A k \in lo..(Len(s)+1), m \in Nat : Within(s, f, k, m)
<1> DEFINE L == Len(s)
           T == {k \in 1..(L+1) : k >= lo => \A m \in Nat : Within(s, f, k, m)}
<1>0. L \in Nat
  BY LenProperties, Zenon
<1>1. ASSUME NEW i \in 1..(L+1), \A k \in (i+1)..(L+1) : k \in T
      PROVE  i \in T
  <2>1. SUFFICES ASSUME i >= lo, NEW m \in Nat PROVE Within(s, f, i, m)
    OBVIOUS
  <2>2. i \in lo..(L+1) /\ \A k \in (i+1)..(L+1) : k >= lo
    BY <1>0, <2>1, SMT
  <2>3. \A k \in (i+1)..(L+1), n \in Nat : Within(s, f, k, n)
    BY <1>1, <2>2, Zenon
  <2>4. f[<<i, m>>] = ChildrenFrom(s, f, i, m)
    BY <2>2, IsFromAt, SMT
  <2> HIDE DEF T
  <2>5. ChildrenFrom(s, f, i, m).ok => ChildrenFrom(s, f, i, m).next \in i..(L+1)
    BY <2>3, ChildrenWithin, Zenon
  <2> QED
    BY <2>4, <2>5, Zenon DEF Within
<1> HIDE DEF T
<1>2. \A i \in 1..(L+1) : i \in T
  <2> HIDE DEF L
  <2> QED
    BY <1>0, <1>1, AllPositions, Zenon
<1>3. \A k \in lo..(L+1) : k \in 1..(L+1) /\ k >= lo
  BY <1>0, SMT
<1> QED
  BY <1>2, <1>3, Zenon DEF T

\* The loop has a meaning.
LEMMA FromExists ==
    ASSUME NEW s \in Seq(Octet)
    PROVE  \E f : IsFrom(s, f, 1)
<1> DEFINE L == Len(s)
           T == {lo \in 1..(L+1) : \E f : IsFrom(s, f, lo)}
<1>0. L \in Nat
  BY LenProperties, Zenon
<1>1. ASSUME NEW lo \in 1..(L+1), NEW g,
             \A k \in (lo+1)..(L+1), m \in Nat : g[<<k, m>>] = ChildrenFrom(s, g, k, m),
             \A k \in (lo+1)..(L+1), m \in Nat : Within(s, g, k, m)
      PROVE  lo \in T
  <2> DEFINE D == (lo..(L+1)) \X Nat
             f == [p \in D |-> IF p[1] = lo THEN ChildrenFrom(s, g, lo, p[2]) ELSE g[p]]
  <2>1. ASSUME NEW k \in (lo+1)..(L+1), NEW m \in Nat PROVE f[<<k, m>>] = g[<<k, m>>]
    <3>1. k \in lo..(L+1) /\ k # lo
      BY <1>0, SMT
    <3>2. <<k, m>> \in D /\ <<k, m>>[1] = k
      BY <3>1
    <3> QED
      BY <3>1, <3>2, Zenon
  <2>2. ASSUME NEW m \in Nat PROVE f[<<lo, m>>] = ChildrenFrom(s, g, lo, m)
    <3>1. lo \in lo..(L+1)
      BY <1>0, SMT
    <3>2. <<lo, m>> \in D /\ <<lo, m>>[1] = lo /\ <<lo, m>>[2] = m
      BY <3>1
    <3> QED
      BY <3>2, Zenon
  <2>3. ASSUME NEW p \in D PROVE f[p] = ChildrenFrom(s, f, p[1], p[2])
    <3>1. p[1] \in lo..(L+1) /\ p[2] \in Nat /\ p = <<p[1], p[2]>>
      OBVIOUS
    <3> DEFINE k == p[1]
               m == p[2]
    <3> HIDE DEF f, D, k, m
    <3>2. k \in lo..(L+1) /\ m \in Nat /\ p = <<k, m>>
      BY <3>1, Zenon DEF k, m
    <3>3. CASE k = lo
      <4>1. ChildrenFrom(s, f, lo, m) = ChildrenFrom(s, g, lo, m)
        BY <1>1, <2>1, <3>2, ChildrenWithin, Zenon
      <4>2. f[p] = ChildrenFrom(s, g, lo, m)
        BY <2>2, <3>2, <3>3, Zenon
      <4> QED
        BY <3>3, <4>1, <4>2, Zenon DEF k, m
    <3>4. CASE k # lo
      <4>1. k \in (lo+1)..(L+1) /\ k \in 1..(L+1) /\ \A j \in (k+1)..(L+1) : j \in (lo+1)..(L+1)
        BY <1>0, <3>2, <3>4, SMT
      <4>2. /\ \A j \in (k+1)..(L+1), n \in Nat : f[<<j, n>>] = g[<<j, n>>]
            /\ \A j \in (k+1)..(L+1), n \in Nat : Within(s, g, j, n)
        BY <1>1, <2>1, <4>1, Zenon
      <4>3. ChildrenFrom(s, f, k, m) = ChildrenFrom(s, g, k, m)
        BY <3>2, <4>1, <4>2, ChildrenWithin, Zenon
      <4>4. f[p] = ChildrenFrom(s, g, k, m)
        BY <1>1, <2>1, <3>2, <4>1, Zenon
      <4> QED
        BY <4>3, <4>4, Zenon DEF k, m
    <3> QED
      BY <3>3, <3>4
  <2>4. f = [p \in D |-> f[p]]
    BY Zenon
  <2> HIDE DEF f
  <2>5. f = [p \in D |-> ChildrenFrom(s, f, p[1], p[2])]
    BY <2>3, <2>4, Zenon
  <2>6. IsFrom(s, f, lo)
    BY <2>5, Zenon DEF IsFrom
  <2> QED
    BY <2>6, Zenon
<1>2. ASSUME NEW lo \in 1..(L+1), \A k \in (lo+1)..(L+1) : k \in T
      PROVE  lo \in T
  <2>1. CASE lo = L + 1
    <3>1. (lo+1)..(L+1) = {}
      BY <1>0, <2>1, SMT
    <3> DEFINE g == [p \in {} |-> 0]
    <3> HIDE DEF T, g
    <3>2. /\ \A k \in (lo+1)..(L+1), m \in Nat : g[<<k, m>>] = ChildrenFrom(s, g, k, m)
          /\ \A k \in (lo+1)..(L+1), m \in Nat : Within(s, g, k, m)
      BY <3>1, Zenon
    <3> QED
      BY <1>1, <3>2, Zenon
  <2>2. CASE lo # L + 1
    <3>1. lo + 1 \in (lo+1)..(L+1) /\ lo + 1 \in 1..(L+1)
      BY <1>0, <2>2, SMT
    <3>2. PICK g : IsFrom(s, g, lo + 1)
      BY <1>2, <3>1, Zenon
    <3> HIDE DEF T
    <3>3. ASSUME NEW k \in (lo+1)..(L+1), NEW m \in Nat
          PROVE  g[<<k, m>>] = ChildrenFrom(s, g, k, m)
      BY <3>2, IsFromAt, SMT
    <3>4. \A k \in (lo+1)..(L+1), m \in Nat : Within(s, g, k, m)
      BY <3>1, <3>2, FromWithin, Zenon
    <3> QED
      BY <1>1, <3>3, <3>4, Zenon
  <2> QED
    BY <2>1, <2>2
<1> HIDE DEF T
<1>3. \A lo \in 1..(L+1) : lo \in T
  <2> HIDE DEF L
  <2> QED
    BY <1>0, <1>2, AllPositions, Zenon
<1>4. 1 \in 1..(L+1)
  BY <1>0, SMT
<1> QED
  BY <1>3, <1>4, Zenon DEF T

\* ReadChildren exists and is what its recursion says; it never leaves the octets.
LEMMA ReadChildrenIs ==
    ASSUME NEW s \in Seq(Octet)
    PROVE  \A k \in 1..(Len(s)+1), m \in Nat :
              /\ ReadChildren(s)[<<k, m>>] = ChildrenFrom(s, ReadChildren(s), k, m)
              /\ Within(s, ReadChildren(s), k, m)
<1>1. ReadChildren(s)
        = CHOOSE f : f = [p \in (1..(Len(s)+1)) \X Nat |-> ChildrenFrom(s, f, p[1], p[2])]
  BY Zenon DEF ReadChildren, ChildrenFrom
<1>2. ReadChildren(s) = CHOOSE f : IsFrom(s, f, 1)
  BY <1>1, Zenon DEF IsFrom
<1>3. IsFrom(s, ReadChildren(s), 1)
  BY <1>2, FromExists, Zenon
<1> DEFINE f == ReadChildren(s)
<1> HIDE DEF f
<1>4. IsFrom(s, f, 1) /\ 1 \in 1..(Len(s)+1)
  BY <1>3, SMT DEF f
<1>5. ASSUME NEW k \in 1..(Len(s)+1), NEW m \in Nat
      PROVE  f[<<k, m>>] = ChildrenFrom(s, f, k, m)
  BY <1>4, IsFromAt, SMT
<1>6. \A k \in 1..(Len(s)+1), m \in Nat : Within(s, f, k, m)
  BY <1>4, FromWithin, Zenon
<1> QED
  BY <1>5, <1>6, Zenon DEF f

-----------------------------------------------------------------------------
(* What was written is read.                                               *)

\* The TLVs that WriteTo writes and whose tags Tag.ReadFrom reads, and nil.
Readable == {t \in Fit : Writable(t) /\ \A u \in Nodes[t] : TagShape(u.tag)}

\* Every tag is primitive or constructed.
LEMMA FormIs ==
    ASSUME NEW tag \in Seq(Octet), Len(tag) >= 1
    PROVE  FormOf(tag) = Primitive \/ FormOf(tag) = Constructed
<1>1. tag[1] \in Nat
  BY OctetIs, SMT
<1> QED
  BY <1>1, SMT DEF FormOf, Primitive, Constructed

\* And none is both.
LEMMA FormsDiffer == Primitive # Constructed
BY SMT DEF Primitive, Constructed

\* The nodes of a tree: its root, and those of its children.
LEMMA NodesAre ==
    ASSUME NEW t \in TLV, t # Nil
    PROVE  /\ t \in Nodes[t]
           /\ \A i \in DOMAIN t.children : Nodes[t.children[i]] \subseteq Nodes[t]
           /\ \A u \in Nodes[t] : u = t \/ \E i \in DOMAIN t.children : u \in Nodes[t.children[i]]
<1>1. Nodes[t] = {t} \cup UNION {Nodes[t.children[i]] : i \in DOMAIN t.children}
  BY NodesIs, Zenon DEF NodesOf
<1> QED
  BY <1>1, Zenon

\* What a TLV that can be read back is made of.
LEMMA ReadableParts ==
    ASSUME NEW t \in Readable, t # Nil
    PROVE  /\ t \in TLV /\ t \in Fit /\ t.tag \in Seq(Octet) /\ TagShape(t.tag)
           /\ FormOf(t.tag) = Primitive \/ FormOf(t.tag) = Constructed
           /\ FormOf(t.tag) = Primitive => t.children = <<>>
           /\ FormOf(t.tag) = Constructed =>
                 /\ t.value = <<>> /\ t.children \in Seq(Readable)
                 /\ \A i \in DOMAIN t.children : t.children[i] \in Readable
<1>1. t \in TLV /\ t \in Fit /\ Writable(t) /\ \A u \in Nodes[t] : TagShape(u.tag)
  BY Zenon DEF Readable, Fit
<1>2. t.tag \in Seq(Octet) /\ t \in Nodes[t]
  BY <1>1, PartsOfTLV, NodesAre, Zenon
<1>3. TagShape(t.tag) /\ Len(t.tag) >= 1
  BY <1>1, <1>2, Zenon DEF TagShape
<1>4. FormOf(t.tag) = Primitive \/ FormOf(t.tag) = Constructed
  BY <1>2, <1>3, FormIs, Zenon
<1>5. /\ FormOf(t.tag) = Constructed => t.value = <<>>
      /\ FormOf(t.tag) = Primitive => t.children = <<>>
  BY <1>1, <1>2, Zenon DEF Writable
<1>6. ASSUME FormOf(t.tag) = Constructed
      PROVE  /\ t.children \in Seq(Readable)
             /\ \A i \in DOMAIN t.children : t.children[i] \in Readable
  <2>1. t.children \in Seq(Fit) /\ \A i \in DOMAIN t.children : t.children[i] \in Fit
    BY <1>1, <1>6, FormsDiffer, FitChildren, Zenon
  <2>2. ASSUME NEW i \in DOMAIN t.children PROVE t.children[i] \in Readable
    <3>1. Nodes[t.children[i]] \subseteq Nodes[t]
      BY <1>1, NodesAre, Zenon
    <3> QED
      BY <1>1, <2>1, <3>1, Zenon DEF Readable, Writable
  <2>3. t.children \in Seq(Readable)
    BY <2>1, <2>2, SMT
  <2> QED
    BY <2>2, <2>3, Zenon
<1> QED
  BY <1>1, <1>2, <1>3, <1>4, <1>5, <1>6, Zenon

\* What Each makes of a first element and the others; of two sequences.
EachSplits(f, p, q) == Each(f, p \o q) = Each(f, p) \o Each(f, q)
EachStarts(f, x, q) == Each(f, <<x>> \o q) = <<f[x]>> \o Each(f, q)

\* Each of two lists, by that name.
LEMMA EachSplit ==
    ASSUME NEW A, NEW f, NEW p \in Seq(A), NEW q \in Seq(A)
    PROVE  EachSplits(f, p, q)
BY EachConcat, SMT DEF EachSplits

\* Each of an element before a list.
LEMMA EachFront ==
    ASSUME NEW A, NEW f, NEW x \in A, NEW q \in Seq(A)
    PROVE  EachStarts(f, x, q)
<1>1. <<x>> \in Seq(A)
  BY SMT
<1>2. EachSplits(f, <<x>>, q)
  BY <1>1, EachSplit, Zenon
<1>3. Each(f, <<x>>) = <<f[x]>>
  BY EachOne, SMT
<1> QED
  BY <1>2, <1>3, Zenon DEF EachSplits, EachStarts

\* Present, from the front.
PresentStarts(x, q) ==
    Present(<<x>> \o q) = IF x = Nil THEN Present(q) ELSE <<x>> \o Present(q)

\* Present, from the front.
LEMMA PresentFront ==
    ASSUME NEW A, NEW x \in A, NEW q \in Seq(A)
    PROVE  /\ Present(<<>>) = <<>> /\ Present(q) \in Seq(A)
           /\ PresentStarts(x, q)
<1> DEFINE kept == [a \in A |-> IF a = Nil THEN <<>> ELSE <<a>>]
<1>1. \A a \in A : kept[a] \in Seq(A)
  <2>1. <<>> \in Seq(A) /\ \A a \in A : <<a>> \in Seq(A)
    BY SMT
  <2> QED
    BY <2>1, Zenon
<1>2. ASSUME NEW ts \in Seq(A) PROVE Present(ts) = FlattenSeq(Each(kept, ts))
  <2>1. \A i \in DOMAIN ts : ts[i] \in A
    BY SMT
  <2>2. \A i \in DOMAIN ts : (IF ts[i] = Nil THEN <<>> ELSE <<ts[i]>>) = kept[ts[i]]
    BY <2>1, Zenon
  <2> HIDE DEF kept
  <2>3. [i \in DOMAIN ts |-> IF ts[i] = Nil THEN <<>> ELSE <<ts[i]>>] = [i \in DOMAIN ts |-> kept[ts[i]]]
    BY <2>2, Zenon
  <2> QED
    BY <2>3, Zenon DEF Present, Each
<1>3. Present(<<>>) = <<>>
  <2>1. <<>> \in Seq(A)
    BY SMT
  <2>2. Present(<<>>) = FlattenSeq(Each(kept, <<>>))
    BY <1>2, <2>1, Zenon
  <2> HIDE DEF kept
  <2>3. Each(kept, <<>>) = <<>>
    BY EachEmpty, SMT
  <2> QED
    BY <2>2, <2>3, FlattenEmpty, Zenon
<1>4. <<x>> \o q \in Seq(A)
  BY SMT
<1>5. Present(<<x>> \o q) = FlattenSeq(Each(kept, <<x>> \o q)) /\ Present(q) = FlattenSeq(Each(kept, q))
  BY <1>2, <1>4, Zenon
<1>6. kept[x] = IF x = Nil THEN <<>> ELSE <<x>>
  BY Zenon
<1> HIDE DEF kept
<1>7. Each(kept, <<x>> \o q) = <<kept[x]>> \o Each(kept, q)
  <2>1. EachStarts(kept, x, q)
    BY EachFront, Zenon
  <2> QED
    BY <2>1, Zenon DEF EachStarts
<1>8. Each(kept, q) \in Seq(Seq(A)) /\ kept[x] \in Seq(A)
  BY <1>1, EachIs, Zenon
<1>9. FlattenSeq(<<kept[x]>> \o Each(kept, q)) = kept[x] \o FlattenSeq(Each(kept, q))
  BY <1>8, FlattenFront, Zenon
<1>10. FlattenSeq(Each(kept, q)) \in Seq(A)
  BY <1>8, FlattenConcat, Zenon
<1>11. <<>> \o FlattenSeq(Each(kept, q)) = FlattenSeq(Each(kept, q))
  BY <1>10, ConcatEmptySeq, Zenon
<1> QED
  BY <1>3, <1>5, <1>6, <1>7, <1>9, <1>10, <1>11, Zenon DEF PresentStarts

\* What is read of a TLV that was written at i.
ReadAt(s, i, t) ==
    ReadFrom(s, i, ReadChildren(s)) = [ok |-> TRUE, tlv |-> Clone[t], next |-> i + TlvLen[t]]

ListAt(s, i, ts) ==
    ReadChildren(s)[<<i, i + Sum(Each(TlvLen, ts))>>]
      = [ok |-> TRUE, children |-> Present(Each(Clone, ts)), next |-> i + Sum(Each(TlvLen, ts))]

\* A TLV that was written is read wherever it is.
ReadAnywhere(t) ==
    t # Nil => \A s \in Seq(Octet), i \in Nat \ {0} : At(s, i, WriteTo[t]) => ReadAt(s, i, t)

ListAnywhere(ts) ==
    \A s \in Seq(Octet), i \in Nat \ {0} :
       At(s, i, FlattenSeq(Each(WriteTo, ts))) => ListAt(s, i, ts)

\* A copy is missing where the TLV is.
LEMMA CloneNil ==
    ASSUME NEW t \in Readable
    PROVE  Clone[t] = Nil <=> t = Nil
<1>1. t \in TLV
  BY Zenon DEF Readable, Fit
<1>2. t = Nil => Clone[t] = Nil
  BY <1>1, CloneIs, Zenon DEF CloneOf
<1>3. ASSUME t # Nil PROVE Clone[t] # Nil
  <2>1. TagShape(t.tag) /\ t.tag \in Seq(Octet)
    BY <1>3, ReadableParts, Zenon
  <2>2. t.tag # <<>>
    BY <2>1, SMT DEF TagShape
  <2>3. \/ Clone[t] = Tlv(t.tag, t.value, <<>>)
        \/ Clone[t] = Tlv(t.tag, <<>>, Present(Each(Clone, t.children)))
    BY <1>1, <1>3, CloneIs, Zenon DEF CloneOf
  <2>4. Clone[t].tag = t.tag /\ Nil.tag = <<>>
    BY <2>3, SMT DEF Tlv, Nil
  <2> QED
    BY <2>2, <2>4, Zenon
<1> QED
  BY <1>2, <1>3, Zenon

\* A list of TLVs that are read where they were written is read so too.
LEMMA ListRead ==
    ASSUME NEW K, K \subseteq Readable, \A c \in K : ReadAnywhere(c)
    PROVE  \A ts \in Seq(K) : ListAnywhere(ts)
<1> DEFINE T == {ts \in Seq(K) : ListAnywhere(ts)}
<1>0. K \subseteq Fit /\ K \subseteq TLV
  BY Zenon DEF Readable, Fit
<1>1. \A c \in K : WriteTo[c] \in Seq(Octet) /\ Len(WriteTo[c]) = TlvLen[c] /\ TlvLen[c] \in Nat
  BY <1>0, WrittenOctets, TlvLenNat, Zenon
<1>2. <<>> \in T
  <2>1. <<>> \in Seq(K) /\ 0 \in Nat
    BY SMT
  <2>2. SUFFICES ASSUME NEW s \in Seq(Octet), NEW i \in Nat \ {0},
                        At(s, i, FlattenSeq(Each(WriteTo, <<>>)))
                 PROVE  ListAt(s, i, <<>>)
    BY <2>1, Zenon DEF ListAnywhere
  <2>3. Each(WriteTo, <<>>) = <<>> /\ Each(TlvLen, <<>>) = <<>> /\ Each(Clone, <<>>) = <<>>
    BY EachEmpty, SMT
  <2>4. At(s, i, <<>>)
    BY <2>2, <2>3, FlattenEmpty, Zenon
  <2>5. i \in 1..(Len(s)+1)
    BY <2>4, SMT DEF At
  <2>6. ReadChildren(s)[<<i, i>>] = ChildrenFrom(s, ReadChildren(s), i, i)
    BY <2>5, ReadChildrenIs, Zenon
  <2>7. i >= i /\ i + 0 = i
    BY SMT
  <2>8. ReadChildren(s)[<<i, i>>] = [ok |-> TRUE, children |-> <<>>, next |-> i]
    BY <2>6, <2>7, Zenon DEF ChildrenFrom
  <2>9. Present(<<>>) = <<>>
    BY SMT, FlattenEmpty DEF Present
  <2> QED
    BY <2>3, <2>7, <2>8, <2>9, SumEmpty, Zenon DEF ListAt
<1>3. ASSUME NEW ts \in Seq(K), NEW e \in K, ts \in T
      PROVE  <<e>> \o ts \in T
  <2> DEFINE all == <<e>> \o ts
             len == Sum(Each(TlvLen, ts))
  <2>1. all \in Seq(K)
    BY SMT
  <2>2. /\ Each(WriteTo, all) = <<WriteTo[e]>> \o Each(WriteTo, ts)
        /\ Each(TlvLen, all) = <<TlvLen[e]>> \o Each(TlvLen, ts)
        /\ Each(Clone, all) = <<Clone[e]>> \o Each(Clone, ts)
    <3>1. EachStarts(WriteTo, e, ts) /\ EachStarts(TlvLen, e, ts) /\ EachStarts(Clone, e, ts)
      BY EachFront, Zenon
    <3> QED
      BY <3>1, Zenon DEF EachStarts
  <2>3. /\ Each(WriteTo, ts) \in Seq(Seq(Octet)) /\ FlattenSeq(Each(WriteTo, ts)) \in Seq(Octet)
        /\ Each(TlvLen, ts) \in Seq(Nat)
    BY <1>0, <1>1, ListOctets, Zenon
  <2>4. WriteTo[e] \in Seq(Octet) /\ Len(WriteTo[e]) = TlvLen[e] /\ TlvLen[e] \in Nat
    BY <1>1, Zenon
  <2>5. FlattenSeq(Each(WriteTo, all)) = WriteTo[e] \o FlattenSeq(Each(WriteTo, ts))
    BY <2>2, <2>3, <2>4, FlattenFront, Zenon
  <2>6. Sum(Each(TlvLen, all)) = TlvLen[e] + len /\ len \in Nat
    BY <2>2, <2>3, <2>4, SumFront, SumConcat, Zenon
  <2>7. Present(Each(Clone, all)) = IF Clone[e] = Nil THEN Present(Each(Clone, ts))
                                    ELSE <<Clone[e]>> \o Present(Each(Clone, ts))
    <3> DEFINE A == {Clone[c] : c \in K}
    <3>1. Clone[e] \in A /\ \A c \in K : Clone[c] \in A
      OBVIOUS
    <3> HIDE DEF A
    <3>2. Each(Clone, ts) \in Seq(A)
      BY <3>1, EachIs, Zenon
    <3>3. PresentStarts(Clone[e], Each(Clone, ts))
      BY <3>1, <3>2, PresentFront, Zenon
    <3> QED
      BY <2>2, <3>3, Zenon DEF PresentStarts
  <2> HIDE DEF all, len
  <2>8. SUFFICES ASSUME NEW s \in Seq(Octet), NEW i \in Nat \ {0},
                        At(s, i, FlattenSeq(Each(WriteTo, all)))
                 PROVE  ListAt(s, i, all)
    BY <2>1, Zenon DEF ListAnywhere, all
  <2> DEFINE j == i + TlvLen[e]
             stop == j + len
             f == ReadChildren(s)
  <2>9. At(s, i, WriteTo[e]) /\ At(s, j, FlattenSeq(Each(WriteTo, ts)))
    <3>1. i \in Nat /\ i >= 1
      BY SMT
    <3> QED
      BY <2>3, <2>4, <2>5, <2>8, <3>1, AtConcat, Zenon
  <2>10. /\ j \in Nat \ {0} /\ stop \in Nat /\ stop = i + (TlvLen[e] + len)
         /\ i \in 1..(Len(s)+1)
    <3>1. i + Len(WriteTo[e]) <= Len(s) + 1 /\ Len(s) \in Nat
      BY <2>9, LenProperties, Zenon DEF At
    <3>2. i \in Nat /\ i # 0 /\ TlvLen[e] \in Nat /\ len \in Nat /\ i + TlvLen[e] <= Len(s) + 1
      BY <2>4, <2>6, <3>1, Zenon
    <3>3. j \in Nat /\ j # 0
      BY <3>2, SMT
    <3>4. i \in 1..(Len(s)+1)
      BY <3>1, <3>2, SMT
    <3>5. stop \in Nat /\ stop = i + (TlvLen[e] + len)
      BY <3>2, SMT
    <3> QED
      BY <3>3, <3>4, <3>5, Zenon
  <2>11. ListAt(s, j, ts)
    BY <1>3, <2>9, <2>10, Zenon DEF ListAnywhere
  <2>12. f[<<j, stop>>] = [ok |-> TRUE, children |-> Present(Each(Clone, ts)), next |-> stop]
    BY <2>11, Zenon DEF ListAt, len
  <2>13. e \in Readable
    BY Zenon
  <2>14. CASE e = Nil
    <3>1. TlvLen[e] = 0 /\ Clone[e] = Nil
      BY <1>0, <2>13, <2>14, LengthParts, CloneNil, Zenon
    <3>2. j = i /\ stop = i + Sum(Each(TlvLen, all))
      BY <2>6, <2>10, <3>1, SMT
    <3>3. Present(Each(Clone, all)) = Present(Each(Clone, ts))
      BY <2>7, <3>1, Zenon
    <3> HIDE DEF j, stop, f
    <3> QED
      BY <2>12, <3>2, <3>3, Zenon DEF ListAt, f
  <2>15. CASE e # Nil
    <3>1. Clone[e] # Nil /\ TlvLen[e] > 0
      <4>1. TlvLen[e] > ContentLength(e, TlvLen) /\ ContentLength(e, TlvLen) \in Nat
        BY <1>0, <2>15, LengthParts, Zenon
      <4> QED
        BY <2>4, <2>13, <2>15, <4>1, CloneNil, SMT
    <3>2. ~(i >= stop)
      BY <2>6, <2>10, <3>1, <2>4, SMT
    <3>3. ReadFrom(s, i, f) = [ok |-> TRUE, tlv |-> Clone[e], next |-> j]
      BY <2>9, <2>15, Zenon DEF ReadAnywhere, ReadAt
    <3> HIDE DEF j, stop, f
    <3>4. f[<<i, stop>>] = ChildrenFrom(s, f, i, stop)
      BY <2>10, ReadChildrenIs, Zenon DEF f
    <3>5. ReadFrom(s, i, f).ok /\ ReadFrom(s, i, f).tlv = Clone[e] /\ ReadFrom(s, i, f).next = j
      BY <3>3, SMT
    <3>6. /\ f[<<j, stop>>].ok /\ f[<<j, stop>>].children = Present(Each(Clone, ts))
          /\ f[<<j, stop>>].next = stop
      BY <2>12, SMT
    <3>7. ChildrenFrom(s, f, i, stop)
            = [ok |-> TRUE, children |-> <<Clone[e]>> \o Present(Each(Clone, ts)), next |-> stop]
      BY <3>2, <3>5, <3>6, Zenon DEF ChildrenFrom
    <3>8. stop = i + Sum(Each(TlvLen, all))
      BY <2>6, <2>10, Zenon
    <3> QED
      BY <2>7, <3>1, <3>4, <3>7, <3>8, Zenon DEF ListAt, f
  <2> QED
    BY <2>14, <2>15
<1> HIDE DEF T
<1>4. \A ts \in Seq(K) : ts \in T
  BY <1>2, <1>3, AllSequencesFront, Zenon
<1> QED
  BY <1>4, Zenon DEF T

\* For every TLV without a tag that NewTag spoils: wherever its octets are and
\* whatever follows them, reading gives its copy and the place after it.
THEOREM WrittenIsRead ==
    \A t \in Readable : ReadAnywhere(t)
<1> DEFINE T == {t \in TLV : t \in Readable => ReadAnywhere(t)}
<1>1. Nil \in T
  BY NilIsTLV, Zenon DEF ReadAnywhere
<1>2. ASSUME NEW t \in TLV, \A i \in DOMAIN t.children : t.children[i] \in T
      PROVE  t \in T
  <2>1. SUFFICES ASSUME t \in Readable, t # Nil, NEW s \in Seq(Octet), NEW i \in Nat \ {0},
                        At(s, i, WriteTo[t])
                 PROVE  ReadAt(s, i, t)
    BY Zenon DEF ReadAnywhere
  <2> DEFINE n == ContentLength(t, TlvLen)
             tag == t.tag
             q == i + Len(tag)
             p == q + HeaderLen(n)
             f == ReadChildren(s)
  <2>2. /\ t \in Fit /\ tag \in Seq(Octet) /\ TagShape(tag)
        /\ FormOf(tag) = Primitive \/ FormOf(tag) = Constructed
    BY <2>1, ReadableParts, Zenon
  <2>3. /\ n \in Nat /\ TlvLen[t] \in Nat /\ Len(tag) \in Nat
        /\ TlvLen[t] = n + Len(tag) + HeaderLen(n) /\ TlvLen[t] > n
    BY <2>1, LengthParts, TlvLenNat, Zenon
  <2>4. n <= MaxLength
    <3>1. MaxLength \in Nat /\ TlvLen[t] <= MaxLength
      BY <2>2, SMT DEF MaxLength, Fit
    <3> HIDE DEF n
    <3> QED
      BY <2>3, <3>1, SMT
  <2>5. MarshalLength(n) \in Seq(Octet) /\ Len(MarshalLength(n)) = HeaderLen(n) /\ HeaderLen(n) \in Nat
    <3>1. MarshalLength(n) \in Seq(Octet) /\ Len(MarshalLength(n)) = HeaderLen(n)
      BY <2>3, <2>4, HeaderOctets, Zenon
    <3> QED
      BY <3>1, LenProperties, Zenon
  <2>6. /\ WriteTo[t] = tag \o MarshalLength(n) \o Contents(t)
        /\ WriteTo[t] \in Seq(Octet) /\ Len(WriteTo[t]) = TlvLen[t]
    BY <2>1, <2>2, WriteToParts, WrittenOctets, Zenon
  <2> HIDE DEF n, tag
  <2>7. i \in Nat /\ i >= 1 /\ q \in Nat /\ q >= 1 /\ p \in Nat /\ p \in Nat \ {0} /\ p >= 1
        /\ i + TlvLen[t] = p + n
    BY <2>3, <2>5, SMT
  <2>8. Contents(t) \in Seq(Octet) /\ (FormOf(tag) = Constructed =>
            /\ Contents(t) = FlattenSeq(Each(WriteTo, t.children))
            /\ t.children \in Seq(T \cap Readable))
    <3>1. CASE FormOf(tag) = Primitive
      <4>1. Contents(t) = t.value
        BY <3>1, Zenon DEF Contents, tag
      <4> QED
        BY <3>1, <4>1, PartsOfTLV, FormsDiffer, Zenon
    <3>2. CASE FormOf(tag) = Constructed
      <4> DEFINE K == T \cap Readable
      <4>1. t.children \in Seq(Readable) /\ \A j \in DOMAIN t.children : t.children[j] \in Readable
        BY <2>1, <3>2, ReadableParts, Zenon DEF tag
      <4>2. \A j \in DOMAIN t.children : t.children[j] \in K
        BY <1>2, <4>1, Zenon
      <4>3. K \subseteq TLV /\ \A c \in K : WriteTo[c] \in Seq(Octet) /\ Len(WriteTo[c]) = TlvLen[c]
        BY WrittenOctets, Zenon DEF Readable
      <4> HIDE DEF K
      <4>4. t.children \in Seq(K)
        BY <4>1, <4>2, SMT
      <4>5. Contents(t) = FlattenSeq(Each(WriteTo, t.children))
        BY <3>2, FormsDiffer, Zenon DEF Contents, tag
      <4>6. FlattenSeq(Each(WriteTo, t.children)) \in Seq(Octet)
        BY <4>3, <4>4, ListOctets, Zenon
      <4> QED
        BY <4>4, <4>5, <4>6, Zenon DEF K
    <3> QED
      BY <2>2, <3>1, <3>2
  <2> HIDE DEF T
  <2>9. At(s, i, tag) /\ At(s, q, MarshalLength(n)) /\ At(s, p, Contents(t))
    <3>1. tag \o MarshalLength(n) \in Seq(Octet)
          /\ Len(tag \o MarshalLength(n)) = Len(tag) + HeaderLen(n)
      BY <2>2, <2>5, ConcatProperties, Zenon
    <3>2. At(s, i, (tag \o MarshalLength(n)) \o Contents(t))
      BY <2>1, <2>6, Zenon
    <3>3. At(s, i, tag \o MarshalLength(n)) /\ At(s, i + Len(tag \o MarshalLength(n)), Contents(t))
      BY <2>7, <2>8, <3>1, <3>2, AtConcat, Zenon
    <3>4. i + Len(tag \o MarshalLength(n)) = p
      BY <2>3, <2>5, <2>7, <3>1, SMT
    <3>5. At(s, i, tag) /\ At(s, q, MarshalLength(n))
      BY <2>2, <2>5, <2>7, <3>3, AtConcat, Zenon
    <3> QED
      BY <3>3, <3>4, <3>5, Zenon
  <2>10. HeaderIs(s, i, tag, q, n, p)
    <3>1. ReadTag(s, i) = [ok |-> TRUE, tag |-> tag, next |-> q]
      BY <2>2, <2>7, <2>9, TagAt, Zenon
    <3>2. ReadLength(s, q) = [ok |-> TRUE, value |-> n, next |-> p]
      <4> HIDE DEF q
      <4> QED
        BY <2>3, <2>4, <2>7, <2>9, LengthAt, Zenon
    <3> QED
      BY <3>1, <3>2, Zenon DEF HeaderIs
  <2> HIDE DEF q, p, f
  <2>11. ReadFrom(s, i, f) = AfterHeader(s, tag, p, n, f)
    BY <2>10, ReadHeader, SMT
  <2>12. CASE FormOf(tag) = Primitive
    <3>1. Contents(t) = t.value /\ n = Len(t.value) /\ Clone[t] = Tlv(tag, t.value, <<>>)
      BY <2>1, <2>12, CloneIs, Zenon DEF Contents, ContentLength, CloneOf, n, tag
    <3>2. At(s, p, t.value) /\ t.value \in Seq(Octet)
      BY <2>8, <2>9, <3>1, Zenon
    <3>3. SubSeq(s, p, p + n - 1) = t.value
      BY <2>7, <3>1, <3>2, AtSubSeq, Zenon
    <3>4. ~(p + n - 1 > Len(s))
      <4>1. p + n <= Len(s) + 1 /\ Len(s) \in Nat
        BY <3>1, <3>2, LenProperties, Zenon DEF At
      <4> QED
        BY <2>3, <2>7, <4>1, SMT
    <3>5. ReadFrom(s, i, f) = [ok |-> TRUE, tlv |-> Tlv(tag, SubSeq(s, p, p + n - 1), <<>>),
                               next |-> p + n]
      BY <2>11, <2>12, <3>4, FormsDiffer, Zenon DEF AfterHeader, After
    <3> QED
      BY <2>7, <3>1, <3>3, <3>5, Zenon DEF ReadAt, f
  <2>13. CASE FormOf(tag) = Constructed
    <3>1. /\ Contents(t) = FlattenSeq(Each(WriteTo, t.children)) /\ t.children \in Seq(T \cap Readable)
          /\ n = Sum(Each(TlvLen, t.children))
          /\ Clone[t] = Tlv(tag, <<>>, Present(Each(Clone, t.children)))
      BY <2>1, <2>8, <2>13, CloneIs, FormsDiffer, Zenon DEF ContentLength, CloneOf, n, tag
    <3>2. T \cap Readable \subseteq Readable /\ \A c \in T \cap Readable : ReadAnywhere(c)
      BY Zenon DEF T
    <3>3. ListAnywhere(t.children)
      BY <3>1, <3>2, ListRead, Zenon
    <3>4. At(s, p, FlattenSeq(Each(WriteTo, t.children)))
      BY <2>9, <3>1, Zenon
    <3>5. ListAt(s, p, t.children)
      BY <2>7, <3>3, <3>4, Zenon DEF ListAnywhere
    <3>6. f[<<p, p + n>>] = [ok |-> TRUE, children |-> Present(Each(Clone, t.children)), next |-> p + n]
      BY <3>1, <3>5, Zenon DEF ListAt, f
    <3>7. /\ f[<<p, p + n>>].ok /\ f[<<p, p + n>>].children = Present(Each(Clone, t.children))
          /\ f[<<p, p + n>>].next = p + n
      BY <3>6, SMT
    <3>8. ReadFrom(s, i, f) = [ok |-> TRUE, tlv |-> Tlv(tag, <<>>, Present(Each(Clone, t.children))),
                               next |-> p + n]
      BY <2>11, <2>13, <3>7, Zenon DEF AfterHeader, After
    <3> QED
      BY <2>7, <3>1, <3>8, Zenon DEF ReadAt, f
  <2> QED
    BY <2>2, <2>12, <2>13
<1> HIDE DEF T
<1>3. \A t \in TLV : t \in T
  BY <1>1, <1>2, AllTrees, Zenon
<1>4. Readable \subseteq TLV
  BY Zenon DEF Readable, Fit
<1> QED
  BY <1>3, <1>4, Zenon DEF T

-----------------------------------------------------------------------------
(* What is read.                                                           *)

\* Reading settles a TLV: its tags can be read again, it can be written, and it
\* has no nil children to be left out.
SettledTLV(t) ==
    /\ t # Nil /\ Writable(t) /\ \A u \in Nodes[t] : TagShape(u.tag)
    /\ Clone[t] = t

\* Nothing is left out where nothing is missing.
LEMMA PresentAll ==
    ASSUME NEW A, Nil \notin A
    PROVE  \A ts \in Seq(A) : Present(ts) = ts
<1> DEFINE T == {ts \in Seq(A) : Present(ts) = ts}
<1>1. <<>> \in T
  <2>1. <<>> \in Seq(A)
    BY SMT
  <2>2. Present(<<>>) = <<>>
    BY SMT, FlattenEmpty DEF Present
  <2> QED
    BY <2>1, <2>2, Zenon
<1>2. ASSUME NEW ts \in Seq(A), NEW x \in A, ts \in T PROVE <<x>> \o ts \in T
  <2>1. PresentStarts(x, ts) /\ x # Nil
    BY PresentFront, Zenon
  <2>2. <<x>> \o ts \in Seq(A)
    BY SMT
  <2> QED
    BY <1>2, <2>1, <2>2, Zenon DEF PresentStarts
<1> HIDE DEF T
<1>3. \A ts \in Seq(A) : ts \in T
  BY <1>1, <1>2, AllSequencesFront, Zenon
<1> QED
  BY <1>3, Zenon DEF T

\* Each of a function that changes nothing.
LEMMA EachSame ==
    ASSUME NEW A, NEW f, \A a \in A : f[a] = a, NEW ts \in Seq(A)
    PROVE  Each(f, ts) = ts
<1> DEFINE e == Each(f, ts)
<1>1. Len(e) = Len(ts) /\ \A i \in 1..Len(ts) : e[i] = f[ts[i]]
  BY EachAt, SMT
<1>2. e \in Seq(A)
  BY EachIs, Zenon
<1> HIDE DEF e
<1>3. \A i \in 1..Len(ts) : ts[i] \in A
  BY SMT
<1>4. \A i \in 1..Len(e) : e[i] = ts[i]
  BY <1>1, <1>3, Zenon
<1>5. e = ts
  BY <1>1, <1>2, <1>4, SeqEqual, Zenon
<1> QED
  BY <1>5, Zenon DEF e

\* A TLV of a value; a TLV of children that are settled.
LEMMA PrimitiveSettled ==
    ASSUME NEW t \in TLV, TagShape(t.tag), FormOf(t.tag) = Primitive, t.children = <<>>
    PROVE  SettledTLV(t)
<1>1. t # Nil
  BY SMT DEF TagShape, Nil
<1>2. DOMAIN t.children = {}
  BY SMT
<1>3. \A u \in Nodes[t] : u = t
  BY <1>1, <1>2, NodesAre, Zenon
<1>4. Clone[t] = Tlv(t.tag, t.value, t.children)
  BY <1>1, CloneIs, Zenon DEF CloneOf
<1>5. Clone[t] = t
  BY <1>4, PartsOfTLV, Zenon
<1> QED
  BY <1>1, <1>3, <1>5, FormsDiffer, Zenon DEF SettledTLV, Writable

\* Reading settles a constructed TLV whose children it settles.
LEMMA ConstructedSettled ==
    ASSUME NEW t \in TLV, TagShape(t.tag), FormOf(t.tag) = Constructed, t.value = <<>>,
           NEW K, K \subseteq TLV, \A c \in K : SettledTLV(c), t.children \in Seq(K)
    PROVE  SettledTLV(t)
<1>1. t # Nil
  BY SMT DEF TagShape, Nil
<1>2. \A i \in DOMAIN t.children : t.children[i] \in K
  BY SMT
<1>3. \A u \in Nodes[t] : u = t \/ \E i \in DOMAIN t.children : u \in Nodes[t.children[i]]
  BY <1>1, NodesAre, Zenon
<1>4. \A u \in Nodes[t] : TagShape(u.tag)
  BY <1>2, <1>3, Zenon DEF SettledTLV
<1>5. Writable(t)
  <2>1. \A i \in DOMAIN t.children : Writable(t.children[i])
    BY <1>2, Zenon DEF SettledTLV
  <2> QED
    BY <1>3, <2>1, FormsDiffer, Zenon DEF Writable
<1>6. Each(Clone, t.children) = t.children
  <2>1. \A c \in K : Clone[c] = c
    BY Zenon DEF SettledTLV
  <2> QED
    BY <2>1, EachSame, SMT
<1>7. Present(t.children) = t.children
  <2>1. Nil \notin K
    BY Zenon DEF SettledTLV
  <2> QED
    BY <2>1, PresentAll, Zenon
<1>8. Clone[t] = Tlv(t.tag, t.value, t.children)
  BY <1>1, <1>6, <1>7, FormsDiffer, CloneIs, Zenon DEF CloneOf
<1>9. Clone[t] = t
  BY <1>8, PartsOfTLV, Zenon
<1> QED
  BY <1>1, <1>4, <1>5, <1>9, Zenon DEF SettledTLV

\* The settled TLVs of at most d levels.
SettledTo(d) == {t \in TLVs[d] : SettledTLV(t)}

\* The levels that fit into the octets from i: each takes a tag and a length.
LevelsFrom(s, i) == ((Len(s) + 1) - i) \div 2

\* Half of a number, rounded down.
LEMMA HalfIs ==
    \A n \in Nat : n \div 2 \in Nat /\ 2 * (n \div 2) <= n /\ n <= 2 * (n \div 2) + 1
BY SMT

\* There are fewer of them two octets later, and no more later on.
LEMMA FewerLevels ==
    ASSUME NEW s \in Seq(Octet), Len(s) <= MaxOctets, NEW i \in 1..(Len(s)+1)
    PROVE  /\ LevelsFrom(s, i) \in Nat /\ LevelsFrom(s, i) <= MaxLevels
           /\ \A k \in i..(Len(s)+1) : LevelsFrom(s, k) <= LevelsFrom(s, i)
           /\ \A k \in (i+2)..(Len(s)+1) : LevelsFrom(s, k) <= LevelsFrom(s, i) - 1
<1> DEFINE L == Len(s)
           a == (L + 1) - i
           h == a \div 2
<1>0. L \in Nat /\ a \in Nat /\ a <= L
  BY LenProperties, SMT
<1>1. h \in Nat /\ 2 * h <= a /\ a <= 2 * h + 1
  BY <1>0, HalfIs, Zenon
<1>2. ASSUME NEW k \in i..(L+1)
      PROVE  /\ LevelsFrom(s, k) <= h
             /\ k \in (i+2)..(L+1) => LevelsFrom(s, k) <= h - 1
  <2> DEFINE b == (L + 1) - k
             g == b \div 2
  <2>1. b \in Nat /\ b <= a /\ (k \in (i+2)..(L+1) => b + 2 <= a)
    BY <1>0, SMT
  <2>2. g \in Nat /\ 2 * g <= b /\ b <= 2 * g + 1
    BY <2>1, HalfIs, Zenon
  <2>3. g = LevelsFrom(s, k)
    BY Zenon DEF LevelsFrom
  <2> HIDE DEF a, b, g, h
  <2>4. g <= h /\ (b + 2 <= a => g <= h - 1)
    BY <1>0, <1>1, <2>1, <2>2, SMT
  <2> QED
    BY <2>1, <2>3, <2>4, Zenon
<1>3. h = LevelsFrom(s, i)
  BY Zenon DEF LevelsFrom
<1>4. h <= MaxLevels
  <2> HIDE DEF h, a
  <2> QED
    BY <1>0, <1>1, Bounds, OctetBounds, SMT
<1>5. \A k \in (i+2)..(L+1) : k \in i..(L+1)
  <2> HIDE DEF L
  <2> QED
    BY <1>0, SMT
<1> HIDE DEF h, a
<1> QED
  BY <1>1, <1>2, <1>3, <1>4, <1>5, Zenon

\* What was read from i: settled, of no more levels than the octets have room
\* for, and written in at most four times the octets.
ReadSettled(s, i, r) ==
    r.ok => /\ r.tlv \in SettledTo(LevelsFrom(s, i))
            /\ TlvLen[r.tlv] <= 4 * (r.next - i)

ListSettled(s, i, r) ==
    r.ok => /\ r.children \in Seq(SettledTo(LevelsFrom(s, i)))
            /\ Sum(Each(TlvLen, r.children)) <= 4 * (r.next - i)

\* What is settled within some octets is so within more.
LEMMA DeeperLevels ==
    ASSUME NEW d \in Nat, NEW e \in Nat, d <= e, e <= MaxLevels
    PROVE  /\ SettledTo(d) \subseteq SettledTo(e) /\ SettledTo(d) \subseteq TLV
           /\ \A c \in SettledTo(d) : TlvLen[c] \in Nat /\ c \in TLVs[d]
<1>1. e - d \in Nat /\ d + (e - d) = e /\ d <= MaxLevels
  BY Bounds, SMT
<1>2. TLVs[d] \subseteq TLVs[e]
  BY <1>1, LevelsGrow, Zenon
<1>3. TLVs[d] \subseteq TLV
  BY <1>1, AnyLevels, Zenon
<1> QED
  BY <1>2, <1>3, TlvLenNat, Zenon DEF SettledTo

\* Reading settles a TLV when it settles the TLVs that lie after it.
LEMMA ReadSettles ==
    ASSUME NEW s \in Seq(Octet), Len(s) <= MaxOctets, NEW i \in 1..(Len(s)+1),
           \A k \in (i+1)..(Len(s)+1), m \in Nat : ListSettled(s, k, ReadChildren(s)[<<k, m>>])
    PROVE  ReadSettled(s, i, ReadFrom(s, i, ReadChildren(s)))
<1> DEFINE f == ReadChildren(s)
           r == ReadFrom(s, i, f)
           L == Len(s)
           d == LevelsFrom(s, i)
<1>0. L \in Nat /\ i \in Nat /\ i >= 1 /\ ~Failed.ok /\ Begins(s, s) /\ i <= L + 1
  BY BeginsItself, SMT DEF Failed
<1>1. SUFFICES ASSUME r.ok PROVE r.tlv \in SettledTo(d) /\ TlvLen[r.tlv] <= 4 * (r.next - i)
  BY Zenon DEF ReadSettled
<1>2. PICK tag \in Seq(Octet), n \in Nat, p \in Nat :
              /\ TagShape(tag) /\ At(s, i, tag) /\ n <= MaxLength
              /\ i + Len(tag) + HeaderLen(n) <= p /\ p <= Len(s) + 1 /\ i < p
              /\ FormOf(tag) # Constructed => p + n <= Len(s) + 1
              /\ \A s2 \in Seq(Octet) : \A f2 : Begins(s, s2) => ReadFrom(s2, i, f2) = After(s, tag, p, n, f2)
  BY <1>0, <1>1, ReadStep, Zenon
<1>3. r = After(s, tag, p, n, f)
  BY <1>0, <1>2, Zenon
<1>4. /\ p \in (i+1)..(L+1) /\ p + n \in Nat /\ Len(tag) \in Nat /\ Len(tag) >= 1
      /\ HeaderLen(n) \in 1..4
  <2>1. Len(tag) \in Nat /\ Len(tag) >= 1
    BY <1>2, LenProperties, Zenon DEF TagShape
  <2>2. HeaderLen(n) \in 1..4
    BY SMT DEF HeaderLen
  <2> QED
    BY <1>0, <1>2, <2>1, <2>2, SMT
<1>5. d \in Nat /\ d - 1 \in Nat /\ d - 1 < MaxLevels /\ (d - 1) + 1 = d /\ d <= MaxLevels
      /\ LevelsFrom(s, p) \in Nat /\ LevelsFrom(s, p) <= d - 1
  <2>1. p \in (i+2)..(L+1) /\ p \in 1..(L+1)
    BY <1>0, <1>2, <1>4, SMT
  <2>2. /\ d \in Nat /\ d <= MaxLevels /\ LevelsFrom(s, p) \in Nat /\ LevelsFrom(s, p) <= d - 1
    BY <2>1, FewerLevels, Zenon
  <2> HIDE DEF d
  <2> QED
    BY <2>2, Bounds, SMT
<1>6. TLVs[d] = Grown(TLVs[d-1]) /\ TLVs[d] \subseteq TLV
  BY <1>5, TLVsAre, AnyLevels, Zenon
<1>7. FormOf(tag) = Primitive \/ FormOf(tag) = Constructed
  BY <1>2, <1>4, FormIs, Zenon
<1> HIDE DEF f, r, d, L
<1>8. CASE FormOf(tag) = Primitive
  <2> DEFINE v == SubSeq(s, p, p + n - 1)
             t == Tlv(tag, v, <<>>)
  <2>1. r = [ok |-> TRUE, tlv |-> t, next |-> p + n]
    BY <1>3, <1>8, FormsDiffer, Zenon DEF After
  <2>2. p + n <= L + 1
    BY <1>2, <1>8, FormsDiffer, Zenon DEF L
  <2>3. v \in Seq(Octet) /\ Len(v) = n
    <3> DEFINE e == p + n - 1
    <3>1. p >= 1 /\ e \in Nat /\ p <= e + 1 /\ e <= L /\ (e + 1) - p = n
      BY <1>0, <1>4, <2>2, SMT
    <3> HIDE DEF e
    <3>2. SubSeq(s, p, e) \in Seq(Octet) /\ Len(SubSeq(s, p, e)) = (e + 1) - p
      BY <3>1, SubSeqAt, Zenon DEF L
    <3> QED
      BY <3>1, <3>2, Zenon DEF e
  <2> HIDE DEF v
  <2>4. t.tag = tag /\ t.value = v /\ t.children = <<>> /\ t \in Grown(TLVs[d-1])
    <3>1. <<>> \in Seq(TLVs[d-1])
      BY SMT
    <3> QED
      BY <2>3, <3>1, SMT DEF Tlv, Grown
  <2> HIDE DEF t
  <2>5. t \in TLV /\ t \in TLVs[d]
    BY <1>6, <2>4, Zenon
  <2>6. SettledTLV(t) /\ t # Nil
    BY <1>2, <1>8, <2>4, <2>5, PrimitiveSettled, Zenon DEF SettledTLV
  <2>7. TlvLen[t] = n + Len(tag) + HeaderLen(n)
    <3>1. ContentLength(t, TlvLen) = n
      BY <1>8, <2>3, <2>4, Zenon DEF ContentLength
    <3> QED
      BY <2>4, <2>5, <2>6, <3>1, LengthParts, Zenon
  <2>8. r.tlv = t /\ r.next = p + n
    BY <2>1, SMT
  <2>9. TlvLen[t] <= 4 * ((p + n) - i)
    BY <1>0, <1>2, <1>4, <2>7, SMT
  <2> QED
    BY <2>5, <2>6, <2>8, <2>9, Zenon DEF SettledTo
<1>9. CASE FormOf(tag) = Constructed
  <2> DEFINE c == f[<<p, p + n>>]
             ts == c.children
             t == Tlv(tag, <<>>, ts)
             sum == Sum(Each(TlvLen, ts))
             d2 == LevelsFrom(s, p)
             K == SettledTo(d2)
  <2>1. c.ok
    BY <1>0, <1>1, <1>3, <1>9, Zenon DEF After
  <2>2. r = [ok |-> TRUE, tlv |-> t, next |-> c.next]
    BY <1>3, <1>9, <2>1, Zenon DEF After
  <2>3. ts \in Seq(K) /\ sum <= 4 * (c.next - p)
    BY <1>4, <2>1, Zenon DEF ListSettled, f, L
  <2>4. c.next \in p..(L+1)
    <3>1. p \in 1..(L+1)
      BY <1>0, <1>4, SMT
    <3>2. Within(s, f, p, p + n)
      BY <1>4, <3>1, ReadChildrenIs, Zenon DEF f, L
    <3> QED
      BY <2>1, <3>2, Zenon DEF Within, L
  <2>5. d2 \in Nat /\ d2 <= d - 1 /\ d - 1 <= MaxLevels
    BY <1>5, Bounds, SMT
  <2> HIDE DEF c, d2
  <2>6. /\ K \subseteq SettledTo(d-1) /\ SettledTo(d-1) \subseteq TLVs[d-1] /\ K \subseteq TLV
        /\ \A x \in K : TlvLen[x] \in Nat /\ SettledTLV(x)
    <3>1. K \subseteq SettledTo(d-1) /\ K \subseteq TLV /\ \A x \in K : TlvLen[x] \in Nat
      BY <1>5, <2>5, DeeperLevels, Zenon
    <3> QED
      BY <3>1, Zenon DEF SettledTo
  <2> HIDE DEF K, ts
  <2>7. t.tag = tag /\ t.value = <<>> /\ t.children = ts /\ t \in Grown(TLVs[d-1])
    <3>1. ts \in Seq(TLVs[d-1])
      <4>1. K \subseteq TLVs[d-1]
        BY <2>6, Zenon
      <4> QED
        BY <2>3, <4>1, SeqMonotonic, Zenon
    <3>2. <<>> \in Seq(Octet)
      BY SMT
    <3> QED
      BY <3>1, <3>2, SMT DEF Tlv, Grown
  <2> HIDE DEF t, sum
  <2>8. t \in TLV /\ t \in TLVs[d]
    BY <1>6, <2>7, Zenon
  <2>9. SettledTLV(t) /\ t # Nil
    <3>1. SettledTLV(t)
      BY <1>2, <1>9, <2>3, <2>6, <2>7, <2>8, ConstructedSettled, Zenon
    <3> QED
      BY <3>1, Zenon DEF SettledTLV
  <2>10. sum \in Nat
    <3>1. Each(TlvLen, ts) \in Seq(Nat)
      BY <2>3, <2>6, EachIs, Zenon
    <3> QED
      BY <3>1, SumConcat, Zenon DEF sum
  <2>11. TlvLen[t] = sum + Len(tag) + HeaderLen(sum)
    <3>1. ContentLength(t, TlvLen) = sum
      BY <1>9, <2>7, FormsDiffer, Zenon DEF ContentLength, sum
    <3> QED
      BY <2>7, <2>8, <2>9, <3>1, LengthParts, Zenon
  <2>12. r.tlv = t /\ r.next = c.next
    BY <2>2, SMT
  <2>13. TlvLen[t] <= 4 * (c.next - i)
    <3>1. HeaderLen(sum) \in 1..4
      BY <2>10, SMT DEF HeaderLen
    <3>2. i + Len(tag) + HeaderLen(n) <= p
      BY <1>2, Zenon
    <3> DEFINE h == HeaderLen(n)
               g == HeaderLen(sum)
               x == c.next
               m == Len(tag)
    <3>3. h \in 1..4 /\ g \in 1..4 /\ i + m + h <= p /\ m \in Nat /\ x \in Int
      BY <1>0, <1>4, <2>4, <3>1, <3>2, SMT
    <3>4. sum <= 4 * (x - p)
      BY <2>3, Zenon DEF sum
    <3> HIDE DEF h, g, x, m
    <3>5. sum + m + g <= 4 * (x - i)
      BY <1>0, <2>10, <3>3, <3>4, <1>4, SMT
    <3> QED
      BY <2>11, <3>5, Zenon DEF g, x, m
  <2> QED
    BY <2>8, <2>9, <2>12, <2>13, Zenon DEF SettledTo
<1> QED
  BY <1>7, <1>8, <1>9

\* A TLV that was read took at least one octet.
LEMMA ReadNext ==
    ASSUME NEW s \in Seq(Octet), NEW i \in 1..(Len(s)+1), ReadFrom(s, i, ReadChildren(s)).ok
    PROVE  ReadFrom(s, i, ReadChildren(s)).next \in (i+1)..(Len(s)+1)
<1>1. \A k \in (i+1)..(Len(s)+1) : k \in 1..(Len(s)+1)
  <2>1. Len(s) \in Nat
    BY LenProperties, Zenon
  <2> QED
    BY <2>1, SMT
<1>2. \A k \in (i+1)..(Len(s)+1), m \in Nat : Within(s, ReadChildren(s), k, m)
  BY <1>1, ReadChildrenIs, Zenon
<1> QED
  BY <1>2, ReadWithin, Zenon

\* Every list that the loop reads, from every place, is one that reading settles.
LEMMA ListSettles ==
    ASSUME NEW s \in Seq(Octet), Len(s) <= MaxOctets
    PROVE  \A i \in 1..(Len(s)+1), m \in Nat : ListSettled(s, i, ReadChildren(s)[<<i, m>>])
<1> DEFINE f == ReadChildren(s)
           L == Len(s)
           T == {i \in 1..(L+1) : \A m \in Nat : ListSettled(s, i, f[<<i, m>>])}
<1>0. L \in Nat /\ ~Failed.ok
  BY LenProperties, SMT DEF Failed
<1>1. ASSUME NEW i \in 1..(L+1), \A k \in (i+1)..(L+1) : k \in T
      PROVE  i \in T
  <2>1. SUFFICES ASSUME NEW m \in Nat, f[<<i, m>>].ok PROVE ListSettled(s, i, f[<<i, m>>])
    BY Zenon DEF ListSettled
  <2>2. \A k \in (i+1)..(L+1), n \in Nat : ListSettled(s, k, f[<<k, n>>])
    BY <1>1, Zenon
  <2> DEFINE d == LevelsFrom(s, i)
             child == ReadFrom(s, i, f)
             rest == f[<<child.next, m>>]
  <2>3. d \in Nat /\ d <= MaxLevels
    BY FewerLevels, Zenon
  <2>4. f[<<i, m>>] = ChildrenFrom(s, f, i, m)
    BY ReadChildrenIs, Zenon
  <2> HIDE DEF T
  <2>5. CASE i >= m
    <3>1. f[<<i, m>>] = [ok |-> TRUE, children |-> <<>>, next |-> i]
      BY <2>4, <2>5, Zenon DEF ChildrenFrom
    <3>2. f[<<i, m>>].children = <<>> /\ f[<<i, m>>].next = i
      BY <3>1, SMT
    <3>3. <<>> \in Seq(SettledTo(d)) /\ 0 <= 4 * (i - i)
      BY SMT
    <3>4. Sum(Each(TlvLen, <<>>)) = 0
      <4>1. Each(TlvLen, <<>>) = <<>>
        BY EachEmpty, SMT
      <4> QED
        BY <4>1, SumEmpty, Zenon
    <3> QED
      BY <3>2, <3>3, <3>4, Zenon DEF ListSettled
  <2>6. CASE ~(i >= m)
    <3>1. child.ok /\ rest.ok
      BY <1>0, <2>1, <2>4, <2>6, Zenon DEF ChildrenFrom
    <3>2. f[<<i, m>>]
            = [ok |-> TRUE, children |-> <<child.tlv>> \o rest.children, next |-> rest.next]
      BY <2>4, <2>6, <3>1, Zenon DEF ChildrenFrom
    <3>3. child.tlv \in SettledTo(d) /\ TlvLen[child.tlv] <= 4 * (child.next - i)
      BY <2>2, <3>1, ReadSettles, Zenon DEF ReadSettled
    <3>4. child.next \in (i+1)..(L+1)
      BY <3>1, ReadNext, Zenon
    <3>5. /\ rest.children \in Seq(SettledTo(LevelsFrom(s, child.next)))
          /\ Sum(Each(TlvLen, rest.children)) <= 4 * (rest.next - child.next)
      BY <2>2, <3>1, <3>4, Zenon DEF ListSettled
    <3>6. rest.next \in child.next..(L+1)
      <4>1. child.next \in 1..(L+1)
        BY <1>0, <3>4, SMT
      <4> QED
        BY <3>1, <4>1, ReadChildrenIs, Zenon DEF Within
    <3> DEFINE j == child.next
               e == LevelsFrom(s, j)
               c == child.tlv
               ts == rest.children
               x == rest.next
               sum == Sum(Each(TlvLen, ts))
    <3>7. e \in Nat /\ e <= d /\ d <= d
      <4>1. j \in i..(L+1) /\ j \in 1..(L+1)
        BY <1>0, <3>4, SMT
      <4>2. e \in Nat /\ e <= d
        BY <4>1, FewerLevels, Zenon
      <4> HIDE DEF d
      <4> QED
        BY <2>3, <4>2, SMT
    <3> HIDE DEF j, e, child, rest, d
    <3>8. /\ SettledTo(e) \subseteq SettledTo(d) /\ SettledTo(d) \subseteq TLV
          /\ \A y \in SettledTo(d) : TlvLen[y] \in Nat
      BY <2>3, <3>7, DeeperLevels, Zenon
    <3>9. ts \in Seq(SettledTo(d))
      BY <3>5, <3>8, SeqMonotonic, Zenon DEF e, j
    <3> HIDE DEF c, ts, x
    <3>10. <<c>> \o ts \in Seq(SettledTo(d))
      <4>1. <<c>> \in Seq(SettledTo(d))
        BY <3>3, SMT DEF c
      <4> QED
        BY <3>9, <4>1, ConcatProperties, Zenon
    <3>11. Sum(Each(TlvLen, <<c>> \o ts)) = TlvLen[c] + sum /\ sum \in Nat /\ TlvLen[c] \in Nat
      <4>1. EachStarts(TlvLen, c, ts)
        BY <3>3, <3>9, EachFront, Zenon DEF c
      <4>2. Each(TlvLen, ts) \in Seq(Nat) /\ TlvLen[c] \in Nat
        BY <3>3, <3>8, <3>9, EachIs, Zenon DEF c
      <4> QED
        BY <4>1, <4>2, SumFront, SumConcat, Zenon DEF EachStarts
    <3>12. Sum(Each(TlvLen, <<c>> \o ts)) <= 4 * (x - i)
      <4>1. TlvLen[c] <= 4 * (j - i) /\ sum <= 4 * (x - j) /\ j \in Int /\ x \in Int /\ i \in Int
        <5>1. TlvLen[c] <= 4 * (j - i) /\ sum <= 4 * (x - j)
          BY <3>3, <3>5, Zenon DEF c, j, x, ts
        <5>2. j \in (i+1)..(L+1) /\ x \in j..(L+1)
          BY <3>4, <3>6, Zenon DEF j, x
        <5> QED
          BY <1>0, <5>1, <5>2, SMT
      <4> HIDE DEF sum
      <4> QED
        BY <3>11, <4>1, SMT
    <3>13. f[<<i, m>>].children = <<c>> \o ts /\ f[<<i, m>>].next = x
      BY <3>2, SMT DEF c, ts, x
    <3> HIDE DEF sum
    <3> QED
      BY <3>10, <3>12, <3>13, Zenon DEF ListSettled, d
  <2> QED
    BY <2>5, <2>6
<1> HIDE DEF T
<1>2. \A i \in 1..(L+1) : i \in T
  <2> HIDE DEF L
  <2> QED
    BY <1>0, <1>1, AllPositions, Zenon
<1> QED
  BY <1>2, Zenon DEF T

\* A TLV that was read is settled, and its length can be written.
LEMMA ReadIsReadable ==
    ASSUME NEW s \in Seq(Octet), Len(s) <= MaxOctets, ReadTLV(s, 1).ok
    PROVE  /\ ReadTLV(s, 1).tlv \in Readable /\ SettledTLV(ReadTLV(s, 1).tlv)
           /\ ReadTLV(s, 1).next <= Len(s) + 1
<1> DEFINE r == ReadFrom(s, 1, ReadChildren(s))
           L == Len(s)
<1>0. ReadTLV(s, 1) = r
  BY Zenon DEF ReadTLV
<1>1. L \in Nat /\ 1 \in 1..(L+1)
  BY LenProperties, SMT
<1>2. \A k \in (1+1)..(L+1) : k \in 1..(L+1)
  BY <1>1, SMT
<1>3. ReadSettled(s, 1, r)
  BY <1>1, <1>2, ListSettles, ReadSettles, Zenon
<1>4. r.tlv \in SettledTo(LevelsFrom(s, 1)) /\ TlvLen[r.tlv] <= 4 * (r.next - 1)
  BY <1>0, <1>3, Zenon DEF ReadSettled
<1>5. r.next \in (1+1)..(L+1)
  BY <1>0, <1>1, ReadNext, Zenon
<1> HIDE DEF r
<1>6. /\ LevelsFrom(s, 1) \in Nat /\ LevelsFrom(s, 1) <= MaxLevels
      /\ MaxLevels <= MaxLevels /\ MaxLevels \in Nat /\ MaxOctets \in Nat /\ r.next <= L + 1
  <2>1. LevelsFrom(s, 1) \in Nat /\ LevelsFrom(s, 1) <= MaxLevels
    BY <1>1, FewerLevels, Zenon
  <2>2. MaxLevels <= MaxLevels /\ MaxLevels \in Nat /\ MaxOctets \in Nat /\ r.next <= L + 1
    BY <1>1, <1>5, Bounds, OctetBounds, SMT
  <2> QED
    BY <2>1, <2>2, Zenon
<1>7. r.tlv \in TLV /\ TlvLen[r.tlv] \in Nat /\ SettledTLV(r.tlv)
  <2> DEFINE d == LevelsFrom(s, 1)
  <2> HIDE DEF d
  <2>1. d \in Nat /\ d <= MaxLevels /\ MaxLevels <= MaxLevels /\ MaxLevels \in Nat /\ r.tlv \in SettledTo(d)
    BY <1>4, <1>6, Zenon DEF d
  <2>2. SettledTo(d) \subseteq TLV /\ \A c \in SettledTo(d) : TlvLen[c] \in Nat
    BY <2>1, DeeperLevels, Zenon
  <2> QED
    BY <2>1, <2>2, Zenon DEF SettledTo
<1>8. TlvLen[r.tlv] <= MaxLength
  <2>1. MaxLength \in Nat
    BY SMT DEF MaxLength
  <2> DEFINE y == TlvLen[r.tlv]
             x == r.next
  <2>2. y \in Nat /\ y <= 4 * (x - 1) /\ x \in (1+1)..(L+1)
    BY <1>4, <1>5, <1>7, Zenon
  <2> HIDE DEF y, x
  <2>3. y <= 4 * MaxOctets
    BY <1>1, <1>6, <2>2, SMT
  <2>4. y <= MaxLength
    BY <1>6, <2>1, <2>2, <2>3, OctetBounds, SMT
  <2> QED
    BY <2>4, Zenon DEF y
<1>9. r.tlv \in Readable
  BY <1>7, <1>8, Zenon DEF Readable, Fit, SettledTLV
<1> QED
  BY <1>0, <1>6, <1>7, <1>9, Zenon

-----------------------------------------------------------------------------
(* What was read of a beginning is read of the whole.                      *)

\* A TLV is read the same when octets follow, if its children are.
LEMMA ReadLonger ==
    ASSUME NEW s \in Seq(Octet), NEW s2 \in Seq(Octet), Begins(s, s2), NEW i \in 1..(Len(s)+1),
           \A k \in (i+1)..(Len(s)+1), m \in Nat :
              ReadChildren(s)[<<k, m>>].ok => ReadChildren(s2)[<<k, m>>] = ReadChildren(s)[<<k, m>>],
           ReadFrom(s, i, ReadChildren(s)).ok
    PROVE  ReadFrom(s2, i, ReadChildren(s2)) = ReadFrom(s, i, ReadChildren(s))
<1> DEFINE f == ReadChildren(s)
           g == ReadChildren(s2)
<1>0. Len(s) \in Nat /\ i \in Nat /\ i >= 1 /\ ~Failed.ok /\ Begins(s, s)
  BY BeginsItself, SMT DEF Failed
<1>1. PICK tag \in Seq(Octet), n \in Nat, p \in Nat :
              /\ TagShape(tag) /\ At(s, i, tag) /\ n <= MaxLength
              /\ i + Len(tag) + HeaderLen(n) <= p /\ p <= Len(s) + 1 /\ i < p
              /\ FormOf(tag) # Constructed => p + n <= Len(s) + 1
              /\ \A t \in Seq(Octet) : \A f2 : Begins(s, t) => ReadFrom(t, i, f2) = After(s, tag, p, n, f2)
  BY <1>0, ReadStep, Zenon
<1>2. ReadFrom(s, i, f) = After(s, tag, p, n, f) /\ ReadFrom(s2, i, g) = After(s, tag, p, n, g)
  BY <1>0, <1>1, Zenon
<1>3. p \in (i+1)..(Len(s)+1) /\ p + n \in Nat
  BY <1>0, <1>1, SMT
<1> HIDE DEF f, g
<1>4. CASE FormOf(tag) = Constructed
  <2>1. f[<<p, p + n>>].ok
    BY <1>0, <1>2, <1>4, Zenon DEF After, f
  <2>2. g[<<p, p + n>>] = f[<<p, p + n>>]
    BY <1>3, <2>1, Zenon DEF f, g
  <2>3. After(s, tag, p, n, g) = After(s, tag, p, n, f)
    BY <2>2, Zenon DEF After
  <2> QED
    BY <1>2, <2>3, Zenon DEF f, g
<1>5. CASE FormOf(tag) # Constructed
  BY <1>2, <1>5, Zenon DEF After, f, g
<1> QED
  BY <1>4, <1>5

\* So is every list.
LEMMA ListLonger ==
    ASSUME NEW s \in Seq(Octet), NEW s2 \in Seq(Octet), Begins(s, s2)
    PROVE  \A i \in 1..(Len(s)+1), m \in Nat :
              ReadChildren(s)[<<i, m>>].ok => ReadChildren(s2)[<<i, m>>] = ReadChildren(s)[<<i, m>>]
<1> DEFINE f == ReadChildren(s)
           g == ReadChildren(s2)
           L == Len(s)
           T == {i \in 1..(L+1) : \A m \in Nat : f[<<i, m>>].ok => g[<<i, m>>] = f[<<i, m>>]}
<1>0. L \in Nat /\ ~Failed.ok /\ Len(s2) \in Nat /\ L <= Len(s2)
  BY LenProperties, SMT DEF Failed, Begins
<1>1. ASSUME NEW i \in 1..(L+1), \A k \in (i+1)..(L+1) : k \in T
      PROVE  i \in T
  <2>1. SUFFICES ASSUME NEW m \in Nat, f[<<i, m>>].ok PROVE g[<<i, m>>] = f[<<i, m>>]
    OBVIOUS
  <2>2. \A k \in (i+1)..(L+1), n \in Nat : f[<<k, n>>].ok => g[<<k, n>>] = f[<<k, n>>]
    BY <1>1, Zenon
  <2> HIDE DEF T
  <2>3. i \in 1..(Len(s2)+1)
    BY <1>0, SMT
  <2>4. f[<<i, m>>] = ChildrenFrom(s, f, i, m) /\ g[<<i, m>>] = ChildrenFrom(s2, g, i, m)
    BY <2>3, ReadChildrenIs, Zenon
  <2>5. CASE i >= m
    <3> HIDE DEF f, g
    <3> QED
      BY <2>4, <2>5, Zenon DEF ChildrenFrom
  <2>6. CASE ~(i >= m)
    <3> DEFINE child == ReadFrom(s, i, f)
               rest == f[<<child.next, m>>]
    <3>1. child.ok /\ rest.ok
      BY <1>0, <2>1, <2>4, <2>6, Zenon DEF ChildrenFrom
    <3>2. child.next \in (i+1)..(L+1)
      BY <3>1, ReadNext, Zenon
    <3>3. ReadFrom(s2, i, g) = child
      BY <2>2, <3>1, ReadLonger, Zenon
    <3>4. g[<<child.next, m>>] = rest
      BY <2>2, <3>1, <3>2, Zenon
    <3> HIDE DEF f, g
    <3> QED
      BY <2>4, <2>6, <3>1, <3>3, <3>4, Zenon DEF ChildrenFrom
  <2> QED
    BY <2>5, <2>6
<1> HIDE DEF T
<1>2. \A i \in 1..(L+1) : i \in T
  <2> HIDE DEF L
  <2> QED
    BY <1>0, <1>1, AllPositions, Zenon
<1> QED
  BY <1>2, Zenon DEF T

\* What was read from a beginning is read from the whole.
LEMMA ReadOfWhole ==
    ASSUME NEW s \in Seq(Octet), NEW s2 \in Seq(Octet), Begins(s, s2), ReadTLV(s, 1).ok
    PROVE  ReadTLV(s2, 1) = ReadTLV(s, 1)
<1> DEFINE L == Len(s)
<1>1. L \in Nat /\ 1 \in 1..(L+1)
  BY LenProperties, SMT
<1>2. \A k \in (1+1)..(L+1) : k \in 1..(L+1)
  BY <1>1, SMT
<1>3. ReadFrom(s, 1, ReadChildren(s)).ok
  BY Zenon DEF ReadTLV
<1>4. ReadFrom(s2, 1, ReadChildren(s2)) = ReadFrom(s, 1, ReadChildren(s))
  BY <1>1, <1>2, <1>3, ListLonger, ReadLonger, Zenon
<1> QED
  BY <1>4, Zenon DEF ReadTLV

\* The places of a sequence behind a new element.
LEMMA FrontAt ==
    ASSUME NEW A, NEW x \in A, NEW q \in Seq(A)
    PROVE  /\ Len(q) \in Nat /\ Len(<<x>> \o q) = Len(q) + 1 /\ (<<x>> \o q)[1] = x
           /\ \A i \in 1..Len(q) : (<<x>> \o q)[i+1] = q[i]
           /\ \A i \in 1..(Len(q)+1) : i = 1 \/ (i - 1 \in 1..Len(q) /\ (i - 1) + 1 = i)
OBVIOUS

\* Present leaves out nothing but the nils.
LEMMA PresentKeeps ==
    ASSUME NEW A
    PROVE  \A ts \in Seq(A) : \A i \in 1..Len(ts) :
              ts[i] # Nil => \E j \in 1..Len(Present(ts)) : Present(ts)[j] = ts[i]
<1> DEFINE T == {ts \in Seq(A) : \A i \in 1..Len(ts) :
                    ts[i] # Nil => \E j \in 1..Len(Present(ts)) : Present(ts)[j] = ts[i]}
<1>1. <<>> \in T
  <2>1. <<>> \in Seq(A) /\ 1..Len(<<>>) = {}
    BY SMT
  <2> QED
    BY <2>1, Zenon
<1>2. ASSUME NEW q \in Seq(A), NEW x \in A, q \in T PROVE <<x>> \o q \in T
  <2> DEFINE ts == <<x>> \o q
             kept == Present(q)
  <2>1. ts \in Seq(A)
    BY SMT
  <2>2. SUFFICES ASSUME NEW i \in 1..Len(ts), ts[i] # Nil
                 PROVE  \E j \in 1..Len(Present(ts)) : Present(ts)[j] = ts[i]
    BY <2>1, Zenon
  <2>3. /\ Len(q) \in Nat /\ Len(ts) = Len(q) + 1 /\ ts[1] = x
        /\ \A k \in 1..Len(q) : ts[k+1] = q[k]
        /\ \A k \in 1..(Len(q)+1) : k = 1 \/ (k - 1 \in 1..Len(q) /\ (k - 1) + 1 = k)
    BY FrontAt, Zenon
  <2>4. kept \in Seq(A) /\ Present(ts) = IF x = Nil THEN kept ELSE <<x>> \o kept
    BY PresentFront, Zenon DEF PresentStarts
  <2>5. /\ Len(kept) \in Nat /\ Len(<<x>> \o kept) = Len(kept) + 1 /\ (<<x>> \o kept)[1] = x
        /\ \A k \in 1..Len(kept) : (<<x>> \o kept)[k+1] = kept[k]
    <3>1. kept \in Seq(A)
      BY <2>4, Zenon
    <3> HIDE DEF kept, ts
    <3> QED
      BY <3>1, SMT
  <2> HIDE DEF ts, kept
  <2>6. CASE i = 1
    <3>1. Present(ts) = <<x>> \o kept /\ 1 \in 1..(Len(kept) + 1)
      BY <2>2, <2>3, <2>4, <2>5, <2>6, SMT
    <3> QED
      BY <2>3, <2>5, <2>6, <3>1, Zenon
  <2>7. CASE i # 1
    <3>1. i - 1 \in 1..Len(q) /\ ts[i] = q[i-1]
      BY <2>2, <2>3, <2>7, Zenon
    <3>2. PICK j \in 1..Len(kept) : kept[j] = ts[i]
      BY <1>2, <2>2, <3>1, Zenon DEF kept
    <3>3. j + 1 \in 1..(Len(kept) + 1)
      BY <2>5, SMT
    <3>4. CASE x = Nil
      BY <2>4, <3>2, <3>4, Zenon
    <3>5. CASE x # Nil
      BY <2>4, <2>5, <3>2, <3>3, <3>5, Zenon
    <3> QED
      BY <3>4, <3>5
  <2> QED
    BY <2>6, <2>7
<1> HIDE DEF T
<1>3. \A ts \in Seq(A) : ts \in T
  BY <1>1, <1>2, AllSequencesFront, Zenon
<1> QED
  BY <1>3, Zenon DEF T

\* A copy has the tags of every node.
TagsCopied(t) ==
    \A u \in Nodes[t] : \E v \in Nodes[Clone[t]] : v.tag = u.tag

\* The copy of a tree has the tags of its nodes.
LEMMA CloneNodes ==
    \A t \in TLV :
       Writable(t) /\ (\A u \in Nodes[t] : Len(u.tag) >= 1) /\ Clone[t] \in TLV => TagsCopied(t)
<1> DEFINE Ready(t) == Writable(t) /\ (\A u \in Nodes[t] : Len(u.tag) >= 1) /\ Clone[t] \in TLV
           T == {t \in TLV : Ready(t) => TagsCopied(t)}
<1>1. Nil \in T
  <2>1. Nodes[Nil] = {}
    BY NilIsTLV, NodesIs, Zenon DEF NodesOf
  <2> QED
    BY <2>1, NilIsTLV, Zenon DEF TagsCopied
<1>2. ASSUME NEW t \in TLV, \A i \in DOMAIN t.children : t.children[i] \in T
      PROVE  t \in T
  <2>1. SUFFICES ASSUME t # Nil, Ready(t), NEW u \in Nodes[t]
                 PROVE  \E v \in Nodes[Clone[t]] : v.tag = u.tag
    BY <1>1, Zenon DEF TagsCopied
  <2>2. t \in Nodes[t] /\ t.tag \in Seq(Octet) /\ t.children \in Seq(TLV)
    BY <2>1, NodesAre, PartsOfTLV, Zenon
  <2>3. Len(t.tag) >= 1
    BY <2>1, <2>2, Zenon
  <2>4. FormOf(t.tag) = Primitive \/ FormOf(t.tag) = Constructed
    BY <2>2, <2>3, FormIs, Zenon
  <2> DEFINE c == Clone[t]
  <2>5. \/ c = Tlv(t.tag, t.value, <<>>)
        \/ c = Tlv(t.tag, <<>>, Present(Each(Clone, t.children)))
    BY <2>1, CloneIs, Zenon DEF CloneOf
  <2>6. c.tag = t.tag
    BY <2>5, SMT DEF Tlv
  <2>7. c # Nil
    <3>1. Nil.tag = <<>> /\ Len(<<>>) = 0
      BY SMT DEF Nil
    <3>2. t.tag # <<>>
      BY <2>3, <3>1, SMT
    <3> QED
      BY <2>6, <3>1, <3>2, Zenon
  <2>8. /\ c \in Nodes[c]
        /\ \A i \in DOMAIN c.children : Nodes[c.children[i]] \subseteq Nodes[c]
    BY <2>1, <2>7, NodesAre, Zenon
  <2>9. CASE u = t
    BY <2>6, <2>8, <2>9, Zenon
  <2>10. CASE u # t
    <3>1. PICK i \in DOMAIN t.children : u \in Nodes[t.children[i]]
      BY <2>1, <2>10, NodesAre, Zenon
    <3> DEFINE child == t.children[i]
               es == Each(Clone, t.children)
    <3>2. t.children # <<>>
      BY <3>1, SMT
    <3>3. FormOf(t.tag) = Constructed
      BY <2>1, <2>2, <2>4, <3>2, Zenon DEF Writable
    <3>4. c.children = Present(es)
      <4>1. c = Tlv(t.tag, <<>>, Present(es))
        BY <2>1, <3>3, CloneIs, FormsDiffer, Zenon DEF CloneOf
      <4> QED
        BY <4>1, SMT DEF Tlv
    <3>5. /\ child \in TLV /\ Nodes[child] \subseteq Nodes[t] /\ i \in 1..Len(t.children)
          /\ DOMAIN t.children = 1..Len(t.children)
      <4>1. child \in TLV /\ i \in 1..Len(t.children) /\ DOMAIN t.children = 1..Len(t.children)
        BY <2>2, <3>1, SMT
      <4> QED
        BY <2>1, <3>1, <4>1, NodesAre, Zenon
    <3>6. child # Nil
      <4>1. Nodes[Nil] = {}
        BY NilIsTLV, NodesIs, Zenon DEF NodesOf
      <4> QED
        BY <3>1, <4>1, Zenon
    <3>7. Len(child.tag) >= 1
      BY <2>1, <3>5, <3>6, NodesAre, Zenon
    <3>8. Clone[child] # Nil
      <4>1. \/ Clone[child] = Tlv(child.tag, child.value, <<>>)
            \/ Clone[child] = Tlv(child.tag, <<>>, Present(Each(Clone, child.children)))
        BY <3>5, <3>6, CloneIs, Zenon DEF CloneOf
      <4> HIDE DEF child
      <4>2. Clone[child].tag = child.tag /\ Nil.tag = <<>> /\ Len(<<>>) = 0
        BY <4>1, SMT DEF Tlv, Nil
      <4> QED
        BY <3>7, <4>2, SMT
    <3> DEFINE A == {Clone[x] : x \in TLV}
    <3>9. es \in Seq(A) /\ Len(es) = Len(t.children) /\ es[i] = Clone[child]
      <4>1. \A x \in TLV : Clone[x] \in A
        BY Zenon
      <4> HIDE DEF A
      <4>2. es \in Seq(A)
        BY <2>2, <4>1, EachIs, Zenon
      <4>3. Len(es) = Len(t.children) /\ \A k \in 1..Len(t.children) : es[k] = Clone[t.children[k]]
        BY <2>2, EachAt, SMT
      <4> QED
        BY <3>5, <4>2, <4>3, Zenon
    <3> HIDE DEF A, es, child
    <3>10. PICK j \in 1..Len(Present(es)) : Present(es)[j] = Clone[child]
      BY <3>5, <3>8, <3>9, PresentKeeps, Zenon
    <3>11. j \in DOMAIN c.children /\ c.children[j] = Clone[child] /\ Clone[child] \in TLV
      <4>1. c.children \in Seq(TLV)
        BY <2>1, PartsOfTLV, Zenon
      <4> HIDE DEF c
      <4> QED
        BY <3>4, <3>10, <4>1, SMT
    <3>12. Ready(child)
      BY <2>1, <3>5, <3>11, Zenon DEF Writable
    <3>13. TagsCopied(child)
      BY <1>2, <3>5, <3>12, Zenon DEF child
    <3>14. PICK v \in Nodes[Clone[child]] : v.tag = u.tag
      BY <3>1, <3>13, Zenon DEF TagsCopied, child
    <3> QED
      BY <2>8, <3>11, <3>14, Zenon
  <2> QED
    BY <2>9, <2>10
<1> HIDE DEF T
<1>3. \A t \in TLV : t \in T
  BY <1>1, <1>2, AllTrees, Zenon
<1> QED
  BY <1>3, Zenon DEF T

-----------------------------------------------------------------------------
(* The two theorems on trees, of any octets.                               *)

\* What is assumed of the trees that callers write.
LEMMA TreesAre ==
    ASSUME NEW t \in Trees
    PROVE  /\ t \in Fit /\ t # Nil /\ t \in TLV /\ TlvLen[t] \in Nat /\ TlvLen[t] <= MaxOctets
           /\ \A u \in Nodes[t] : FromNewTag(u.tag)
<1>1. t \in TLV /\ t # Nil /\ TlvLen[t] <= MaxOctets /\ \A u \in Nodes[t] : FromNewTag(u.tag)
  BY CodecAssumption, Zenon
<1>2. TlvLen[t] \in Nat
  BY <1>1, TlvLenNat, Zenon
<1>3. MaxLength \in Nat
  BY SMT DEF MaxLength
<1>4. TlvLen[t] <= MaxLength
  <2> DEFINE n == TlvLen[t]
  <2>1. n \in Nat /\ n <= MaxOctets
    BY <1>1, <1>2, Zenon
  <2> HIDE DEF n
  <2>2. n <= MaxLength
    BY <1>3, <2>1, OctetBounds, SMT
  <2> QED
    BY <2>2, Zenon DEF n
<1> QED
  BY <1>1, <1>2, <1>4, Zenon DEF Fit

\* The nodes of a tree are TLVs.
LEMMA NodesAreTLVs == \A t \in TLV : Nodes[t] \subseteq TLV
<1> DEFINE T == {t \in TLV : Nodes[t] \subseteq TLV}
<1>1. Nil \in T
  BY NilIsTLV, NodesIs, Zenon DEF NodesOf
<1>2. ASSUME NEW t \in TLV, \A i \in DOMAIN t.children : t.children[i] \in T
      PROVE  t \in T
  BY <1>1, <1>2, NodesAre, Zenon
<1> HIDE DEF T
<1>3. \A t \in TLV : t \in T
  BY <1>1, <1>2, AllTrees, Zenon
<1> QED
  BY <1>3, Zenon DEF T

\* A tree of small tags is what the reader reads.
LEMMA SmallTagsReadable ==
    ASSUME NEW t \in Trees, Writable(t)
    PROVE  SmallTags(t) <=> t \in Readable
<1>1. /\ t \in Fit /\ t \in TLV /\ \A u \in Nodes[t] : FromNewTag(u.tag) /\ u.tag \in Seq(Octet)
  BY TreesAre, NodesAreTLVs, PartsOfTLV, Zenon
<1>2. \A u \in Nodes[t] : TagShape(u.tag) <=> Len(u.tag) <= 2
  BY <1>1, ShapeOfTags, Zenon
<1> QED
  BY <1>1, <1>2, Zenon DEF SmallTags, Readable

\* WrittenIsRead for the octets of one TLV and nothing else.
LEMMA WholeIsRead ==
    ASSUME NEW t \in Readable, t # Nil
    PROVE  /\ ReadTLV(WriteTo[t], 1).ok /\ ReadTLV(WriteTo[t], 1).tlv = Clone[t]
           /\ ReadTLV(WriteTo[t], 1).next = TlvLen[t] + 1
<1> DEFINE w == WriteTo[t]
<1>1. w \in Seq(Octet) /\ TlvLen[t] \in Nat
  BY WrittenOctets, TlvLenNat, Zenon DEF Readable, Fit
<1>2. At(w, 1, w) /\ 1 \in Nat \ {0}
  BY <1>1, AtWhole, SMT
<1>3. ReadAt(w, 1, t)
  BY <1>1, <1>2, WrittenIsRead, Zenon DEF ReadAnywhere
<1>4. ReadTLV(w, 1) = [ok |-> TRUE, tlv |-> Clone[t], next |-> 1 + TlvLen[t]]
  BY <1>3, Zenon DEF ReadAt, ReadTLV
<1> HIDE DEF w
<1>5. /\ ReadTLV(w, 1).ok /\ ReadTLV(w, 1).tlv = Clone[t]
      /\ ReadTLV(w, 1).next = 1 + TlvLen[t] /\ 1 + TlvLen[t] = TlvLen[t] + 1
  BY <1>1, <1>4, SMT
<1> QED
  BY <1>5, Zenon DEF w

\* A tree whose copy can be read back has small tags only.
LEMMA CopySmall ==
    ASSUME NEW t \in Trees, Writable(t), Clone[t] \in Readable
    PROVE  SmallTags(t)
<1>1. /\ t \in TLV /\ \A u \in Nodes[t] : FromNewTag(u.tag) /\ u.tag \in Seq(Octet)
  BY TreesAre, NodesAreTLVs, PartsOfTLV, Zenon
<1>2. Clone[t] \in TLV /\ \A v \in Nodes[Clone[t]] : TagShape(v.tag)
  BY Zenon DEF Readable, Fit
<1>3. \A u \in Nodes[t] : Len(u.tag) >= 1
  <2>1. \A tag \in Seq(Octet) : FromNewTag(tag) => Len(tag) >= 1
    BY SMT DEF FromNewTag
  <2> QED
    BY <1>1, <2>1, Zenon
<1>4. TagsCopied(t)
  BY <1>1, <1>2, <1>3, CloneNodes, Zenon
<1>5. \A u \in Nodes[t] : TagShape(u.tag)
  BY <1>2, <1>4, Zenon DEF TagsCopied
<1> QED
  BY <1>1, <1>5, ShapeOfTags, Zenon DEF SmallTags

\* Of the octets of a tree, or of fewer.
LEMMA ReadBack ==
    ASSUME NEW t \in Trees, Writable(t), NEW o \in Seq(Octet), Begins(o, WriteTo[t])
    PROVE  /\ Len(o) = TlvLen[t] =>
                 (SmallTags(t) <=> /\ ReadTLV(o, 1).ok /\ ReadTLV(o, 1).tlv = Clone[t]
                                   /\ ReadTLV(o, 1).next = TlvLen[t] + 1)
           /\ Len(o) # TlvLen[t] /\ SmallTags(t) => ~ReadTLV(o, 1).ok
<1> DEFINE w == WriteTo[t]
           r == ReadTLV(o, 1)
<1>1. t \in Fit /\ t # Nil /\ TlvLen[t] \in Nat /\ TlvLen[t] <= MaxOctets
  BY TreesAre, Zenon
<1>2. w \in Seq(Octet) /\ Len(w) = TlvLen[t]
  BY <1>1, WrittenOctets, Zenon
<1>3. Len(o) \in Nat /\ Len(o) <= TlvLen[t] /\ Len(o) <= MaxOctets
  <2>1. Len(o) \in Nat /\ Len(o) <= Len(w)
    BY LenProperties, Zenon DEF Begins
  <2> HIDE DEF w
  <2> QED
    BY <1>1, <1>2, <2>1, OctetBounds, SMT
<1>4. SmallTags(t) <=> t \in Readable
  BY SmallTagsReadable, Zenon
<1>5. ASSUME Len(o) = TlvLen[t] PROVE o = w
  <2>1. \A k \in 1..Len(o) : o[k] = w[k]
    BY Zenon DEF Begins
  <2> QED
    BY <1>2, <1>5, <2>1, SeqEqual, Zenon
<1>6. ASSUME Len(o) = TlvLen[t], SmallTags(t)
      PROVE  r.ok /\ r.tlv = Clone[t] /\ r.next = TlvLen[t] + 1
  BY <1>1, <1>4, <1>5, <1>6, WholeIsRead, Zenon
<1>7. ASSUME r.ok, r.tlv = Clone[t] PROVE SmallTags(t)
  <2>1. Clone[t] \in Readable
    BY <1>3, <1>7, ReadIsReadable, Zenon
  <2> QED
    BY <2>1, CopySmall, Zenon
<1>8. ASSUME SmallTags(t), r.ok PROVE Len(o) = TlvLen[t]
  <2>1. ReadTLV(w, 1) = r
    BY <1>2, <1>8, ReadOfWhole, Zenon
  <2>2. r.next = TlvLen[t] + 1
    BY <1>1, <1>4, <1>8, <2>1, WholeIsRead, Zenon
  <2>3. r.next <= Len(o) + 1
    BY <1>3, <1>8, ReadIsReadable, Zenon
  <2>4. TlvLen[t] + 1 <= Len(o) + 1
    BY <2>2, <2>3, Zenon
  <2> QED
    BY <1>1, <1>3, <2>4, SMT
<1> QED
  BY <1>6, <1>7, <1>8, Zenon

\* Of any octets.
LEMMA ReadAgain ==
    ASSUME NEW o \in Seq(Octet), Len(o) <= MaxOctets, ReadTLV(o, 1).ok
    PROVE  LET t == ReadTLV(o, 1).tlv
               again == ReadTLV(WriteTo[t], 1)
           IN  Writable(t) /\ again.ok /\ again.tlv = t /\ again.next = TlvLen[t] + 1
<1> DEFINE t == ReadTLV(o, 1).tlv
<1>1. t \in Readable /\ Writable(t) /\ t # Nil /\ Clone[t] = t
  BY ReadIsReadable, Zenon DEF SettledTLV
<1> HIDE DEF t
<1>2. /\ ReadTLV(WriteTo[t], 1).ok /\ ReadTLV(WriteTo[t], 1).tlv = Clone[t]
      /\ ReadTLV(WriteTo[t], 1).next = TlvLen[t] + 1
  BY <1>1, WholeIsRead, Zenon
<1>3. LET again == ReadTLV(WriteTo[t], 1)
      IN  Writable(t) /\ again.ok /\ again.tlv = t /\ again.next = TlvLen[t] + 1
  BY <1>1, <1>2, Zenon
<1> QED
  BY <1>3, Zenon DEF t

-----------------------------------------------------------------------------
(* The machine: where the octets come from, and what was made of them.     *)

\* Octets that arrived are few; those of a value are what was written of it, of a
\* tree perhaps a beginning.
OctetsAreOf ==
    \/ source = NoSource /\ octets \in Seq(Octet) /\ Len(octets) <= MaxArrived
    \/ /\ source.kind = "tree" /\ source.of \in Trees /\ Writable(source.of)
       /\ octets \in Seq(Octet) /\ Begins(octets, WriteTo[source.of])
    \/ source.kind = "int" /\ source.of \in Ints /\ octets = MarshalInt(source.of)
    \/ source.kind = "bits" /\ source.of \in Bits /\ octets = MarshalBitString(source.of)
    \/ source.kind = "digits" /\ source.of \in Digits /\ octets = EncodeBCD(source.of)
    \/ source.kind = "package" /\ source.of \in Packages /\ octets = WriteTo[source.of]

CodecIInv ==
    /\ phase # "refused" => OctetsAreOf
    /\ phase \in {"idle", "arriving"} => source = NoSource
    /\ phase \in {"arriving", "readInt"} /\ source = NoSource => octets # <<>>
    /\ phase = "read" => source.kind \in {"none", "tree"} /\ got = ReadTLV(octets, 1)
    /\ phase = "readInt" =>
          /\ source.kind \in {"none", "int"}
          /\ \E size \in {1, 2, 4} : got = [size |-> size, read |-> UnmarshalInt(size, octets)]
    /\ phase = "readValue" =>
          \/ source.kind = "bits" /\ got = UnmarshalBitString(octets)
          \/ source.kind = "digits" /\ got = [ok |-> TRUE, value |-> DecodeBCD(octets)]
    /\ phase = "segmented" =>
          /\ source.kind = "package"
          /\ got = IF ValidBoundProfilePackage(source.of)
                   THEN [ok |-> TRUE, segments |-> SegmentedBoundProfilePackage(source.of)]
                   ELSE Failed

\* No value was written yet.
LEMMA NoKind == NoSource.kind = "none"
BY DEF NoSource

\* The fields of source after Start.
LEMMA KindAndValue ==
    ASSUME NEW kind, NEW x, source' = [kind |-> kind, of |-> x]
    PROVE  source'.kind = kind /\ source'.of = x
OBVIOUS

\* What was written is there from its first octet to its last.
LEMMA WrittenBegins ==
    ASSUME NEW t \in Trees
    PROVE  WriteTo[t] \in Seq(Octet) /\ Begins(WriteTo[t], WriteTo[t])
<1>1. WriteTo[t] \in Seq(Octet)
  BY TreesAre, WrittenOctets, Zenon
<1> QED
  BY <1>1, BeginsItself, Zenon

\* A beginning cut once more is a beginning.
LEMMA CutBegins ==
    ASSUME NEW o \in Seq(Octet), NEW w \in Seq(Octet), Begins(o, w), o # <<>>
    PROVE  Front(o) \in Seq(Octet) /\ Begins(Front(o), w)
<1>1. Len(o) \in Nat /\ Len(o) >= 1 /\ Len(w) \in Nat
  BY SMT
<1> DEFINE c == SubSeq(o, 1, Len(o) - 1)
<1>2. c \in Seq(Octet) /\ Len(c) = Len(o) - 1 /\ \A k \in 1..(Len(o) - 1) : c[k] = o[k]
  <2> DEFINE e == Len(o) - 1
  <2>1. 1 >= 1 /\ 1 \in Nat /\ e \in Nat /\ 1 <= e + 1 /\ e <= Len(o) /\ (e + 1) - 1 = e
    BY <1>1, SMT
  <2> HIDE DEF e
  <2>2. /\ SubSeq(o, 1, e) \in Seq(Octet) /\ Len(SubSeq(o, 1, e)) = (e + 1) - 1
        /\ At(o, 1, SubSeq(o, 1, e))
    BY <2>1, SubSeqAt, Zenon
  <2>3. \A k \in 1..e : 1 + k - 1 = k
    BY <2>1, SMT
  <2>4. Len(SubSeq(o, 1, e)) = e /\ \A k \in 1..e : SubSeq(o, 1, e)[k] = o[k]
    BY <2>1, <2>2, <2>3, Zenon DEF At
  <2> QED
    BY <2>2, <2>4, Zenon DEF e
<1>3. Front(o) = c
  BY Zenon DEF Front
<1>4. Len(o) <= Len(w) /\ \A k \in 1..Len(o) : w[k] = o[k]
  BY Zenon DEF Begins
<1> HIDE DEF c
<1>5. Begins(c, w)
  BY <1>1, <1>2, <1>4, SMT DEF Begins
<1> QED
  BY <1>2, <1>3, <1>5, Zenon

\* CodecIInv holds when nothing has happened.
LEMMA CodecStarts == CodecInit => CodecIInv
<1> SUFFICES ASSUME CodecInit PROVE CodecIInv
  OBVIOUS
<1>1. <<>> \in Seq(Octet) /\ Len(<<>>) = 0 /\ 0 <= MaxArrived
  BY OctetBounds, SMT
<1>2. OctetsAreOf
  BY <1>1, Zenon DEF CodecInit, OctetsAreOf
<1> QED
  BY <1>2, Zenon DEF CodecInit, CodecIInv

\* Every action keeps it.
LEMMA CodecSteps == CodecIInv /\ [CodecNext]_codec => CodecIInv'
<1> SUFFICES ASSUME CodecIInv, [CodecNext]_codec PROVE CodecIInv'
  OBVIOUS
<1>1. ASSUME NEW t \in Trees, MarshalTree(t) PROVE CodecIInv'
  <2>1. source'.kind = "tree" /\ source'.of = t
    BY <1>1, KindAndValue, Zenon DEF MarshalTree, Start
  <2>2. OctetsAreOf'
    BY <1>1, <2>1, WrittenBegins, Zenon DEF MarshalTree, Start, OctetsAreOf
  <2> QED
    BY <1>1, <2>2, Zenon DEF MarshalTree, Start, CodecIInv
<1>2. ASSUME NEW t \in Trees, RefuseTree(t) PROVE CodecIInv'
  BY <1>2, Zenon DEF RefuseTree, CodecIInv
<1>3. ASSUME NEW v \in Ints, MarshalInteger(v) PROVE CodecIInv'
  <2>1. source'.kind = "int" /\ source'.of = v
    BY <1>3, KindAndValue, Zenon DEF MarshalInteger, Start
  <2>2. OctetsAreOf'
    BY <1>3, <2>1, Zenon DEF MarshalInteger, Start, OctetsAreOf
  <2> QED
    BY <1>3, <2>2, Zenon DEF MarshalInteger, Start, CodecIInv
<1>4. ASSUME NEW b \in Bits, MarshalBits(b) PROVE CodecIInv'
  <2>1. source'.kind = "bits" /\ source'.of = b
    BY <1>4, KindAndValue, Zenon DEF MarshalBits, Start
  <2>2. OctetsAreOf'
    BY <1>4, <2>1, Zenon DEF MarshalBits, Start, OctetsAreOf
  <2> QED
    BY <1>4, <2>2, Zenon DEF MarshalBits, Start, CodecIInv
<1>5. ASSUME NEW d \in Digits, MarshalDigits(d) PROVE CodecIInv'
  <2>1. source'.kind = "digits" /\ source'.of = d
    BY <1>5, KindAndValue, Zenon DEF MarshalDigits, Start
  <2>2. OctetsAreOf'
    BY <1>5, <2>1, Zenon DEF MarshalDigits, Start, OctetsAreOf
  <2> QED
    BY <1>5, <2>2, Zenon DEF MarshalDigits, Start, CodecIInv
<1>6. ASSUME NEW b \in Alphabet, Arrive(b) PROVE CodecIInv'
  <2>1. source = NoSource /\ OctetsAreOf
    BY <1>6, Zenon DEF Arrive, CodecIInv
  <2>2. octets \in Seq(Octet)
    BY <2>1, NoKind, Zenon DEF OctetsAreOf
  <2>3. b \in Octet
    BY <1>6, CodecAssumption, Zenon
  <2>4. Append(octets, b) \in Seq(Octet) /\ Len(Append(octets, b)) = Len(octets) + 1
        /\ Len(octets) \in Nat
    BY <2>2, <2>3, SMT
  <2>5. Len(octets) + 1 <= MaxArrived
    BY <1>6, <2>4, OctetBounds, SMT DEF Arrive
  <2>6. octets' = Append(octets, b) /\ source' = NoSource
    BY <1>6, <2>1, Zenon DEF Arrive
  <2>7. OctetsAreOf'
    BY <2>4, <2>5, <2>6, Zenon DEF OctetsAreOf
  <2>8. Append(octets, b) # <<>>
    BY <2>2, <2>4, SMT
  <2> QED
    BY <1>6, <2>6, <2>7, <2>8, Zenon DEF Arrive, CodecIInv
<1>7. ASSUME NEW size \in {1, 2, 4}, UnmarshalInteger(size) PROVE CodecIInv'
  <2>1. phase \in {"arriving", "written"} /\ source.kind \in {"none", "int"}
    BY <1>7, NoKind, Zenon DEF UnmarshalInteger, CodecIInv
  <2>2. OctetsAreOf'
    BY <1>7, <2>1, Zenon DEF UnmarshalInteger, CodecIInv, OctetsAreOf
  <2>3. source = NoSource => octets # <<>>
    BY <1>7, NoKind, Zenon DEF UnmarshalInteger, CodecIInv
  <2> QED
    BY <1>7, <2>1, <2>2, <2>3, Zenon DEF UnmarshalInteger, CodecIInv
<1>8. CASE Cut
  <2>1. phase = "written" /\ source.kind = "tree" /\ OctetsAreOf
    BY <1>8, Zenon DEF Cut, CodecIInv
  <2>2. source.of \in Trees /\ Writable(source.of) /\ octets \in Seq(Octet)
        /\ Begins(octets, WriteTo[source.of])
    BY <2>1, NoKind, Zenon DEF OctetsAreOf
  <2>3. Front(octets) \in Seq(Octet) /\ Begins(Front(octets), WriteTo[source.of])
    BY <1>8, <2>2, WrittenBegins, CutBegins, Zenon DEF Cut
  <2>4. OctetsAreOf'
    BY <1>8, <2>1, <2>2, <2>3, Zenon DEF Cut, OctetsAreOf
  <2> QED
    BY <1>8, <2>1, <2>4, Zenon DEF Cut, CodecIInv
<1>9. CASE UnmarshalBinary
  <2>1. phase \in {"arriving", "written"} /\ source.kind \in {"none", "tree"}
    BY <1>9, NoKind, Zenon DEF UnmarshalBinary, CodecIInv
  <2>2. OctetsAreOf'
    BY <1>9, <2>1, Zenon DEF UnmarshalBinary, CodecIInv, OctetsAreOf
  <2> QED
    BY <1>9, <2>1, <2>2, Zenon DEF UnmarshalBinary, CodecIInv
<1>10. CASE UnmarshalValue
  <2>1. OctetsAreOf'
    BY <1>10, Zenon DEF UnmarshalValue, CodecIInv, OctetsAreOf
  <2> QED
    BY <1>10, <2>1, Zenon DEF UnmarshalValue, CodecIInv
<1>11. ASSUME NEW p \in Packages, SegmentPackage(p) PROVE CodecIInv'
  <2>1. source'.kind = "package" /\ source'.of = p
    BY <1>11, KindAndValue, Zenon DEF SegmentPackage
  <2>2. OctetsAreOf'
    BY <1>11, <2>1, Zenon DEF SegmentPackage, OctetsAreOf
  <2> QED
    BY <1>11, <2>1, <2>2, Zenon DEF SegmentPackage, CodecIInv
<1>12. CASE UNCHANGED codec
  <2>1. OctetsAreOf' <=> OctetsAreOf
    BY <1>12, Zenon DEF codec, OctetsAreOf
  <2> QED
    BY <1>12, <2>1, Zenon DEF codec, CodecIInv
<1> QED
  BY <1>1, <1>2, <1>3, <1>4, <1>5, <1>6, <1>7, <1>8, <1>9, <1>10, <1>11, <1>12, Zenon DEF CodecNext

\* In every reachable state the octets are those of the source, or a beginning
\* of them, or foreign, and what was got is what reading them gives.
THEOREM CodecInvariant == CodecSpec => []CodecIInv
<1>1. CodecInit => CodecIInv
  BY CodecStarts
<1>2. CodecIInv /\ [CodecNext]_codec => CodecIInv'
  BY CodecSteps
<1> QED
  BY <1>1, <1>2, PTL DEF CodecSpec

\* TLV.UnmarshalBinary of what MarshalBinary wrote: the tree without its nil
\* children, to its last octet and from no fewer, as long as its tags have
\* numbers below 128, and otherwise not.  For every tree.
THEOREM TreesReadBack == CodecSpec => []ReadsBack
<1>1. CodecIInv => ReadsBack
  <2>1. SUFFICES ASSUME CodecIInv, phase = "read", source.kind = "tree" PROVE ReadsBack
    BY Zenon DEF ReadsBack
  <2> DEFINE t == source.of
  <2>2. t \in Trees /\ Writable(t) /\ octets \in Seq(Octet) /\ Begins(octets, WriteTo[t])
    BY <2>1, NoKind, Zenon DEF CodecIInv, OctetsAreOf
  <2>3. got = ReadTLV(octets, 1)
    BY <2>1, Zenon DEF CodecIInv
  <2>4. /\ Len(octets) = TlvLen[t] =>
              (SmallTags(t) <=> got.ok /\ got.tlv = Clone[t] /\ got.next = TlvLen[t] + 1)
        /\ Len(octets) # TlvLen[t] /\ SmallTags(t) => ~got.ok
    BY <2>2, <2>3, ReadBack, Zenon
  <2> QED
    BY <2>4, Zenon DEF ReadsBack
<1> QED
  BY <1>1, CodecInvariant, PTL

\* Whatever octets a card or a server sends: a TLV that TLV.ReadFrom accepts
\* writes to octets that read as the same TLV.
THEOREM ReadingIsStable == CodecSpec => []StableReading
<1>1. CodecIInv => StableReading
  <2>1. SUFFICES ASSUME CodecIInv, phase = "read", got.ok PROVE StableReading
    BY Zenon DEF StableReading
  <2>2. /\ got = ReadTLV(octets, 1) /\ octets \in Seq(Octet)
        /\ \/ Len(octets) <= MaxArrived
           \/ source.of \in Trees /\ Begins(octets, WriteTo[source.of])
    BY <2>1, Zenon DEF CodecIInv, OctetsAreOf
  <2>3. Len(octets) <= MaxOctets
    <3>1. Len(octets) \in Nat
      BY <2>2, LenProperties, Zenon
    <3>2. CASE Len(octets) <= MaxArrived
      BY <3>1, <3>2, OctetBounds, SMT
    <3>3. CASE source.of \in Trees /\ Begins(octets, WriteTo[source.of])
      <4> DEFINE n == TlvLen[source.of]
      <4>1. n \in Nat /\ n <= MaxOctets /\ Len(WriteTo[source.of]) = n
        BY <3>3, TreesAre, WrittenOctets, Zenon
      <4>2. Len(octets) <= n
        BY <3>3, <4>1, Zenon DEF Begins
      <4> HIDE DEF n
      <4> QED
        BY <3>1, <4>1, <4>2, OctetBounds, SMT
    <3> QED
      BY <2>2, <3>2, <3>3
  <2> QED
    BY <2>1, <2>2, <2>3, ReadAgain, Zenon DEF StableReading
<1> QED
  BY <1>1, CodecInvariant, PTL

-----------------------------------------------------------------------------
(* The theorem on the primitive values.                                    *)

\* The value in two's complement is the loop's in the widest integer, where
\* nothing overflows.
LEMMA TwosComplementIs ==
    ASSUME NEW s \in Seq(Octet), Len(s) \in 1..4
    PROVE  TwosComplement(s) = ValueOf(s)
<1>1. \A x : Wrap(4, x) = x
  BY SMT DEF Wrap, IntWidth
<1> DEFINE sign == IF s[1] > 127 THEN -1 ELSE 0
<1>2. TwosComplement(s) = Accumulate(4, sign, s)
  <2> DEFINE P(n) == n = [k \in 0..Len(s) |->
                            IF k = 0 THEN sign ELSE n[k-1] * 256 + s[k]]
             Q(n) == n = [k \in 0..Len(s) |->
                            IF k = 0 THEN sign ELSE Wrap(4, n[k-1] * 256 + s[k])]
  <2>1. ASSUME NEW n PROVE P(n) <=> Q(n)
    <3>1. ASSUME NEW k \in 0..Len(s)
          PROVE  (IF k = 0 THEN sign ELSE n[k-1] * 256 + s[k])
                   = (IF k = 0 THEN sign ELSE Wrap(4, n[k-1] * 256 + s[k]))
      BY <1>1, Zenon
    <3>2. [k \in 0..Len(s) |-> IF k = 0 THEN sign ELSE n[k-1] * 256 + s[k]]
            = [k \in 0..Len(s) |-> IF k = 0 THEN sign ELSE Wrap(4, n[k-1] * 256 + s[k])]
      BY <3>1, Zenon
    <3> QED
      BY <3>2, Zenon
  <2>2. (CHOOSE n : P(n)) = (CHOOSE n : Q(n))
    <3> HIDE DEF P, Q
    <3> QED
      BY <2>1, Zenon
  <2>3. TwosComplement(s) = (CHOOSE n : P(n))[Len(s)]
    BY Zenon DEF TwosComplement
  <2>4. Accumulate(4, sign, s) = (CHOOSE n : Q(n))[Len(s)]
    BY Zenon DEF Accumulate
  <2> QED
    BY <2>2, <2>3, <2>4, Zenon
<1>3. 4 \in 1..4
  BY SMT
<1> QED
  BY <1>2, <1>3, LoopValue, Zenon

\* The loop stops at an octet of the sequence, and skips what repeats.
LEMMA SkipsRepeats ==
    ASSUME NEW s \in Seq(Octet), Len(s) \in 1..4
    PROVE  /\ SignsSkipped(s) \in 1..Len(s)
           /\ \A j \in 1..(SignsSkipped(s) - 1) : Repeats(s[j], s[j+1])
<1> DEFINE n == Len(s)
           Stops(k) == s[k] # s[1] \/ s[k+1] \div 128 # s[1] \div 128
           P(k) == (Stops(k) \/ k = n - 1) /\ \A j \in 1..(k-1) : ~Stops(j)
           c == CHOOSE k \in 1..(n-1) : P(k)
<1>1. SignsSkipped(s) = IF n = 1 \/ s[1] \notin {0, 255} THEN 1 ELSE c
  BY Zenon DEF SignsSkipped
<1>2. CASE n = 1 \/ s[1] \notin {0, 255}
  <2>1. SignsSkipped(s) = 1
    BY <1>1, <1>2, Zenon
  <2>2. 1 \in 1..n /\ 1..(1 - 1) = {}
    BY SMT
  <2> QED
    BY <2>1, <2>2, Zenon
<1>3. CASE ~(n = 1 \/ s[1] \notin {0, 255})
  <2>1. \E k \in 1..(n-1) : P(k)
    <3> HIDE DEF Stops
    <3>1. n = 2 \/ n = 3 \/ n = 4
      BY <1>3, SMT
    <3>2. CASE n = 2
      <4>1. 1 \in 1..(n-1) /\ 1 = n - 1 /\ 1..(1-1) = {}
        BY <3>2, SMT
      <4> QED
        BY <4>1, Zenon
    <3>3. CASE n = 3
      <4>1. 1 \in 1..(n-1) /\ 2 \in 1..(n-1) /\ 2 = n - 1 /\ 1..(1-1) = {} /\ 1..(2-1) = {1}
        BY <3>3, SMT
      <4> QED
        BY <4>1, Zenon
    <3>4. CASE n = 4
      <4>1. /\ 1 \in 1..(n-1) /\ 2 \in 1..(n-1) /\ 3 \in 1..(n-1) /\ 3 = n - 1
            /\ 1..(1-1) = {} /\ 1..(2-1) = {1} /\ 1..(3-1) = {1, 2}
        BY <3>4, SMT
      <4> QED
        BY <4>1, Zenon
    <3> QED
      BY <3>1, <3>2, <3>3, <3>4
  <2>2. c \in 1..(n-1) /\ P(c)
    <3> HIDE DEF P
    <3> QED
      BY <2>1, Zenon
  <2>3. SignsSkipped(s) = c /\ s[1] \in {0, 255}
    BY <1>1, <1>3, Zenon
  <2> HIDE DEF c
  <2>4. c \in 1..n
    BY <2>2, SMT
  <2>5. ASSUME NEW j \in 1..(c - 1) PROVE Repeats(s[j], s[j+1])
    <3>1. ~Stops(j)
      BY <2>2, Zenon
    <3>2. j + 1 \in 1..n
      BY <2>2, SMT
    <3> DEFINE a == s[j]
               b == s[j+1]
    <3>3. (a = 0 \/ a = 255) /\ b \in 0..255 /\ b \div 128 = a \div 128
      BY <2>3, <3>1, <3>2, OctetsAre, Zenon
    <3> HIDE DEF a, b
    <3>4. Repeats(a, b)
      BY <3>3, SMT DEF Repeats
    <3> QED
      BY <3>4, Zenon DEF a, b
  <2> QED
    BY <2>3, <2>4, <2>5, Zenon
<1> QED
  BY <1>2, <1>3

\* The value, for each number of octets.
LEMMA ValueOfEach ==
    ASSUME NEW s
    PROVE  /\ Len(s) = 1 => ValueOf(s) = Signed(s[1])
           /\ Len(s) = 2 => ValueOf(s) = Shift(Signed(s[1]), s[2])
           /\ Len(s) = 3 => ValueOf(s) = Shift(Shift(Signed(s[1]), s[2]), s[3])
           /\ Len(s) = 4 => ValueOf(s) = Shift(Shift(Shift(Signed(s[1]), s[2]), s[3]), s[4])
<1> DEFINE n == Len(s)
<1>1. ValueOf(s) = IF n = 1 THEN Signed(s[1])
                   ELSE IF n = 2 THEN Shift(Signed(s[1]), s[2])
                   ELSE IF n = 3 THEN Shift(Shift(Signed(s[1]), s[2]), s[3])
                   ELSE Shift(Shift(Shift(Signed(s[1]), s[2]), s[3]), s[4])
  BY Zenon DEF ValueOf
<1> HIDE DEF n
<1>2. /\ n = 1 => ValueOf(s) = Signed(s[1])
      /\ n = 2 => ValueOf(s) = Shift(Signed(s[1]), s[2])
      /\ n = 3 => ValueOf(s) = Shift(Shift(Signed(s[1]), s[2]), s[3])
      /\ n = 4 => ValueOf(s) = Shift(Shift(Shift(Signed(s[1]), s[2]), s[3]), s[4])
  BY <1>1, SMT
<1> QED
  BY <1>2, Zenon DEF n

\* What is skipped does not change the value.
LEMMA SkippedKeeps ==
    ASSUME NEW s \in Seq(Octet), Len(s) \in 1..4, NEW k \in 1..Len(s),
           \A j \in 1..(k - 1) : Repeats(s[j], s[j+1])
    PROVE  LET rest == SubSeq(s, k, Len(s))
           IN  rest \in Seq(Octet) /\ Len(rest) \in 1..Len(s) /\ ValueOf(rest) = ValueOf(s)
<1> DEFINE n == Len(s)
           rest == SubSeq(s, k, n)
<1>1. n = 1 \/ n = 2 \/ n = 3 \/ n = 4
  BY SMT
<1>2. \A j \in 1..n : s[j] \in 0..255
  BY OctetsAre
<1>3. k \in Nat /\ k >= 1 /\ n \in Nat /\ k <= n + 1 /\ n <= Len(s) /\ (n + 1) - k \in 1..n
  BY OctetsAre, SMT
<1>4. /\ rest \in Seq(Octet) /\ Len(rest) = (n + 1) - k
      /\ \A i \in 1..Len(rest) : s[k+i-1] = rest[i]
  BY <1>3, SubSeqAt, Zenon DEF At
<1> HIDE DEF rest
<1>5. \A j \in 1..(k-1) : j \in 1..n /\ j + 1 \in 1..n
  BY <1>3, SMT
<1>6. \A j \in 1..(k-1) : Shift(Signed(s[j]), s[j+1]) = Signed(s[j+1])
  BY <1>2, <1>5, SignRepeated, Zenon
<1>r. /\ k >= 2 => Shift(Signed(s[1]), s[2]) = Signed(s[2])
      /\ k >= 3 => Shift(Signed(s[2]), s[3]) = Signed(s[3])
      /\ k >= 4 => Shift(Signed(s[3]), s[4]) = Signed(s[4])
  <2>1. /\ k >= 2 => 1 \in 1..(k-1)
        /\ k >= 3 => 2 \in 1..(k-1)
        /\ k >= 4 => 3 \in 1..(k-1)
        /\ 1 + 1 = 2 /\ 2 + 1 = 3 /\ 3 + 1 = 4
    BY <1>3, SMT
  <2>2. k >= 2 => Shift(Signed(s[1]), s[2]) = Signed(s[2])
    BY <1>6, <2>1, Zenon
  <2>3. k >= 3 => Shift(Signed(s[2]), s[3]) = Signed(s[3])
    BY <1>6, <2>1, Zenon
  <2>4. k >= 4 => Shift(Signed(s[3]), s[4]) = Signed(s[4])
    BY <1>6, <2>1, Zenon
  <2> QED
    BY <2>2, <2>3, <2>4
<1> HIDE DEF n
<1> DEFINE m == Len(rest)
<1>m. m = (n + 1) - k
  BY <1>4
<1>e. \A i \in 1..m : s[k+i-1] = rest[i]
  BY <1>4, Zenon
<1> HIDE DEF m
<1>p. /\ m >= 1 => rest[1] = s[k]
      /\ m >= 2 => rest[2] = s[k+1]
      /\ m >= 3 => rest[3] = s[k+2]
      /\ m >= 4 => rest[4] = s[k+3]
  <2>1. /\ m >= 1 => 1 \in 1..m
        /\ m >= 2 => 2 \in 1..m
        /\ m >= 3 => 3 \in 1..m
        /\ m >= 4 => 4 \in 1..m
        /\ k+1-1 = k /\ k+2-1 = k+1 /\ k+3-1 = k+2 /\ k+4-1 = k+3
    BY <1>3, <1>m, SMT
  <2>2. m >= 1 => rest[1] = s[k]
    BY <1>e, <2>1, Zenon
  <2>3. m >= 2 => rest[2] = s[k+1]
    BY <1>e, <2>1, Zenon
  <2>4. m >= 3 => rest[3] = s[k+2]
    BY <1>e, <2>1, Zenon
  <2>5. m >= 4 => rest[4] = s[k+3]
    BY <1>e, <2>1, Zenon
  <2> QED
    BY <2>2, <2>3, <2>4, <2>5
<1>v. /\ n = 1 => ValueOf(s) = Signed(s[1])
      /\ n = 2 => ValueOf(s) = Shift(Signed(s[1]), s[2])
      /\ n = 3 => ValueOf(s) = Shift(Shift(Signed(s[1]), s[2]), s[3])
      /\ n = 4 => ValueOf(s) = Shift(Shift(Shift(Signed(s[1]), s[2]), s[3]), s[4])
  BY ValueOfEach, Zenon DEF n
<1>w. /\ m = 1 => ValueOf(rest) = Signed(rest[1])
      /\ m = 2 => ValueOf(rest) = Shift(Signed(rest[1]), rest[2])
      /\ m = 3 => ValueOf(rest) = Shift(Shift(Signed(rest[1]), rest[2]), rest[3])
      /\ m = 4 => ValueOf(rest) = Shift(Shift(Shift(Signed(rest[1]), rest[2]), rest[3]), rest[4])
  BY <1>4, ValueOfEach, Zenon DEF m
<1>7. k = 1 \/ k = 2 \/ k = 3 \/ k = 4
  BY <1>1, <1>3, SMT
<1>8. ASSUME k = 1 PROVE ValueOf(rest) = ValueOf(s)
  <2>1. /\ m = n /\ rest[1] = s[1] /\ (n >= 2 => rest[2] = s[2])
        /\ (n >= 3 => rest[3] = s[3]) /\ (n >= 4 => rest[4] = s[4])
    BY <1>1, <1>3, <1>m, <1>p, <1>8, SMT
  <2> QED
    BY <1>1, <1>v, <1>w, <2>1, SMT
<1>9. ASSUME k = 2 PROVE ValueOf(rest) = ValueOf(s)
  <2>1. /\ n >= 2 /\ m = n - 1 /\ rest[1] = s[2] /\ (n >= 3 => rest[2] = s[3])
        /\ (n >= 4 => rest[3] = s[4]) /\ Shift(Signed(s[1]), s[2]) = Signed(s[2])
    BY <1>1, <1>3, <1>m, <1>p, <1>r, <1>9, SMT
  <2> QED
    BY <1>1, <1>v, <1>w, <2>1, SMT
<1>10. ASSUME k = 3 PROVE ValueOf(rest) = ValueOf(s)
  <2>1. /\ n >= 3 /\ m = n - 2 /\ rest[1] = s[3] /\ (n >= 4 => rest[2] = s[4])
        /\ Shift(Signed(s[1]), s[2]) = Signed(s[2]) /\ Shift(Signed(s[2]), s[3]) = Signed(s[3])
    BY <1>1, <1>3, <1>m, <1>p, <1>r, <1>10, SMT
  <2> QED
    BY <1>1, <1>v, <1>w, <2>1, SMT
<1>11. ASSUME k = 4 PROVE ValueOf(rest) = ValueOf(s)
  <2>1. /\ n = 4 /\ m = 1 /\ rest[1] = s[4]
        /\ Shift(Signed(s[1]), s[2]) = Signed(s[2]) /\ Shift(Signed(s[2]), s[3]) = Signed(s[3])
        /\ Shift(Signed(s[3]), s[4]) = Signed(s[4])
    BY <1>1, <1>3, <1>m, <1>p, <1>r, <1>11, SMT
  <2> QED
    BY <1>1, <1>v, <1>w, <2>1, SMT
<1>12. ValueOf(rest) = ValueOf(s)
  BY <1>7, <1>8, <1>9, <1>10, <1>11, Zenon
<1>13. Len(rest) \in 1..Len(s)
  BY <1>3, <1>4, Zenon DEF n
<1> QED
  BY <1>4, <1>12, <1>13, Zenon DEF rest, n

\* Whatever octets are read, their value is that of their two's complement.
THEOREM ForeignIntegers ==
    ASSUME NEW s \in Seq(Octet), Len(s) >= 1, NEW size \in 1..4
    PROVE  UnmarshalInt(size, s) =
             IF Len(s) > size THEN Failed ELSE [ok |-> TRUE, value |-> TwosComplement(s)]
<1>1. CASE Len(s) > size
  BY <1>1, Zenon DEF UnmarshalInt
<1>2. CASE ~(Len(s) > size)
  <2> DEFINE k == SignsSkipped(s)
             rest == SubSeq(s, k, Len(s))
             sign == IF rest[1] > 127 THEN -1 ELSE 0
  <2>1. Len(s) \in 1..4 /\ s # <<>> /\ \A n \in 1..Len(s) : n \in 1..size
    <3>1. Len(s) \in Nat /\ Len(<<>>) = 0
      BY OctetsAre, SMT
    <3>2. s # <<>>
      BY <3>1, SMT
    <3> DEFINE l == Len(s)
    <3>3. l \in Nat /\ l >= 1 /\ ~(l > size)
      BY <1>2, <3>1, Zenon
    <3> HIDE DEF l
    <3>4. l \in 1..4 /\ \A n \in 1..l : n \in 1..size
      BY <3>3, SMT
    <3> QED
      BY <3>2, <3>4, Zenon DEF l
  <2>2. rest \in Seq(Octet) /\ Len(rest) \in 1..Len(s) /\ ValueOf(rest) = ValueOf(s)
    BY <2>1, SkipsRepeats, SkippedKeeps, Zenon
  <2>3. UnmarshalInt(size, s) = [ok |-> TRUE, value |-> Accumulate(size, sign, rest)]
    BY <1>2, <2>1, Zenon DEF UnmarshalInt
  <2> HIDE DEF rest
  <2>4. Accumulate(size, sign, rest) = ValueOf(rest)
    BY <2>1, <2>2, LoopValue, Zenon
  <2> QED
    BY <1>2, <2>1, <2>2, <2>3, <2>4, TwosComplementIs, Zenon
<1> QED
  BY <1>1, <1>2

\* The integers that callers write fit in four octets.
LEMMA IntsAre ==
    ASSUME NEW v \in Ints
    PROVE  v \in IntsOf(4)
<1>1. HalfOf(4) = 2147483648
  BY SMT DEF HalfOf, Pow256
<1>2. v \in Int32
  BY CodecAssumption, Zenon
<1>3. v \in Int /\ -2147483648 <= v /\ v < 2147483648
  BY <1>2, SMT DEF Int32
<1> QED
  BY <1>1, <1>3, SMT DEF IntsOf

\* MarshalInt, MarshalBitString and EncodeBCD against their readers, for every
\* value: integers and digits read back, bit strings do unless their length is a
\* multiple of eight, which the reader refuses; and UnmarshalInt against the two's
\* complement of any octets.
THEOREM PrimitivesAreReadBack == CodecSpec => []PrimitivesReadBack
<1>1. CodecIInv => PrimitivesReadBack
  <2>1. SUFFICES ASSUME CodecIInv PROVE PrimitivesReadBack
    OBVIOUS
  <2>2. ASSUME phase = "readInt"
        PROVE  /\ got.read.ok <=> Len(octets) <= got.size
               /\ got.read.ok => got.read.value = TwosComplement(octets)
               /\ source.kind = "int" /\ got.size = 4 => got.read.ok /\ got.read.value = source.of
    <3>1. PICK size \in {1, 2, 4} : got = [size |-> size, read |-> UnmarshalInt(size, octets)]
      BY <2>1, <2>2, Zenon DEF CodecIInv
    <3>2. got.size = size /\ got.read = UnmarshalInt(size, octets) /\ size \in 1..4
      BY <3>1, SMT
    <3>3. octets \in Seq(Octet) /\ Len(octets) >= 1
      <4>1. CASE source.kind = "none"
        <5>1. octets \in Seq(Octet) /\ octets # <<>>
          BY <2>1, <2>2, <4>1, NoKind, Zenon DEF CodecIInv, OctetsAreOf
        <5> QED
          BY <5>1, SMT
      <4>2. CASE source.kind = "int"
        <5>1. source.of \in Ints /\ octets = MarshalInt(source.of)
          BY <2>1, <2>2, <4>2, NoKind, Zenon DEF CodecIInv, OctetsAreOf
        <5>2. octets \in Seq(Octet) /\ Len(octets) \in 1..4
          BY <5>1, IntsAre, Written, Zenon DEF Shortest
        <5> QED
          BY <5>2, SMT
      <4> QED
        BY <2>1, <2>2, <4>1, <4>2, Zenon DEF CodecIInv
    <3>4. got.read = IF Len(octets) > size THEN Failed
                     ELSE [ok |-> TRUE, value |-> TwosComplement(octets)]
      BY <3>2, <3>3, ForeignIntegers, Zenon
    <3>5. ~Failed.ok /\ (Len(octets) > size <=> ~(Len(octets) <= size))
      BY <3>2, <3>3, SMT DEF Failed
    <3>6. /\ got.read.ok <=> Len(octets) <= size
          /\ got.read.ok => got.read.value = TwosComplement(octets)
      BY <3>4, <3>5, SMT
    <3>7. ASSUME source.kind = "int", size = 4
          PROVE  got.read.ok /\ got.read.value = source.of
      <4>1. source.of \in Ints /\ octets = MarshalInt(source.of)
        BY <2>1, <2>2, <3>7, NoKind, Zenon DEF CodecIInv, OctetsAreOf
      <4>2. 4 \in 1..IntWidth /\ IntWidth = 4
        BY SMT DEF IntWidth
      <4>3. got.read = [ok |-> TRUE, value |-> source.of]
        BY <3>2, <3>7, <4>1, <4>2, IntsAre, IntegersReadBack, Zenon
      <4> QED
        BY <4>3, SMT
    <3> QED
      BY <3>2, <3>6, <3>7, Zenon
  <2>3. ASSUME phase = "readValue", source.kind = "bits"
        PROVE  IF Len(source.of) % 8 = 0 THEN ~got.ok ELSE got.ok /\ got.value = source.of
    <3>1. got = UnmarshalBitString(octets) /\ source.of \in Bits /\ octets = MarshalBitString(source.of)
      BY <2>1, <2>3, NoKind, Zenon DEF CodecIInv, OctetsAreOf
    <3>2. source.of \in Seq({0, 1})
      BY <3>1, CodecAssumption, Zenon
    <3>3. got = IF Len(source.of) % 8 = 0 THEN Failed ELSE [ok |-> TRUE, value |-> source.of]
      BY <3>1, <3>2, BitsReadBack, Zenon
    <3> QED
      BY <3>3, SMT DEF Failed
  <2>4. ASSUME phase = "readValue", source.kind = "digits"
        PROVE  got.value = source.of
    <3>1. got = [ok |-> TRUE, value |-> DecodeBCD(octets)] /\ source.of \in Digits
          /\ octets = EncodeBCD(source.of)
      BY <2>1, <2>4, NoKind, Zenon DEF CodecIInv, OctetsAreOf
    <3>2. source.of \in Seq(0..14)
      BY <3>1, CodecAssumption, Zenon
    <3>3. got.value = DecodeBCD(octets)
      BY <3>1, SMT
    <3> QED
      BY <3>1, <3>2, <3>3, DigitsReadBack, Zenon
  <2> QED
    BY <2>2, <2>3, <2>4, Zenon DEF PrimitivesReadBack
<1> QED
  BY <1>1, CodecInvariant, PTL

-----------------------------------------------------------------------------
(* The theorem on the segments of a package.                               *)

\* The tags of a package and of its children.
LEMMA CtxIs ==
    /\ Ctx(0) = <<160>> /\ Ctx(1) = <<161>> /\ Ctx(2) = <<162>> /\ Ctx(3) = <<163>>
    /\ Ctx(35) = <<191, 35>> /\ Ctx(54) = <<191, 54>>
<1>1. ASSUME NEW n \in 0..30 PROVE Ctx(n) = <<160 + n>>
  <2>1. n < 31
    BY SMT
  <2>2. Ctx(n) = <<(2 * 64 + 1 * 32) + n>>
    BY <2>1, Zenon DEF Ctx, NewTag, ContextSpecific, Constructed
  <2> QED
    BY <2>2, SMT
<1>2. ASSUME NEW n \in 31..127 PROVE Ctx(n) = <<191, n>>
  <2>1. n \in TagNumbers /\ n < 128 /\ ~(n < 31) /\ n \in Nat
    BY SMT DEF TagNumbers, MaxTagNumber
  <2>2. GroupsOf(n) = 1 /\ ~(1 > 1)
    BY <2>1, Groups, SMT
  <2> DEFINE low == [k \in 1..1 |-> ((n \div Weight[k]) % 128) + 0]
  <2>3. Ctx(n) = <<(2 * 64 + 1 * 32) + 31>> \o low
    BY <2>1, <2>2, SMT DEF Ctx, NewTag, ContextSpecific, Constructed
  <2>4. low = <<n>>
    <3>1. ASSUME NEW k \in 1..1
          PROVE  ((n \div Weight[k]) % 128) + 0 = n
      BY <2>1, SMT DEF Weight
    <3>2. low = [k \in 1..1 |-> n]
      BY Zenon, <3>1
    <3> QED
      BY SMT, <3>2
  <2> HIDE DEF low
  <2>5. Ctx(n) = <<191>> \o <<n>>
    BY <2>3, <2>4, SMT
  <2>6. <<191>> \o <<n>> = <<191, n>>
    <3> DEFINE a == <<191>> \o <<n>>
               b == <<191, n>>
    <3>1. a \in Seq(Nat) /\ Len(a) = 2 /\ a[1] = 191 /\ a[2] = n
      BY <2>1, SMT
    <3>2. b \in Seq(Nat) /\ Len(b) = 2 /\ b[1] = 191 /\ b[2] = n
      BY <2>1, SMT
    <3> HIDE DEF a, b
    <3>3. a[1] = b[1] /\ a[2] = b[2]
      BY <3>1, <3>2, SMT
    <3>4. a = b
      BY <3>1, <3>2, <3>3, PairsEqual, Zenon
    <3> QED
      BY <3>4, Zenon DEF a, b
  <2> QED
    BY <2>5, <2>6
<1> QED
  BY <1>1, <1>2, SMT

\* No two of these tags are the same, and all are constructed.
LEMMA CtxDiffer ==
    /\ \A m, n \in {0, 1, 2, 3, 35} : Ctx(m) = Ctx(n) => m = n
    /\ \A n \in {0, 1, 2, 3, 35, 54} : Ctx(n) # <<>> /\ FormOf(Ctx(n)) = Constructed
BY CtxIs, SMT DEF FormOf, Constructed

\* The first child of a tag.
LEMMA FirstOnly ==
    ASSUME NEW t, NEW tag, NEW i \in DOMAIN t.children, t.children[i].tag = tag,
           \A j \in DOMAIN t.children : t.children[j].tag = tag => j = i, i \in Nat
    PROVE  First(t, tag) = t.children[i]
<1> DEFINE hits == {j \in DOMAIN t.children : t.children[j].tag = tag}
<1>1. hits = {i}
  BY Zenon
<1>2. First(t, tag) = IF hits = {} THEN Nil
                      ELSE t.children[CHOOSE k \in hits : \A j \in hits : k <= j]
  BY Zenon DEF First
<1> HIDE DEF hits
<1>3. (CHOOSE k \in hits : \A j \in hits : k <= j) = i
  <2>1. i <= i
    BY SMT
  <2> QED
    BY <1>1, <2>1, Zenon
<1> QED
  BY <1>1, <1>2, <1>3, Zenon

\* No child has the tag.
LEMMA FirstNone ==
    ASSUME NEW t, NEW tag, \A j \in DOMAIN t.children : t.children[j].tag # tag
    PROVE  First(t, tag) = Nil
BY Zenon DEF First

\* A child that First finds has the tag.
LEMMA FirstSome ==
    ASSUME NEW t, t.children \in Seq(TLV), NEW tag, First(t, tag) # Nil
    PROVE  \E i \in DOMAIN t.children : First(t, tag) = t.children[i] /\ t.children[i].tag = tag
<1> DEFINE hits == {j \in DOMAIN t.children : t.children[j].tag = tag}
           c == CHOOSE k \in hits : \A j \in hits : k <= j
<1>1. First(t, tag) = IF hits = {} THEN Nil ELSE t.children[c]
  BY Zenon DEF First
<1>2. hits # {}
  BY <1>1, Zenon
<1>3. hits \subseteq Nat
  <2>1. DOMAIN t.children \subseteq Nat
    BY SMT
  <2> QED
    BY <2>1, Zenon
<1>4. \E k \in hits : \A j \in hits : k <= j
  <2> HIDE DEF hits
  <2> QED
    BY <1>2, <1>3, LeastOne, Zenon
<1>5. c \in hits
  <2> HIDE DEF hits
  <2> QED
    BY <1>4, Zenon
<1> HIDE DEF c
<1> QED
  BY <1>1, <1>2, <1>5, Zenon

-----------------------------------------------------------------------------
(* What is written tells the children that were written.                   *)

\* Those that are not nil.
ReadableTLV == {t \in Readable : t # Nil}

\* A copy has the tag of its TLV.
LEMMA CloneTag ==
    ASSUME NEW t \in ReadableTLV
    PROVE  Clone[t].tag = t.tag /\ Clone[t] # Nil
<1>1. t \in Readable /\ t # Nil /\ t \in TLV
  BY Zenon DEF ReadableTLV, Readable, Fit
<1>2. \/ Clone[t] = Tlv(t.tag, t.value, <<>>)
      \/ Clone[t] = Tlv(t.tag, <<>>, Present(Each(Clone, t.children)))
  BY <1>1, CloneIs, Zenon DEF CloneOf
<1>3. Clone[t].tag = t.tag
  BY <1>2, SMT DEF Tlv
<1> QED
  BY <1>1, <1>3, CloneNil, Zenon

\* Two lists that write the same octets have the same tags in the same order:
\* reading tells them.
LEMMA ListsTold ==
    ASSUME NEW ts \in Seq(ReadableTLV), NEW us \in Seq(ReadableTLV),
           FlattenSeq(Each(WriteTo, ts)) = FlattenSeq(Each(WriteTo, us))
    PROVE  Len(ts) = Len(us) /\ \A i \in 1..Len(ts) : ts[i].tag = us[i].tag
<1> DEFINE K == ReadableTLV
           A == {Clone[t] : t \in K}
           s == FlattenSeq(Each(WriteTo, ts))
<1>1. K \subseteq Readable /\ K \subseteq TLV /\ K \subseteq Fit
  BY Zenon DEF ReadableTLV, Readable, Fit
<1>2. \A c \in K : WriteTo[c] \in Seq(Octet) /\ Len(WriteTo[c]) = TlvLen[c] /\ ReadAnywhere(c)
  BY <1>1, WrittenOctets, WrittenIsRead, Zenon
<1>3. Nil \notin A /\ \A c \in K : Clone[c] \in A
  BY CloneTag, Zenon
<1> HIDE DEF K, A
<1>4. ts \in Seq(K) /\ us \in Seq(K)
  BY Zenon DEF K
<1>5. /\ s \in Seq(Octet) /\ Len(s) = Sum(Each(TlvLen, ts))
      /\ Len(s) = Sum(Each(TlvLen, us)) /\ s = FlattenSeq(Each(WriteTo, us))
  BY <1>1, <1>2, <1>4, ListOctets, Zenon
<1> HIDE DEF s
<1>6. 1 \in Nat \ {0} /\ At(s, 1, s)
  BY <1>5, AtWhole, SMT
<1>7. ListAnywhere(ts) /\ ListAnywhere(us)
  BY <1>1, <1>2, <1>4, ListRead, Zenon
<1>8. ListAt(s, 1, ts) /\ ListAt(s, 1, us)
  BY <1>5, <1>6, <1>7, Zenon DEF ListAnywhere, s
<1> DEFINE r == ReadChildren(s)[<<1, 1 + Len(s)>>]
           cs == Each(Clone, ts)
           ds == Each(Clone, us)
<1>9. /\ r = [ok |-> TRUE, children |-> Present(cs), next |-> 1 + Len(s)]
      /\ r = [ok |-> TRUE, children |-> Present(ds), next |-> 1 + Len(s)]
  BY <1>5, <1>8, Zenon DEF ListAt
<1> HIDE DEF r
<1>10. r.children = Present(cs) /\ r.children = Present(ds)
  <2> HIDE DEF cs, ds
  <2> QED
    BY <1>9, SMT
<1>11. cs \in Seq(A) /\ ds \in Seq(A)
  BY <1>3, <1>4, EachIs, Zenon
<1>12. /\ Len(cs) = Len(ts) /\ Len(ds) = Len(us)
       /\ \A i \in 1..Len(ts) : cs[i] = Clone[ts[i]]
       /\ \A i \in 1..Len(us) : ds[i] = Clone[us[i]]
  BY <1>4, EachAt, SMT
<1> HIDE DEF cs, ds
<1>13. cs = ds
  BY <1>3, <1>10, <1>11, PresentAll, Zenon
<1>14. Len(ts) = Len(us)
  BY <1>12, <1>13, Zenon
<1>15. ASSUME NEW i \in 1..Len(ts) PROVE ts[i].tag = us[i].tag
  <2>1. ts[i] \in K /\ us[i] \in K
    BY <1>4, <1>14, SMT
  <2>2. Clone[ts[i]] = Clone[us[i]]
    BY <1>12, <1>13, <1>14, Zenon
  <2> QED
    BY <2>1, <2>2, CloneTag, Zenon DEF K
<1> QED
  BY <1>14, <1>15, Zenon

\* What is assumed of bound profile packages.
LEMMA PackagesAre ==
    ASSUME NEW p \in Packages
    PROVE  /\ p \in ReadableTLV
           /\ \A u \in Nodes[p] : \A i \in DOMAIN u.children : u.children[i] # Nil
<1>1. /\ p \in TLV /\ p # Nil /\ TlvLen[p] <= MaxLength /\ Writable(p)
      /\ \A u \in Nodes[p] : FromOctets(u.tag) /\ \A i \in DOMAIN u.children : u.children[i] # Nil
  BY CodecAssumption, Zenon
<1>2. \A u \in Nodes[p] : u.tag \in Seq(Octet)
  BY <1>1, NodesAreTLVs, PartsOfTLV, Zenon
<1>3. \A u \in Nodes[p] : TagShape(u.tag)
  BY <1>1, <1>2, ShapeOfTags, Zenon
<1> QED
  BY <1>1, <1>3, Zenon DEF ReadableTLV, Readable, Fit

\* A constructed TLV without nil children is its header and its children.
Whole(t) == t \in ReadableTLV /\ \A i \in DOMAIN t.children : t.children[i] # Nil

\* What a constructed TLV writes: its header and its children.
LEMMA HeaderAndChildren ==
    ASSUME NEW t, Whole(t), FormOf(t.tag) = Constructed
    PROVE  /\ MarshalHeader(t) \in Seq(Octet) /\ t.children \in Seq(ReadableTLV)
           /\ Each(WriteTo, t.children) \in Seq(Seq(Octet))
           /\ FlattenSeq(Each(WriteTo, t.children)) \in Seq(Octet)
           /\ WriteTo[t] = MarshalHeader(t) \o FlattenSeq(Each(WriteTo, t.children))
           /\ WriteTo[t] \in Seq(Octet)
<1> DEFINE n == Sum(Each(TlvLen, t.children))
           K == ReadableTLV
<1>1. t \in Readable /\ t # Nil /\ t \in TLV /\ t \in Fit
  BY Zenon DEF Whole, ReadableTLV, Readable, Fit
<1>2. t.tag \in Seq(Octet) /\ t.children \in Seq(Readable)
      /\ \A i \in DOMAIN t.children : t.children[i] \in Readable
  BY <1>1, ReadableParts, Zenon
<1>3. t.children \in Seq(K)
  <2>1. \A i \in DOMAIN t.children : t.children[i] \in K
    BY <1>2, Zenon DEF Whole, ReadableTLV
  <2> HIDE DEF K
  <2> QED
    BY <1>2, <2>1, SMT
<1>4. K \subseteq TLV /\ \A c \in K : WriteTo[c] \in Seq(Octet) /\ Len(WriteTo[c]) = TlvLen[c]
  BY WrittenOctets, Zenon DEF ReadableTLV, Readable, Fit
<1> HIDE DEF K
<1>5. Each(WriteTo, t.children) \in Seq(Seq(Octet))
      /\ FlattenSeq(Each(WriteTo, t.children)) \in Seq(Octet)
  BY <1>3, <1>4, ListOctets, Zenon
<1>6. ContentLength(t, TlvLen) = n
  BY FormsDiffer, Zenon DEF ContentLength
<1>7. n \in Nat /\ n <= MaxLength
  <2>1. /\ n \in Nat /\ TlvLen[t] \in Nat /\ TlvLen[t] > n /\ TlvLen[t] <= MaxLength /\ MaxLength \in Nat
    <3>1. n \in Nat /\ TlvLen[t] \in Nat /\ TlvLen[t] > n
      BY <1>1, <1>6, LengthParts, TlvLenNat, Zenon
    <3>2. MaxLength \in Nat
      BY SMT DEF MaxLength
    <3> QED
      BY <1>1, <3>1, <3>2, Zenon DEF Fit
  <2> HIDE DEF n
  <2> QED
    BY <2>1, SMT
<1>8. MarshalHeader(t) = t.tag \o MarshalLength(n) /\ MarshalLength(n) \in Seq(Octet)
  BY <1>7, HeaderOctets, Zenon DEF MarshalHeader
<1> HIDE DEF n
<1>9. MarshalHeader(t) \in Seq(Octet)
  BY <1>2, <1>8, ConcatProperties, Zenon
<1>10. Contents(t) = FlattenSeq(Each(WriteTo, t.children))
  BY FormsDiffer, Zenon DEF Contents
<1>11. WriteTo[t] = MarshalHeader(t) \o FlattenSeq(Each(WriteTo, t.children))
  BY <1>1, <1>6, <1>8, <1>10, WriteToParts, Zenon
<1> QED
  BY <1>1, <1>3, <1>5, <1>9, <1>11, WrittenOctets, Zenon DEF K

\* Concatenation, with a name that the provers do not look into.
Cat(x, y) == x \o y

\* Concatenation keeps the type.
LEMMA CatClosed ==
    ASSUME NEW A
    PROVE  \A x, y \in Seq(A) : Cat(x, y) \in Seq(A)
BY SMT DEF Cat

\* Concatenation is associative.
LEMMA CatRegroups ==
    ASSUME NEW A
    PROVE  \A x, y, z \in Seq(A) : Cat(Cat(x, y), z) = Cat(x, Cat(y, z))
BY ConcatAssociative, SMT DEF Cat

\* A concatenation does not depend on where it is cut.
SameCut(m, a, b, h, f, d, g, k) ==
    (((((m \o a) \o (b \o h)) \o f) \o d) \o g) \o k
      = m \o ((a \o (b \o (h \o f))) \o (d \o (g \o k)))

\* The segments of a package, cut as its octets are.
LEMMA Regrouped ==
    ASSUME NEW A, NEW m \in Seq(A), NEW a \in Seq(A), NEW b \in Seq(A), NEW h \in Seq(A),
           NEW f \in Seq(A), NEW d \in Seq(A), NEW g \in Seq(A), NEW k \in Seq(A)
    PROVE  SameCut(m, a, b, h, f, d, g, k)
<1> DEFINE S == Seq(A)
           ma == Cat(m, a)
           bh == Cat(b, h)
           ab == Cat(a, bh)
           hf == Cat(h, f)
           gk == Cat(g, k)
           dgk == Cat(d, gk)
           r == Cat(ma, bh)
           bhf == Cat(b, hf)
           abhf == Cat(a, bhf)
<1>1. /\ \A x, y \in S : Cat(x, y) \in S
      /\ \A x, y, z \in S : Cat(Cat(x, y), z) = Cat(x, Cat(y, z))
  <2>1. \A x, y \in S : Cat(x, y) \in S
    BY CatClosed
  <2>2. \A x, y, z \in S : Cat(Cat(x, y), z) = Cat(x, Cat(y, z))
    BY CatRegroups
  <2> QED
    BY <2>1, <2>2
<1>2. m \in S /\ a \in S /\ b \in S /\ h \in S /\ f \in S /\ d \in S /\ g \in S /\ k \in S
  OBVIOUS
<1> HIDE DEF S
<1>3. ma \in S /\ bh \in S /\ ab \in S /\ hf \in S /\ gk \in S /\ dgk \in S /\ r \in S
      /\ bhf \in S /\ abhf \in S
  BY <1>1, <1>2, Zenon
<1>4. r = Cat(m, ab)
  BY <1>1, <1>2, <1>3, SMT
<1>5. Cat(bh, f) = bhf
  BY <1>1, <1>2, SMT
<1>6. Cat(ab, f) = Cat(a, Cat(bh, f))
  <2> HIDE DEF bh
  <2> QED
    BY <1>1, <1>2, <1>3, SMT
<1>7. Cat(ab, f) = abhf
  BY <1>5, <1>6, SMT
<1>8. Cat(r, f) = Cat(m, abhf)
  <2> HIDE DEF ab, abhf, r
  <2> QED
    BY <1>1, <1>2, <1>3, <1>4, <1>7, SMT
<1> DEFINE q == Cat(m, abhf)
<1>9. q \in S
  <2> HIDE DEF abhf
  <2> QED
    BY <1>1, <1>2, <1>3, SMT
<1> HIDE DEF q, r
<1>10. Cat(Cat(q, d), g) = Cat(q, Cat(d, g)) /\ Cat(d, g) \in S
  BY <1>1, <1>2, <1>9, SMT
<1>11. Cat(Cat(Cat(q, d), g), k) = Cat(q, Cat(Cat(d, g), k))
  <2> DEFINE dg == Cat(d, g)
  <2> HIDE DEF dg
  <2>1. Cat(Cat(Cat(q, d), g), k) = Cat(Cat(q, dg), k) /\ dg \in S
    BY <1>10, SMT DEF dg
  <2> QED
    BY <1>1, <1>2, <1>9, <2>1, SMT DEF dg
<1>12. Cat(Cat(d, g), k) = dgk
  BY <1>1, <1>2, SMT
<1>13. Cat(Cat(Cat(q, d), g), k) = Cat(m, Cat(abhf, dgk))
  <2>1. Cat(Cat(Cat(q, d), g), k) = Cat(q, dgk)
    BY <1>11, <1>12, SMT
  <2> HIDE DEF abhf, dgk
  <2> QED
    BY <1>1, <1>2, <1>3, <2>1, SMT DEF q
<1>14. Cat(Cat(Cat(Cat(r, f), d), g), k) = Cat(m, Cat(abhf, dgk))
  BY <1>8, <1>13, SMT DEF q
<1> QED
  BY <1>14, Zenon DEF SameCut, Cat, r

\* The five children that SegmentedBoundProfilePackage knows; the fourth may be
\* missing.
Optional(t) == IF t = Nil THEN <<>> ELSE <<t>>

Five(p) ==
    <<First(p, Ctx(35)), First(p, Ctx(0)), First(p, Ctx(1))>>
      \o (Optional(First(p, Ctx(2))) \o <<First(p, Ctx(3))>>)

\* What Each and FlattenSeq make of an optional TLV.
LEMMA OptionalIs ==
    ASSUME NEW t, t = Nil \/ t \in ReadableTLV
    PROVE  /\ Optional(t) \in Seq(ReadableTLV)
           /\ Each(WriteTo, Optional(t)) = IF t = Nil THEN <<>> ELSE <<WriteTo[t]>>
<1>1. CASE t = Nil
  <2>1. Optional(t) = <<>>
    BY <1>1, Zenon DEF Optional
  <2>2. <<>> \in Seq(ReadableTLV)
    BY SMT
  <2>3. Each(WriteTo, <<>>) = <<>>
    BY EachEmpty, SMT
  <2> QED
    BY <1>1, <2>1, <2>2, <2>3, Zenon
<1>2. CASE t # Nil
  <2>1. Optional(t) = <<t>> /\ t \in ReadableTLV
    BY <1>2, Zenon DEF Optional
  <2>2. <<t>> \in Seq(ReadableTLV)
    BY <2>1, SMT
  <2>3. Each(WriteTo, <<t>>) = <<WriteTo[t]>>
    BY EachOne, SMT
  <2> QED
    BY <1>2, <2>1, <2>2, <2>3, Zenon
<1> QED
  BY <1>1, <1>2

\* A package and its children have no nil children.
LEMMA WholePackages ==
    ASSUME NEW p \in Packages
    PROVE  /\ Whole(p) /\ p \in TLV /\ p # Nil /\ p.children \in Seq(TLV)
           /\ \A i \in DOMAIN p.children : Whole(p.children[i])
<1>1. p \in Readable /\ p # Nil /\ p \in TLV
      /\ \A u \in Nodes[p] : \A i \in DOMAIN u.children : u.children[i] # Nil
  BY PackagesAre, Zenon DEF ReadableTLV, Readable, Fit
<1>2. p \in Nodes[p] /\ \A i \in DOMAIN p.children : Nodes[p.children[i]] \subseteq Nodes[p]
  BY <1>1, NodesAre, Zenon
<1>3. Whole(p)
  BY <1>1, <1>2, Zenon DEF Whole, ReadableTLV
<1>4. p.children \in Seq(Readable) /\ \A i \in DOMAIN p.children : p.children[i] \in Readable
  <2>1. CASE FormOf(p.tag) = Primitive
    <3>1. p.children = <<>>
      BY <1>1, <2>1, ReadableParts, Zenon
    <3>2. <<>> \in Seq(Readable) /\ DOMAIN <<>> = {}
      BY SMT
    <3> QED
      BY <3>1, <3>2, Zenon
  <2>2. CASE FormOf(p.tag) = Constructed
    BY <1>1, <2>2, ReadableParts, Zenon
  <2> QED
    BY <1>1, <2>1, <2>2, ReadableParts, Zenon
<1>5. p.children \in Seq(TLV)
  <2>1. Readable \subseteq TLV
    BY Zenon DEF Readable, Fit
  <2> QED
    BY <1>4, <2>1, SMT
<1>6. ASSUME NEW i \in DOMAIN p.children PROVE Whole(p.children[i])
  <2> DEFINE c == p.children[i]
  <2>1. c \in Readable /\ c # Nil /\ c \in TLV
    BY <1>1, <1>2, <1>4, Zenon DEF Readable, Fit
  <2>2. c \in Nodes[c] /\ Nodes[c] \subseteq Nodes[p]
    BY <1>2, <2>1, NodesAre, Zenon
  <2>3. \A j \in DOMAIN c.children : c.children[j] # Nil
    BY <1>1, <2>2, Zenon
  <2> QED
    BY <2>1, <2>3, Zenon DEF Whole, ReadableTLV
<1> QED
  BY <1>1, <1>3, <1>5, <1>6, Zenon

\* The known children of a package that are there.
LEMMA FirstWhole ==
    ASSUME NEW p \in Packages, NEW tag, First(p, tag) # Nil
    PROVE  Whole(First(p, tag)) /\ First(p, tag).tag = tag /\ First(p, tag) \in ReadableTLV
<1>1. PICK i \in DOMAIN p.children : First(p, tag) = p.children[i] /\ p.children[i].tag = tag
  BY WholePackages, FirstSome, Zenon
<1> QED
  BY <1>1, WholePackages, Zenon DEF Whole

\* A tuple of one.
LEMMA OneOf ==
    ASSUME NEW B, NEW x \in B
    PROVE  <<x>> \in Seq(B)
BY SMT

\* Tuples of one and of three.
LEMMA ThreeOf ==
    ASSUME NEW B, NEW x \in B, NEW y \in B, NEW z \in B
    PROVE  /\ <<x>> \in Seq(B) /\ <<y>> \in Seq(B) /\ <<z>> \in Seq(B)
           /\ <<y>> \o <<z>> \in Seq(B) /\ <<x, y, z>> \in Seq(B)
           /\ <<x, y, z>> = <<x>> \o (<<y>> \o <<z>>)
<1> DEFINE yz == <<y>> \o <<z>>
           l == <<x>> \o yz
           r == <<x, y, z>>
<1>1. /\ <<x>> \in Seq(B) /\ <<y>> \in Seq(B) /\ <<z>> \in Seq(B)
      /\ r \in Seq(B) /\ Len(r) = 3 /\ r[1] = x /\ r[2] = y /\ r[3] = z
  BY SMT
<1>2. yz \in Seq(B) /\ Len(yz) = 2 /\ yz[1] = y /\ yz[2] = z
  BY SMT
<1> HIDE DEF yz, r
<1>3. l \in Seq(B) /\ Len(l) = 3 /\ l[1] = x /\ l[2] = y /\ l[3] = z
  <2> DEFINE o == <<x>>
  <2>1. o \in Seq(B) /\ Len(o) = 1 /\ o[1] = x
    BY SMT
  <2> HIDE DEF o
  <2>2. /\ o \o yz \in Seq(B) /\ Len(o \o yz) = Len(o) + Len(yz)
        /\ \A i \in 1..(Len(o) + Len(yz)) :
              (o \o yz)[i] = IF i <= Len(o) THEN o[i] ELSE yz[i - Len(o)]
    BY <1>2, <2>1, ConcatProperties
  <2> DEFINE oy == o \o yz
  <2>3. /\ oy \in Seq(B) /\ Len(oy) = 3
        /\ \A i \in 1..3 : oy[i] = IF i <= 1 THEN o[i] ELSE yz[i - 1]
    BY <1>2, <2>1, <2>2, SMT
  <2> HIDE DEF oy
  <2>4. oy[1] = o[1] /\ oy[2] = yz[1] /\ oy[3] = yz[2]
    BY <2>3, SMT
  <2> QED
    BY <1>2, <2>1, <2>3, <2>4, Zenon DEF oy, o
<1>4. \A i \in 1..3 : i = 1 \/ i = 2 \/ i = 3
  BY SMT
<1> HIDE DEF l
<1>5. Len(l) = Len(r) /\ \A i \in 1..Len(l) : l[i] = r[i]
  BY <1>1, <1>3, <1>4, Zenon
<1>6. l = r
  BY <1>1, <1>3, <1>5, SeqEqual, Zenon
<1> QED
  BY <1>1, <1>2, <1>6, Zenon DEF l, r, yz

Joined(x, y, z) == FlattenSeq(<<x, y, z>>) = x \o (y \o z)

\* What three sequences flatten to.
LEMMA ThreeFlat ==
    ASSUME NEW A, NEW x \in Seq(A), NEW y \in Seq(A), NEW z \in Seq(A)
    PROVE  Joined(x, y, z) /\ <<x, y, z>> \in Seq(Seq(A))
<1>1. /\ <<z>> \in Seq(Seq(A)) /\ <<y>> \o <<z>> \in Seq(Seq(A)) /\ <<x, y, z>> \in Seq(Seq(A))
      /\ <<x, y, z>> = <<x>> \o (<<y>> \o <<z>>)
  BY ThreeOf
<1>2. FlattenSeq(<<x>> \o (<<y>> \o <<z>>)) = x \o FlattenSeq(<<y>> \o <<z>>)
  BY <1>1, FlattenFront, Zenon
<1>3. FlattenSeq(<<y>> \o <<z>>) = y \o FlattenSeq(<<z>>)
  BY <1>1, FlattenFront, Zenon
<1>4. FlattenSeq(<<z>>) = z
  BY FlattenOne, Zenon
<1> QED
  BY <1>1, <1>2, <1>3, <1>4, Zenon DEF Joined

\* The octets of the segments: the header of the package and its known children.
LEMMA SegmentsFlatten ==
    ASSUME NEW p \in Packages, ValidBoundProfilePackage(p)
    PROVE  /\ Five(p) \in Seq(ReadableTLV) /\ MarshalHeader(p) \in Seq(Octet)
           /\ FlattenSeq(Each(WriteTo, Five(p))) \in Seq(Octet)
           /\ FlattenSeq(SegmentedBoundProfilePackage(p))
                = MarshalHeader(p) \o FlattenSeq(Each(WriteTo, Five(p)))
<1> DEFINE K == ReadableTLV
           O == Octet
           x35 == First(p, Ctx(35))
           x0 == First(p, Ctx(0))
           x1 == First(p, Ctx(1))
           x2 == First(p, Ctx(2))
           x3 == First(p, Ctx(3))
           m == MarshalHeader(p)
           a == WriteTo[x35]
           b == WriteTo[x0]
           h == MarshalHeader(x1)
           E1 == Each(WriteTo, x1.children)
           f == FlattenSeq(E1)
           S2 == Each(WriteTo, Optional(x2))
           d == FlattenSeq(S2)
           g == MarshalHeader(x3)
           E3 == Each(WriteTo, x3.children)
           k == FlattenSeq(E3)
<1>1. p.tag = Ctx(54) /\ x35 # Nil /\ x0 # Nil /\ x1 # Nil /\ x3 # Nil
  BY Zenon DEF ValidBoundProfilePackage
<1>2. /\ x35 \in K /\ x0 \in K /\ x1 \in K /\ x3 \in K
      /\ Whole(x1) /\ Whole(x3) /\ Whole(p) /\ x1.tag = Ctx(1) /\ x3.tag = Ctx(3)
  BY <1>1, FirstWhole, WholePackages, Zenon
<1>3. FormOf(p.tag) = Constructed /\ FormOf(x1.tag) = Constructed /\ FormOf(x3.tag) = Constructed
  <2>1. \A n \in {0, 1, 2, 3, 35, 54} : FormOf(Ctx(n)) = Constructed
    BY CtxDiffer
  <2>2. FormOf(Ctx(54)) = Constructed /\ FormOf(Ctx(1)) = Constructed /\ FormOf(Ctx(3)) = Constructed
    BY <2>1, SMT
  <2> QED
    BY <1>1, <1>2, <2>2, Zenon
<1>4. /\ m \in Seq(O)
      /\ h \in Seq(O) /\ E1 \in Seq(Seq(O)) /\ f \in Seq(O) /\ WriteTo[x1] = h \o f
      /\ g \in Seq(O) /\ E3 \in Seq(Seq(O)) /\ k \in Seq(O) /\ WriteTo[x3] = g \o k
  BY <1>2, <1>3, HeaderAndChildren, Zenon
<1>5. \A c \in K : WriteTo[c] \in Seq(O)
  BY WrittenOctets, Zenon DEF ReadableTLV, Readable, Fit
<1>6. Optional(x2) \in Seq(K) /\ S2 = IF x2 = Nil THEN <<>> ELSE <<WriteTo[x2]>>
  BY FirstWhole, OptionalIs, Zenon
<1>7. S2 \in Seq(Seq(O)) /\ d \in Seq(O)
  <2>1. K \subseteq TLV /\ \A c \in K : WriteTo[c] \in Seq(Octet) /\ Len(WriteTo[c]) = TlvLen[c]
    BY WrittenOctets, Zenon DEF ReadableTLV, Readable, Fit
  <2> HIDE DEF K
  <2> QED
    BY <1>6, <2>1, ListOctets, Zenon
<1>8. a \in Seq(O) /\ b \in Seq(O)
  BY <1>2, <1>5, Zenon
<1> DEFINE T3 == <<m \o a, b, h>>
           s1 == T3 \o E1
           s2 == s1 \o S2
           s3 == s2 \o <<g>>
           s4 == s3 \o E3
<1>9. SegmentedBoundProfilePackage(p) = s4
  BY <1>6, Zenon DEF SegmentedBoundProfilePackage
<1> HIDE DEF K, O, x35, x0, x1, x2, x3, m, a, b, h, E1, f, S2, d, g, E3, k
<1>10. m \o a \in Seq(O)
  BY <1>4, <1>8, ConcatProperties, Zenon
<1> DEFINE ma == m \o a
<1>11. T3 \in Seq(Seq(O)) /\ FlattenSeq(T3) = ma \o (b \o h)
  <2> HIDE DEF ma
  <2>1. Joined(ma, b, h) /\ <<ma, b, h>> \in Seq(Seq(O))
    BY <1>4, <1>8, <1>10, ThreeFlat, Zenon DEF ma
  <2> QED
    BY <2>1, Zenon DEF Joined, ma
<1> HIDE DEF T3
<1>12. s1 \in Seq(Seq(O)) /\ FlattenSeq(s1) = FlattenSeq(T3) \o f
  BY <1>4, <1>11, FlattenConcat, ConcatProperties, Zenon DEF f
<1> HIDE DEF s1
<1>13. s2 \in Seq(Seq(O)) /\ FlattenSeq(s2) = FlattenSeq(s1) \o d
  BY <1>7, <1>12, FlattenConcat, ConcatProperties, Zenon DEF d
<1> HIDE DEF s2
<1>14. s3 \in Seq(Seq(O)) /\ FlattenSeq(s3) = FlattenSeq(s2) \o g
  <2>1. <<g>> \in Seq(Seq(O)) /\ FlattenSeq(<<g>>) = g
    <3>1. <<g>> \in Seq(Seq(O))
      BY <1>4, OneOf, Zenon
    <3> QED
      BY <1>4, <3>1, FlattenOne, Zenon
  <2> QED
    BY <1>13, <2>1, FlattenConcat, ConcatProperties, Zenon
<1> HIDE DEF s3
<1>15. FlattenSeq(s4) = FlattenSeq(s3) \o k
  BY <1>4, <1>14, FlattenConcat, Zenon DEF k
<1>16. FlattenSeq(s4) = (((((m \o a) \o (b \o h)) \o f) \o d) \o g) \o k
  BY <1>11, <1>12, <1>13, <1>14, <1>15, Zenon
<1>17. FlattenSeq(s4) = m \o ((a \o (b \o (h \o f))) \o (d \o (g \o k)))
  <2>1. SameCut(m, a, b, h, f, d, g, k)
    BY <1>4, <1>7, <1>8, Regrouped, Zenon
  <2> QED
    BY <1>16, <2>1, Zenon DEF SameCut
<1> DEFINE three == <<x35, x0, x1>>
           rest == Optional(x2) \o <<x3>>
<1>18. Five(p) = three \o rest
  BY Zenon DEF Five, x35, x0, x1, x2, x3
<1>19. three \in Seq(K) /\ <<x3>> \in Seq(K)
  BY <1>2, SMT
<1>20. rest \in Seq(K)
  BY <1>6, <1>19, ConcatProperties, Zenon
<1>21. Each(WriteTo, three) = <<a, b, WriteTo[x1]>>
  BY SMT DEF Each, a, b
<1>22. Each(WriteTo, <<x3>>) = <<WriteTo[x3]>>
  BY EachOne, Zenon
<1>23. Each(WriteTo, rest) = S2 \o <<WriteTo[x3]>>
  <2>1. EachSplits(WriteTo, Optional(x2), <<x3>>)
    BY <1>6, <1>19, EachSplit, Zenon
  <2> QED
    BY <1>22, <2>1, Zenon DEF EachSplits, S2
<1>24. EachSplits(WriteTo, three, rest)
  BY <1>19, <1>20, EachSplit, Zenon
<1> HIDE DEF three, rest
<1>25. Each(WriteTo, Five(p)) = <<a, b, WriteTo[x1]>> \o (S2 \o <<WriteTo[x3]>>)
  BY <1>18, <1>21, <1>23, <1>24, Zenon DEF EachSplits
<1> DEFINE c1 == WriteTo[x1]
           c3 == WriteTo[x3]
<1>26. c1 \in Seq(O) /\ c3 \in Seq(O)
  BY <1>2, <1>5, Zenon
<1> HIDE DEF c1, c3
<1>27. <<a, b, c1>> \in Seq(Seq(O)) /\ FlattenSeq(<<a, b, c1>>) = a \o (b \o c1)
  <2>1. <<a, b, c1>> \in Seq(Seq(O)) /\ Joined(a, b, c1)
    BY <1>8, <1>26, ThreeFlat, Zenon
  <2> QED
    BY <2>1, Zenon DEF Joined
<1>28. <<c3>> \in Seq(Seq(O)) /\ FlattenSeq(<<c3>>) = c3
  <2>1. <<c3>> \in Seq(Seq(O))
    BY <1>26, OneOf, Zenon
  <2> QED
    BY <1>26, <2>1, FlattenOne, Zenon
<1>29. S2 \o <<c3>> \in Seq(Seq(O)) /\ FlattenSeq(S2 \o <<c3>>) = d \o c3
  BY <1>7, <1>28, FlattenConcat, ConcatProperties, Zenon DEF d
<1> DEFINE t3 == <<a, b, c1>>
           r2 == S2 \o <<c3>>
<1>30. t3 \in Seq(Seq(O)) /\ r2 \in Seq(Seq(O))
       /\ FlattenSeq(t3) = a \o (b \o c1) /\ FlattenSeq(r2) = d \o c3
  BY <1>27, <1>29, Zenon
<1>31. Each(WriteTo, Five(p)) = t3 \o r2
  BY <1>25, Zenon DEF c1, c3
<1> HIDE DEF t3, r2
<1>32. FlattenSeq(Each(WriteTo, Five(p))) = (a \o (b \o c1)) \o (d \o c3)
  BY <1>30, <1>31, FlattenConcat, Zenon
<1>33. FlattenSeq(Each(WriteTo, Five(p))) \in Seq(O)
  <2>1. t3 \o r2 \in Seq(Seq(O))
    BY <1>30, ConcatProperties, Zenon
  <2> QED
    BY <1>31, <2>1, FlattenConcat, Zenon
<1>34. Five(p) \in Seq(K)
  BY <1>18, <1>19, <1>20, ConcatProperties, Zenon DEF three
<1>35. FlattenSeq(s4) = m \o FlattenSeq(Each(WriteTo, Five(p)))
  BY <1>4, <1>17, <1>32, Zenon DEF c1, c3
<1> QED
  BY <1>4, <1>9, <1>33, <1>34, <1>35, Zenon DEF K, O, m

\* Tuples of four and of five, put together.
LEMMA FourJoined ==
    ASSUME NEW B, NEW x \in B, NEW y \in B, NEW z \in B, NEW w \in B
    PROVE  <<x, y, z>> \o (<<>> \o <<w>>) = <<x, y, z, w>>
<1> DEFINE a == <<x, y, z>>
           o == <<w>>
           l == a \o o
           r == <<x, y, z, w>>
<1>0. <<>> \o o = o
  BY SMT
<1>1. /\ a \in Seq(B) /\ Len(a) = 3 /\ a[1] = x /\ a[2] = y /\ a[3] = z
      /\ o \in Seq(B) /\ Len(o) = 1 /\ o[1] = w
      /\ r \in Seq(B) /\ Len(r) = 4 /\ r[1] = x /\ r[2] = y /\ r[3] = z /\ r[4] = w
  BY SMT
<1> HIDE DEF a, o, r
<1>2. /\ a \o o \in Seq(B) /\ Len(a \o o) = Len(a) + Len(o)
      /\ \A i \in 1..(Len(a) + Len(o)) :
            (a \o o)[i] = IF i <= Len(a) THEN a[i] ELSE o[i - Len(a)]
  BY <1>1, ConcatProperties
<1>3. l \in Seq(B) /\ Len(l) = 4
      /\ \A i \in 1..4 : l[i] = IF i <= 3 THEN a[i] ELSE o[i - 3]
  BY <1>1, <1>2, SMT
<1> HIDE DEF l
<1>4. l[1] = x /\ l[2] = y /\ l[3] = z /\ l[4] = w
  BY <1>1, <1>3, SMT
<1>5. \A i \in 1..4 : i = 1 \/ i = 2 \/ i = 3 \/ i = 4
  BY SMT
<1>6. Len(l) = Len(r) /\ \A i \in 1..Len(l) : l[i] = r[i]
  BY <1>1, <1>3, <1>4, <1>5, Zenon
<1>7. l = r
  BY <1>1, <1>3, <1>6, SeqEqual, Zenon
<1> QED
  BY <1>0, <1>7, Zenon DEF l, r, a, o

Joins(x, y, z, v, w) == <<x, y, z>> \o (<<v>> \o <<w>>) = <<x, y, z, v, w>>

\* A tuple of five, put together.
LEMMA FiveJoined ==
    ASSUME NEW B, NEW x \in B, NEW y \in B, NEW z \in B, NEW v \in B, NEW w \in B
    PROVE  Joins(x, y, z, v, w)
<1> DEFINE a == <<x, y, z>>
           o == <<v>> \o <<w>>
           l == a \o o
           r == <<x, y, z, v, w>>
<1>1. /\ a \in Seq(B) /\ Len(a) = 3 /\ a[1] = x /\ a[2] = y /\ a[3] = z
      /\ o \in Seq(B) /\ Len(o) = 2 /\ o[1] = v /\ o[2] = w
      /\ r \in Seq(B) /\ Len(r) = 5
      /\ r[1] = x /\ r[2] = y /\ r[3] = z /\ r[4] = v /\ r[5] = w
  BY SMT
<1> HIDE DEF a, o, r
<1>2. /\ a \o o \in Seq(B) /\ Len(a \o o) = Len(a) + Len(o)
      /\ \A i \in 1..(Len(a) + Len(o)) :
            (a \o o)[i] = IF i <= Len(a) THEN a[i] ELSE o[i - Len(a)]
  BY <1>1, ConcatProperties
<1>3. l \in Seq(B) /\ Len(l) = 5
      /\ \A i \in 1..5 : l[i] = IF i <= 3 THEN a[i] ELSE o[i - 3]
  BY <1>1, <1>2, SMT
<1> HIDE DEF l
<1>4. l[1] = x /\ l[2] = y /\ l[3] = z /\ l[4] = v /\ l[5] = w
  BY <1>1, <1>3, SMT
<1>5. \A i \in 1..5 : i = 1 \/ i = 2 \/ i = 3 \/ i = 4 \/ i = 5
  BY SMT
<1>6. Len(l) = Len(r) /\ \A i \in 1..Len(l) : l[i] = r[i]
  BY <1>1, <1>3, <1>4, <1>5, Zenon
<1>7. l = r
  BY <1>1, <1>3, <1>6, SeqEqual, Zenon
<1> QED
  BY <1>7, Zenon DEF Joins, l, r, a, o

\* The tags of the children, as KnownChildren writes them.
TagsOf(c) == [i \in DOMAIN c |-> c[i].tag]

\* Four and five children, with the tags given.
FourAre(c, a, b, d, e) == TagsOf(c) = <<a, b, d, e>>
FourHave(c, a, b, d, e) ==
    DOMAIN c = 1..4 /\ c[1].tag = a /\ c[2].tag = b /\ c[3].tag = d /\ c[4].tag = e
FiveAre(c, a, b, d, e, f) == TagsOf(c) = <<a, b, d, e, f>>
FiveHave(c, a, b, d, e, f) ==
    /\ DOMAIN c = 1..5
    /\ c[1].tag = a /\ c[2].tag = b /\ c[3].tag = d /\ c[4].tag = e /\ c[5].tag = f

\* The tags of four children, one by one.
LEMMA TagsOfFour ==
    ASSUME NEW c, NEW a, NEW b, NEW d, NEW e
    PROVE  FourAre(c, a, b, d, e) <=> FourHave(c, a, b, d, e)
BY SMT DEF TagsOf, FourAre, FourHave

\* The tags of five children, one by one.
LEMMA TagsOfFive ==
    ASSUME NEW c, NEW a, NEW b, NEW d, NEW e, NEW f
    PROVE  FiveAre(c, a, b, d, e, f) <=> FiveHave(c, a, b, d, e, f)
BY SMT DEF TagsOf, FiveAre, FiveHave

\* The tags of the five known children are five.
LEMMA FiveTags ==
    LET a == Ctx(35)  b == Ctx(0)  c == Ctx(1)  d == Ctx(2)  e == Ctx(3)
    IN  /\ a # b /\ a # c /\ a # d /\ a # e /\ b # c /\ b # d /\ b # e /\ c # d /\ c # e /\ d # e
        /\ b # a /\ c # a /\ d # a /\ e # a /\ c # b /\ d # b /\ e # b /\ d # c /\ e # c /\ e # d
BY CtxDiffer, SMT

\* What First finds among the four known children.
LEMMA FirstOfFour ==
    ASSUME NEW p, TagsOf(p.children) = <<Ctx(35), Ctx(0), Ctx(1), Ctx(3)>>
    PROVE  /\ First(p, Ctx(35)) = p.children[1] /\ First(p, Ctx(0)) = p.children[2]
           /\ First(p, Ctx(1)) = p.children[3] /\ First(p, Ctx(3)) = p.children[4]
           /\ First(p, Ctx(2)) = Nil
<1> DEFINE c == p.children
           ta == Ctx(35)
           tb == Ctx(0)
           tc == Ctx(1)
           td == Ctx(2)
           te == Ctx(3)
<1>1. DOMAIN c = 1..4 /\ c[1].tag = ta /\ c[2].tag = tb /\ c[3].tag = tc /\ c[4].tag = te
  <2>1. FourAre(c, ta, tb, tc, te)
    BY Zenon DEF FourAre
  <2>2. FourHave(c, ta, tb, tc, te)
    BY <2>1, TagsOfFour, Zenon
  <2> QED
    BY <2>2, Zenon DEF FourHave
<1>2. /\ ta # tb /\ ta # tc /\ ta # td /\ ta # te /\ tb # tc /\ tb # td /\ tb # te
      /\ tc # td /\ tc # te /\ td # te
  BY FiveTags
<1>3. /\ \A i \in DOMAIN c : i = 1 \/ i = 2 \/ i = 3 \/ i = 4
      /\ 1 \in DOMAIN c /\ 2 \in DOMAIN c /\ 3 \in DOMAIN c /\ 4 \in DOMAIN c
      /\ 1 \in Nat /\ 2 \in Nat /\ 3 \in Nat /\ 4 \in Nat
  <2>1. /\ \A i \in 1..4 : i = 1 \/ i = 2 \/ i = 3 \/ i = 4
        /\ 1 \in 1..4 /\ 2 \in 1..4 /\ 3 \in 1..4 /\ 4 \in 1..4
        /\ 1 \in Nat /\ 2 \in Nat /\ 3 \in Nat /\ 4 \in Nat
    BY SMT
  <2> QED
    BY <1>1, <2>1, Zenon
<1> HIDE DEF ta, tb, tc, td, te
<1>4. /\ \A i \in DOMAIN c : c[i].tag = ta => i = 1
      /\ \A i \in DOMAIN c : c[i].tag = tb => i = 2
      /\ \A i \in DOMAIN c : c[i].tag = tc => i = 3
      /\ \A i \in DOMAIN c : c[i].tag = te => i = 4
      /\ \A i \in DOMAIN c : c[i].tag # td
  <2>1. \A i \in DOMAIN c : c[i].tag = ta => i = 1
    BY <1>1, <1>2, <1>3, Zenon
  <2>2. \A i \in DOMAIN c : c[i].tag = tb => i = 2
    BY <1>1, <1>2, <1>3, Zenon
  <2>3. \A i \in DOMAIN c : c[i].tag = tc => i = 3
    BY <1>1, <1>2, <1>3, Zenon
  <2>4. \A i \in DOMAIN c : c[i].tag = te => i = 4
    BY <1>1, <1>2, <1>3, Zenon
  <2>5. \A i \in DOMAIN c : c[i].tag # td
    BY <1>1, <1>2, <1>3, Zenon
  <2> QED
    BY <2>1, <2>2, <2>3, <2>4, <2>5
<1>5. First(p, ta) = c[1] /\ First(p, tb) = c[2] /\ First(p, tc) = c[3] /\ First(p, te) = c[4]
  <2>1. First(p, ta) = c[1]
    <3>1. 1 \in DOMAIN c /\ 1 \in Nat /\ c[1].tag = ta
      BY <1>1, <1>3, Zenon
    <3>2. \A j \in DOMAIN c : c[j].tag = ta => j = 1
      BY <1>4
    <3> QED
      BY <3>1, <3>2, FirstOnly, Zenon
  <2>2. First(p, tb) = c[2]
    <3>1. 2 \in DOMAIN c /\ 2 \in Nat /\ c[2].tag = tb
      BY <1>1, <1>3, Zenon
    <3>2. \A j \in DOMAIN c : c[j].tag = tb => j = 2
      BY <1>4
    <3> QED
      BY <3>1, <3>2, FirstOnly, Zenon
  <2>3. First(p, tc) = c[3]
    <3>1. 3 \in DOMAIN c /\ 3 \in Nat /\ c[3].tag = tc
      BY <1>1, <1>3, Zenon
    <3>2. \A j \in DOMAIN c : c[j].tag = tc => j = 3
      BY <1>4
    <3> QED
      BY <3>1, <3>2, FirstOnly, Zenon
  <2>4. First(p, te) = c[4]
    <3>1. 4 \in DOMAIN c /\ 4 \in Nat /\ c[4].tag = te
      BY <1>1, <1>3, Zenon
    <3>2. \A j \in DOMAIN c : c[j].tag = te => j = 4
      BY <1>4
    <3> QED
      BY <3>1, <3>2, FirstOnly, Zenon
  <2> QED
    BY <2>1, <2>2, <2>3, <2>4
<1>6. First(p, td) = Nil
  BY <1>4, FirstNone, Zenon
<1> QED
  BY <1>5, <1>6, Zenon DEF ta, tb, tc, td, te

\* What First finds among the five.
LEMMA FirstOfFive ==
    ASSUME NEW p, TagsOf(p.children) = <<Ctx(35), Ctx(0), Ctx(1), Ctx(2), Ctx(3)>>
    PROVE  /\ First(p, Ctx(35)) = p.children[1] /\ First(p, Ctx(0)) = p.children[2]
           /\ First(p, Ctx(1)) = p.children[3] /\ First(p, Ctx(2)) = p.children[4]
           /\ First(p, Ctx(3)) = p.children[5]
<1> DEFINE c == p.children
           ta == Ctx(35)
           tb == Ctx(0)
           tc == Ctx(1)
           td == Ctx(2)
           te == Ctx(3)
<1>1. /\ DOMAIN c = 1..5
      /\ c[1].tag = ta /\ c[2].tag = tb /\ c[3].tag = tc /\ c[4].tag = td /\ c[5].tag = te
  <2>1. FiveAre(c, ta, tb, tc, td, te)
    BY Zenon DEF FiveAre
  <2>2. FiveHave(c, ta, tb, tc, td, te)
    BY <2>1, TagsOfFive, Zenon
  <2> QED
    BY <2>2, Zenon DEF FiveHave
<1>2. /\ ta # tb /\ ta # tc /\ ta # td /\ ta # te /\ tb # tc /\ tb # td /\ tb # te
      /\ tc # td /\ tc # te /\ td # te
  BY FiveTags
<1>3. /\ \A i \in DOMAIN c : i = 1 \/ i = 2 \/ i = 3 \/ i = 4 \/ i = 5
      /\ 1 \in DOMAIN c /\ 2 \in DOMAIN c /\ 3 \in DOMAIN c /\ 4 \in DOMAIN c /\ 5 \in DOMAIN c
      /\ 1 \in Nat /\ 2 \in Nat /\ 3 \in Nat /\ 4 \in Nat /\ 5 \in Nat
  <2>1. /\ \A i \in 1..5 : i = 1 \/ i = 2 \/ i = 3 \/ i = 4 \/ i = 5
        /\ 1 \in 1..5 /\ 2 \in 1..5 /\ 3 \in 1..5 /\ 4 \in 1..5 /\ 5 \in 1..5
        /\ 1 \in Nat /\ 2 \in Nat /\ 3 \in Nat /\ 4 \in Nat /\ 5 \in Nat
    BY SMT
  <2> QED
    BY <1>1, <2>1, Zenon
<1> HIDE DEF ta, tb, tc, td, te
<1>4. /\ \A i \in DOMAIN c : c[i].tag = ta => i = 1
      /\ \A i \in DOMAIN c : c[i].tag = tb => i = 2
      /\ \A i \in DOMAIN c : c[i].tag = tc => i = 3
      /\ \A i \in DOMAIN c : c[i].tag = td => i = 4
      /\ \A i \in DOMAIN c : c[i].tag = te => i = 5
  <2>1. \A i \in DOMAIN c : c[i].tag = ta => i = 1
    BY <1>1, <1>2, <1>3, Zenon
  <2>2. \A i \in DOMAIN c : c[i].tag = tb => i = 2
    BY <1>1, <1>2, <1>3, Zenon
  <2>3. \A i \in DOMAIN c : c[i].tag = tc => i = 3
    BY <1>1, <1>2, <1>3, Zenon
  <2>4. \A i \in DOMAIN c : c[i].tag = td => i = 4
    BY <1>1, <1>2, <1>3, Zenon
  <2>5. \A i \in DOMAIN c : c[i].tag = te => i = 5
    BY <1>1, <1>2, <1>3, Zenon
  <2> QED
    BY <2>1, <2>2, <2>3, <2>4, <2>5
<1>5. /\ First(p, ta) = c[1] /\ First(p, tb) = c[2] /\ First(p, tc) = c[3]
      /\ First(p, td) = c[4] /\ First(p, te) = c[5]
  <2>1. First(p, ta) = c[1]
    <3>1. 1 \in DOMAIN c /\ 1 \in Nat /\ c[1].tag = ta
      BY <1>1, <1>3, Zenon
    <3>2. \A j \in DOMAIN c : c[j].tag = ta => j = 1
      BY <1>4
    <3> QED
      BY <3>1, <3>2, FirstOnly, Zenon
  <2>2. First(p, tb) = c[2]
    <3>1. 2 \in DOMAIN c /\ 2 \in Nat /\ c[2].tag = tb
      BY <1>1, <1>3, Zenon
    <3>2. \A j \in DOMAIN c : c[j].tag = tb => j = 2
      BY <1>4
    <3> QED
      BY <3>1, <3>2, FirstOnly, Zenon
  <2>3. First(p, tc) = c[3]
    <3>1. 3 \in DOMAIN c /\ 3 \in Nat /\ c[3].tag = tc
      BY <1>1, <1>3, Zenon
    <3>2. \A j \in DOMAIN c : c[j].tag = tc => j = 3
      BY <1>4
    <3> QED
      BY <3>1, <3>2, FirstOnly, Zenon
  <2>4. First(p, td) = c[4]
    <3>1. 4 \in DOMAIN c /\ 4 \in Nat /\ c[4].tag = td
      BY <1>1, <1>3, Zenon
    <3>2. \A j \in DOMAIN c : c[j].tag = td => j = 4
      BY <1>4
    <3> QED
      BY <3>1, <3>2, FirstOnly, Zenon
  <2>5. First(p, te) = c[5]
    <3>1. 5 \in DOMAIN c /\ 5 \in Nat /\ c[5].tag = te
      BY <1>1, <1>3, Zenon
    <3>2. \A j \in DOMAIN c : c[j].tag = te => j = 5
      BY <1>4
    <3> QED
      BY <3>1, <3>2, FirstOnly, Zenon
  <2> QED
    BY <2>1, <2>2, <2>3, <2>4, <2>5
<1> QED
  BY <1>5, Zenon DEF ta, tb, tc, td, te

\* A package of the known children is what its segments are made of.
LEMMA KnownAreFive ==
    ASSUME NEW p \in Packages, KnownChildren(p)
    PROVE  ValidBoundProfilePackage(p) /\ Five(p) = p.children
<1> DEFINE c == p.children
<1>1. p.tag = Ctx(54) /\ c \in Seq(TLV) /\ \A i \in DOMAIN c : c[i] # Nil /\ c[i] \in TLV
  <2>1. c \in Seq(TLV) /\ Whole(p)
    BY WholePackages, Zenon
  <2>2. \A i \in DOMAIN c : c[i] \in TLV
    BY <2>1, SMT
  <2> QED
    BY <2>1, <2>2, Zenon DEF Whole, KnownChildren
<1>2. CASE TagsOf(c) = <<Ctx(35), Ctx(0), Ctx(1), Ctx(3)>>
  <2>1. /\ First(p, Ctx(35)) = c[1] /\ First(p, Ctx(0)) = c[2]
        /\ First(p, Ctx(1)) = c[3] /\ First(p, Ctx(3)) = c[4] /\ First(p, Ctx(2)) = Nil
    BY <1>2, FirstOfFour, Zenon
  <2>2. DOMAIN c = 1..4
    <3>1. FourAre(c, Ctx(35), Ctx(0), Ctx(1), Ctx(3))
      BY <1>2, Zenon DEF FourAre
    <3>2. FourHave(c, Ctx(35), Ctx(0), Ctx(1), Ctx(3))
      BY <3>1, TagsOfFour, Zenon
    <3> QED
      BY <3>2, Zenon DEF FourHave
  <2>3. 1 \in 1..4 /\ 2 \in 1..4 /\ 3 \in 1..4 /\ 4 \in 1..4
    BY SMT
  <2>4. c[1] # Nil /\ c[2] # Nil /\ c[3] # Nil /\ c[4] # Nil
        /\ c[1] \in TLV /\ c[2] \in TLV /\ c[3] \in TLV /\ c[4] \in TLV
    BY <1>1, <2>2, <2>3, Zenon
  <2>5. ValidBoundProfilePackage(p)
    BY <1>1, <2>1, <2>4, Zenon DEF ValidBoundProfilePackage
  <2>6. Five(p) = <<c[1], c[2], c[3]>> \o (<<>> \o <<c[4]>>)
    BY <2>1, Zenon DEF Five, Optional
  <2>7. Five(p) = <<c[1], c[2], c[3], c[4]>>
    BY <2>4, <2>6, FourJoined, Zenon
  <2>8. c = <<c[1], c[2], c[3], c[4]>>
    <3> HIDE DEF c
    <3> QED
      BY <1>1, <2>2, SMT
  <2> QED
    BY <2>5, <2>7, <2>8, Zenon
<1>3. CASE TagsOf(c) = <<Ctx(35), Ctx(0), Ctx(1), Ctx(2), Ctx(3)>>
  <2>1. /\ First(p, Ctx(35)) = c[1] /\ First(p, Ctx(0)) = c[2] /\ First(p, Ctx(1)) = c[3]
        /\ First(p, Ctx(2)) = c[4] /\ First(p, Ctx(3)) = c[5]
    BY <1>3, FirstOfFive, Zenon
  <2>2. DOMAIN c = 1..5
    <3>1. FiveAre(c, Ctx(35), Ctx(0), Ctx(1), Ctx(2), Ctx(3))
      BY <1>3, Zenon DEF FiveAre
    <3>2. FiveHave(c, Ctx(35), Ctx(0), Ctx(1), Ctx(2), Ctx(3))
      BY <3>1, TagsOfFive, Zenon
    <3> QED
      BY <3>2, Zenon DEF FiveHave
  <2>3. 1 \in 1..5 /\ 2 \in 1..5 /\ 3 \in 1..5 /\ 4 \in 1..5 /\ 5 \in 1..5
    BY SMT
  <2>4. c[1] # Nil /\ c[2] # Nil /\ c[3] # Nil /\ c[4] # Nil /\ c[5] # Nil
        /\ c[1] \in TLV /\ c[2] \in TLV /\ c[3] \in TLV /\ c[4] \in TLV /\ c[5] \in TLV
    BY <1>1, <2>2, <2>3, Zenon
  <2>5. ValidBoundProfilePackage(p)
    BY <1>1, <2>1, <2>4, Zenon DEF ValidBoundProfilePackage
  <2>6. Five(p) = <<c[1], c[2], c[3]>> \o (<<c[4]>> \o <<c[5]>>)
    BY <2>1, <2>4, Zenon DEF Five, Optional
  <2>7. Five(p) = <<c[1], c[2], c[3], c[4], c[5]>>
    <3>1. Joins(c[1], c[2], c[3], c[4], c[5])
      BY <2>4, FiveJoined, Zenon
    <3> QED
      BY <2>6, <3>1, Zenon DEF Joins
  <2>8. c = <<c[1], c[2], c[3], c[4], c[5]>>
    <3> HIDE DEF c
    <3> QED
      BY <1>1, <2>2, SMT
  <2> QED
    BY <2>5, <2>7, <2>8, Zenon
<1> QED
  BY <1>2, <1>3, Zenon DEF KnownChildren, TagsOf

\* The tags of the children that the segments are made of.
LEMMA FiveAreKnown ==
    ASSUME NEW p \in Packages, ValidBoundProfilePackage(p)
    PROVE  \/ TagsOf(Five(p)) = <<Ctx(35), Ctx(0), Ctx(1), Ctx(3)>>
           \/ TagsOf(Five(p)) = <<Ctx(35), Ctx(0), Ctx(1), Ctx(2), Ctx(3)>>
<1> DEFINE x35 == First(p, Ctx(35))
           x0 == First(p, Ctx(0))
           x1 == First(p, Ctx(1))
           x2 == First(p, Ctx(2))
           x3 == First(p, Ctx(3))
<1>1. x35 # Nil /\ x0 # Nil /\ x1 # Nil /\ x3 # Nil
  BY Zenon DEF ValidBoundProfilePackage
<1>2. /\ x35.tag = Ctx(35) /\ x0.tag = Ctx(0) /\ x1.tag = Ctx(1) /\ x3.tag = Ctx(3)
      /\ x35 \in ReadableTLV /\ x0 \in ReadableTLV /\ x1 \in ReadableTLV /\ x3 \in ReadableTLV
  BY <1>1, FirstWhole, Zenon
<1>3. x2 # Nil => x2.tag = Ctx(2) /\ x2 \in ReadableTLV
  BY FirstWhole, Zenon
<1>4. Five(p) = <<x35, x0, x1>> \o (Optional(x2) \o <<x3>>)
  BY Zenon DEF Five
<1> HIDE DEF x35, x0, x1, x2, x3
<1>5. CASE x2 = Nil
  <2>1. Five(p) = <<x35, x0, x1>> \o (<<>> \o <<x3>>)
    BY <1>4, <1>5, Zenon DEF Optional
  <2>2. Five(p) = <<x35, x0, x1, x3>>
    BY <1>2, <2>1, FourJoined, Zenon
  <2> DEFINE q == <<x35, x0, x1, x3>>
  <2>3. DOMAIN q = 1..4 /\ q[1] = x35 /\ q[2] = x0 /\ q[3] = x1 /\ q[4] = x3
    BY SMT
  <2> HIDE DEF q
  <2>4. q[1].tag = Ctx(35) /\ q[2].tag = Ctx(0) /\ q[3].tag = Ctx(1) /\ q[4].tag = Ctx(3)
    BY <1>2, <2>3, Zenon
  <2>5. TagsOf(q) = <<Ctx(35), Ctx(0), Ctx(1), Ctx(3)>>
    <3>1. FourHave(q, Ctx(35), Ctx(0), Ctx(1), Ctx(3))
      BY <2>3, <2>4, Zenon DEF FourHave
    <3>2. FourAre(q, Ctx(35), Ctx(0), Ctx(1), Ctx(3))
      BY <3>1, TagsOfFour, Zenon
    <3> QED
      BY <3>2, Zenon DEF FourAre
  <2> QED
    BY <2>2, <2>5, Zenon DEF q
<1>6. CASE x2 # Nil
  <2>1. Five(p) = <<x35, x0, x1>> \o (<<x2>> \o <<x3>>)
    BY <1>4, <1>6, Zenon DEF Optional
  <2>2. Five(p) = <<x35, x0, x1, x2, x3>>
    <3>1. Joins(x35, x0, x1, x2, x3)
      BY <1>2, <1>3, <1>6, FiveJoined, Zenon
    <3> QED
      BY <2>1, <3>1, Zenon DEF Joins
  <2> DEFINE q == <<x35, x0, x1, x2, x3>>
  <2>3. DOMAIN q = 1..5 /\ q[1] = x35 /\ q[2] = x0 /\ q[3] = x1 /\ q[4] = x2 /\ q[5] = x3
    BY SMT
  <2> HIDE DEF q
  <2>4. /\ q[1].tag = Ctx(35) /\ q[2].tag = Ctx(0) /\ q[3].tag = Ctx(1) /\ q[4].tag = Ctx(2)
        /\ q[5].tag = Ctx(3)
    BY <1>2, <1>3, <1>6, <2>3, Zenon
  <2>5. TagsOf(q) = <<Ctx(35), Ctx(0), Ctx(1), Ctx(2), Ctx(3)>>
    <3>1. FiveHave(q, Ctx(35), Ctx(0), Ctx(1), Ctx(2), Ctx(3))
      BY <2>3, <2>4, Zenon DEF FiveHave
    <3>2. FiveAre(q, Ctx(35), Ctx(0), Ctx(1), Ctx(2), Ctx(3))
      BY <3>1, TagsOfFive, Zenon
    <3> QED
      BY <3>2, Zenon DEF FiveAre
  <2> QED
    BY <2>2, <2>5, Zenon DEF q
<1> QED
  BY <1>5, <1>6

\* The segments of a package are its octets if, and only if, it has the known
\* children in their order.  If: they are what the segments are made of.  Only
\* if: the octets tell the tags of the children.
THEOREM SegmentsOfPackage ==
    ASSUME NEW p \in Packages
    PROVE  KnownChildren(p) <=>
              /\ ValidBoundProfilePackage(p)
              /\ FlattenSeq(SegmentedBoundProfilePackage(p)) = WriteTo[p]
<1> DEFINE c == p.children
           m == MarshalHeader(p)
           e == FlattenSeq(Each(WriteTo, c))
           v == FlattenSeq(Each(WriteTo, Five(p)))
           joined == FlattenSeq(SegmentedBoundProfilePackage(p))
<1>1. ASSUME ValidBoundProfilePackage(p)
      PROVE  /\ c \in Seq(ReadableTLV) /\ m \in Seq(Octet) /\ e \in Seq(Octet)
             /\ WriteTo[p] = m \o e /\ p.tag = Ctx(54)
  <2>1. p.tag = Ctx(54)
    BY <1>1, Zenon DEF ValidBoundProfilePackage
  <2>2. FormOf(Ctx(54)) = Constructed
    BY CtxDiffer, SMT
  <2> QED
    BY <2>1, <2>2, WholePackages, HeaderAndChildren, Zenon
<1>2. ASSUME ValidBoundProfilePackage(p)
      PROVE  /\ Five(p) \in Seq(ReadableTLV) /\ v \in Seq(Octet) /\ joined = m \o v
  BY <1>2, SegmentsFlatten, Zenon
<1>3. ASSUME KnownChildren(p)
      PROVE  ValidBoundProfilePackage(p) /\ joined = WriteTo[p]
  <2>1. ValidBoundProfilePackage(p) /\ Five(p) = c
    BY <1>3, KnownAreFive, Zenon
  <2> QED
    BY <2>1, <1>1, <1>2, Zenon
<1>4. ASSUME ValidBoundProfilePackage(p), joined = WriteTo[p]
      PROVE  KnownChildren(p)
  <2>1. /\ c \in Seq(ReadableTLV) /\ m \in Seq(Octet) /\ e \in Seq(Octet)
        /\ WriteTo[p] = m \o e /\ p.tag = Ctx(54)
    BY <1>1, <1>4
  <2>2. Five(p) \in Seq(ReadableTLV) /\ v \in Seq(Octet) /\ joined = m \o v
    BY <1>2, <1>4
  <2>3. m \o v = m \o e
    BY <1>4, <2>1, <2>2, Zenon
  <2>4. v = e
    <3> HIDE DEF v, e, m
    <3> QED
      BY <2>1, <2>2, <2>3, ConcatSimplifications, Zenon
  <2>5. /\ Len(c) = Len(Five(p))
        /\ \A i \in 1..Len(c) : c[i].tag = Five(p)[i].tag
    BY <2>1, <2>2, <2>4, ListsTold, Zenon
  <2>6. DOMAIN c = 1..Len(c) /\ DOMAIN Five(p) = 1..Len(Five(p))
    <3> HIDE DEF c
    <3> QED
      BY <2>1, <2>2, LenProperties
  <2>7. TagsOf(c) = TagsOf(Five(p))
    BY <2>5, <2>6, Zenon DEF TagsOf
  <2> QED
    BY <1>4, <2>1, <2>7, FiveAreKnown, Zenon DEF KnownChildren, TagsOf
<1> QED
  BY <1>3, <1>4

\* ValidBoundProfilePackage and SegmentedBoundProfilePackage of every package:
\* the card is sent its octets, in order and complete, or the package is not one
\* of the known children in their order.
THEOREM SegmentsAreThePackage == CodecSpec => []SegmentsArePackage
<1>1. CodecIInv => SegmentsArePackage
  <2>1. SUFFICES ASSUME CodecIInv, phase = "segmented" PROVE SegmentsArePackage
    BY Zenon DEF SegmentsArePackage
  <2> DEFINE p == source.of
  <2>2. /\ p \in Packages /\ octets = WriteTo[p]
        /\ got = IF ValidBoundProfilePackage(p)
                 THEN [ok |-> TRUE, segments |-> SegmentedBoundProfilePackage(p)] ELSE Failed
    <3>1. source.kind = "package" /\ phase # "refused"
      BY <2>1, Zenon DEF CodecIInv
    <3>2. "package" # "none" /\ "package" # "tree" /\ "package" # "int" /\ "package" # "bits"
          /\ "package" # "digits"
      BY SMT
    <3> QED
      BY <2>1, <3>1, <3>2, NoKind, Zenon DEF CodecIInv, OctetsAreOf
  <2>3. CASE ValidBoundProfilePackage(p)
    <3> DEFINE segs == SegmentedBoundProfilePackage(p)
    <3>1. got = [ok |-> TRUE, segments |-> segs]
      BY <2>2, <2>3, Zenon
    <3> HIDE DEF segs
    <3>2. got.ok = TRUE /\ got.segments = segs
      BY <3>1, SMT
    <3> QED
      BY <2>2, <2>3, <3>2, SegmentsOfPackage, Zenon DEF SegmentsArePackage, segs
  <2>4. CASE ~ValidBoundProfilePackage(p)
    <3>1. got = Failed
      BY <2>2, <2>4, Zenon
    <3>2. got.ok = FALSE
      BY <3>1, SMT DEF Failed
    <3> QED
      BY <2>2, <2>4, <3>2, SegmentsOfPackage, Zenon DEF SegmentsArePackage
  <2> QED
    BY <2>3, <2>4
<1> QED
  BY <1>1, CodecInvariant, PTL

=============================================================================
