-------------------------------- MODULE Uim ---------------------------------
(***************************************************************************)
(* The UIM client of driver/qmi/uim over its two transports: QMUX through  *)
(* the qmi-proxy socket (driver/qmi/qmi.go, driver/qmi/transport/qmi) and  *)
(* QRTR datagrams (driver/qmi/qrtr.go, driver/qmi/transport/qrtr).         *)
(*                                                                         *)
(* Client.mu lets one exchange run at a time: msg is the request whose     *)
(* answer Transport.Read waits for, "none" between calls.  The modem is    *)
(* external: it answers the requests in order, when it likes, and an       *)
(* answer that comes after its exchange was given up stays in the socket.  *)
(*                                                                         *)
(* QRTR matches a response to the transaction; QMUX takes any response.    *)
(* The result TLV is looked at while a message is parsed, before that.     *)
(***************************************************************************)
EXTENDS Integers, Sequences, SequencesExt

CONSTANTS
    Slots,      \* physical slots of the modem
    Channels,   \* logical channels the card may open
    TxnMod,     \* number of transaction identifiers: 2^16 in the code
    Attempts,   \* polls of waitForSlotActivation: 10 in the code
    MaxCalls,   \* bound on the calls after New
    MaxSyncs    \* bound on the modem's sync indications

ASSUME SlotsAssumption == Slots \subseteq Nat \ {0} /\ Channels \subseteq Nat \ {0}
ASSUME WidthAssumption == TxnMod \in Nat \ {0} /\ Attempts \in Nat \ {0}
ASSUME BoundsAssumption == MaxCalls \in Nat /\ MaxSyncs \in Nat

VARIABLES
    kind,       \* "qmux" or "qrtr"
    link,       \* "down", "up" or "closed": the connection of the driver
    slot, cid, channel, txn,          \* uim.Client
    msg, attempt,                     \* the exchange that runs
    done,       \* what the last call came to
    queue,      \* requests the modem has not handled
    inbox,      \* messages the client has not read
    synced,     \* the QMUX stream is at the start of a message
    active, ready, open, ids,         \* the modem
    legacy,     \* the modem does not support GetSlotStatus
    want,       \* the slot New was called with
    calls, connects, syncs,           \* history: calls, good Connects
    abandoned,  \* history: a request was given up
    mixed,      \* history: since the call began an answer was taken for another's
    answer,     \* history: the last answer taken: for which request, by which it
                \* was caused, in which exchange, after a request given up
    refusal     \* history: the same of the last failure

client  == <<kind, slot, cid, channel, attempt>>
modem   == <<active, ready, open, ids>>
history == <<want, legacy, calls, connects, syncs>>
vars    == <<client, link, txn, msg, done, queue, inbox, synced, modem, history,
             abandoned, mixed, answer, refusal>>

Exchanges == {"proxy", "alloc", "release", "slotStatus", "switch", "cardStatus",
              "open", "close", "apdu"}
ControlRequests == {"proxy", "alloc", "release"}
Outcomes  == {"none", "error", "New", "Connect", "ConnectSwitched",
              "ConnectUnsupported", "Open", "Close", "Transmit", "Disconnect"}

Requests == [req : Nat, what : Exchanges, arg : Nat]
Messages == [type : {"response", "indication"}, req : Nat, client : Nat,
             what : Exchanges \cup {"none"},
             status : {"ok", "failed", "unsupported"}, val : Nat]

TypeOK ==
    /\ kind \in {"qmux", "qrtr"} /\ link \in {"down", "up", "closed"}
    /\ slot \in Slots \cup {1} /\ cid \in Nat /\ channel \in Nat /\ txn \in Nat
    /\ msg \in Exchanges \cup {"none"} /\ attempt \in 0..(Attempts - 1)
    /\ done \in Outcomes
    /\ queue \in Seq(Requests) /\ inbox \in Seq(Messages) /\ synced \in BOOLEAN
    /\ active \in Slots /\ ready \in BOOLEAN /\ open \subseteq Channels
    /\ ids \subseteq Nat \ {0}
    /\ legacy \in BOOLEAN /\ want \in Slots /\ calls \in Nat /\ connects \in Nat /\ syncs \in Nat
    /\ abandoned \in BOOLEAN /\ mixed \in BOOLEAN
    /\ answer \in [to : Nat, by : Nat, msg : Exchanges \cup {"none"}, late : BOOLEAN]
    /\ refusal \in [to : Nat, by : Nat, late : BOOLEAN]

Init ==
    /\ kind \in {"qmux", "qrtr"} /\ link = "down"
    /\ want \in Slots /\ slot = want /\ active \in Slots
    /\ cid = 0 /\ channel = 0 /\ txn = 0 /\ msg = "none" /\ attempt = 0
    /\ done = "none" /\ queue = <<>> /\ inbox = <<>> /\ synced = TRUE
    /\ legacy \in BOOLEAN /\ ready = TRUE /\ open = {} /\ ids = {}
    /\ calls = 0 /\ connects = 0 /\ syncs = 0
    /\ abandoned = FALSE /\ mixed = FALSE
    /\ answer = [to |-> 0, by |-> 0, msg |-> "none", late |-> FALSE]
    /\ refusal = [to |-> 0, by |-> 0, late |-> FALSE]

-----------------------------------------------------------------------------
(* Sending a request, and returning from a call.                           *)

\* Mutant: the request is written again when a second passes without an answer.
SendTwice(m, arg) ==
    /\ msg' = m /\ txn' = txn + 1
    /\ \E times \in 1..2 :
         queue' = queue \o [i \in 1..times |-> [req |-> txn + 1, what |-> m, arg |-> arg]]
    /\ UNCHANGED <<link, done>>

\* Transmit of either transport: the next transaction, written in one piece.
Send(m, arg) ==
    /\ msg' = m /\ txn' = txn + 1
    /\ queue' = Append(queue, [req |-> txn + 1, what |-> m, arg |-> arg])
    /\ UNCHANGED <<link, done>>

Return(d) == msg' = "none" /\ done' = d /\ UNCHANGED <<txn, queue>>

StartCall ==
    /\ link = "up" /\ msg = "none" /\ calls < MaxCalls
    /\ calls' = calls + 1 /\ mixed' = FALSE

NewQMI ==
    /\ kind = "qmux" /\ link = "down" /\ msg = "none" /\ done = "none"
    /\ Send("proxy", 0)
    /\ UNCHANGED <<client, inbox, synced, modem, history, abandoned, mixed, answer, refusal>>

NewQRTR ==
    /\ kind = "qrtr" /\ link = "down" /\ msg = "none" /\ done = "none"
    /\ \/ link' = "up" /\ Return("New")
       \/ link' = "closed" /\ Return("error")
    /\ UNCHANGED <<client, inbox, synced, modem, history, abandoned, mixed, answer, refusal>>

Connect ==
    /\ StartCall
    /\ Send("slotStatus", 0)
    /\ UNCHANGED <<client, inbox, synced, modem, want, legacy, connects, syncs,
                   abandoned, answer, refusal>>

\* An AID or a command over the limit is refused before anything is sent.
OpenLogicalChannel ==
    /\ StartCall
    /\ Send("open", 0) \/ (Return("error") /\ UNCHANGED link)
    /\ UNCHANGED <<client, inbox, synced, modem, want, legacy, connects, syncs,
                   abandoned, answer, refusal>>

CloseLogicalChannel(ch) ==
    /\ StartCall
    /\ Send("close", ch)
    /\ UNCHANGED <<client, inbox, synced, modem, want, legacy, connects, syncs,
                   abandoned, answer, refusal>>

Transmit ==
    /\ StartCall
    /\ Send("apdu", channel) \/ (Return("error") /\ UNCHANGED link)
    /\ UNCHANGED <<client, inbox, synced, modem, want, legacy, connects, syncs,
                   abandoned, answer, refusal>>

\* Mutant: QMI.Disconnect closes the socket and leaves the client ID.
DisconnectOnly ==
    /\ link = "up" /\ msg = "none" /\ UNCHANGED calls
    /\ link' = "closed" /\ Return("Disconnect")
    /\ UNCHANGED <<client, inbox, synced, modem, want, legacy, connects, syncs,
                   abandoned, mixed, answer, refusal>>

\* QMI releases its client ID first; QRTR has none.
Disconnect ==
    /\ link = "up" /\ msg = "none" /\ UNCHANGED calls
    /\ \/ kind = "qmux" /\ cid # 0 /\ Send("release", cid)
       \/ ~(kind = "qmux" /\ cid # 0) /\ link' = "closed" /\ Return("Disconnect")
    /\ UNCHANGED <<client, inbox, synced, modem, want, legacy, connects, syncs,
                   abandoned, mixed, answer, refusal>>

-----------------------------------------------------------------------------
(* What an exchange that ended makes of the call.                          *)

\* Mutant: the slot is switched to by its logical number.
SwitchLogical(v) ==
    IF v = slot
    THEN slot' = 1 /\ Return("Connect") /\ connects' = connects + 1 /\ UNCHANGED link
    ELSE Send("switch", 1) /\ UNCHANGED <<slot, connects>>

\* ensureSlotActivated, with currentActivatedSlot's answer v.
EnsureSlotActivated(v) ==
    IF v = slot
    THEN slot' = 1 /\ Return("Connect") /\ connects' = connects + 1 /\ UNCHANGED link
    ELSE Send("switch", slot) /\ UNCHANGED <<slot, connects>>

\* Mutant: one attempt too many.
WaitOnceMore(v) ==
    \/ /\ v = 1
       /\ slot' = 1 /\ Return("ConnectSwitched") /\ connects' = connects + 1
       /\ UNCHANGED <<link, attempt>>
    \/ /\ v # 1 /\ attempt < Attempts
       /\ attempt' = attempt + 1 /\ Send("cardStatus", 0)
       /\ UNCHANGED <<slot, connects>>

\* waitForSlotActivation, after attempt number attempt; v = 1 is Ready().
WaitForSlotActivation(v) ==
    \/ /\ v = 1
       /\ slot' = 1 /\ Return("ConnectSwitched") /\ connects' = connects + 1
       /\ UNCHANGED <<link, attempt>>
    \/ /\ v # 1 /\ attempt + 1 < Attempts
       /\ attempt' = attempt + 1 /\ Send("cardStatus", 0)
       /\ UNCHANGED <<slot, connects>>
    \/ /\ v # 1 /\ attempt + 1 = Attempts
       /\ Return("error") /\ UNCHANGED <<link, attempt, slot, connects>>

\* Mutant: the client goes on with the channel it had.
ChannelKept(v)   == Return("Open") /\ UNCHANGED <<link, channel>>
ChannelOpened(v) == channel' = v /\ Return("Open") /\ UNCHANGED link

AllocateClientID(v) == cid' = v /\ link' = "up" /\ Return("New")

Succeed(v) ==
    \/ /\ msg = "proxy"
       /\ Send("alloc", 0) /\ UNCHANGED <<client, connects>>
    \/ /\ msg = "alloc"
       /\ AllocateClientID(v) /\ UNCHANGED <<kind, slot, channel, attempt, connects>>
    \/ /\ msg = "slotStatus"
       /\ EnsureSlotActivated(v) /\ UNCHANGED <<kind, cid, channel, attempt>>
    \/ /\ msg = "switch"
       /\ attempt' = 0 /\ Send("cardStatus", 0)
       /\ UNCHANGED <<kind, slot, cid, channel, connects>>
    \/ /\ msg = "cardStatus"
       /\ WaitForSlotActivation(v) /\ UNCHANGED <<kind, cid, channel>>
    \/ /\ msg = "open"
       /\ ChannelOpened(v) /\ UNCHANGED <<kind, slot, cid, attempt, connects>>
    \/ /\ msg = "close" /\ Return("Close") /\ UNCHANGED <<client, link, connects>>
    \/ /\ msg = "apdu" /\ Return("Transmit") /\ UNCHANGED <<client, link, connects>>
    \/ /\ msg = "release"
       /\ cid' = 0 /\ link' = "closed" /\ Return("Disconnect")
       /\ UNCHANGED <<kind, slot, channel, attempt, connects>>

\* Transmit of the transport returns an error.
Fail(status) ==
    \/ /\ msg = "slotStatus" /\ status = "unsupported"
       /\ slot' = 1 /\ Return("ConnectUnsupported") /\ connects' = connects + 1
       /\ UNCHANGED <<kind, cid, channel, attempt, link>>
    \/ /\ msg = "cardStatus"
       /\ WaitForSlotActivation(0) /\ UNCHANGED <<kind, cid, channel>>
    \/ /\ msg \in ControlRequests
       /\ link' = "closed" /\ Return("error") /\ UNCHANGED <<client, connects>>
    \/ /\ msg \in {"switch", "open", "close", "apdu"}
          \/ (msg = "slotStatus" /\ status # "unsupported")
       /\ Return("error") /\ UNCHANGED <<client, link, connects>>

-----------------------------------------------------------------------------
(* Transport.Read: one action per turn of its loop.                        *)

\* UnmarshalResponse of each request: the value, Bad for an error.  The four
\* requests that look for TLV 0x10 read one another's answers as they come.
Bad     == -1
Garbage == {Bad, 0, 1}

Carries0x01 == {"alloc", "release"}
Carries0x10 == {"slotStatus", "cardStatus", "open", "apdu"}

DecodeClientID(m)   == IF m.what \in Carries0x01 THEN {m.val} ELSE {Bad}
DecodeSlotStatus(m) == IF m.what = "slotStatus" THEN {m.val}
                       ELSE IF m.what \in Carries0x10 THEN Garbage ELSE {Bad}
DecodeCardStatus(m) == IF m.what = "cardStatus" THEN {m.val}
                       ELSE IF m.what \in Carries0x10 THEN Garbage ELSE {Bad}
DecodeChannel(m)    == IF m.what = "open" THEN {m.val}
                       ELSE IF m.what \in Carries0x10 THEN Garbage \ {Bad} ELSE {Bad}
DecodeAPDU(m)       == IF m.what = "apdu" THEN {m.val}
                       ELSE IF m.what \in Carries0x10 THEN Garbage ELSE {Bad}

Decode(m) ==
    CASE msg \in {"proxy", "switch", "close"} -> {0}
      [] msg \in {"alloc", "release"}         -> DecodeClientID(m)
      [] msg = "slotStatus"                   -> DecodeSlotStatus(m)
      [] msg = "cardStatus"                   -> DecodeCardStatus(m)
      [] msg = "open"                         -> DecodeChannel(m)
      [] msg = "apdu"                         -> DecodeAPDU(m)

SameTxn(m) == m.req % TxnMod = txn % TxnMod

\* ClientID of the request: those to the control service leave it zero.
RequestClient == IF msg \in ControlRequests THEN 0 ELSE cid

\* Mutant: QRTR skips on the conditions of QMUX.
SkipsLikeQMUX(m) == m.type # "response" /\ m.client # RequestClient /\ ~SameTxn(m)

\* What Read throws away and goes on.
Skips(m) ==
    IF kind = "qmux"
    THEN m.type # "response" /\ m.client # RequestClient /\ ~SameTxn(m)
    ELSE m.type # "response" \/ ~SameTxn(m)

\* A whole message that parses and carries no failure.
ReadAnswer ==
    LET m == Head(inbox)
    IN  /\ msg # "none" /\ inbox # <<>> /\ synced
        /\ m.status = "ok" /\ ~Skips(m)
        /\ inbox' = Tail(inbox)
        /\ mixed' = (mixed \/ m.req # txn)
        /\ abandoned' = (abandoned \/ m.req # txn)
        /\ answer' = [to |-> txn, by |-> m.req, msg |-> msg, late |-> abandoned]
        /\ \E v \in Decode(m) :
              IF v = Bad THEN Fail("failed") ELSE Succeed(v)
        /\ UNCHANGED <<synced, modem, want, legacy, calls, syncs, refusal>>

SkipMessage ==
    LET m == Head(inbox)
    IN  /\ msg # "none" /\ inbox # <<>> /\ synced
        /\ m.status = "ok" /\ Skips(m)
        /\ inbox' = Tail(inbox)
        /\ UNCHANGED <<client, link, txn, msg, done, queue, synced, modem, history,
                       abandoned, mixed, answer, refusal>>

\* A failure in the result TLV ends the exchange, whoever it was meant for.
ReadFailure ==
    LET m == Head(inbox)
    IN  /\ msg # "none" /\ inbox # <<>> /\ synced
        /\ m.status # "ok"
        /\ inbox' = Tail(inbox)
        /\ abandoned' = (abandoned \/ m.req # txn)
        /\ refusal' = [to |-> txn, by |-> m.req, late |-> abandoned]
        /\ Fail(m.status)
        /\ UNCHANGED <<synced, modem, want, legacy, calls, syncs, mixed, answer>>

\* The request's time is over, or the connection fails while it is written or
\* while the answer is read.
ReadTimeout ==
    /\ msg # "none"
    /\ abandoned' = TRUE
    /\ Fail("failed")
    /\ UNCHANGED <<inbox, synced, modem, want, legacy, calls, syncs, mixed, answer, refusal>>

\* A turn of the QMUX loop lasts a second.  One that ends inside the three
\* bytes of the header throws them away and goes on; one that ends inside the
\* body is an error.  Either way the stream is no longer at a message's start.
HeaderCut ==
    /\ kind = "qmux" /\ msg # "none" /\ inbox # <<>> /\ synced
    /\ synced' = FALSE
    /\ abandoned' = TRUE
    /\ UNCHANGED <<client, link, txn, msg, done, queue, inbox, modem, history,
                   mixed, answer, refusal>>

BodyCut ==
    /\ kind = "qmux" /\ msg # "none" /\ inbox # <<>> /\ synced
    /\ synced' = FALSE
    /\ abandoned' = TRUE
    /\ Fail("failed")
    /\ UNCHANGED <<inbox, modem, want, legacy, calls, syncs, mixed, answer, refusal>>

\* What follows is read as a header: an error, after which the stream may by
\* chance be at a message's start again.
Garbled ==
    /\ kind = "qmux" /\ msg # "none" /\ ~synced /\ inbox # <<>>
    /\ inbox' = Tail(inbox) /\ synced' \in BOOLEAN
    /\ Fail("failed")
    /\ UNCHANGED <<modem, want, legacy, calls, syncs, abandoned, mixed, answer, refusal>>

-----------------------------------------------------------------------------
(* The modem.                                                              *)

Reply(q, status, val) ==
    inbox' = Append(inbox, [type |-> "response", req |-> q.req,
                            client |-> IF q.what \in ControlRequests THEN 0 ELSE cid,
                            what |-> q.what, status |-> status, val |-> val])

\* It refuses a request without effect, or does what it asks for.
Refuse(q) ==
    /\ IF q.what = "slotStatus" /\ legacy
       THEN Reply(q, "unsupported", 0)
       ELSE Reply(q, "failed", 0)
    /\ UNCHANGED modem

Perform(q) ==
    \/ /\ q.what = "proxy" /\ Reply(q, "ok", 0) /\ UNCHANGED modem
    \/ /\ q.what = "alloc"
       /\ ids' = ids \cup {q.req} /\ Reply(q, "ok", q.req)
       /\ UNCHANGED <<active, ready, open>>
    \/ /\ q.what = "release"
       /\ ids' = ids \ {q.arg} /\ Reply(q, "ok", q.arg)
       /\ UNCHANGED <<active, ready, open>>
    \/ /\ q.what = "slotStatus" /\ ~legacy /\ Reply(q, "ok", active) /\ UNCHANGED modem
    \/ /\ q.what = "switch" /\ q.arg \in Slots
       /\ active' = q.arg /\ ready' = FALSE /\ open' = {} /\ Reply(q, "ok", 0)
       /\ UNCHANGED ids
    \/ /\ q.what = "cardStatus" /\ Reply(q, "ok", IF ready THEN 1 ELSE 0)
       /\ UNCHANGED modem
    \/ /\ q.what = "open"
       /\ \E ch \in Channels \ open :
             open' = open \cup {ch} /\ Reply(q, "ok", ch)
       /\ UNCHANGED <<active, ready, ids>>
    \/ /\ q.what = "close" /\ q.arg \in open
       /\ open' = open \ {q.arg} /\ Reply(q, "ok", 0)
       /\ UNCHANGED <<active, ready, ids>>
    \/ /\ q.what = "apdu" /\ q.arg \in open
       /\ Reply(q, "ok", 0) /\ UNCHANGED modem

Handle ==
    /\ queue # <<>>
    /\ queue' = Tail(queue)
    /\ \/ Refuse(Head(queue))
       \/ Perform(Head(queue))
       \/ UNCHANGED <<inbox, modem>>        \* lost, or its write failed
    /\ UNCHANGED <<client, link, txn, msg, done, synced, history, abandoned, mixed, answer, refusal>>

CardReady ==
    /\ ~ready
    /\ ready' = TRUE
    /\ UNCHANGED <<client, link, txn, msg, done, queue, inbox, synced, active, open, ids,
                   history, abandoned, mixed, answer, refusal>>

\* The control service's sync indication: no TLVs, client 0, transaction 0.
Sync ==
    /\ kind = "qmux" /\ link # "closed" /\ syncs < MaxSyncs
    /\ syncs' = syncs + 1
    /\ inbox' = Append(inbox, [type |-> "indication", req |-> 0, client |-> 0,
                               what |-> "none", status |-> "ok", val |-> 0])
    /\ UNCHANGED <<client, link, txn, msg, done, queue, synced, modem, want, legacy, calls,
                   connects, abandoned, mixed, answer, refusal>>

-----------------------------------------------------------------------------
Next ==
    \/ NewQMI \/ NewQRTR \/ Connect \/ OpenLogicalChannel
    \/ \E ch \in Channels : CloseLogicalChannel(ch)
    \/ Transmit \/ Disconnect
    \/ ReadAnswer \/ SkipMessage \/ ReadFailure \/ ReadTimeout
    \/ HeaderCut \/ BodyCut \/ Garbled
    \/ Handle \/ CardReady \/ Sync

Spec == Init /\ [][Next]_vars

-----------------------------------------------------------------------------
(* Properties.                                                             *)

\* An answer is taken for that of another request only in two ways.  Over QRTR
\* the two requests are a whole number of transaction identifiers apart.  Over
\* QMUX a request was given up before, or a sync indication was taken for an
\* answer: by a request to the control service, whose client is zero too, in New
\* or in Disconnect, or when the transaction wraps to zero.
AnswersMatch ==
    answer.to # answer.by =>
        \/ kind = "qrtr" /\ (answer.to - answer.by) % TxnMod = 0
        \/ kind = "qmux" /\ answer.late
        \/ kind = "qmux" /\ answer.by = 0
              /\ (answer.msg \in ControlRequests \/ answer.to % TxnMod = 0)

\* A call fails by the refusal of another request only after one was given up: the
\* result TLV is looked at before the transaction is compared, so over QRTR too a
\* late refusal ends the exchange that reads it, whose own request may be done.
FailuresMatch == refusal.to # refusal.by => refusal.late /\ refusal.by < refusal.to

\* The first Connect to succeed has the configured slot active and, if it had
\* to switch, a card that is ready: the polls ask after the switch.  That needs
\* every answer the call took to be its own (~mixed): over QMUX one that another
\* request caused (AnswersMatch says when) may be read as the slot or as ready.
\* What earlier calls gave up or took does not matter.
ConnectMeansReady ==
    /\ done \in {"Connect", "ConnectSwitched"} /\ connects = 1 /\ ~mixed /\ msg = "none" =>
           active = want
    /\ done = "ConnectSwitched" /\ ~mixed /\ msg = "none" => ready

\* The channel that OpenLogicalChannel returns, and that Transmit will use, is
\* one the card has open until the next call, if the answer the call took was its
\* own (~mixed), whatever earlier calls gave up or took: the modem answers in the
\* order it was asked.  Over QMUX a late answer taken for that of the open
\* (AnswersMatch says when) may make a channel of another call's answer.
ChannelIsOpen ==
    done = "Open" /\ msg = "none" /\ ~mixed => channel \in open

\* A Disconnect that reports no error has given the client ID back, also when
\* answers were mixed up: no other answer decodes as that of the release.
ClientIDReturned ==
    done = "Disconnect" => ids = {}

\* ensureSlotActivated leaves the desired slot active, in every Connect that took
\* its own answers.
DesiredSlotActive ==
    done \in {"Connect", "ConnectSwitched"} /\ ~mixed /\ msg = "none" => active = want
=============================================================================
