-------------------------------- MODULE Mbim --------------------------------
(***************************************************************************)
(* The MBIM driver (driver/mbim): an MBIM client on the stream socket of   *)
(* the mbim-proxy.  MBIM.mu lets one call run at a time, and a call makes  *)
(* one exchange after another; msg is the one that runs, "none" between    *)
(* calls.  Disconnect may be called while another call holds the mutex.    *)
(*                                                                         *)
(* A message longer than a control transfer is sent as fragments, and an   *)
(* answer may come as fragments, between the fragments of which other      *)
(* messages come.  The device is external: it answers when it likes, may   *)
(* stop inside an answer, and what comes late stays in the socket.         *)
(***************************************************************************)
EXTENDS Integers, Sequences, FiniteSets

CONSTANTS
    Slots,              \* slots of the device, counted from 0
    Channels,           \* logical channels the card may open
    MaxControlTransfer, \* maxControlTransfer: 4096 in the code
    APDUSizes,          \* lengths of the messages that carry an APDU
    MaxFragments,       \* fragments of an answer that is fragmented
    Attempts,           \* slotActivationAttempts: 10 in the code
    MaxCalls,           \* bound on the calls before Disconnect
    MaxIndications      \* bound on the device's indications

ASSUME SlotsAssumption == Slots \subseteq Nat /\ Channels \subseteq Nat \ {0}
ASSUME SizesAssumption ==
    /\ MaxControlTransfer \in Nat /\ MaxControlTransfer > 48
    /\ APDUSizes \subseteq Nat /\ \A n \in APDUSizes : n >= 48
ASSUME BoundsAssumption ==
    /\ MaxFragments \in Nat \ {0} /\ Attempts \in Nat \ {0}
    /\ MaxCalls \in Nat /\ MaxIndications \in Nat

VARIABLES
    link,       \* "up" or "closed": MBIM.conn
    slot, channel, txn,         \* MBIM
    msg, attempt,               \* the exchange that runs
    done,       \* what the last call came to
    disconnect, \* the Disconnect of another goroutine
    collector,  \* fragments collected of the answer, <<>> for nil
    queue,      \* frames the device has not read
    inbox,      \* frames the client has not read
    synced,     \* the stream is at the start of a frame
    active, ready, open,        \* the device
    calls, indications,         \* bounds
    answer      \* history: the frames taken for the answer to request answer.to

device == <<active, ready, open>>
vars   == <<link, slot, channel, txn, msg, attempt, done, disconnect, collector, queue,
            inbox, synced, device, calls, indications, answer>>

Commands  == {"proxyConfig", "slotQuery", "slotSet", "readyStatus", "openChannel",
              "closeChannel", "apdu"}
Exchanges == Commands \cup {"open", "close"}
Outcomes  == {"none", "error", "Connect", "ConnectSwitched", "Open", "Close", "Transmit"}
Types     == {"openDone", "closeDone", "commandDone", "functionError", "indicateStatus"}

Sent == [txn : Nat, what : Exchanges, arg : Nat, total : Nat, current : Nat,
         size : Nat, from : Nat, to : Nat]
Frame == [type : Types, txn : Nat, total : Nat, current : Nat,
          status : {"ok", "failed"}, val : Nat]

TypeOK ==
    /\ link \in {"up", "closed"}
    /\ slot \in Slots /\ channel \in Nat /\ txn \in Nat
    /\ msg \in Exchanges \cup {"none"} /\ attempt \in 0..(Attempts - 1)
    /\ done \in Outcomes
    /\ disconnect \in {"no", "waiting", "running", "returned"}
    /\ collector \in Seq(Frame) /\ Len(collector) < MaxFragments
    /\ msg = "none" => collector = <<>>
    /\ queue \in Seq(Sent) /\ inbox \in Seq(Frame) /\ synced \in BOOLEAN
    /\ active \in Slots /\ ready \in BOOLEAN /\ open \subseteq Channels
    /\ calls \in Nat /\ indications \in Nat
    /\ answer \in [to : Nat, frames : Seq(Frame)]

\* New has dialed the proxy.
Init ==
    /\ link = "up" /\ slot \in Slots /\ channel = 0 /\ txn = 0
    /\ msg = "none" /\ attempt = 0 /\ done = "none" /\ disconnect = "no"
    /\ collector = <<>> /\ queue = <<>> /\ inbox = <<>> /\ synced = TRUE
    /\ active \in Slots /\ ready = TRUE /\ open = {}
    /\ calls = 0 /\ indications = 0
    /\ answer = [to |-> 0, frames |-> <<>>]

-----------------------------------------------------------------------------
(* Frames: how a message of n bytes is written.                            *)

\* Mutant: the last, shorter, fragment is not counted.
TotalRoundedDown(n) == (n - 20) \div (MaxControlTransfer - 20)

FragmentTotal(n) ==
    (n - 20 + (MaxControlTransfer - 20) - 1) \div (MaxControlTransfer - 20)

Frames(n) ==
    LET room  == MaxControlTransfer - 20
        count == Cardinality({k \in 0..n : k * room < n - 20})
    IN  IF n <= MaxControlTransfer
        THEN <<[total |-> 1, current |-> 0, from |-> 20, to |-> n]>>
        ELSE [i \in 1..count |->
                 [total |-> FragmentTotal(n), current |-> i - 1, from |-> 20 + (i - 1) * room,
                  to |-> IF i < count THEN 20 + i * room ELSE n]]

WriteTo(m, arg, n) ==
    [i \in DOMAIN Frames(n) |->
        [txn |-> txn + 1, what |-> m, arg |-> arg, size |-> n, total |-> Frames(n)[i].total,
         current |-> Frames(n)[i].current, from |-> Frames(n)[i].from, to |-> Frames(n)[i].to]]

Send(m, arg, n) ==
    /\ link = "up"
    /\ msg' = m /\ txn' = txn + 1 /\ queue' = queue \o WriteTo(m, arg, n)
    /\ UNCHANGED <<link, done>>

\* Every message but an APDU's is short.
Ask(m, arg) == Send(m, arg, 48)

ProxyConfig  == Ask("proxyConfig", 0)
OpenDevice   == Ask("open", 0)
QuerySlot    == Ask("slotQuery", 0)
SetSlot      == Ask("slotSet", slot)
ReadyStatus  == Ask("readyStatus", 0)
OpenChannel  == Ask("openChannel", 0)
CloseChannel == Ask("closeChannel", channel)
APDU(n)      == Send("apdu", channel, n)
CloseDevice  == Ask("close", 0)

Return(d) == msg' = "none" /\ done' = d /\ UNCHANGED <<txn, queue>>

-----------------------------------------------------------------------------
(* The calls.  On a closed connection the write fails.                     *)

StartCall ==
    /\ msg = "none" /\ calls < MaxCalls /\ disconnect # "returned"
    /\ calls' = calls + 1
    /\ UNCHANGED <<slot, channel, attempt, disconnect, collector, inbox, synced, device,
                   indications, answer>>

WriteFails == link = "closed" /\ Return("error") /\ UNCHANGED link

Connect             == StartCall /\ (ProxyConfig \/ WriteFails)
OpenLogicalChannel  == StartCall /\ (OpenChannel \/ WriteFails)
CloseLogicalChannel == StartCall /\ (CloseChannel \/ WriteFails)
Transmit(n)         == StartCall /\ (APDU(n) \/ WriteFails)

CallDisconnect ==
    /\ disconnect = "no" /\ disconnect' = "waiting"
    /\ UNCHANGED <<link, slot, channel, txn, msg, attempt, done, collector, queue, inbox,
                   synced, device, calls, indications, answer>>

\* It has the mutex.
Disconnect ==
    /\ disconnect = "waiting" /\ msg = "none"
    /\ \/ CloseDevice /\ disconnect' = "running"
       \/ WriteFails /\ disconnect' = "returned"
    /\ UNCHANGED <<slot, channel, attempt, collector, inbox, synced, device, calls,
                   indications, answer>>

-----------------------------------------------------------------------------
(* What an exchange that ended makes of the call.                          *)

ConnectExchanges == {"proxyConfig", "open", "slotQuery", "slotSet", "readyStatus"}

\* Connect closes the connection on any error, Disconnect on success too.
Fail ==
    /\ IF msg \in ConnectExchanges \cup {"close"} THEN link' = "closed" ELSE UNCHANGED link
    /\ disconnect' = IF msg = "close" THEN "returned" ELSE disconnect
    /\ Return("error")
    /\ UNCHANGED <<channel, attempt>>

\* ensureSlotActivated, with currentActivatedSlot's answer v.
EnsureSlotActivated(v) ==
    IF v = slot THEN Return("Connect") /\ UNCHANGED link ELSE SetSlot

\* Mutant: any ready state will do.
WaitForAnyState(v) == Return("ConnectSwitched") /\ UNCHANGED <<link, attempt>>

\* waitForSlotActivation; v = 1 is Initialized or NoEsimProfile.
WaitForSlotActivation(v) ==
    \/ v = 1 /\ Return("ConnectSwitched") /\ UNCHANGED <<link, attempt>>
    \/ /\ v # 1 /\ attempt + 1 < Attempts
       /\ attempt' = attempt + 1 /\ ReadyStatus
    \/ /\ v # 1 /\ attempt + 1 = Attempts
       /\ Return("error") /\ link' = "closed" /\ UNCHANGED attempt

\* Transmit of an exchange returns no error; v is what the answer holds.
Succeed(v) ==
    \/ msg = "proxyConfig" /\ OpenDevice /\ UNCHANGED <<channel, attempt, disconnect>>
    \/ msg = "open" /\ QuerySlot /\ UNCHANGED <<channel, attempt, disconnect>>
    \/ msg = "slotQuery" /\ EnsureSlotActivated(v) /\ UNCHANGED <<channel, attempt, disconnect>>
    \/ /\ msg = "slotSet"
       /\ attempt' = 0 /\ ReadyStatus /\ UNCHANGED <<channel, disconnect>>
    \/ msg = "readyStatus" /\ WaitForSlotActivation(v) /\ UNCHANGED <<channel, disconnect>>
    \/ /\ msg = "openChannel"                   \* 0: the card's status is not 9000
       /\ IF v = 0 THEN Return("error") /\ UNCHANGED channel
                   ELSE Return("Open") /\ channel' = v
       /\ UNCHANGED <<link, attempt, disconnect>>
    \/ /\ msg = "closeChannel"
       /\ Return(IF v = 0 THEN "error" ELSE "Close")
       /\ UNCHANGED <<link, channel, attempt, disconnect>>
    \/ msg = "apdu" /\ Return("Transmit") /\ UNCHANGED <<link, channel, attempt, disconnect>>
    \/ /\ msg = "close"
       /\ link' = "closed" /\ disconnect' = "returned" /\ Return("none")
       /\ UNCHANGED <<channel, attempt>>

\* Transmit of an exchange returns an error.
FailExchange ==
    \/ msg = "readyStatus" /\ WaitForSlotActivation(0) /\ UNCHANGED <<channel, disconnect>>
    \/ msg # "readyStatus" /\ Fail

-----------------------------------------------------------------------------
(* Request.ReadFrom: one action per turn of its loop.                      *)

ResponseMessageType ==
    CASE msg = "open" -> "openDone" [] msg = "close" -> "closeDone" [] OTHER -> "commandDone"

\* Mutant: only the type of a message is looked at.
SkipsByType(m) == m.type \notin {ResponseMessageType, "functionError"}

Skips(m) == m.txn # txn \/ m.type \notin {ResponseMessageType, "functionError"}

Reading ==
    /\ msg # "none" /\ inbox # <<>> /\ synced /\ inbox' = Tail(inbox)
    /\ UNCHANGED <<slot, synced, device, calls, indications>>

SkipFrame ==
    /\ Reading /\ Skips(Head(inbox))
    /\ UNCHANGED <<link, channel, txn, msg, attempt, done, disconnect, collector, queue, answer>>

\* The frames of an answer that is complete: UnmarshalBinary.
Complete(fs) ==
    /\ collector' = <<>>
    /\ answer' = [to |-> txn, frames |-> fs]
    /\ IF Head(fs).type # "functionError" /\ Head(fs).status = "ok"
       THEN Succeed(Head(fs).val) ELSE FailExchange

Refused == collector' = <<>> /\ FailExchange /\ UNCHANGED answer

Unfragmented(m) == m.type # "commandDone" \/ (collector = <<>> /\ m.total <= 1)

ReadWhole ==
    LET m == Head(inbox)
    IN  Reading /\ ~Skips(m) /\ Unfragmented(m) /\ Complete(<<m>>)

\* newFragmentCollector
FirstFragment ==
    LET m == Head(inbox)
    IN  /\ Reading /\ ~Skips(m) /\ ~Unfragmented(m) /\ collector = <<>>
        /\ \/ /\ m.current # 0 /\ Refused
           \/ /\ m.current = 0 /\ collector' = <<m>>
              /\ UNCHANGED <<link, channel, txn, msg, attempt, done, disconnect, queue, answer>>

NextInOrder(m) == m.current = Len(collector) /\ m.total = Head(collector).total

IsLast(m) == Len(collector) + 1 = m.total

\* fragmentCollector.add
AddFragment ==
    LET m == Head(inbox)
    IN  /\ Reading /\ ~Skips(m) /\ ~Unfragmented(m) /\ collector # <<>>
        /\ \/ ~NextInOrder(m) /\ Refused
           \/ /\ NextInOrder(m) /\ IsLast(m)
              /\ Complete(Append(collector, m))
           \/ /\ NextInOrder(m) /\ ~IsLast(m)
              /\ collector' = Append(collector, m)
              /\ UNCHANGED <<link, channel, txn, msg, attempt, done, disconnect, queue, answer>>

\* Mutant: an answer that has begun keeps the call waiting.
TimeoutIfNothingCame ==
    /\ msg # "none" /\ collector = <<>>
    /\ Refused
    /\ UNCHANGED <<slot, inbox, synced, device, calls, indications>>

\* The request's time is over, or the connection fails.
ReadTimeout ==
    /\ msg # "none"
    /\ Refused
    /\ UNCHANGED <<slot, inbox, synced, device, calls, indications>>

\* A turn lasts a second.  One that ends inside the twelve bytes of a header
\* throws them away and goes on; one that ends inside the body is an error.
HeaderCut ==
    /\ msg # "none" /\ inbox # <<>> /\ synced
    /\ synced' = FALSE
    /\ UNCHANGED <<link, slot, channel, txn, msg, attempt, done, disconnect, collector,
                   queue, inbox, device, calls, indications, answer>>

BodyCut ==
    /\ msg # "none" /\ inbox # <<>> /\ synced
    /\ synced' = FALSE /\ Refused
    /\ UNCHANGED <<slot, inbox, device, calls, indications>>

\* What follows is read as a header: most often of an impossible length, else
\* of another transaction; then the stream may be at a frame's start again.
Garbled ==
    /\ msg # "none" /\ inbox # <<>> /\ ~synced
    /\ inbox' = Tail(inbox) /\ synced' \in BOOLEAN
    /\ \/ Refused
       \/ UNCHANGED <<link, channel, txn, msg, attempt, done, disconnect, collector, queue,
                      answer>>
    /\ UNCHANGED <<slot, device, calls, indications>>

-----------------------------------------------------------------------------
(* The device, behind the proxy.                                           *)

DoneType(what) ==
    CASE what = "open" -> "openDone" [] what = "close" -> "closeDone" [] OTHER -> "commandDone"

Answer(q, status, val, n) ==
    [i \in 1..n |-> [type |-> DoneType(q.what), txn |-> q.txn, total |-> n,
                     current |-> i - 1, status |-> status, val |-> val]]

\* An APDU is answered in one frame or in MaxFragments, or the device stops on
\* the way.
Reply(q, status, val) ==
    \E n \in IF q.what = "apdu" THEN {1, MaxFragments} ELSE {1} : \E k \in 1..n :
       inbox' = inbox \o SubSeq(Answer(q, status, val, n), 1, k)

FunctionError(q) ==
    inbox' = Append(inbox, [type |-> "functionError", txn |-> q.txn, total |-> 1,
                            current |-> 0, status |-> "failed", val |-> 0])

Perform(q) ==
    \/ q.what \in {"proxyConfig", "open", "close"} /\ Reply(q, "ok", 0) /\ UNCHANGED device
    \/ q.what = "slotQuery" /\ Reply(q, "ok", active) /\ UNCHANGED device
    \/ /\ q.what = "slotSet" /\ Reply(q, "ok", q.arg)
       /\ active' = q.arg /\ ready' = FALSE /\ open' = {}
    \/ q.what = "readyStatus" /\ Reply(q, "ok", IF ready THEN 1 ELSE 0) /\ UNCHANGED device
    \/ /\ q.what = "openChannel"
       /\ \/ \E ch \in Channels \ open : Reply(q, "ok", ch) /\ open' = open \cup {ch}
          \/ Reply(q, "ok", 0) /\ UNCHANGED open
       /\ UNCHANGED <<active, ready>>
    \/ /\ q.what = "closeChannel"
       /\ open' = open \ {q.arg} /\ Reply(q, "ok", IF q.arg \in open THEN 1 ELSE 0)
       /\ UNCHANGED <<active, ready>>
    \/ q.what = "apdu" /\ Reply(q, "ok", 0) /\ UNCHANGED device

\* It takes the frames that the first one announces as one message.
Handle ==
    LET q  == Head(queue)
        n  == IF q.total < Len(queue) THEN q.total ELSE Len(queue)
    IN  /\ queue # <<>>
        /\ queue' = SubSeq(queue, n + 1, Len(queue))
        /\ \/ Perform(q)
           \/ (Reply(q, "failed", 0) \/ FunctionError(q)) /\ UNCHANGED device
           \/ UNCHANGED <<inbox, device>>
        /\ UNCHANGED <<link, slot, channel, txn, msg, attempt, done, disconnect, collector,
                       synced, calls, indications, answer>>

CardReady ==
    /\ ~ready /\ ready' = TRUE
    /\ UNCHANGED <<link, slot, channel, txn, msg, attempt, done, disconnect, collector,
                   queue, inbox, synced, active, open, calls, indications, answer>>

\* An indication that comes between exchanges is read in the next one.
Indicate ==
    /\ msg # "none" /\ indications < MaxIndications /\ indications' = indications + 1
    /\ inbox' = Append(inbox, [type |-> "indicateStatus", txn |-> 0, total |-> 1,
                               current |-> 0, status |-> "ok", val |-> 0])
    /\ UNCHANGED <<link, slot, channel, txn, msg, attempt, done, disconnect, collector,
                   queue, synced, device, calls, answer>>

-----------------------------------------------------------------------------
Next ==
    \/ Connect \/ OpenLogicalChannel \/ CloseLogicalChannel
    \/ \E n \in APDUSizes : Transmit(n)
    \/ CallDisconnect \/ Disconnect
    \/ SkipFrame \/ ReadWhole \/ FirstFragment \/ AddFragment
    \/ ReadTimeout \/ HeaderCut \/ BodyCut \/ Garbled
    \/ Handle \/ CardReady \/ Indicate

\* The clock runs: an exchange does not outlast its ReadTimeout.  sync.Mutex
\* hands the lock to a goroutine that has waited for it.
Spec == Init /\ [][Next]_vars /\ WF_vars(ReadTimeout) /\ SF_vars(Disconnect)

-----------------------------------------------------------------------------
(* Properties.                                                             *)

\* What is taken for an answer is every frame of it, in order, and the answer
\* is to the request that was sent: late answers, interleaved messages and
\* pieces of a stream that was cut never become part of one.
AnswerIsWhole ==
    \A i \in 1..Len(answer.frames) :
       LET f == answer.frames[i]
       IN  f.txn = answer.to /\ f.current = i - 1 /\ f.total = Len(answer.frames)

\* The device gets a command of any length whole: the first frame announces as
\* many as there are, they follow one another, the last ends the message, and
\* none is longer than a control transfer.
CommandIsWhole ==
    \A i \in 1..Len(queue) :
       LET q == queue[i]
       IN  /\ 20 + q.to - q.from <= MaxControlTransfer
           /\ IF q.current = 0 THEN q.from = 20
              ELSE /\ i > 1 /\ queue[i-1].txn = q.txn
                   /\ queue[i-1].current = q.current - 1 /\ queue[i-1].to = q.from
           /\ q.to = q.size <=> q.current = q.total - 1

\* A Connect that succeeds, the first or a later one, has the configured slot
\* active and, if it had to switch, a card that is ready, even when polls
\* before it timed out and their answers came late.
ConnectMeansReady ==
    msg = "none" =>
        /\ done \in {"Connect", "ConnectSwitched"} => active = slot
        /\ done = "ConnectSwitched" => ready

\* Disconnect returns with the connection closed, whatever the call it waits
\* for is doing and whether the device answers or not.
DisconnectReturns ==
    disconnect = "waiting" ~> disconnect = "returned" /\ link = "closed"
=============================================================================
