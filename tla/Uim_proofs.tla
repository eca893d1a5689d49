------------------------------ MODULE Uim_proofs ------------------------------
(***************************************************************************)
(* Proofs about Uim, for any slots, channels, transaction identifiers and  *)
(* bounds.                                                                 *)
(*                                                                         *)
(* The modem answers in the order it was asked (Ordered), so the answer to *)
(* the running exchange finds no request behind it that could still change *)
(* the modem: what it says is true when it is read (Told).  Unless a       *)
(* request was given up, nothing else is on the way (InTime).              *)
(***************************************************************************)
EXTENDS Uim, SequenceTheorems, TLAPS

IsResponse(i) == inbox[i].type = "response"

\* Where the connection stands, and what it has.
Linked ==
    /\ msg \in {"proxy", "alloc"} => kind = "qmux" /\ link = "down"
    /\ msg \notin {"none", "proxy", "alloc"} => link = "up"
    /\ msg = "release" => kind = "qmux"
    /\ kind = "qmux" /\ link = "up" => cid # 0
    /\ link = "down" /\ msg = "none" => txn = 0 /\ queue = <<>>
    /\ link = "closed" => msg = "none"
    /\ connects = 0 => slot = want

\* Requests are answered in the order they were made, each at most once.
Ordered ==
    /\ msg # "none" => txn > 0
    /\ \A i \in 1..Len(queue) : queue[i].req \in 1..txn
    /\ \A i, j \in 1..Len(queue) : i < j => queue[i].req < queue[j].req
    /\ \A i \in 1..Len(inbox) : IsResponse(i) =>
          /\ inbox[i].req \in 1..txn
          /\ \A j \in 1..Len(queue) : inbox[i].req < queue[j].req
    /\ \A i, j \in 1..Len(inbox) :
          i < j /\ IsResponse(i) /\ IsResponse(j) => inbox[i].req < inbox[j].req

\* What is not a response is a sync indication.
SyncMessage == [type |-> "indication", req |-> 0, client |-> 0,
                what |-> "none", status |-> "ok", val |-> 0]
Indications ==
    \A i \in 1..Len(inbox) : ~IsResponse(i) => kind = "qmux" /\ inbox[i] = SyncMessage

InTime == ~abandoned =>
    /\ synced
    /\ \A i \in 1..Len(queue) : queue[i].req = txn
    /\ \A i \in 1..Len(inbox) : IsResponse(i) => inbox[i].req = txn
    /\ msg = "none" => queue = <<>> /\ \A i \in 1..Len(inbox) : ~IsResponse(i)

\* The request that waits for its answer.
Waits == msg # "none" =>
    \A i \in 1..Len(queue) : queue[i].req = txn =>
        /\ queue[i].what = msg
        /\ msg = "switch" => queue[i].arg = slot
        /\ msg = "release" => queue[i].arg = cid

\* A good answer to it is still true.
Says(m) ==
    m.req = txn /\ msg # "none" =>
        /\ m.what = msg
        /\ m.status = "ok" =>
             /\ msg = "alloc" => m.val = txn
             /\ msg = "slotStatus" => m.val = active
             /\ msg = "switch" => active = slot
             /\ msg = "cardStatus" /\ m.val = 1 => ready
             /\ msg = "open" => m.val \in open
             /\ msg = "release" => ids = {}
Told == \A i \in 1..Len(inbox) : IsResponse(i) => Says(inbox[i])

\* The polls of the card follow the switch.
Switched == msg = "cardStatus" /\ ~mixed =>
    active = slot /\ \A i \in 1..Len(queue) : queue[i].what # "switch"

\* After a call that took its own answer the modem has nothing left to do.
Rests == msg = "none" /\ ~mixed /\ done \in {"Connect", "ConnectSwitched", "Open"} =>
    queue = <<>>

\* Only the exchange that runs is about a client ID.
Carried(m) == m.what \in Carries0x01 /\ m.status = "ok"
Pending == link # "closed" =>
    /\ \A i \in 1..Len(queue) : queue[i].what \in Carries0x01 =>
          queue[i].req = txn /\ queue[i].what = msg
    /\ \A i \in 1..Len(inbox) : Carried(inbox[i]) =>
          inbox[i].req = txn /\ inbox[i].what = msg

\* The IDs the modem has given out.
NoAlloc == \A i \in 1..Len(queue) : queue[i].what # "alloc"
Returned ==
    /\ kind = "qrtr" => ids = {} /\ NoAlloc
    /\ link = "down" /\ msg # "alloc" => ids = {}
    /\ msg = "alloc" => ids \subseteq {txn}
    /\ link = "up" => ids \subseteq {cid}
    /\ done = "Disconnect" => link = "closed" /\ ids = {} /\ NoAlloc

USE SlotsAssumption, WidthAssumption, BoundsAssumption

-----------------------------------------------------------------------------
(* Steps.                                                                  *)

\* The next exchange of a call, and its end.
Ask(m, arg) ==
    /\ msg' = m /\ txn' = txn + 1
    /\ queue' = Append(queue, [req |-> txn + 1, what |-> m, arg |-> arg])
Ends == msg' = "none" /\ UNCHANGED <<txn, queue>>

\* What a call asks for next.
AsksNext ==
    \E m \in Exchanges, arg \in Nat :
        /\ Ask(m, arg)
        /\ m = "switch" => arg = slot /\ slot' = slot
        /\ m = "release" => arg = cid /\ cid' = cid

LEMMA SendAsks ==
    ASSUME NEW m \in Exchanges, NEW arg \in Nat, Send(m, arg),
           m = "switch" => arg = slot /\ slot' = slot,
           m = "release" => arg = cid /\ cid' = cid
    PROVE  AsksNext /\ UNCHANGED <<link, done>>
BY DEF AsksNext, Ask, Send

LEMMA ExchangesAre ==
    /\ "proxy" \in Exchanges /\ "alloc" \in Exchanges /\ "release" \in Exchanges
    /\ "slotStatus" \in Exchanges /\ "switch" \in Exchanges /\ "cardStatus" \in Exchanges
    /\ "open" \in Exchanges /\ "close" \in Exchanges /\ "apdu" \in Exchanges
    /\ "none" \notin Exchanges
BY DEF Exchanges

\* The client when an exchange has failed.
LEMMA FailMoves ==
    ASSUME TypeOK, Linked, NEW status, Fail(status), msg # "none"
    PROVE  /\ \/ AsksNext /\ msg' = "cardStatus" /\ msg = "cardStatus"
                 /\ UNCHANGED <<link, done, slot, connects>>
              \/ Ends /\ done' \in {"error", "ConnectUnsupported"}
                 /\ link' \in {link, "closed"} /\ (link = "down" => link' = "closed")
                 /\ (msg \in {"proxy", "alloc", "release"} => link' = "closed")
                 /\ slot' \in {slot, 1} /\ connects' \in {connects, connects + 1}
                 /\ (slot' # slot => connects' = connects + 1)
           /\ attempt' \in 0..(Attempts - 1)
           /\ UNCHANGED <<kind, cid, channel>>
<1>1. CASE msg = "slotStatus" /\ status = "unsupported"
  BY <1>1 DEF Fail, ControlRequests, Return, Ends, TypeOK, Linked
<1>2. CASE msg = "cardStatus"
  <2>1. WaitForSlotActivation(0) /\ UNCHANGED <<kind, cid, channel>>
    BY <1>2 DEF Fail, ControlRequests
  <2>2. CASE attempt + 1 < Attempts
    <3>1. attempt' = attempt + 1 /\ Send("cardStatus", 0) /\ UNCHANGED <<slot, connects>>
      BY <2>1, <2>2 DEF WaitForSlotActivation, TypeOK
    <3>2. AsksNext /\ UNCHANGED <<link, done>>
      BY <3>1, SendAsks, ExchangesAre
    <3> QED
      BY <1>2, <2>1, <2>2, <3>1, <3>2 DEF Send, TypeOK
  <2>3. CASE ~(attempt + 1 < Attempts)
    <3>1. Return("error") /\ UNCHANGED <<link, attempt, slot, connects>>
      BY <2>1, <2>3 DEF WaitForSlotActivation
    <3> QED
      BY <1>2, <2>1, <3>1 DEF Return, Ends, Linked, TypeOK
  <2> QED
    BY <2>2, <2>3
<1>3. CASE msg \in {"proxy", "alloc", "release"}
  BY <1>3 DEF Fail, ControlRequests, Return, Ends, client, TypeOK
<1>4. CASE msg \in {"switch", "open", "close", "apdu"} \/ (msg = "slotStatus" /\ status # "unsupported")
  BY <1>4 DEF Fail, ControlRequests, Return, Ends, client, TypeOK, Linked
<1> QED
  BY <1>1, <1>2, <1>3, <1>4 DEF TypeOK, Exchanges

\* The client when an exchange has succeeded.
Continues(v) ==
    /\ <<msg, msg'>> \in {<<"proxy", "alloc">>, <<"slotStatus", "switch">>,
                          <<"switch", "cardStatus">>, <<"cardStatus", "cardStatus">>}
    /\ AsksNext /\ UNCHANGED <<link, done, slot, cid, channel, connects>>

Completes(v) ==
    /\ Ends /\ msg \notin {"proxy", "switch"}
    /\ IF msg = "alloc" THEN cid' = v /\ link' = "up" /\ done' = "New"
       ELSE IF msg = "release" THEN cid' = 0 /\ link' = "closed" /\ done' = "Disconnect"
       ELSE UNCHANGED <<cid, link>>
    /\ IF msg = "open" THEN channel' = v /\ done' = "Open" ELSE UNCHANGED channel
    /\ msg = "slotStatus" => done' = "Connect" /\ v = slot /\ slot' = 1
    /\ msg = "cardStatus" => \/ done' = "ConnectSwitched" /\ v = 1 /\ slot' = 1
                             \/ done' = "error" /\ UNCHANGED <<slot, connects>>
    /\ msg = "close" => done' = "Close"
    /\ msg = "apdu" => done' = "Transmit"
    /\ IF done' \in {"Connect", "ConnectSwitched"} THEN connects' = connects + 1
       ELSE UNCHANGED <<slot, connects>>

LEMMA SucceedMoves ==
    ASSUME TypeOK, Linked, NEW v \in Nat, Succeed(v), msg # "none"
    PROVE  /\ Continues(v) \/ Completes(v)
           /\ attempt' \in 0..(Attempts - 1) /\ kind' = kind
<1>1. CASE msg = "proxy"
  <2>1. Send("alloc", 0) /\ UNCHANGED <<client, connects>>
    BY <1>1 DEF Succeed
  <2>2. AsksNext /\ UNCHANGED <<link, done>> /\ msg' = "alloc"
    BY <2>1, SendAsks, ExchangesAre DEF Send
  <2> QED
    BY <1>1, <2>1, <2>2 DEF client, Continues, TypeOK
<1>2. CASE msg = "slotStatus"
  <2>1. EnsureSlotActivated(v) /\ UNCHANGED <<kind, cid, channel, attempt>>
    BY <1>2 DEF Succeed
  <2>2. CASE v = slot
    BY <1>2, <2>1, <2>2 DEF EnsureSlotActivated, Completes, Return, Ends, TypeOK
  <2>3. CASE v # slot
    <3>1. Send("switch", slot) /\ UNCHANGED <<slot, connects>> /\ slot \in Nat
      BY <2>1, <2>3 DEF EnsureSlotActivated, TypeOK
    <3>2. AsksNext /\ UNCHANGED <<link, done>> /\ msg' = "switch"
      BY <3>1, SendAsks, ExchangesAre DEF Send
    <3> QED
      BY <1>2, <2>1, <3>1, <3>2 DEF Continues, TypeOK
  <2> QED
    BY <2>2, <2>3
<1>3. CASE msg = "switch"
  <2>1. attempt' = 0 /\ Send("cardStatus", 0) /\ UNCHANGED <<kind, slot, cid, channel, connects>>
    BY <1>3 DEF Succeed
  <2>2. AsksNext /\ UNCHANGED <<link, done>> /\ msg' = "cardStatus"
    BY <2>1, SendAsks, ExchangesAre DEF Send
  <2> QED
    BY <1>3, <2>1, <2>2 DEF Continues, TypeOK
<1>4. CASE msg = "cardStatus"
  <2>1. WaitForSlotActivation(v) /\ UNCHANGED <<kind, cid, channel>>
    BY <1>4 DEF Succeed
  <2>2. CASE v = 1
    BY <1>4, <2>1, <2>2 DEF WaitForSlotActivation, Completes, Return, Ends, TypeOK
  <2>3. CASE v # 1 /\ attempt + 1 < Attempts
    <3>1. attempt' = attempt + 1 /\ Send("cardStatus", 0) /\ UNCHANGED <<slot, connects>>
      BY <2>1, <2>3 DEF WaitForSlotActivation, TypeOK
    <3>2. AsksNext /\ UNCHANGED <<link, done>> /\ msg' = "cardStatus"
      BY <3>1, SendAsks, ExchangesAre DEF Send
    <3> QED
      BY <1>4, <2>1, <2>3, <3>1, <3>2 DEF Continues, TypeOK
  <2>4. CASE v # 1 /\ ~(attempt + 1 < Attempts)
    BY <1>4, <2>1, <2>4 DEF WaitForSlotActivation, Completes, Return, Ends, TypeOK
  <2> QED
    BY <2>2, <2>3, <2>4
<1>5. CASE msg \in {"alloc", "open", "close", "apdu", "release"}
  BY <1>5 DEF Succeed, AllocateClientID, ChannelOpened, Completes, Return, Ends, client, TypeOK
<1> QED
  BY <1>1, <1>2, <1>3, <1>4, <1>5 DEF TypeOK, Exchanges

\* A call that begins, or is refused.
Calls == \/ NewQMI \/ NewQRTR \/ Connect \/ OpenLogicalChannel
         \/ \E ch \in Channels : CloseLogicalChannel(ch)
         \/ Transmit \/ Disconnect

Begins ==
    /\ AsksNext /\ UNCHANGED <<link, done>>
    /\ \/ msg' = "proxy" /\ kind = "qmux" /\ link = "down"
       \/ msg' \notin {"proxy", "alloc", "switch", "cardStatus"} /\ link = "up"
    /\ msg' = "release" => kind = "qmux" /\ cid # 0

Refused ==
    /\ Ends
    /\ \/ done' = "New" /\ kind = "qrtr" /\ link = "down" /\ link' = "up"
       \/ done' = "error" /\ link = "down" /\ link' = "closed" /\ kind = "qrtr"
       \/ done' = "error" /\ link = "up" /\ link' = "up"
       \/ done' = "Disconnect" /\ link = "up" /\ link' = "closed" /\ ~(kind = "qmux" /\ cid # 0)

LEMMA CallMoves ==
    ASSUME TypeOK, Calls
    PROVE  /\ msg = "none" /\ (Begins \/ Refused)
           /\ UNCHANGED <<client, inbox, synced, modem, want, legacy, connects, syncs,
                          abandoned, answer, refusal>>
           /\ calls' \in Nat
<1>1. CASE NewQMI
  <2>1. AsksNext /\ UNCHANGED <<link, done>>
    BY <1>1, SendAsks, ExchangesAre DEF NewQMI
  <2> QED
    BY <1>1, <2>1 DEF NewQMI, Begins, Send, history, TypeOK
<1>2. CASE NewQRTR
  BY <1>2 DEF NewQRTR, Refused, Return, Ends, history, TypeOK
<1>3. CASE Connect
  <2>1. AsksNext /\ UNCHANGED <<link, done>>
    BY <1>3, SendAsks, ExchangesAre DEF Connect
  <2> QED
    BY <1>3, <2>1 DEF Connect, StartCall, Begins, Send, TypeOK
<1>4. CASE OpenLogicalChannel
  <2>1. CASE Send("open", 0)
    <3>1. AsksNext /\ UNCHANGED <<link, done>>
      BY <2>1, SendAsks, ExchangesAre
    <3> QED
      BY <1>4, <2>1, <3>1 DEF OpenLogicalChannel, StartCall, Begins, Send, TypeOK
  <2>2. CASE Return("error") /\ UNCHANGED link
    BY <1>4, <2>2 DEF OpenLogicalChannel, StartCall, Refused, Return, Ends, TypeOK
  <2> QED
    BY <1>4, <2>1, <2>2 DEF OpenLogicalChannel
<1>5. ASSUME NEW ch \in Channels, CloseLogicalChannel(ch)
      PROVE  /\ msg = "none" /\ Begins
             /\ UNCHANGED <<client, inbox, synced, modem, want, legacy, connects, syncs,
                            abandoned, answer, refusal>>
             /\ calls' \in Nat
  <2>1. AsksNext /\ UNCHANGED <<link, done>>
    BY <1>5, SendAsks, ExchangesAre DEF CloseLogicalChannel
  <2> QED
    BY <1>5, <2>1 DEF CloseLogicalChannel, StartCall, Begins, Send, TypeOK
<1>6. CASE Transmit
  <2>1. CASE Send("apdu", channel)
    <3>1. AsksNext /\ UNCHANGED <<link, done>>
      BY <2>1, SendAsks, ExchangesAre DEF TypeOK
    <3> QED
      BY <1>6, <2>1, <3>1 DEF Transmit, StartCall, Begins, Send, TypeOK
  <2>2. CASE Return("error") /\ UNCHANGED link
    BY <1>6, <2>2 DEF Transmit, StartCall, Refused, Return, Ends, TypeOK
  <2> QED
    BY <1>6, <2>1, <2>2 DEF Transmit
<1>7. CASE Disconnect
  <2>1. CASE kind = "qmux" /\ cid # 0 /\ Send("release", cid)
    <3>1. AsksNext /\ UNCHANGED <<link, done>>
      BY <1>7, <2>1, SendAsks, ExchangesAre DEF Disconnect, client, TypeOK
    <3> QED
      BY <1>7, <2>1, <3>1 DEF Disconnect, Begins, Send, TypeOK
  <2>2. CASE ~(kind = "qmux" /\ cid # 0) /\ link' = "closed" /\ Return("Disconnect")
    BY <1>7, <2>2 DEF Disconnect, Refused, Return, Ends, TypeOK
  <2> QED
    BY <1>7, <2>1, <2>2 DEF Disconnect
<1> QED
  BY <1>1, <1>2, <1>3, <1>4, <1>5, <1>6, <1>7 DEF Calls

\* A call that begins has taken no answer yet.
LEMMA CallForgets ==
    ASSUME TypeOK, Calls
    PROVE  mixed' \in BOOLEAN
<1>1. mixed \in BOOLEAN
  BY DEF TypeOK
<1>2. CASE NewQMI \/ NewQRTR \/ Disconnect
  <2>1. mixed' = mixed
    BY <1>2 DEF NewQMI, NewQRTR, Disconnect
  <2> QED
    BY <1>1, <2>1
<1>3. CASE Connect \/ OpenLogicalChannel \/ (\E ch \in Channels : CloseLogicalChannel(ch)) \/ Transmit
  <2>1. mixed' = FALSE
    BY <1>3 DEF Connect, OpenLogicalChannel, CloseLogicalChannel, Transmit, StartCall
  <2> QED
    BY <2>1
<1> QED
  BY <1>2, <1>3 DEF Calls

-----------------------------------------------------------------------------
(* The modem.                                                              *)

\* Its answer m to the request q, and what it did.
Answers(q, m) ==
    /\ inbox' = Append(inbox, m) /\ m \in Messages
    /\ m.type = "response" /\ m.req = q.req /\ m.what = q.what
    /\ IF m.status # "ok" THEN UNCHANGED modem
       ELSE /\ q.what = "slotStatus" => m.val = active
            /\ q.what = "cardStatus" /\ m.val = 1 => ready
            /\ q.what = "open" => m.val \in open'
            /\ IF q.what = "switch" THEN active' = q.arg
               ELSE UNCHANGED <<active, ready>>
            /\ IF q.what = "alloc" THEN m.val = q.req /\ ids' = ids \cup {q.req}
               ELSE IF q.what = "release" THEN m.val = q.arg /\ ids' = ids \ {q.arg}
               ELSE UNCHANGED ids

LEMMA ReplyAnswers ==
    ASSUME TypeOK, NEW q \in Requests, NEW status \in {"ok", "failed", "unsupported"},
           NEW val \in Nat, Reply(q, status, val)
    PROVE  \E m \in Messages : /\ inbox' = Append(inbox, m) /\ m.type = "response"
                               /\ m.req = q.req /\ m.what = q.what
                               /\ m.status = status /\ m.val = val
<1> DEFINE m == [type |-> "response", req |-> q.req,
                 client |-> IF q.what \in ControlRequests THEN 0 ELSE cid,
                 what |-> q.what, status |-> status, val |-> val]
<1>1. m \in Messages
  BY DEF Messages, Requests, TypeOK
<1>2. inbox' = Append(inbox, m)
  BY DEF Reply
<1> QED
  BY <1>1, <1>2

LEMMA PerformAnswers ==
    ASSUME TypeOK, NEW q \in Requests, q.req > 0, Perform(q)
    PROVE  /\ \E m \in Messages : Answers(q, m)
           /\ active' \in Slots /\ ready' \in BOOLEAN /\ open' \subseteq Channels
           /\ ids' \subseteq Nat \ {0}
<1> USE DEF modem
<1>0. q.req \in Nat /\ q.arg \in Nat /\ active \in Nat
  BY DEF Requests, TypeOK
<1>1. CASE q.what \in {"proxy", "close", "apdu"}
  <2>1. Reply(q, "ok", 0) /\ UNCHANGED <<active, ready, ids>> /\ open' \subseteq open
    BY <1>1 DEF Perform
  <2>2. PICK m \in Messages : /\ inbox' = Append(inbox, m) /\ m.type = "response"
                              /\ m.req = q.req /\ m.what = q.what
                              /\ m.status = "ok" /\ m.val = 0
    BY <1>0, <2>1, ReplyAnswers
  <2>3. Answers(q, m)
    BY <1>1, <2>1, <2>2 DEF Answers
  <2> QED
    BY <1>0, <2>1, <2>3 DEF TypeOK
<1>2. CASE q.what = "alloc"
  <2>1. ids' = ids \cup {q.req} /\ Reply(q, "ok", q.req) /\ UNCHANGED <<active, ready, open>>
    BY <1>2 DEF Perform
  <2>2. PICK m \in Messages : /\ inbox' = Append(inbox, m) /\ m.type = "response"
                              /\ m.req = q.req /\ m.what = q.what
                              /\ m.status = "ok" /\ m.val = q.req
    BY <1>0, <2>1, ReplyAnswers
  <2>3. Answers(q, m)
    BY <1>2, <2>1, <2>2 DEF Answers
  <2>4. q.req \in Nat \ {0} /\ ids \subseteq Nat \ {0}
    BY <1>0 DEF TypeOK
  <2>5. ids' \subseteq Nat \ {0}
    BY <2>1, <2>4
  <2> QED
    BY <2>1, <2>3, <2>5 DEF TypeOK
<1>3. CASE q.what = "release"
  <2>1. ids' = ids \ {q.arg} /\ Reply(q, "ok", q.arg) /\ UNCHANGED <<active, ready, open>>
    BY <1>3 DEF Perform
  <2>2. PICK m \in Messages : /\ inbox' = Append(inbox, m) /\ m.type = "response"
                              /\ m.req = q.req /\ m.what = q.what
                              /\ m.status = "ok" /\ m.val = q.arg
    BY <1>0, <2>1, ReplyAnswers
  <2>3. Answers(q, m)
    BY <1>3, <2>1, <2>2 DEF Answers
  <2> QED
    BY <1>0, <2>1, <2>3 DEF TypeOK
<1>4. CASE q.what = "slotStatus"
  <2>1. Reply(q, "ok", active) /\ UNCHANGED <<active, ready, open, ids>>
    BY <1>4 DEF Perform
  <2>2. PICK m \in Messages : /\ inbox' = Append(inbox, m) /\ m.type = "response"
                              /\ m.req = q.req /\ m.what = q.what
                              /\ m.status = "ok" /\ m.val = active
    BY <1>0, <2>1, ReplyAnswers
  <2>3. Answers(q, m)
    BY <1>4, <2>1, <2>2 DEF Answers
  <2> QED
    BY <1>0, <2>1, <2>3 DEF TypeOK
<1>5. CASE q.what = "switch"
  <2>1. /\ q.arg \in Slots /\ active' = q.arg /\ ready' = FALSE /\ open' = {}
        /\ Reply(q, "ok", 0) /\ UNCHANGED ids
    BY <1>5 DEF Perform
  <2>2. PICK m \in Messages : /\ inbox' = Append(inbox, m) /\ m.type = "response"
                              /\ m.req = q.req /\ m.what = q.what
                              /\ m.status = "ok" /\ m.val = 0
    BY <1>0, <2>1, ReplyAnswers
  <2>3. Answers(q, m)
    BY <1>5, <2>1, <2>2 DEF Answers
  <2> QED
    BY <1>0, <2>1, <2>3 DEF TypeOK
<1>6. CASE q.what = "cardStatus"
  <2>1. Reply(q, "ok", IF ready THEN 1 ELSE 0) /\ UNCHANGED <<active, ready, open, ids>>
    BY <1>6 DEF Perform
  <2>2. PICK m \in Messages : /\ inbox' = Append(inbox, m) /\ m.type = "response"
                              /\ m.req = q.req /\ m.what = q.what
                              /\ m.status = "ok" /\ m.val = IF ready THEN 1 ELSE 0
    BY <2>1, ReplyAnswers
  <2> QED
    BY <1>6, <2>1, <2>2 DEF Answers, TypeOK
<1>7. CASE q.what = "open"
  <2>1. PICK ch \in Channels \ open :
          open' = open \cup {ch} /\ Reply(q, "ok", ch) /\ UNCHANGED <<active, ready, ids>>
    BY <1>7 DEF Perform
  <2>0. ch \in Nat
    OBVIOUS
  <2>2. PICK m \in Messages : /\ inbox' = Append(inbox, m) /\ m.type = "response"
                              /\ m.req = q.req /\ m.what = q.what
                              /\ m.status = "ok" /\ m.val = ch
    BY <2>0, <2>1, ReplyAnswers
  <2>3. Answers(q, m)
    BY <1>7, <2>1, <2>2 DEF Answers
  <2> QED
    BY <1>0, <2>1, <2>3 DEF TypeOK
<1> QED
  BY <1>1, <1>2, <1>3, <1>4, <1>5, <1>6, <1>7 DEF Perform

LEMMA HandleAnswers ==
    ASSUME TypeOK, Ordered, Handle
    PROVE  /\ queue # <<>> /\ queue' = Tail(queue) /\ Head(queue) \in Requests
           /\ Head(queue) = queue[1] /\ queue' \in Seq(Requests)
           /\ \/ UNCHANGED <<inbox, modem>>
              \/ \E m \in Messages : Answers(Head(queue), m)
           /\ active' \in Slots /\ ready' \in BOOLEAN /\ open' \subseteq Channels
           /\ ids' \subseteq Nat \ {0}
<1> DEFINE q == Head(queue)
<1>1. queue # <<>> /\ queue \in Seq(Requests) /\ queue' = Tail(queue)
  BY DEF Handle, TypeOK
<1>2. q \in Requests /\ q = queue[1] /\ queue' \in Seq(Requests) /\ 1 \in 1..Len(queue)
  BY <1>1
<1>3. q.req > 0
  BY <1>2 DEF Ordered, TypeOK
<1>4. CASE Refuse(q)
  <2>1. UNCHANGED modem
    BY <1>4 DEF Refuse
  <2>2. PICK status \in {"failed", "unsupported"} : Reply(q, status, 0)
    BY <1>4 DEF Refuse
  <2>3. PICK m \in Messages : /\ inbox' = Append(inbox, m) /\ m.type = "response"
                              /\ m.req = q.req /\ m.what = q.what
                              /\ m.status = status /\ m.val = 0
    BY <1>2, <2>2, ReplyAnswers
  <2>4. Answers(q, m)
    BY <2>1, <2>3 DEF Answers
  <2> QED
    BY <1>1, <1>2, <2>1, <2>4 DEF modem, TypeOK
<1>5. CASE Perform(q)
  BY <1>1, <1>2, <1>3, <1>5, PerformAnswers
<1>6. CASE UNCHANGED <<inbox, modem>>
  BY <1>1, <1>2, <1>6 DEF modem, TypeOK
<1> QED
  BY <1>4, <1>5, <1>6 DEF Handle

-----------------------------------------------------------------------------
(* Types.                                                                  *)

LEMMA AsksIsTyped ==
    ASSUME TypeOK, AsksNext
    PROVE  msg' \in Exchanges /\ txn' \in Nat /\ queue' \in Seq(Requests)
<1>1. PICK m \in Exchanges, arg \in Nat : Ask(m, arg)
  BY DEF AsksNext
<1>2. [req |-> txn + 1, what |-> m, arg |-> arg] \in Requests
  BY DEF Requests, TypeOK
<1> QED
  BY <1>1, <1>2 DEF Ask, TypeOK

LEMMA FailIsTyped ==
    ASSUME TypeOK, Linked, NEW status, Fail(status), msg # "none"
    PROVE  /\ msg' \in Exchanges \cup {"none"} /\ txn' \in Nat /\ queue' \in Seq(Requests)
           /\ kind' = kind /\ link' \in {"down", "up", "closed"} /\ done' \in Outcomes
           /\ slot' \in Slots \cup {1} /\ cid' \in Nat /\ channel' \in Nat
           /\ attempt' \in 0..(Attempts - 1) /\ connects' \in Nat
<1>1. AsksNext \/ Ends
  BY FailMoves
<1>2. msg' \in Exchanges \cup {"none"} /\ txn' \in Nat /\ queue' \in Seq(Requests)
  BY <1>1, AsksIsTyped DEF Ends, TypeOK
<1>3. done' \in Outcomes
  BY FailMoves DEF TypeOK, Outcomes
<1>4. link' \in {"down", "up", "closed"}
  BY FailMoves DEF TypeOK
<1>5. slot' \in {slot, 1} /\ connects' \in {connects, connects + 1}
  BY FailMoves
<1>6. slot' \in Slots \cup {1} /\ connects' \in Nat
  BY <1>5 DEF TypeOK
<1> QED
  BY <1>2, <1>3, <1>4, <1>6, FailMoves DEF TypeOK

LEMMA SucceedIsTyped ==
    ASSUME TypeOK, Linked, NEW v \in Nat, Succeed(v), msg # "none"
    PROVE  /\ msg' \in Exchanges \cup {"none"} /\ txn' \in Nat /\ queue' \in Seq(Requests)
           /\ kind' = kind /\ link' \in {"down", "up", "closed"} /\ done' \in Outcomes
           /\ slot' \in Slots \cup {1} /\ cid' \in Nat /\ channel' \in Nat
           /\ attempt' \in 0..(Attempts - 1) /\ connects' \in Nat
<1>1. CASE Continues(v)
  BY <1>1, SucceedMoves, AsksIsTyped DEF Continues, TypeOK
<1>2. CASE Completes(v)
  <2>1. msg \in {"alloc", "slotStatus", "cardStatus", "open", "close", "apdu", "release"}
    BY <1>2 DEF Completes, TypeOK, Exchanges
  <2>2. done' \in Outcomes /\ slot' \in Slots \cup {1} /\ connects' \in Nat
    BY <1>2, <2>1 DEF Completes, TypeOK, Outcomes
  <2>3. link' \in {"down", "up", "closed"} /\ cid' \in Nat /\ channel' \in Nat
    BY <1>2, <2>1 DEF Completes, TypeOK
  <2> QED
    BY <1>2, <2>2, <2>3, SucceedMoves DEF Completes, Ends, TypeOK
<1> QED
  BY <1>1, <1>2, SucceedMoves

\* What is decoded.
LEMMA DecodeIsNat ==
    ASSUME NEW m \in Messages, NEW v \in Decode(m), v # Bad, msg \in Exchanges
    PROVE  v \in Nat
<1> USE DEF Garbage, Messages
<1>1. CASE msg \in {"proxy", "switch", "close"}
  BY <1>1 DEF Decode
<1>2. CASE msg \in {"alloc", "release"}
  BY <1>2 DEF Decode, DecodeClientID
<1>3. CASE msg = "slotStatus"
  BY <1>3 DEF Decode, DecodeSlotStatus
<1>4. CASE msg = "cardStatus"
  BY <1>4 DEF Decode, DecodeCardStatus
<1>5. CASE msg = "open"
  BY <1>5 DEF Decode, DecodeChannel
<1>6. CASE msg = "apdu"
  BY <1>6 DEF Decode, DecodeAPDU
<1> QED
  BY <1>1, <1>2, <1>3, <1>4, <1>5, <1>6 DEF Exchanges

LEMMA HeadIsMessage ==
    ASSUME TypeOK, inbox # <<>>
    PROVE  /\ Head(inbox) \in Messages /\ Head(inbox) = inbox[1] /\ 1 \in 1..Len(inbox)
           /\ Tail(inbox) \in Seq(Messages) /\ Len(Tail(inbox)) = Len(inbox) - 1
           /\ \A i \in 1..Len(Tail(inbox)) :
                 i + 1 \in 1..Len(inbox) /\ Tail(inbox)[i] = inbox[i + 1]
<1>1. inbox \in Seq(Messages)
  BY DEF TypeOK
<1> QED
  BY <1>1

\* ReadAnswer takes a value, or the answer does not parse.
LEMMA AnswerMoves ==
    ASSUME TypeOK, ReadAnswer
    PROVE  LET m == Head(inbox)
           IN  /\ msg # "none" /\ msg \in Exchanges /\ inbox # <<>> /\ inbox' = Tail(inbox)
               /\ m.status = "ok" /\ ~Skips(m) /\ synced
               /\ mixed' = (mixed \/ m.req # txn) /\ abandoned' = (abandoned \/ m.req # txn)
               /\ answer' = [to |-> txn, by |-> m.req, msg |-> msg, late |-> abandoned]
               /\ \/ Fail("failed")
                  \/ \E v \in Decode(m) : v # Bad /\ v \in Nat /\ Succeed(v)
               /\ UNCHANGED <<synced, modem, want, legacy, calls, syncs, refusal>>
<1>1. Head(inbox) \in Messages /\ msg \in Exchanges
  BY HeadIsMessage DEF ReadAnswer, TypeOK
<1> QED
  BY <1>1, DecodeIsNat DEF ReadAnswer

LEMMA TypesKept ==
    ASSUME TypeOK, Linked, Ordered, [Next]_vars
    PROVE  TypeOK'
<1>1. CASE UNCHANGED vars
  BY <1>1 DEF vars, client, modem, history, TypeOK
<1>2. CASE Calls
  <2>1. /\ UNCHANGED <<client, inbox, synced, modem, want, legacy, connects, syncs,
                       abandoned, answer, refusal>>
        /\ calls' \in Nat /\ mixed' \in BOOLEAN
    BY <1>2, CallMoves, CallForgets
  <2>2. msg' \in Exchanges \cup {"none"} /\ txn' \in Nat /\ queue' \in Seq(Requests)
    BY <1>2, CallMoves, AsksIsTyped DEF Begins, Refused, Ends, TypeOK
  <2>3. link' \in {"down", "up", "closed"}
    BY <1>2, CallMoves DEF Begins, Refused, TypeOK
  <2>4. done' \in Outcomes
    BY <1>2, CallMoves DEF Begins, Refused, TypeOK, Outcomes
  <2> QED
    BY <2>1, <2>2, <2>3, <2>4 DEF client, modem, TypeOK
<1>3. CASE ReadAnswer
  <2> DEFINE m == Head(inbox)
  <2>1. /\ msg # "none" /\ msg \in Exchanges /\ inbox # <<>> /\ inbox' = Tail(inbox)
        /\ mixed' = (mixed \/ m.req # txn) /\ abandoned' = (abandoned \/ m.req # txn)
        /\ answer' = [to |-> txn, by |-> m.req, msg |-> msg, late |-> abandoned]
        /\ \/ Fail("failed")
           \/ \E v \in Nat : Succeed(v)
        /\ UNCHANGED <<synced, modem, want, legacy, calls, syncs, refusal>>
    BY <1>3, AnswerMoves
  <2>2. /\ msg' \in Exchanges \cup {"none"} /\ txn' \in Nat /\ queue' \in Seq(Requests)
        /\ kind' = kind /\ link' \in {"down", "up", "closed"} /\ done' \in Outcomes
        /\ slot' \in Slots \cup {1} /\ cid' \in Nat /\ channel' \in Nat
        /\ attempt' \in 0..(Attempts - 1) /\ connects' \in Nat
    BY <2>1, FailIsTyped, SucceedIsTyped
  <2>3. m.req \in Nat /\ inbox' \in Seq(Messages)
    BY <2>1, HeadIsMessage DEF Messages
  <2> HIDE DEF m
  <2>4. answer' \in [to : Nat, by : Nat, msg : Exchanges \cup {"none"}, late : BOOLEAN]
    BY <2>1, <2>3 DEF TypeOK
  <2> QED
    BY <2>1, <2>2, <2>3, <2>4 DEF modem, TypeOK
<1>4. CASE SkipMessage \/ HeaderCut
  <2>1. /\ UNCHANGED <<client, link, txn, msg, done, queue, modem, history, mixed, answer, refusal>>
        /\ inbox' \in Seq(Messages) /\ synced' \in BOOLEAN /\ abandoned' \in BOOLEAN
    BY <1>4, HeadIsMessage DEF SkipMessage, HeaderCut, TypeOK
  <2> QED
    BY <2>1 DEF client, modem, history, TypeOK
<1>5. CASE ReadFailure \/ ReadTimeout \/ BodyCut \/ Garbled
  <2>1. /\ msg # "none" /\ \E status : Fail(status)
        /\ inbox' \in Seq(Messages) /\ synced' \in BOOLEAN /\ abandoned' \in BOOLEAN
        /\ UNCHANGED <<modem, want, legacy, calls, syncs, mixed, answer>>
    BY <1>5, HeadIsMessage DEF ReadFailure, ReadTimeout, BodyCut, Garbled, TypeOK
  <2>2. /\ msg' \in Exchanges \cup {"none"} /\ txn' \in Nat /\ queue' \in Seq(Requests)
        /\ kind' = kind /\ link' \in {"down", "up", "closed"} /\ done' \in Outcomes
        /\ slot' \in Slots \cup {1} /\ cid' \in Nat /\ channel' \in Nat
        /\ attempt' \in 0..(Attempts - 1) /\ connects' \in Nat
    BY <2>1, FailIsTyped
  <2>3. refusal' \in [to : Nat, by : Nat, late : BOOLEAN]
    <3>1. CASE ReadFailure
      <4>1. /\ refusal' = [to |-> txn, by |-> Head(inbox).req, late |-> abandoned]
            /\ Head(inbox) \in Messages
        BY <3>1, HeadIsMessage DEF ReadFailure
      <4> QED
        BY <4>1 DEF Messages, TypeOK
    <3>2. CASE ReadTimeout \/ BodyCut \/ Garbled
      BY <3>2 DEF ReadTimeout, BodyCut, Garbled, TypeOK
    <3> QED
      BY <1>5, <3>1, <3>2
  <2> QED
    BY <2>1, <2>2, <2>3 DEF modem, TypeOK
<1>6. CASE Handle
  <2>1. UNCHANGED <<client, link, txn, msg, done, synced, history, abandoned, mixed, answer, refusal>>
    BY <1>6 DEF Handle
  <2>2. inbox' \in Seq(Messages)
    <3>1. inbox \in Seq(Messages)
      BY DEF TypeOK
    <3>2. inbox' = inbox \/ \E m \in Messages : inbox' = Append(inbox, m)
      BY <1>6, HandleAnswers DEF Answers
    <3> QED
      BY <3>1, <3>2
  <2> QED
    BY <1>6, <2>1, <2>2, HandleAnswers DEF client, history, TypeOK
<1>7. CASE CardReady
  BY <1>7 DEF CardReady, client, history, TypeOK
<1>8. CASE Sync
  <2>1. inbox' = Append(inbox, SyncMessage) /\ SyncMessage \in Messages /\ syncs' = syncs + 1
    BY <1>8 DEF Sync, SyncMessage, Messages
  <2> QED
    BY <1>8, <2>1 DEF Sync, client, modem, TypeOK
<1> QED
  BY <1>1, <1>2, <1>3, <1>4, <1>5, <1>6, <1>7, <1>8 DEF Next, Calls

-----------------------------------------------------------------------------
(* Whose the answers are.                                                  *)

LEMMA AskQueues ==
    ASSUME TypeOK, AsksNext
    PROVE  /\ txn' = txn + 1 /\ txn \in Nat /\ msg' \in Exchanges
           /\ Len(queue') = Len(queue) + 1 /\ Len(queue) \in Nat
           /\ \A i \in 1..Len(queue) : queue'[i] = queue[i]
           /\ LET q == queue'[Len(queue) + 1]
              IN  /\ q.req = txn' /\ q.what = msg'
                  /\ msg' = "switch" => q.arg = slot'
                  /\ msg' = "release" => q.arg = cid'
<1>1. PICK m \in Exchanges, arg \in Nat :
        /\ Ask(m, arg)
        /\ m = "switch" => arg = slot /\ slot' = slot
        /\ m = "release" => arg = cid /\ cid' = cid
  BY DEF AsksNext
<1>2. queue \in Seq(Requests) /\ txn \in Nat
  BY DEF TypeOK
<1> DEFINE q == [req |-> txn + 1, what |-> m, arg |-> arg]
<1>3. queue' = Append(queue, q) /\ txn' = txn + 1 /\ msg' = m
  BY <1>1 DEF Ask
<1>4. q.req = txn + 1 /\ q.what = m /\ q.arg = arg
  OBVIOUS
<1> HIDE DEF q
<1>5. /\ Len(queue') = Len(queue) + 1 /\ Len(queue) \in Nat
      /\ \A i \in 1..Len(queue) : queue'[i] = queue[i]
      /\ queue'[Len(queue) + 1] = q
  BY <1>2, <1>3
<1> QED
  BY <1>1, <1>2, <1>3, <1>4, <1>5

\* What a step of the client does to the exchanges.
ClientStep ==
    /\ inbox' = inbox \/ (inbox # <<>> /\ inbox' = Tail(inbox))
    /\ AsksNext \/ Ends \/ UNCHANGED <<msg, txn, queue, slot, cid, link, done, connects, channel>>
    /\ UNCHANGED <<modem, kind, want, legacy>>

LEMMA StepsAre ==
    ASSUME TypeOK, Linked, [Next]_vars
    PROVE  ClientStep \/ Handle \/ CardReady \/ Sync
<1>1. CASE UNCHANGED vars
  BY <1>1 DEF vars, client, history, ClientStep
<1>2. CASE Calls
  BY <1>2, CallMoves DEF Begins, Refused, client, ClientStep
<1>3. CASE ReadAnswer
  <2>1. AsksNext \/ Ends
    BY <1>3, AnswerMoves, FailMoves, SucceedMoves DEF Continues, Completes
  <2>2. kind' = kind
    BY <1>3, AnswerMoves, FailMoves, SucceedMoves
  <2> QED
    BY <1>3, <2>1, <2>2, AnswerMoves DEF ClientStep
<1>4. CASE SkipMessage \/ HeaderCut
  BY <1>4 DEF SkipMessage, HeaderCut, client, history, ClientStep
<1>5. CASE ReadFailure \/ ReadTimeout \/ BodyCut \/ Garbled
  <2>1. /\ msg # "none" /\ \E status : Fail(status)
        /\ inbox' = inbox \/ (inbox # <<>> /\ inbox' = Tail(inbox))
        /\ UNCHANGED <<modem, want, legacy>>
    BY <1>5 DEF ReadFailure, ReadTimeout, BodyCut, Garbled
  <2> QED
    BY <2>1, FailMoves DEF ClientStep
<1> QED
  BY <1>1, <1>2, <1>3, <1>4, <1>5 DEF Next, Calls

LEMMA InboxShrinks ==
    ASSUME TypeOK, inbox' = inbox \/ (inbox # <<>> /\ inbox' = Tail(inbox))
    PROVE  \E d \in {0, 1} :
              \A i \in 1..Len(inbox') : i + d \in 1..Len(inbox) /\ inbox'[i] = inbox[i + d]
<1>1. CASE inbox' = inbox
  BY <1>1 DEF TypeOK
<1>2. CASE inbox # <<>> /\ inbox' = Tail(inbox)
  BY <1>2, HeadIsMessage
<1> QED
  BY <1>1, <1>2

LEMMA ClientKeepsOrder ==
    ASSUME TypeOK, Ordered, ClientStep
    PROVE  Ordered'
<1>1. PICK d \in {0, 1} :
        \A i \in 1..Len(inbox') : i + d \in 1..Len(inbox) /\ inbox'[i] = inbox[i + d]
  BY InboxShrinks DEF ClientStep
<1>2. \A i, j \in 1..Len(inbox') :
        i < j /\ IsResponse(i)' /\ IsResponse(j)' => inbox'[i].req < inbox'[j].req
  <2> TAKE i, j \in 1..Len(inbox')
  <2>1. i < j => i + d < j + d
    OBVIOUS
  <2> QED
    BY <1>1, <2>1 DEF Ordered, IsResponse
<1>3. CASE UNCHANGED <<msg, txn, queue>> \/ Ends
  BY <1>1, <1>2, <1>3 DEF Ordered, IsResponse, Ends
<1>4. CASE AsksNext
  <2>1. /\ txn' = txn + 1 /\ txn \in Nat
        /\ Len(queue') = Len(queue) + 1 /\ Len(queue) \in Nat
        /\ \A i \in 1..Len(queue) : queue'[i] = queue[i]
        /\ queue'[Len(queue) + 1].req = txn'
    BY <1>4, AskQueues
  <2>2. ASSUME NEW i \in 1..Len(queue')
        PROVE  queue'[i].req \in 1..txn' /\ (i \in 1..Len(queue) \/ queue'[i].req = txn')
    BY <2>1 DEF Ordered
  <2>3. ASSUME NEW i \in 1..Len(queue'), NEW j \in 1..Len(queue'), i < j
        PROVE  queue'[i].req < queue'[j].req
    <3>1. i \in 1..Len(queue) /\ queue[i].req \in 1..txn
      BY <2>1, <2>3 DEF Ordered
    <3>2. CASE j \in 1..Len(queue)
      BY <2>1, <2>3, <3>1, <3>2 DEF Ordered
    <3>3. CASE j = Len(queue) + 1
      BY <2>1, <3>1, <3>3
    <3> QED
      BY <2>1, <3>2, <3>3
  <2>4. ASSUME NEW i \in 1..Len(inbox'), IsResponse(i)'
        PROVE  inbox'[i].req \in 1..txn' /\ \A j \in 1..Len(queue') : inbox'[i].req < queue'[j].req
    <3>1. i + d \in 1..Len(inbox) /\ inbox'[i] = inbox[i + d] /\ IsResponse(i + d)
      BY <1>1, <2>4 DEF IsResponse
    <3>2. inbox'[i].req \in 1..txn /\ \A j \in 1..Len(queue) : inbox'[i].req < queue[j].req
      BY <3>1 DEF Ordered
    <3> QED
      BY <2>1, <3>2
  <2> QED
    BY <1>2, <2>1, <2>2, <2>3, <2>4 DEF Ordered
<1> QED
  BY <1>3, <1>4 DEF ClientStep

\* The queue after a request was handled.
LEMMA QueueShrinks ==
    ASSUME TypeOK, queue # <<>>, queue' = Tail(queue)
    PROVE  /\ Len(queue') = Len(queue) - 1 /\ 1 \in 1..Len(queue) /\ Head(queue) = queue[1]
           /\ \A i \in 1..Len(queue') : i + 1 \in 1..Len(queue) /\ queue'[i] = queue[i + 1]
<1>1. queue \in Seq(Requests)
  BY DEF TypeOK
<1> QED
  BY <1>1

LEMMA InboxGrows ==
    ASSUME TypeOK, NEW m, inbox' = Append(inbox, m)
    PROVE  /\ Len(inbox') = Len(inbox) + 1 /\ Len(inbox) \in Nat
           /\ \A i \in 1..Len(inbox) : inbox'[i] = inbox[i]
           /\ inbox'[Len(inbox) + 1] = m
<1>1. inbox \in Seq(Messages)
  BY DEF TypeOK
<1> QED
  BY <1>1

LEMMA ModemKeepsOrder ==
    ASSUME TypeOK, Ordered, Handle \/ CardReady \/ Sync
    PROVE  Ordered'
<1>1. CASE CardReady
  BY <1>1 DEF CardReady, Ordered, IsResponse
<1>2. CASE Sync
  <2>1. inbox' = Append(inbox, SyncMessage) /\ UNCHANGED <<msg, txn, queue>>
    BY <1>2 DEF Sync, SyncMessage
  <2>2. SyncMessage.type # "response"
    BY DEF SyncMessage
  <2> QED
    BY <2>1, <2>2, InboxGrows DEF Ordered, IsResponse
<1>3. CASE Handle
  <2>1. UNCHANGED <<msg, txn>> /\ queue # <<>> /\ queue' = Tail(queue)
    BY <1>3 DEF Handle
  <2>2. /\ Len(queue') = Len(queue) - 1 /\ 1 \in 1..Len(queue) /\ Head(queue) = queue[1]
        /\ \A i \in 1..Len(queue') : i + 1 \in 1..Len(queue) /\ queue'[i] = queue[i + 1]
    BY <2>1, QueueShrinks
  <2>3. /\ \A i \in 1..Len(queue') : queue'[i].req \in 1..txn /\ queue[1].req < queue'[i].req
        /\ \A i, j \in 1..Len(queue') : i < j => queue'[i].req < queue'[j].req
    <3>1. ASSUME NEW i \in 1..Len(queue')
          PROVE  queue'[i].req \in 1..txn /\ queue[1].req < queue'[i].req
      <4>1. 1 < i + 1 /\ i + 1 \in 1..Len(queue) /\ queue'[i] = queue[i + 1]
        BY <2>2
      <4> QED
        BY <2>2, <4>1 DEF Ordered
    <3>2. ASSUME NEW i \in 1..Len(queue'), NEW j \in 1..Len(queue'), i < j
          PROVE  queue'[i].req < queue'[j].req
      <4>1. i + 1 < j + 1
        BY <3>2
      <4> QED
        BY <2>2, <4>1 DEF Ordered
    <3> QED
      BY <3>1, <3>2
  <2>4. CASE inbox' = inbox
    BY <2>1, <2>2, <2>3, <2>4 DEF Ordered, IsResponse
  <2>5. ASSUME NEW m \in Messages, Answers(Head(queue), m)
        PROVE  Ordered'
    <3>1. /\ Len(inbox') = Len(inbox) + 1 /\ Len(inbox) \in Nat
          /\ \A i \in 1..Len(inbox) : inbox'[i] = inbox[i]
          /\ inbox'[Len(inbox) + 1].req = queue[1].req
      BY <2>2, <2>5, InboxGrows DEF Answers
    <3>2. ASSUME NEW i \in 1..Len(inbox'), IsResponse(i)'
          PROVE  inbox'[i].req \in 1..txn /\ \A j \in 1..Len(queue') : inbox'[i].req < queue'[j].req
      <4>1. CASE i \in 1..Len(inbox)
        <5>1. /\ IsResponse(i) /\ inbox'[i].req \in 1..txn
              /\ \A j \in 1..Len(queue) : inbox'[i].req < queue[j].req
          BY <3>1, <3>2, <4>1 DEF Ordered, IsResponse
        <5> QED
          BY <2>2, <5>1
      <4>2. CASE i = Len(inbox) + 1
        <5>1. queue[1].req \in 1..txn
          BY <2>2 DEF Ordered
        <5> QED
          BY <2>3, <3>1, <4>2, <5>1
      <4> QED
        BY <3>1, <4>1, <4>2
    <3>3. ASSUME NEW i \in 1..Len(inbox'), NEW j \in 1..Len(inbox'), i < j,
                 IsResponse(i)', IsResponse(j)'
          PROVE  inbox'[i].req < inbox'[j].req
      <4>1. i \in 1..Len(inbox) /\ IsResponse(i)
        BY <3>1, <3>3 DEF IsResponse
      <4>2. CASE j \in 1..Len(inbox)
        BY <3>1, <3>3, <4>1, <4>2 DEF Ordered, IsResponse
      <4>3. CASE j = Len(inbox) + 1
        BY <2>2, <3>1, <4>1, <4>3 DEF Ordered
      <4> QED
        BY <3>1, <4>2, <4>3
    <3> QED
      BY <2>1, <2>3, <3>2, <3>3 DEF Ordered
  <2> QED
    BY <1>3, <2>4, <2>5, HandleAnswers
<1> QED
  BY <1>1, <1>2, <1>3

LEMMA OrderKept ==
    ASSUME TypeOK, Linked, Ordered, [Next]_vars
    PROVE  Ordered'
BY StepsAre, ClientKeepsOrder, ModemKeepsOrder

LEMMA IndicationsKept ==
    ASSUME TypeOK, Linked, Ordered, Indications, [Next]_vars
    PROVE  Indications'
<1>1. CASE ClientStep
  <2>1. PICK d \in {0, 1} :
          \A i \in 1..Len(inbox') : i + d \in 1..Len(inbox) /\ inbox'[i] = inbox[i + d]
    BY <1>1, InboxShrinks DEF ClientStep
  <2> QED
    BY <1>1, <2>1 DEF ClientStep, Indications, IsResponse, SyncMessage
<1>2. CASE Handle
  <2>1. kind' = kind
    BY <1>2 DEF Handle, client
  <2>2. inbox' = inbox \/ \E m \in Messages : inbox' = Append(inbox, m) /\ m.type = "response"
    BY <1>2, HandleAnswers DEF Answers
  <2> QED
    BY <2>1, <2>2, InboxGrows DEF Indications, IsResponse, SyncMessage
<1>3. CASE CardReady
  BY <1>3 DEF CardReady, client, Indications, IsResponse, SyncMessage
<1>4. CASE Sync
  <2>1. kind' = kind /\ kind = "qmux" /\ inbox' = Append(inbox, SyncMessage)
    BY <1>4 DEF Sync, client, SyncMessage
  <2> QED
    BY <2>1, InboxGrows DEF Indications, IsResponse, SyncMessage
<1> QED
  BY <1>1, <1>2, <1>3, <1>4, StepsAre

\* Nothing follows the answer to the last request.
LEMMA AnswerIsLast ==
    ASSUME TypeOK, Ordered, NEW i \in 1..Len(inbox), IsResponse(i), inbox[i].req = txn
    PROVE  queue = <<>> /\ \A j \in 1..Len(inbox) : j > i => ~IsResponse(j)
<1>1. \A j \in 1..Len(queue) : txn < queue[j].req /\ queue[j].req \in 1..txn
  BY DEF Ordered
<1>2. txn \in Nat /\ queue \in Seq(Requests)
  BY DEF TypeOK
<1>3. 1 \notin 1..Len(queue)
  BY <1>1, <1>2
<1>4. queue = <<>>
  BY <1>2, <1>3
<1>5. \A j \in 1..Len(inbox) : j > i => ~IsResponse(j)
  BY <1>2 DEF Ordered
<1> QED
  BY <1>4, <1>5

\* The same of the message that is read.
LEMMA AnswerRead ==
    ASSUME TypeOK, Ordered, Indications, msg # "none", inbox # <<>>, inbox' = Tail(inbox),
           Head(inbox).req = txn
    PROVE  /\ IsResponse(1) /\ Head(inbox) = inbox[1] /\ 1 \in 1..Len(inbox)
           /\ queue = <<>> /\ \A j \in 1..Len(inbox') : ~IsResponse(j)'
<1>1. /\ Head(inbox) = inbox[1] /\ 1 \in 1..Len(inbox)
      /\ \A j \in 1..Len(inbox') : j + 1 \in 1..Len(inbox) /\ inbox'[j] = inbox[j + 1]
  BY HeadIsMessage
<1>2. IsResponse(1)
  BY <1>1 DEF Indications, SyncMessage, Ordered
<1>3. queue = <<>> /\ \A j \in 1..Len(inbox) : j > 1 => ~IsResponse(j)
  BY <1>1, <1>2, AnswerIsLast
<1>4. ASSUME NEW j \in 1..Len(inbox')
      PROVE  ~IsResponse(j)'
  <2>1. j + 1 > 1 /\ ~IsResponse(j + 1)
    BY <1>1, <1>3
  <2> QED
    BY <1>1, <2>1 DEF IsResponse
<1> QED
  BY <1>1, <1>2, <1>3, <1>4

\* The next exchange, or the end of the call, after that.
LEMMA ExchangeInTime ==
    ASSUME TypeOK, queue = <<>>, synced' = TRUE, AsksNext \/ Ends,
           \A j \in 1..Len(inbox') : ~IsResponse(j)'
    PROVE  InTime'
<1>1. CASE AsksNext
  <2>1. Len(queue') = 1 /\ queue'[1].req = txn' /\ msg' # "none"
    BY <1>1, AskQueues, ExchangesAre
  <2>2. \A i \in 1..Len(queue') : queue'[i].req = txn'
    BY <2>1
  <2> QED
    BY <2>1, <2>2 DEF InTime
<1>2. CASE Ends
  BY <1>2 DEF Ends, InTime
<1> QED
  BY <1>1, <1>2

LEMMA InTimeKept ==
    ASSUME TypeOK, Linked, Ordered, Indications, InTime, [Next]_vars
    PROVE  InTime'
<1> SUFFICES ASSUME ~abandoned'
             PROVE  InTime'
  BY DEF InTime
<1>1. CASE UNCHANGED vars
  BY <1>1 DEF vars, InTime, IsResponse
<1>2. CASE Calls
  <2>0. msg = "none" /\ UNCHANGED <<inbox, synced, abandoned>>
    BY <1>2, CallMoves
  <2>1. queue = <<>> /\ synced' = TRUE /\ inbox' = inbox /\ \A j \in 1..Len(inbox) : ~IsResponse(j)
    BY <2>0 DEF InTime, TypeOK
  <2>2. AsksNext \/ Ends
    BY <1>2, CallMoves DEF Begins, Refused
  <2> QED
    BY <2>1, <2>2, ExchangeInTime DEF IsResponse
<1>3. CASE ReadAnswer
  <2>1. Head(inbox).req = txn /\ msg # "none" /\ inbox # <<>> /\ inbox' = Tail(inbox) /\ synced' = TRUE
    BY <1>3, AnswerMoves DEF TypeOK
  <2>2. AsksNext \/ Ends
    BY <1>3, AnswerMoves, FailMoves, SucceedMoves DEF Continues, Completes
  <2> QED
    BY <2>1, <2>2, AnswerRead, ExchangeInTime
<1>4. CASE ReadFailure
  <2>1. /\ Head(inbox).req = txn /\ msg # "none" /\ inbox # <<>> /\ inbox' = Tail(inbox)
        /\ synced' = TRUE /\ Fail(Head(inbox).status)
    BY <1>4 DEF ReadFailure, TypeOK
  <2>2. AsksNext \/ Ends
    BY <2>1, FailMoves
  <2> QED
    BY <2>1, <2>2, AnswerRead, ExchangeInTime
<1>5. CASE SkipMessage
  <2>1. /\ msg # "none" /\ inbox # <<>> /\ inbox' = Tail(inbox)
        /\ UNCHANGED <<msg, txn, queue, synced, abandoned>>
    BY <1>5 DEF SkipMessage
  <2>2. \A j \in 1..Len(inbox') : j + 1 \in 1..Len(inbox) /\ inbox'[j] = inbox[j + 1]
    BY <2>1, HeadIsMessage
  <2> QED
    BY <2>1, <2>2 DEF InTime, IsResponse
<1>6. CASE ReadTimeout \/ HeaderCut \/ BodyCut \/ Garbled
  BY <1>6 DEF ReadTimeout, HeaderCut, BodyCut, Garbled, InTime
<1>7. CASE Handle
  <2>1. queue # <<>> /\ queue' = Tail(queue) /\ UNCHANGED <<msg, txn, synced, abandoned>>
    BY <1>7 DEF Handle
  <2>2. /\ 1 \in 1..Len(queue) /\ Head(queue) = queue[1]
        /\ \A i \in 1..Len(queue') : i + 1 \in 1..Len(queue) /\ queue'[i] = queue[i + 1]
    BY <2>1, QueueShrinks
  <2>3. CASE inbox' = inbox
    BY <2>1, <2>2, <2>3 DEF InTime, IsResponse
  <2>4. ASSUME NEW m \in Messages, Answers(Head(queue), m)
        PROVE  InTime'
    <3>1. /\ Len(inbox') = Len(inbox) + 1 /\ Len(inbox) \in Nat
          /\ \A i \in 1..Len(inbox) : inbox'[i] = inbox[i]
          /\ inbox'[Len(inbox) + 1].req = queue[1].req
      BY <2>2, <2>4, InboxGrows DEF Answers
    <3>2. ASSUME NEW i \in 1..Len(inbox'), IsResponse(i)'
          PROVE  inbox'[i].req = txn
      BY <2>1, <2>2, <3>1, <3>2 DEF InTime, IsResponse
    <3> QED
      BY <2>1, <2>2, <3>2 DEF InTime
  <2> QED
    BY <1>7, <2>3, <2>4, HandleAnswers
<1>8. CASE CardReady
  BY <1>8 DEF CardReady, InTime, IsResponse
<1>9. CASE Sync
  <2>1. inbox' = Append(inbox, SyncMessage) /\ UNCHANGED <<msg, txn, queue, synced, abandoned>>
    BY <1>9 DEF Sync, SyncMessage
  <2>2. SyncMessage.type # "response"
    BY DEF SyncMessage
  <2> QED
    BY <2>1, <2>2, InboxGrows DEF InTime, IsResponse
<1> QED
  BY <1>1, <1>2, <1>3, <1>4, <1>5, <1>6, <1>7, <1>8, <1>9 DEF Next, Calls

\* Transactions that are told apart by nothing.
LEMMA Congruent ==
    ASSUME NEW a \in Nat, NEW b \in Nat, NEW T \in Nat \ {0}, a % T = b % T
    PROVE  (b - a) % T = 0
<1> DEFINE k == (b \div T) - (a \div T)
<1>1. a = T * (a \div T) + (a % T) /\ a \div T \in Int
  OBVIOUS
<1>2. b = T * (b \div T) + (b % T) /\ b \div T \in Int
  OBVIOUS
<1>3. b - a = T * k /\ k \in Int
  BY <1>1, <1>2
<1>4. (T * k) % T = 0
  <2> HIDE DEF k
  <2> QED
    BY <1>3
<1> QED
  BY <1>3, <1>4

\* Steps that leave alone what was answered last.
LEMMA AnswersKept ==
    ASSUME TypeOK, Linked, Ordered, Indications, InTime, AnswersMatch, [Next]_vars
    PROVE  AnswersMatch'
<1>1. CASE answer' = answer
  <2>1. kind' = kind
    BY StepsAre DEF ClientStep, Handle, CardReady, Sync, client
  <2> QED
    BY <1>1, <2>1 DEF AnswersMatch
<1>2. CASE ReadAnswer
  <2> DEFINE m == Head(inbox)
  <2>1. /\ msg # "none" /\ ~Skips(m)
        /\ answer' = [to |-> txn, by |-> m.req, msg |-> msg, late |-> abandoned]
    BY <1>2, AnswerMoves
  <2>2. kind' = kind
    BY <1>2, AnswerMoves, FailMoves, SucceedMoves
  <2>3. m \in Messages /\ m = inbox[1] /\ 1 \in 1..Len(inbox)
    BY <1>2, HeadIsMessage, AnswerMoves
  <2>4. m.req \in Nat /\ txn \in Nat /\ txn > 0 /\ TxnMod \in Nat \ {0} /\ abandoned \in BOOLEAN
    BY <2>1, <2>3 DEF Messages, TypeOK, Ordered
  <2> SUFFICES ASSUME txn # m.req
               PROVE  \/ kind = "qrtr" /\ (txn - m.req) % TxnMod = 0
                      \/ kind = "qmux" /\ abandoned
                      \/ kind = "qmux" /\ m.req = 0
                            /\ (msg \in ControlRequests \/ txn % TxnMod = 0)
    BY <2>1, <2>2 DEF AnswersMatch
  <2>5. CASE kind = "qrtr"
    <3>1. m.req % TxnMod = txn % TxnMod
      BY <2>1, <2>5 DEF Skips, SameTxn
    <3> QED
      BY <2>4, <2>5, <3>1, Congruent
  <2>6. CASE kind = "qmux" /\ ~abandoned
    <3>1. ~IsResponse(1)
      BY <2>3, <2>6 DEF InTime
    <3>2. m = SyncMessage /\ m.type # "response" /\ m.req = 0 /\ m.client = 0
      BY <2>3, <3>1 DEF Indications, SyncMessage
    <3>3. 0 = RequestClient \/ 0 % TxnMod = txn % TxnMod
      BY <2>1, <2>6, <3>2 DEF Skips, SameTxn
    <3>4. CASE RequestClient = 0
      <4>1. msg \notin ControlRequests => link = "up" /\ cid = 0
        BY <2>1, <3>4 DEF RequestClient, Linked, ControlRequests
      <4> QED
        BY <2>6, <3>2, <4>1 DEF Linked
    <3>5. CASE 0 % TxnMod = txn % TxnMod
      <4>1. (txn - 0) % TxnMod = 0
        BY <2>4, <3>5, Congruent
      <4> QED
        BY <2>4, <2>6, <3>2, <4>1
    <3> QED
      BY <3>3, <3>4, <3>5
  <2> QED
    BY <2>4, <2>5, <2>6 DEF TypeOK
<1>3. Next /\ ~ReadAnswer => answer' = answer
  <2>1. Calls => answer' = answer
    BY CallMoves
  <2> QED
    BY <2>1 DEF Next, Calls, SkipMessage, ReadFailure, ReadTimeout, HeaderCut, BodyCut,
                Garbled, Handle, CardReady, Sync
<1> QED
  BY <1>1, <1>2, <1>3 DEF vars

LEMMA FailuresKept ==
    ASSUME TypeOK, Linked, Ordered, Indications, InTime, FailuresMatch, [Next]_vars
    PROVE  FailuresMatch'
<1>1. CASE refusal' = refusal
  BY <1>1 DEF FailuresMatch
<1>2. CASE ReadFailure
  <2> DEFINE m == Head(inbox)
  <2>1. /\ msg # "none" /\ inbox # <<>> /\ m.status # "ok"
        /\ refusal' = [to |-> txn, by |-> m.req, late |-> abandoned]
    BY <1>2 DEF ReadFailure
  <2>2. m \in Messages /\ m = inbox[1] /\ 1 \in 1..Len(inbox)
    BY <2>1, HeadIsMessage
  <2>3. IsResponse(1)
    BY <2>1, <2>2 DEF Indications, SyncMessage
  <2>4. m.req \in 1..txn /\ txn \in Nat /\ (~abandoned => m.req = txn)
    BY <2>2, <2>3 DEF Ordered, InTime, TypeOK
  <2> HIDE DEF m
  <2> QED
    BY <2>1, <2>4 DEF FailuresMatch
<1>3. Next /\ ~ReadFailure => refusal' = refusal
  <2>1. Calls => refusal' = refusal
    BY CallMoves
  <2> QED
    BY <2>1, AnswerMoves DEF Next, Calls, SkipMessage, ReadTimeout, HeaderCut, BodyCut,
                Garbled, Handle, CardReady, Sync
<1> QED
  BY <1>1, <1>2, <1>3 DEF vars

-----------------------------------------------------------------------------
(* What the answers say.                                                   *)

LEMMA WaitsKept ==
    ASSUME TypeOK, Linked, Ordered, Waits, [Next]_vars
    PROVE  Waits'
<1>1. CASE AsksNext
  <2>1. /\ txn' = txn + 1 /\ txn \in Nat /\ Len(queue') = Len(queue) + 1 /\ Len(queue) \in Nat
        /\ \A i \in 1..Len(queue) : queue'[i] = queue[i] /\ queue[i].req \in 1..txn
    BY <1>1, AskQueues DEF Ordered
  <2>2. \A i \in 1..Len(queue') : queue'[i].req = txn' => i = Len(queue) + 1
    BY <2>1
  <2> QED
    BY <1>1, <2>2, AskQueues DEF Waits
<1>2. CASE ClientStep /\ ~AsksNext
  BY <1>2 DEF ClientStep, Ends, Waits
<1>3. CASE Handle
  <2>1. queue # <<>> /\ queue' = Tail(queue) /\ UNCHANGED <<msg, txn, slot, cid>>
    BY <1>3 DEF Handle, client
  <2>2. \A i \in 1..Len(queue') : i + 1 \in 1..Len(queue) /\ queue'[i] = queue[i + 1]
    BY <2>1, QueueShrinks
  <2> QED
    BY <2>1, <2>2 DEF Waits
<1>4. CASE CardReady \/ Sync
  BY <1>4 DEF CardReady, Sync, client, Waits
<1> QED
  BY <1>1, <1>2, <1>3, <1>4, StepsAre

LEMMA ToldKept ==
    ASSUME TypeOK, Linked, Ordered, Waits, Told, Returned, [Next]_vars
    PROVE  Told'
<1>1. CASE ClientStep
  <2>1. PICK d \in {0, 1} :
          \A i \in 1..Len(inbox') : i + d \in 1..Len(inbox) /\ inbox'[i] = inbox[i + d]
    BY <1>1, InboxShrinks DEF ClientStep
  <2>2. CASE AsksNext
    <3>1. txn' = txn + 1 /\ txn \in Nat
      BY <2>2, AskQueues
    <3>2. \A i \in 1..Len(inbox') : IsResponse(i)' => inbox'[i].req \in 1..txn
      BY <2>1 DEF Ordered, IsResponse
    <3> QED
      BY <3>1, <3>2 DEF Told, Says
  <2>3. CASE Ends
    BY <2>3 DEF Ends, Told, Says
  <2>4. CASE UNCHANGED <<msg, txn, slot, cid>>
    BY <1>1, <2>1, <2>4 DEF ClientStep, modem, Told, Says, IsResponse
  <2> QED
    BY <1>1, <2>2, <2>3, <2>4 DEF ClientStep
<1>2. CASE Handle
  <2>1. queue # <<>> /\ UNCHANGED <<msg, txn, slot, cid, link>>
    BY <1>2 DEF Handle, client
  <2>2. \A i \in 1..Len(inbox) : IsResponse(i) => inbox[i].req # txn
    BY <2>1, AnswerIsLast
  <2>3. CASE inbox' = inbox
    BY <2>1, <2>2, <2>3 DEF Told, Says, IsResponse
  <2>4. ASSUME NEW m \in Messages, Answers(Head(queue), m)
        PROVE  Told'
    <3> DEFINE q == Head(queue)
    <3>1. q = queue[1] /\ 1 \in 1..Len(queue)
      BY <1>2, QueueShrinks DEF Handle
    <3>2. m.req = txn /\ msg # "none" => /\ q.what = msg
                                         /\ msg = "switch" => q.arg = slot
                                         /\ msg = "release" => q.arg = cid
      BY <2>4, <3>1 DEF Waits, Answers
    <3>3. msg = "release" => ids \subseteq {cid}
      BY DEF Returned, Linked
    <3> HIDE DEF q
    <3>4. Says(m)'
      BY <2>1, <2>4, <3>2, <3>3 DEF Says, Answers, modem, q
    <3> QED
      BY <2>1, <2>2, <2>4, <3>4, InboxGrows DEF Told, Says, IsResponse, Answers
  <2> QED
    BY <1>2, <2>3, <2>4, HandleAnswers
<1>3. CASE CardReady
  BY <1>3 DEF CardReady, client, Told, Says, IsResponse
<1>4. CASE Sync
  <2>1. /\ inbox' = Append(inbox, SyncMessage)
        /\ UNCHANGED <<msg, txn, slot, active, ready, open, ids>>
    BY <1>4 DEF Sync, SyncMessage, client, modem
  <2>2. SyncMessage.type # "response"
    BY DEF SyncMessage
  <2> QED
    BY <2>1, <2>2, InboxGrows DEF Told, Says, IsResponse
<1> QED
  BY <1>1, <1>2, <1>3, <1>4, StepsAre

\* What the client makes of the answer to its own request is true.
IsTrue(v) ==
    /\ msg = "alloc" => v = txn
    /\ msg = "slotStatus" => v = active
    /\ msg = "switch" => active = slot
    /\ msg = "cardStatus" /\ v = 1 => ready
    /\ msg = "open" => v \in open
    /\ msg = "release" => ids = {}

LEMMA OwnAnswer ==
    ASSUME TypeOK, Linked, Ordered, Indications, Told, ReadAnswer, Head(inbox).req = txn
    PROVE  /\ queue = <<>> /\ \A j \in 1..Len(inbox') : ~IsResponse(j)'
           /\ Fail("failed") \/ \E v \in Nat : Succeed(v) /\ IsTrue(v)
<1> DEFINE m == Head(inbox)
<1>1. /\ msg # "none" /\ msg \in Exchanges /\ inbox # <<>> /\ inbox' = Tail(inbox)
      /\ m.status = "ok"
      /\ \/ Fail("failed")
         \/ \E v \in Decode(m) : v # Bad /\ v \in Nat /\ Succeed(v)
  BY AnswerMoves
<1>2. /\ IsResponse(1) /\ m = inbox[1] /\ 1 \in 1..Len(inbox)
      /\ queue = <<>> /\ \A j \in 1..Len(inbox') : ~IsResponse(j)'
  BY <1>1, AnswerRead
<1>3. Says(m)
  BY <1>2 DEF Told
<1>4. ASSUME NEW v \in Decode(m)
      PROVE  IsTrue(v)
  <2>1. m.what = msg
    BY <1>1, <1>3 DEF Says
  <2> HIDE DEF m
  <2>2. msg \in {"alloc", "release"} => v = m.val
    BY <1>4, <2>1 DEF Decode, DecodeClientID, Carries0x01
  <2>3. msg = "slotStatus" => v = m.val
    BY <1>4, <2>1 DEF Decode, DecodeSlotStatus
  <2>4. msg = "cardStatus" => v = m.val
    BY <1>4, <2>1 DEF Decode, DecodeCardStatus
  <2>5. msg = "open" => v = m.val
    BY <1>4, <2>1 DEF Decode, DecodeChannel
  <2> QED
    BY <1>1, <1>3, <2>2, <2>3, <2>4, <2>5 DEF Says, IsTrue, m
<1> QED
  BY <1>1, <1>2, <1>4

LEMMA SwitchedKept ==
    ASSUME TypeOK, Linked, Ordered, Indications, Told, Switched, [Next]_vars
    PROVE  Switched'
<1> SUFFICES ASSUME msg' = "cardStatus", ~mixed'
             PROVE  active' = slot' /\ \A i \in 1..Len(queue') : queue'[i].what # "switch"
  BY DEF Switched
\* Another poll.
<1>1. ASSUME msg = "cardStatus", ~mixed, AsksNext, UNCHANGED <<slot, modem>>
      PROVE  active' = slot' /\ \A i \in 1..Len(queue') : queue'[i].what # "switch"
  <2>1. \A i \in 1..Len(queue') : i \in 1..Len(queue) \/ i = Len(queue) + 1
    BY <1>1, AskQueues
  <2> QED
    BY <1>1, <2>1, AskQueues DEF Switched, modem
<1>2. CASE UNCHANGED <<msg, mixed, slot, active, queue>>
  BY <1>2 DEF Switched
<1>3. CASE Calls
  BY <1>3, CallMoves, ExchangesAre DEF Begins, Refused, Ends
<1>4. CASE ReadAnswer
  <2>1. /\ Head(inbox).req = txn /\ ~mixed /\ UNCHANGED modem /\ msg # "none"
    BY <1>4, AnswerMoves
  <2>2. CASE Fail("failed")
    BY <1>1, <2>1, <2>2, FailMoves, ExchangesAre DEF Ends
  <2>3. ASSUME NEW v \in Nat, Succeed(v), IsTrue(v)
        PROVE  active' = slot' /\ \A i \in 1..Len(queue') : queue'[i].what # "switch"
    <3>1. Continues(v) /\ msg \in {"switch", "cardStatus"}
      BY <2>1, <2>3, SucceedMoves DEF Completes, Continues, Ends
    <3>2. CASE msg = "cardStatus"
      BY <1>1, <2>1, <3>1, <3>2 DEF Continues
    <3>3. CASE msg = "switch"
      <4>0. queue = <<>>
        BY <1>4, <2>1, OwnAnswer
      <4>1. active' = slot' /\ AsksNext
        BY <2>1, <2>3, <3>1, <3>3 DEF IsTrue, Continues, modem
      <4>2. Len(queue) = 0 /\ Len(queue') = 1 /\ queue'[1].what = msg'
        BY <4>0, <4>1, AskQueues
      <4> QED
        BY <4>1, <4>2
    <3> QED
      BY <3>1, <3>2, <3>3
  <2> QED
    BY <1>4, <2>1, <2>2, <2>3, OwnAnswer
<1>5. CASE ReadFailure \/ ReadTimeout \/ BodyCut \/ Garbled
  <2>1. msg # "none" /\ (\E status : Fail(status)) /\ UNCHANGED <<modem, mixed>>
    BY <1>5 DEF ReadFailure, ReadTimeout, BodyCut, Garbled
  <2> QED
    BY <1>1, <2>1, FailMoves, ExchangesAre DEF Ends
<1>6. CASE Handle
  <2>1. queue # <<>> /\ queue' = Tail(queue) /\ UNCHANGED <<msg, mixed, slot>>
    BY <1>6 DEF Handle, client
  <2>2. /\ 1 \in 1..Len(queue) /\ Head(queue) = queue[1]
        /\ \A i \in 1..Len(queue') : i + 1 \in 1..Len(queue) /\ queue'[i] = queue[i + 1]
    BY <2>1, QueueShrinks
  <2>3. active = slot /\ \A i \in 1..Len(queue) : queue[i].what # "switch"
    BY <2>1 DEF Switched
  <2>4. active' = active
    BY <1>6, <2>2, <2>3, HandleAnswers DEF Answers, modem
  <2> QED
    BY <2>1, <2>2, <2>3, <2>4
<1> QED
  BY <1>2, <1>3, <1>4, <1>5, <1>6 DEF Next, Calls, vars, client, modem, SkipMessage, HeaderCut,
                                      CardReady, Sync

LEMMA RestsKept ==
    ASSUME TypeOK, Linked, Ordered, Indications, Told, Rests, [Next]_vars
    PROVE  Rests'
<1>1. CASE UNCHANGED <<msg, mixed, done, queue>>
  BY <1>1 DEF Rests
<1>2. CASE Calls
  BY <1>2, CallMoves, AskQueues, ExchangesAre DEF Begins, Refused, Rests
<1>3. CASE ReadAnswer
  <2>1. CASE Ends /\ ~mixed'
    BY <1>3, <2>1, AnswerMoves, OwnAnswer DEF Ends, Rests
  <2>2. AsksNext \/ Ends
    BY <1>3, AnswerMoves, FailMoves, SucceedMoves DEF Continues, Completes
  <2> QED
    BY <2>1, <2>2, AskQueues, ExchangesAre DEF Rests
<1>4. CASE ReadFailure \/ ReadTimeout \/ BodyCut \/ Garbled
  <2>1. msg # "none" /\ (\E status : Fail(status))
    BY <1>4 DEF ReadFailure, ReadTimeout, BodyCut, Garbled
  <2> QED
    BY <2>1, FailMoves, AskQueues, ExchangesAre DEF Rests
<1>5. CASE Handle
  BY <1>5 DEF Handle, Rests
<1> QED
  BY <1>1, <1>2, <1>3, <1>4, <1>5 DEF Next, Calls, vars, client, SkipMessage, HeaderCut,
                                      CardReady, Sync

LEMMA ConnectKept ==
    ASSUME TypeOK, Linked, Ordered, Indications, Told, Switched, Rests, ConnectMeansReady,
           [Next]_vars
    PROVE  ConnectMeansReady'
<1>1. CASE UNCHANGED <<msg, mixed, done, connects, active, want>> /\ (ready => ready')
  BY <1>1 DEF ConnectMeansReady
<1>2. CASE Calls
  BY <1>2, CallMoves, AskQueues, ExchangesAre DEF Begins, Refused, ConnectMeansReady
<1>3. CASE ReadAnswer
  <2> SUFFICES ASSUME msg' = "none", ~mixed', done' \in {"Connect", "ConnectSwitched"}
               PROVE  /\ connects' = 1 => active' = want'
                      /\ done' = "ConnectSwitched" => ready'
    BY DEF ConnectMeansReady
  <2>1. /\ Head(inbox).req = txn /\ ~mixed /\ UNCHANGED <<modem, want>> /\ msg # "none"
    BY <1>3, AnswerMoves
  <2>2. PICK v \in Nat : Succeed(v) /\ IsTrue(v)
    BY <1>3, <2>1, OwnAnswer, FailMoves, AskQueues, ExchangesAre
  <2>3. Completes(v)
    BY <2>1, <2>2, SucceedMoves, AskQueues, ExchangesAre DEF Continues
  <2>4. connects' = connects + 1 /\ connects \in Nat
    BY <2>3 DEF Completes, TypeOK
  <2>5. connects' = 1 => slot = want
    BY <2>4 DEF Linked
  <2>6. CASE msg = "slotStatus"
    BY <2>1, <2>2, <2>3, <2>5, <2>6 DEF Completes, IsTrue, modem
  <2>7. CASE msg = "cardStatus"
    BY <2>1, <2>2, <2>3, <2>5, <2>7 DEF Completes, IsTrue, Switched, modem
  <2>8. msg \in {"slotStatus", "cardStatus"}
    BY <2>1, <2>3 DEF Completes, TypeOK, Exchanges
  <2> QED
    BY <2>6, <2>7, <2>8
<1>4. CASE ReadFailure \/ ReadTimeout \/ BodyCut \/ Garbled
  <2>1. msg # "none" /\ (\E status : Fail(status))
    BY <1>4 DEF ReadFailure, ReadTimeout, BodyCut, Garbled
  <2> QED
    BY <2>1, FailMoves, AskQueues, ExchangesAre DEF ConnectMeansReady
<1>5. CASE Handle
  <2>1. queue # <<>> /\ UNCHANGED <<msg, mixed, done>>
    BY <1>5 DEF Handle
  <2> QED
    BY <2>1 DEF Rests, ConnectMeansReady
<1> QED
  BY <1>1, <1>2, <1>3, <1>4, <1>5 DEF Next, Calls, vars, client, modem, history, SkipMessage,
                                      HeaderCut, CardReady, Sync

LEMMA OpenKept ==
    ASSUME TypeOK, Linked, Ordered, Indications, Told, Rests, ChannelIsOpen, [Next]_vars
    PROVE  ChannelIsOpen'
<1>1. CASE UNCHANGED <<msg, mixed, done, channel, open>>
  BY <1>1 DEF ChannelIsOpen
<1>2. CASE Calls
  BY <1>2, CallMoves, AskQueues, ExchangesAre DEF Begins, Refused, ChannelIsOpen
<1>3. CASE ReadAnswer
  <2> SUFFICES ASSUME msg' = "none", ~mixed', done' = "Open"
               PROVE  channel' \in open'
    BY DEF ChannelIsOpen
  <2>1. /\ Head(inbox).req = txn /\ ~mixed /\ UNCHANGED modem /\ msg # "none"
    BY <1>3, AnswerMoves
  <2>2. PICK v \in Nat : Succeed(v) /\ IsTrue(v)
    BY <1>3, <2>1, OwnAnswer, FailMoves, AskQueues, ExchangesAre
  <2>3. Completes(v)
    BY <2>1, <2>2, SucceedMoves, AskQueues, ExchangesAre DEF Continues
  <2>4. msg = "open"
    BY <2>1, <2>3 DEF Completes, TypeOK, Exchanges
  <2> QED
    BY <2>1, <2>2, <2>3, <2>4 DEF Completes, IsTrue, modem
<1>4. CASE ReadFailure \/ ReadTimeout \/ BodyCut \/ Garbled
  <2>1. msg # "none" /\ (\E status : Fail(status))
    BY <1>4 DEF ReadFailure, ReadTimeout, BodyCut, Garbled
  <2> QED
    BY <2>1, FailMoves, AskQueues, ExchangesAre DEF ChannelIsOpen
<1>5. CASE Handle
  <2>1. queue # <<>> /\ UNCHANGED <<msg, mixed, done>>
    BY <1>5 DEF Handle
  <2> QED
    BY <2>1 DEF Rests, ChannelIsOpen
<1> QED
  BY <1>1, <1>2, <1>3, <1>4, <1>5 DEF Next, Calls, vars, client, modem, history, SkipMessage,
                                      HeaderCut, CardReady, Sync

-----------------------------------------------------------------------------
(* The client ID.                                                          *)

\* An answer that carries a client ID is the client's own.
LEMMA OwnClientID ==
    ASSUME TypeOK, Linked, Ordered, Indications, Told, Pending, ReadAnswer,
           msg \in Carries0x01
    PROVE  \/ Fail("failed")
           \/ /\ queue = <<>> /\ \A j \in 1..Len(inbox') : ~IsResponse(j)'
              /\ \E v \in Nat : Succeed(v) /\ IsTrue(v)
<1> DEFINE m == Head(inbox)
<1>1. CASE Fail("failed")
  BY <1>1
<1>2. CASE ~Fail("failed")
  <2>1. PICK v \in Decode(m) : v # Bad
    BY <1>2, AnswerMoves
  <2>2. m.status = "ok" /\ m = inbox[1] /\ 1 \in 1..Len(inbox)
    BY AnswerMoves, HeadIsMessage
  <2>3. m.what \in Carries0x01
    BY <2>1 DEF Decode, DecodeClientID, Carries0x01
  <2>4. link # "closed"
    BY AnswerMoves DEF Linked
  <2>5. m.req = txn
    BY <2>2, <2>3, <2>4 DEF Pending, Carried
  <2> QED
    BY <1>2, <2>5, OwnAnswer
<1> QED
  BY <1>1, <1>2

\* The transport failed the exchange.
LEMMA FailKeepsLink ==
    ASSUME TypeOK, Linked, NEW status, Fail(status), msg # "none", want' = want
    PROVE  Linked'
<1>1. CASE AsksNext /\ msg' = "cardStatus" /\ msg = "cardStatus" /\ UNCHANGED <<link, slot, connects>>
  BY <1>1, FailMoves DEF Linked
<1>2. CASE Ends
  <2>1. connects' = 0 => slot' = want'
    BY FailMoves DEF Linked, TypeOK
  <2> QED
    BY <1>2, <2>1, FailMoves, ExchangesAre DEF Ends, Linked, TypeOK
<1> QED
  BY <1>1, <1>2, FailMoves

LEMMA LinkedKept ==
    ASSUME TypeOK, Linked, Ordered, Indications, Told, Pending, [Next]_vars
    PROVE  Linked'
<1>1. CASE UNCHANGED <<msg, kind, link, cid, txn, queue, connects, slot, want>>
  BY <1>1 DEF Linked
<1>2. CASE Calls
  BY <1>2, CallMoves, AskQueues, ExchangesAre DEF Begins, Refused, Ends, Linked, client
<1>3. CASE ReadAnswer
  <2>1. msg # "none" /\ want' = want
    BY <1>3, AnswerMoves
  <2>2. CASE Fail("failed")
    BY <2>1, <2>2, FailKeepsLink
  <2>3. ASSUME NEW v \in Nat, Succeed(v), ~Fail("failed")
        PROVE  Linked'
    <3>1. kind' = kind
      BY <2>1, <2>3, SucceedMoves
    <3>2. CASE Continues(v)
      BY <2>1, <3>1, <3>2 DEF Continues, Linked
    <3>3. CASE Completes(v) /\ msg = "alloc"
      <4>1. PICK w \in Nat : Succeed(w) /\ w = txn
        BY <1>3, <2>3, <3>3, OwnClientID DEF Carries0x01, IsTrue
      <4>2. cid' = txn
        BY <3>3, <4>1 DEF Succeed, AllocateClientID
      <4>3. cid' > 0 /\ link' = "up" /\ msg' = "none" /\ UNCHANGED <<slot, connects>>
        BY <2>1, <3>3, <4>2 DEF Completes, Ends, Ordered
      <4> QED
        BY <2>1, <3>1, <4>3 DEF Linked
    <3>4. CASE Completes(v) /\ msg # "alloc"
      <4>1. msg' = "none" /\ link = "up" /\ link' \in {"up", "closed"}
        BY <2>1, <3>4 DEF Completes, Ends, Linked
      <4>2. link' = "up" => UNCHANGED <<cid, link>>
        BY <3>4 DEF Completes
      <4>3. connects' = 0 => UNCHANGED <<slot, connects>>
        BY <3>4 DEF Completes, TypeOK
      <4> QED
        BY <2>1, <3>1, <4>1, <4>2, <4>3 DEF Linked
    <3> QED
      BY <2>1, <2>3, <3>2, <3>3, <3>4, SucceedMoves
  <2> QED
    BY <1>3, <2>2, <2>3, AnswerMoves
<1>4. CASE ReadFailure \/ ReadTimeout \/ BodyCut \/ Garbled
  <2>1. msg # "none" /\ (\E status : Fail(status)) /\ want' = want
    BY <1>4 DEF ReadFailure, ReadTimeout, BodyCut, Garbled
  <2> QED
    BY <2>1, FailKeepsLink
<1>5. CASE Handle
  BY <1>5 DEF Handle, client, history, Linked
<1> QED
  BY <1>1, <1>2, <1>3, <1>4, <1>5 DEF Next, Calls, vars, client, history, SkipMessage,
                                      HeaderCut, CardReady, Sync

\* Nothing is pending when the next request is made or the call ends.
LEMMA NextPending ==
    ASSUME TypeOK, Pending, link # "closed", msg \notin Carries0x01, AsksNext \/ Ends,
           inbox' = inbox \/ (inbox # <<>> /\ inbox' = Tail(inbox))
    PROVE  Pending'
<1>1. PICK d \in {0, 1} :
        \A i \in 1..Len(inbox') : i + d \in 1..Len(inbox) /\ inbox'[i] = inbox[i + d]
  BY InboxShrinks
<1>2. \A i \in 1..Len(inbox') : ~Carried(inbox'[i])
  BY <1>1 DEF Pending, Carried
<1>3. \A i \in 1..Len(queue) : queue[i].what \notin Carries0x01
  BY DEF Pending
<1>4. CASE AsksNext
  <2>1. \A i \in 1..Len(queue') : i \in 1..Len(queue) \/ i = Len(queue) + 1
    BY <1>4, AskQueues
  <2> QED
    BY <1>2, <1>3, <1>4, <2>1, AskQueues DEF Pending, Carried
<1>5. CASE Ends
  BY <1>2, <1>3, <1>5 DEF Ends, Pending, Carried
<1> QED
  BY <1>4, <1>5

\* The same when the transport failed the exchange.
LEMMA FailPending ==
    ASSUME TypeOK, Linked, Pending, NEW status, Fail(status), msg # "none",
           inbox' = inbox \/ (inbox # <<>> /\ inbox' = Tail(inbox))
    PROVE  Pending'
<1>1. CASE msg \in Carries0x01
  BY <1>1, FailMoves DEF Carries0x01, Pending
<1>2. CASE msg \notin Carries0x01
  BY <1>2, FailMoves, NextPending DEF Linked
<1> QED
  BY <1>1, <1>2

LEMMA PendingKept ==
    ASSUME TypeOK, Linked, Ordered, Indications, Told, Pending, Indications', [Next]_vars
    PROVE  Pending'
<1>1. CASE UNCHANGED <<msg, txn, queue, inbox, link>>
  BY <1>1 DEF Pending, Carried
<1>2. CASE Calls
  <2>1. msg = "none" /\ link # "closed" /\ inbox' = inbox /\ (AsksNext \/ Ends)
    BY <1>2, CallMoves DEF Begins, Refused
  <2> QED
    BY <2>1, NextPending DEF Carries0x01
<1>3. CASE ReadAnswer
  <2>1. msg # "none" /\ inbox # <<>> /\ inbox' = Tail(inbox) /\ link # "closed"
    BY <1>3, AnswerMoves DEF Linked
  <2>2. CASE Fail("failed")
    BY <2>1, <2>2, FailPending
  <2>3. CASE ~Fail("failed") /\ msg \in Carries0x01
    <3>1. /\ queue = <<>> /\ \A j \in 1..Len(inbox') : ~IsResponse(j)'
          /\ \E v \in Nat : Succeed(v)
      BY <1>3, <2>3, OwnClientID
    <3>2. Ends
      BY <2>1, <2>3, <3>1, SucceedMoves DEF Continues, Completes, Carries0x01
    <3>3. \A j \in 1..Len(inbox') : ~Carried(inbox'[j])
      BY <3>1 DEF Indications, IsResponse, SyncMessage, Carried, Carries0x01
    <3>4. queue' = <<>>
      BY <3>1, <3>2 DEF Ends
    <3> QED
      BY <3>3, <3>4 DEF Pending, Carried
  <2>4. CASE ~Fail("failed") /\ msg \notin Carries0x01
    <3>1. AsksNext \/ Ends
      BY <1>3, <2>1, <2>4, AnswerMoves, SucceedMoves DEF Continues, Completes
    <3> QED
      BY <2>1, <2>4, <3>1, NextPending
  <2> QED
    BY <2>2, <2>3, <2>4
<1>4. CASE ReadFailure \/ ReadTimeout \/ BodyCut \/ Garbled
  <2>1. /\ msg # "none" /\ \E status : Fail(status)
        /\ inbox' = inbox \/ (inbox # <<>> /\ inbox' = Tail(inbox))
    BY <1>4 DEF ReadFailure, ReadTimeout, BodyCut, Garbled
  <2> QED
    BY <2>1, FailPending
<1>5. CASE SkipMessage
  <2>1. inbox # <<>> /\ inbox' = Tail(inbox) /\ UNCHANGED <<msg, txn, queue, link>>
    BY <1>5 DEF SkipMessage
  <2>2. \A j \in 1..Len(inbox') : j + 1 \in 1..Len(inbox) /\ inbox'[j] = inbox[j + 1]
    BY <2>1, HeadIsMessage
  <2> QED
    BY <2>1, <2>2 DEF Pending, Carried
<1>6. CASE Handle
  <2>1. queue # <<>> /\ queue' = Tail(queue) /\ UNCHANGED <<msg, txn, link>>
    BY <1>6 DEF Handle
  <2>2. /\ 1 \in 1..Len(queue) /\ Head(queue) = queue[1]
        /\ \A i \in 1..Len(queue') : i + 1 \in 1..Len(queue) /\ queue'[i] = queue[i + 1]
    BY <2>1, QueueShrinks
  <2>3. CASE inbox' = inbox
    BY <2>1, <2>2, <2>3 DEF Pending, Carried
  <2>4. ASSUME NEW m \in Messages, Answers(Head(queue), m), link # "closed"
        PROVE  Pending'
    <3>1. /\ Len(inbox') = Len(inbox) + 1 /\ Len(inbox) \in Nat
          /\ \A i \in 1..Len(inbox) : inbox'[i] = inbox[i]
          /\ inbox'[Len(inbox) + 1] = m /\ m.req = queue[1].req /\ m.what = queue[1].what
      BY <2>2, <2>4, InboxGrows DEF Answers
    <3>2. ASSUME NEW i \in 1..Len(inbox'), Carried(inbox'[i])
          PROVE  inbox'[i].req = txn /\ inbox'[i].what = msg
      BY <2>2, <2>4, <3>1, <3>2 DEF Pending, Carried
    <3> QED
      BY <2>1, <2>2, <2>4, <3>2 DEF Pending, Carried
  <2>5. CASE link = "closed"
    BY <2>1, <2>5 DEF Pending
  <2> QED
    BY <1>6, <2>3, <2>4, <2>5, HandleAnswers
<1>7. CASE Sync
  <2>1. inbox' = Append(inbox, SyncMessage) /\ UNCHANGED <<msg, txn, queue, link>>
    BY <1>7 DEF Sync, SyncMessage
  <2>2. ~Carried(SyncMessage)
    BY DEF SyncMessage, Carried, Carries0x01
  <2> QED
    BY <2>1, <2>2, InboxGrows DEF Pending, Carried
<1> QED
  BY <1>1, <1>2, <1>3, <1>4, <1>5, <1>6, <1>7 DEF Next, Calls, vars, HeaderCut, CardReady

\* A request that is not for a client ID leaves none to be given out.
LEMMA NoAllocAsked ==
    ASSUME TypeOK, NoAlloc, AsksNext, msg' # "alloc"
    PROVE  NoAlloc'
<1>1. \A i \in 1..Len(queue') : i \in 1..Len(queue) \/ i = Len(queue) + 1
  BY AskQueues
<1> QED
  BY <1>1, AskQueues DEF NoAlloc

LEMMA FailReturns ==
    ASSUME TypeOK, Linked, Returned, NEW status, Fail(status), msg # "none", ids' = ids
    PROVE  Returned'
<1>1. UNCHANGED <<kind, cid>> /\ link # "closed" /\ done # "Disconnect"
  BY FailMoves DEF Linked, Returned
<1>2. CASE AsksNext /\ msg' = "cardStatus" /\ msg = "cardStatus" /\ UNCHANGED <<link, done>>
  BY <1>1, <1>2, NoAllocAsked DEF Linked, Returned
<1>3. CASE Ends /\ done' # "Disconnect" /\ (link = "down" => link' = "closed") /\ link' \in {link, "closed"}
  BY <1>1, <1>3, ExchangesAre DEF Ends, Linked, Returned, NoAlloc
<1> QED
  BY <1>2, <1>3, FailMoves

LEMMA ReturnedKept ==
    ASSUME TypeOK, Linked, Ordered, Indications, Told, Pending, Returned, [Next]_vars
    PROVE  Returned'
<1>1. CASE UNCHANGED <<msg, done, link, kind, ids, txn, cid, queue>>
  BY <1>1 DEF Returned, NoAlloc
<1>2. CASE Calls
  <2>1. msg = "none" /\ UNCHANGED <<kind, cid, ids>>
    BY <1>2, CallMoves DEF client, modem
  <2>2. CASE Begins
    <3>1. AsksNext /\ UNCHANGED <<link, done>> /\ msg' # "alloc" /\ link # "closed"
      BY <2>2 DEF Begins
    <3> QED
      BY <2>1, <3>1, NoAllocAsked DEF Returned
  <2>3. CASE Refused
    <3>1. msg' = "none" /\ queue' = queue
      BY <2>3 DEF Refused, Ends
    <3>2. done' = "Disconnect" => kind = "qrtr"
      BY <2>3 DEF Refused, Linked, TypeOK
    <3> QED
      BY <2>1, <2>3, <3>1, <3>2 DEF Refused, Returned, NoAlloc
  <2> QED
    BY <1>2, <2>2, <2>3, CallMoves
<1>3. CASE ReadAnswer
  <2>1. msg # "none" /\ ids' = ids /\ link # "closed" /\ done # "Disconnect"
    BY <1>3, AnswerMoves DEF Linked, Returned, modem
  <2>2. CASE Fail("failed")
    BY <2>1, <2>2, FailReturns
  <2>3. ASSUME NEW v \in Nat, Succeed(v), ~Fail("failed"),
               msg \in Carries0x01 => queue = <<>> /\ IsTrue(v)
        PROVE  Returned'
    <3>1. kind' = kind
      BY <2>1, <2>3, SucceedMoves
    <3>2. CASE Continues(v)
      <4>1. /\ AsksNext /\ UNCHANGED <<link, done, cid>>
            /\ msg' = "alloc" => msg = "proxy"
        BY <3>2 DEF Continues
      <4>2. msg' \in {"alloc", "switch", "cardStatus"} /\ (link = "down" => msg = "proxy" /\ msg' = "alloc")
        BY <3>2 DEF Continues, Linked
      <4> QED
        BY <2>1, <3>1, <4>1, <4>2, NoAllocAsked DEF Linked, Returned
    <3>3. CASE Completes(v) /\ msg \in Carries0x01
      <4>1. msg' = "none" /\ queue' = <<>> /\ NoAlloc'
        BY <2>3, <3>3 DEF Completes, Ends, NoAlloc
      <4>2. CASE msg = "alloc"
        <5>1. cid' = txn /\ link' = "up" /\ done' = "New" /\ kind = "qmux" /\ ids \subseteq {txn}
          BY <2>3, <3>3, <4>2 DEF Completes, IsTrue, Linked, Returned, Carries0x01
        <5> QED
          BY <2>1, <3>1, <4>1, <5>1 DEF Returned
      <4>3. CASE msg = "release"
        <5>1. link' = "closed" /\ done' = "Disconnect" /\ ids = {}
          BY <2>3, <3>3, <4>3 DEF Completes, IsTrue, Carries0x01
        <5> QED
          BY <2>1, <3>1, <4>1, <5>1 DEF Returned
      <4> QED
        BY <3>3, <4>2, <4>3 DEF Carries0x01
    <3>4. CASE Completes(v) /\ msg \notin Carries0x01
      <4>1. /\ msg' = "none" /\ UNCHANGED <<cid, link, queue>> /\ link = "up"
            /\ done' # "Disconnect"
        BY <2>1, <3>4 DEF Completes, Ends, Carries0x01, Linked, TypeOK, Exchanges
      <4> QED
        BY <2>1, <3>1, <4>1 DEF Returned, NoAlloc
    <3> QED
      BY <2>1, <2>3, <3>2, <3>3, <3>4, SucceedMoves
  <2>4. CASE ~Fail("failed") /\ msg \in Carries0x01
    BY <1>3, <2>3, <2>4, OwnClientID
  <2>5. CASE ~Fail("failed") /\ msg \notin Carries0x01
    BY <1>3, <2>3, <2>5, AnswerMoves
  <2> QED
    BY <2>2, <2>4, <2>5
<1>4. CASE ReadFailure \/ ReadTimeout \/ BodyCut \/ Garbled
  <2>1. msg # "none" /\ (\E status : Fail(status)) /\ ids' = ids
    BY <1>4 DEF ReadFailure, ReadTimeout, BodyCut, Garbled, modem
  <2> QED
    BY <2>1, FailReturns
<1>5. CASE Handle
  <2>1. queue # <<>> /\ queue' = Tail(queue) /\ UNCHANGED <<msg, txn, link, kind, cid, done>>
    BY <1>5 DEF Handle, client
  <2>2. /\ 1 \in 1..Len(queue) /\ Head(queue) = queue[1]
        /\ \A i \in 1..Len(queue') : i + 1 \in 1..Len(queue) /\ queue'[i] = queue[i + 1]
    BY <2>1, QueueShrinks
  <2>3. NoAlloc => NoAlloc'
    BY <2>2 DEF NoAlloc
  <2>4. \/ ids' \subseteq ids
        \/ queue[1].what = "alloc" /\ ids' = ids \cup {queue[1].req}
    BY <1>5, <2>2, HandleAnswers DEF Answers, modem
  <2>5. CASE ids' \subseteq ids
    BY <2>1, <2>3, <2>5 DEF Returned
  <2>6. CASE queue[1].what = "alloc" /\ ids' = ids \cup {queue[1].req}
    <3>1. ~NoAlloc /\ done # "Disconnect" /\ kind # "qrtr"
      BY <2>2, <2>6 DEF NoAlloc, Returned
    <3>2. link # "closed" => msg = "alloc" /\ link = "down" /\ queue[1].req = txn
      BY <2>2, <2>6 DEF Pending, Carries0x01, Linked
    <3>3. link = "closed" => msg = "none"
      BY DEF Linked
    <3> QED
      BY <2>1, <2>6, <3>1, <3>2, <3>3 DEF Returned
  <2> QED
    BY <2>4, <2>5, <2>6
<1> QED
  BY <1>1, <1>2, <1>3, <1>4, <1>5 DEF Next, Calls, vars, client, modem, SkipMessage,
                                      HeaderCut, CardReady, Sync

-----------------------------------------------------------------------------
(* The theorems.                                                           *)

IInv ==
    /\ TypeOK /\ Linked /\ Ordered /\ Indications /\ InTime
    /\ Waits /\ Told /\ Switched /\ Rests /\ Pending /\ Returned
    /\ AnswersMatch /\ FailuresMatch /\ ConnectMeansReady /\ ChannelIsOpen

LEMMA InitHolds == Init => IInv
<1> SUFFICES ASSUME Init
             PROVE  IInv
  OBVIOUS
<1>1. Len(queue) = 0 /\ Len(inbox) = 0
  BY DEF Init
<1>2. TypeOK
  <2>1. queue \in Seq(Requests) /\ inbox \in Seq(Messages)
    BY DEF Init
  <2>2. /\ answer \in [to : Nat, by : Nat, msg : Exchanges \cup {"none"}, late : BOOLEAN]
        /\ refusal \in [to : Nat, by : Nat, late : BOOLEAN]
    BY DEF Init
  <2>3. attempt \in 0..(Attempts - 1) /\ done \in Outcomes
    BY DEF Init, Outcomes
  <2> QED
    BY <2>1, <2>2, <2>3 DEF Init, TypeOK
<1> QED
  BY <1>1, <1>2 DEF Init, IInv, Linked, Ordered, Indications, InTime, Waits, Told, Switched, Rests,
                    Pending, Returned, NoAlloc, AnswersMatch, FailuresMatch, ConnectMeansReady,
                    ChannelIsOpen

LEMMA StepHolds == IInv /\ [Next]_vars => IInv'
<1> SUFFICES ASSUME IInv, [Next]_vars
             PROVE  IInv'
  OBVIOUS
<1>1. TypeOK' /\ Linked' /\ Ordered'
  BY TypesKept, LinkedKept, OrderKept DEF IInv
<1>2. Indications' /\ InTime'
  BY IndicationsKept, InTimeKept DEF IInv
<1>3. Waits' /\ Told' /\ Switched' /\ Rests'
  BY WaitsKept, ToldKept, SwitchedKept, RestsKept DEF IInv
<1>4. Pending' /\ Returned'
  BY <1>2, PendingKept, ReturnedKept DEF IInv
<1>5. AnswersMatch' /\ FailuresMatch' /\ ConnectMeansReady' /\ ChannelIsOpen'
  BY AnswersKept, FailuresKept, ConnectKept, OpenKept DEF IInv
<1> QED
  BY <1>1, <1>2, <1>3, <1>4, <1>5 DEF IInv

LEMMA AlwaysIInv == Spec => []IInv
BY InitHolds, StepHolds, PTL DEF Spec

\* The client, the modem and what is on the way between them have their types.
THEOREM TypeCorrect == Spec => []TypeOK
<1>1. IInv => TypeOK
  BY DEF IInv
<1> QED
  BY <1>1, AlwaysIInv, PTL

\* Transport.Read takes the answer of another request only if the transactions
\* are congruent (QRTR), or after a request that was given up, or when it is a
\* sync indication that a request to the control service (in New or Disconnect)
\* or a transaction that wraps to zero lets through.
THEOREM AnswersAreOurs == Spec => []AnswersMatch
<1>1. IInv => AnswersMatch
  BY DEF IInv
<1> QED
  BY <1>1, AlwaysIInv, PTL

\* A call fails by the refusal of another request only after one was given up,
\* and only by that of an earlier one.
THEOREM FailuresAreOurs == Spec => []FailuresMatch
<1>1. IInv => FailuresMatch
  BY DEF IInv
<1> QED
  BY <1>1, AlwaysIInv, PTL

\* The first Connect that reports no error and took only its own answers leaves
\* the configured slot active, and a card that is ready if it had to switch,
\* whatever earlier calls gave up or took.
THEOREM ConnectIsReady == Spec => []ConnectMeansReady
<1>1. IInv => ConnectMeansReady
  BY DEF IInv
<1> QED
  BY <1>1, AlwaysIInv, PTL

\* The channel OpenLogicalChannel returns is open in the card until the next call,
\* if the answer it took was its own, whatever earlier calls gave up or took.
THEOREM ChannelStaysOpen == Spec => []ChannelIsOpen
<1>1. IInv => ChannelIsOpen
  BY DEF IInv
<1> QED
  BY <1>1, AlwaysIInv, PTL

\* After a Disconnect that reports no error the modem holds no client ID, and
\* none is given out any more.
THEOREM ClientIDGoesBack == Spec => []ClientIDReturned
<1>1. IInv => ClientIDReturned
  BY DEF IInv, Returned, ClientIDReturned
<1> QED
  BY <1>1, AlwaysIInv, PTL

=============================================================================
