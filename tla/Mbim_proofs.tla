----------------------------- MODULE Mbim_proofs ----------------------------
(***************************************************************************)
(* Proofs about Mbim, for any slots, channels, sizes and bounds.           *)
(*                                                                         *)
(* What is taken for an answer is whole because every message in the       *)
(* socket is a fragment of an answer (Fragments) and because what has been *)
(* collected are the first fragments of the one to the running exchange    *)
(* (Collected): both are inductive together with the types.  A command is  *)
(* whole because the queue only ever holds whole messages (Pieces), cut as *)
(* FramesFollow says for every length.  A Connect that succeeds means what *)
(* it says because only the running exchange can switch the slot           *)
(* (Switching), so that a good answer to it is still true when it is read  *)
(* (Told).                                                                 *)
(***************************************************************************)
EXTENDS Mbim, FiniteSetTheorems, SequenceTheorems, TLAPS

\* What a device can put on the stream, and what the client can.
Fragments == {f \in Frame : /\ f.total \in 1..MaxFragments /\ f.current < f.total
                            /\ f.type # "commandDone" => f.total = 1}
Requests  == {q \in Sent : q.what = "slotSet" => q.arg \in Slots}

\* Frames that are the first ones of the answer to the running exchange.
InOrder(fs) ==
    /\ fs \in Seq(Fragments)
    /\ \A i \in 1..Len(fs) : fs[i].txn = txn /\ fs[i].current = i - 1 /\ fs[i].total = fs[1].total

Collected ==
    /\ InOrder(collector)
    /\ collector # <<>> => msg # "none" /\ Len(collector) < collector[1].total

\* What the end of an exchange sets, and the rest.
Client ==
    /\ link \in {"up", "closed"} /\ channel \in Nat /\ txn \in Nat
    /\ msg \in Exchanges \cup {"none"} /\ attempt \in 0..(Attempts - 1)
    /\ done \in Outcomes /\ disconnect \in {"no", "waiting", "running", "returned"}
    /\ queue \in Seq(Requests)

Rest ==
    /\ slot \in Slots /\ inbox \in Seq(Fragments) /\ synced \in BOOLEAN
    /\ active \in Slots /\ ready \in BOOLEAN /\ open \subseteq Channels
    /\ calls \in Nat /\ indications \in Nat

Taken == answer \in [to : Nat, frames : Seq(Fragments)] /\ AnswerIsWhole

IInv == Client /\ Rest /\ Collected /\ Taken

LEMMA IInvIsTyped == IInv => TypeOK
<1> SUFFICES ASSUME IInv
             PROVE  TypeOK
  OBVIOUS
<1>1. \A f \in Fragments : f \in Frame /\ f.total \in 1..MaxFragments
  BY DEF Fragments
<1>2. \A q \in Requests : q \in Sent
  BY DEF Requests
<1>3. \A s \in Seq(Fragments) : s \in Seq(Frame)
  BY <1>1
<1>4. collector \in Seq(Frame) /\ inbox \in Seq(Frame) /\ answer \in [to : Nat, frames : Seq(Frame)]
  BY <1>3 DEF IInv, Collected, InOrder, Rest, Taken
<1>5. queue \in Seq(Sent)
  BY <1>2 DEF IInv, Client
<1>6. Len(collector) < MaxFragments
  <2>1. CASE collector = <<>>
    BY <2>1, BoundsAssumption
  <2>2. CASE collector # <<>>
    <3>1. collector[1] \in Fragments
      BY <2>2 DEF IInv, Collected, InOrder
    <3>2. collector[1].total \in 1..MaxFragments /\ Len(collector) < collector[1].total
      BY <1>1, <2>2, <3>1 DEF IInv, Collected
    <3>3. Len(collector) \in Nat
      BY <1>4
    <3> QED
      BY <3>2, <3>3, BoundsAssumption
  <2> QED
    BY <2>1, <2>2
<1> QED
  BY <1>4, <1>5, <1>6 DEF IInv, TypeOK, Client, Rest, Collected

LEMMA IInvInit == Init => IInv
<1> SUFFICES ASSUME Init
             PROVE  IInv
  OBVIOUS
<1>1. Client
  BY BoundsAssumption DEF Init, Client, Outcomes
<1>2. Rest
  BY DEF Init, Rest
<1>3. Collected
  BY DEF Init, Collected, InOrder
<1>4. Taken
  BY DEF Init, Taken, AnswerIsWhole
<1> QED
  BY <1>1, <1>2, <1>3, <1>4 DEF IInv

-----------------------------------------------------------------------------
(* Requests.                                                               *)

LEMMA FramesAreTyped ==
    ASSUME NEW n \in Nat, n >= 48
    PROVE  Frames(n) \in Seq([total : Nat, current : Nat, from : Nat, to : Nat])
<1> DEFINE room  == MaxControlTransfer - 20
           count == Cardinality({k \in 0..n : k * room < n - 20})
<1>1. room \in Nat /\ room > 0
  BY SizesAssumption
<1>2. count \in Nat
  <2>1. IsFiniteSet(0..n)
    BY FS_Interval
  <2>2. IsFiniteSet({k \in 0..n : k * room < n - 20})
    BY <2>1, FS_Subset
  <2> QED
    BY <2>2, FS_CardinalityType
<1>3. FragmentTotal(n) \in Nat
  <2>1. n - 20 + room - 1 \in Nat
    BY <1>1
  <2> QED
    BY <1>1, <2>1 DEF FragmentTotal
<1>4. CASE n <= MaxControlTransfer
  BY <1>4 DEF Frames
<1>5. CASE ~(n <= MaxControlTransfer)
  <2>1. \A i \in 1..count : (i - 1) * room \in Nat /\ i * room \in Nat
    BY <1>1, <1>2
  <2>2. \A i \in 1..count :
           [total |-> FragmentTotal(n), current |-> i - 1, from |-> 20 + (i - 1) * room,
            to |-> IF i < count THEN 20 + i * room ELSE n]
              \in [total : Nat, current : Nat, from : Nat, to : Nat]
    <3> HIDE DEF room, count
    <3> QED
      BY <1>2, <1>3, <2>1
  <2>3. Frames(n) = [i \in 1..count |->
           [total |-> FragmentTotal(n), current |-> i - 1, from |-> 20 + (i - 1) * room,
            to |-> IF i < count THEN 20 + i * room ELSE n]]
    BY <1>5 DEF Frames
  <2> HIDE DEF room, count
  <2> QED
    BY <1>2, <2>2, <2>3
<1> QED
  BY <1>4, <1>5

LEMMA WriteToIsTyped ==
    ASSUME NEW m \in Exchanges, NEW arg \in Nat, m = "slotSet" => arg \in Slots,
           NEW n \in Nat, n >= 48, txn \in Nat
    PROVE  WriteTo(m, arg, n) \in Seq(Requests)
<1>1. Frames(n) \in Seq([total : Nat, current : Nat, from : Nat, to : Nat])
  BY FramesAreTyped
<1>2. PICK k \in Nat : k = Len(Frames(n)) /\ DOMAIN Frames(n) = 1..k
  BY <1>1
<1>3. \A i \in 1..k : Frames(n)[i] \in [total : Nat, current : Nat, from : Nat, to : Nat]
  BY <1>1, <1>2, ElementOfSeq
<1>4. \A i \in 1..k : /\ Frames(n)[i].total \in Nat /\ Frames(n)[i].current \in Nat
                      /\ Frames(n)[i].from \in Nat /\ Frames(n)[i].to \in Nat
  BY <1>3
<1>5. \A i \in 1..k :
        [txn |-> txn + 1, what |-> m, arg |-> arg, size |-> n, total |-> Frames(n)[i].total,
         current |-> Frames(n)[i].current, from |-> Frames(n)[i].from, to |-> Frames(n)[i].to]
           \in Requests
  BY <1>4 DEF Requests, Sent
<1> QED
  BY <1>2, <1>5 DEF WriteTo

LEMMA SendKeeps ==
    ASSUME Client, NEW m \in Exchanges, NEW arg \in Nat, m = "slotSet" => arg \in Slots,
           NEW n \in Nat, n >= 48, Send(m, arg, n)
    PROVE  /\ link' \in {"up", "closed"} /\ txn' \in Nat /\ msg' = m /\ done' \in Outcomes
           /\ queue' \in Seq(Requests)
<1>1. WriteTo(m, arg, n) \in Seq(Requests)
  BY WriteToIsTyped DEF Client
<1> QED
  BY <1>1 DEF Client, Send

\* Every message but an APDU's.
Asks == \/ ProxyConfig \/ OpenDevice \/ QuerySlot \/ SetSlot \/ ReadyStatus \/ OpenChannel
        \/ CloseChannel \/ CloseDevice

LEMMA AsksSend ==
    ASSUME Client, slot \in Slots, Asks
    PROVE  \E m \in Exchanges, arg \in Nat : (m = "slotSet" => arg \in Slots) /\ Send(m, arg, 48)
<1> USE DEF Ask, Exchanges, Commands
<1>1. slot \in Nat /\ channel \in Nat
  BY SlotsAssumption DEF Client
<1>2. CASE ProxyConfig
  BY <1>2 DEF ProxyConfig
<1>3. CASE OpenDevice
  BY <1>3 DEF OpenDevice
<1>4. CASE QuerySlot
  BY <1>4 DEF QuerySlot
<1>5. CASE SetSlot
  BY <1>1, <1>5 DEF SetSlot
<1>6. CASE ReadyStatus
  BY <1>6 DEF ReadyStatus
<1>7. CASE OpenChannel
  BY <1>7 DEF OpenChannel
<1>8. CASE CloseChannel
  BY <1>1, <1>8 DEF CloseChannel
<1>9. CASE CloseDevice
  BY <1>9 DEF CloseDevice
<1> QED
  BY <1>2, <1>3, <1>4, <1>5, <1>6, <1>7, <1>8, <1>9 DEF Asks

LEMMA AskKeeps ==
    ASSUME Client, slot \in Slots, Asks
    PROVE  /\ link' \in {"up", "closed"} /\ txn' \in Nat /\ msg' \in Exchanges
           /\ done' \in Outcomes /\ queue' \in Seq(Requests)
<1>1. PICK m \in Exchanges, arg \in Nat : (m = "slotSet" => arg \in Slots) /\ Send(m, arg, 48)
  BY AsksSend
<1> QED
  BY <1>1, SendKeeps

-----------------------------------------------------------------------------
(* The end of an exchange.                                                 *)

LEMMA SucceedKeeps ==
    ASSUME Client, slot \in Slots, msg # "none", NEW v \in Nat, Succeed(v)
    PROVE  Client'
<1> USE BoundsAssumption DEF Client
<1>1. CASE msg = "proxyConfig"
  BY <1>1, AskKeeps DEF Asks, Succeed
<1>2. CASE msg = "open"
  BY <1>2, AskKeeps DEF Asks, Succeed
<1>3. CASE msg = "slotQuery"
  <2>1. CASE v = slot
    BY <1>3, <2>1 DEF Succeed, EnsureSlotActivated, Return, Outcomes
  <2>2. CASE v # slot
    BY <1>3, <2>2, AskKeeps DEF Asks, Succeed, EnsureSlotActivated
  <2> QED
    BY <2>1, <2>2
<1>4. CASE msg = "slotSet"
  BY <1>4, AskKeeps DEF Asks, Succeed
<1>5. CASE msg = "readyStatus"
  <2>0. WaitForSlotActivation(v) /\ UNCHANGED <<channel, disconnect>>
    BY <1>5 DEF Succeed
  <2>1. CASE v # 1 /\ attempt + 1 < Attempts
    BY <2>0, <2>1, AskKeeps DEF Asks, WaitForSlotActivation
  <2>2. CASE ~(v # 1 /\ attempt + 1 < Attempts)
    BY <2>0, <2>2 DEF WaitForSlotActivation, Return, Outcomes
  <2> QED
    BY <2>1, <2>2
<1>6. CASE msg \in {"openChannel", "closeChannel", "apdu", "close"}
  BY <1>6 DEF Succeed, Return, Outcomes
<1> QED
  BY <1>1, <1>2, <1>3, <1>4, <1>5, <1>6 DEF Succeed, Exchanges, Commands

LEMMA FailKeeps ==
    ASSUME Client, slot \in Slots, msg # "none", FailExchange
    PROVE  Client'
<1> USE BoundsAssumption DEF Client
<1>1. CASE msg # "readyStatus"
  BY <1>1 DEF FailExchange, Fail, Return, Outcomes
<1>2. CASE msg = "readyStatus"
  <2>0. WaitForSlotActivation(0) /\ UNCHANGED <<channel, disconnect>>
    BY <1>2 DEF FailExchange
  <2>1. CASE attempt + 1 < Attempts
    BY <2>0, <2>1, AskKeeps DEF Asks, WaitForSlotActivation
  <2>2. CASE ~(attempt + 1 < Attempts)
    BY <2>0, <2>2 DEF WaitForSlotActivation, Return, Outcomes
  <2> QED
    BY <2>1, <2>2
<1> QED
  BY <1>1, <1>2

LEMMA CompleteKeeps ==
    ASSUME IInv, msg # "none", NEW fs, InOrder(fs), fs # <<>>, fs[1].total = Len(fs), Complete(fs)
    PROVE  Client' /\ Collected' /\ Taken'
<1>1. fs[1] \in Fragments /\ Head(fs) = fs[1]
  BY DEF InOrder
<1>2. Head(fs).val \in Nat
  BY <1>1 DEF Fragments, Frame
<1>3. Client'
  <2>1. Succeed(Head(fs).val) \/ FailExchange
    BY DEF Complete
  <2> QED
    BY <1>2, <2>1, SucceedKeeps, FailKeeps DEF IInv, Rest
<1>4. Collected'
  BY DEF Complete, Collected, InOrder
<1>5. Taken'
  <2>1. answer' = [to |-> txn, frames |-> fs] /\ txn \in Nat
    BY DEF Complete, IInv, Client
  <2>2. answer'.to = txn /\ answer'.frames = fs /\ fs \in Seq(Fragments)
    BY <2>1 DEF InOrder
  <2>3. \A i \in 1..Len(fs) : fs[i].txn = txn /\ fs[i].current = i - 1 /\ fs[i].total = Len(fs)
    BY DEF InOrder
  <2>4. answer' \in [to : Nat, frames : Seq(Fragments)]
    BY <2>1, <2>2
  <2> QED
    BY <2>2, <2>3, <2>4 DEF Taken, AnswerIsWhole
<1> QED
  BY <1>3, <1>4, <1>5

LEMMA RefusedKeeps ==
    ASSUME IInv, msg # "none", Refused
    PROVE  Client' /\ Collected' /\ Taken'
<1>1. Client'
  BY FailKeeps DEF IInv, Rest, Refused
<1>2. Collected'
  BY DEF Refused, Collected, InOrder
<1>3. Taken'
  BY DEF Refused, IInv, Taken, AnswerIsWhole
<1> QED
  BY <1>1, <1>2, <1>3

-----------------------------------------------------------------------------
(* The loop of ReadFrom.                                                   *)

LEMMA ReadKeeps ==
    ASSUME IInv, SkipFrame \/ ReadWhole \/ FirstFragment \/ AddFragment
    PROVE  IInv'
<1> DEFINE m == Head(inbox)
<1>1. /\ Reading /\ msg # "none" /\ inbox \in Seq(Fragments) /\ inbox # <<>>
      /\ m \in Fragments /\ Tail(inbox) \in Seq(Fragments)
  BY DEF SkipFrame, ReadWhole, FirstFragment, AddFragment, Reading, IInv, Rest
<1>2. Rest'
  BY <1>1 DEF Reading, device, IInv, Rest
<1>3. /\ m \in Frame /\ m.total \in 1..MaxFragments /\ m.current \in Nat /\ m.current < m.total
      /\ m.type # "commandDone" => m.total = 1
  BY <1>1 DEF Fragments, Frame
<1> HIDE DEF m
<1>4. CASE SkipFrame
  BY <1>2, <1>4 DEF SkipFrame, IInv, Client, Collected, InOrder, Taken, AnswerIsWhole
<1>5. CASE ReadWhole
  <2>1. m.txn = txn /\ Unfragmented(m) /\ Complete(<<m>>)
    BY <1>5 DEF ReadWhole, Skips, m
  <2>2. m.total = 1 /\ m.current = 0
    BY <1>3, <2>1, BoundsAssumption DEF Unfragmented
  <2>3. InOrder(<<m>>) /\ <<m>> # <<>> /\ <<m>>[1].total = Len(<<m>>)
    BY <1>1, <2>1, <2>2 DEF InOrder
  <2> QED
    BY <1>1, <1>2, <2>1, <2>3, CompleteKeeps DEF IInv
<1>6. CASE FirstFragment
  <2>1. m.txn = txn /\ ~Unfragmented(m) /\ collector = <<>>
    BY <1>6 DEF FirstFragment, Skips, m
  <2>2. CASE m.current # 0
    <3>1. Refused
      BY <1>6, <2>2 DEF FirstFragment, m
    <3> QED
      BY <1>1, <1>2, <3>1, RefusedKeeps DEF IInv
  <2>3. CASE m.current = 0
    <3>1. /\ collector' = <<m>>
          /\ UNCHANGED <<link, channel, txn, msg, attempt, done, disconnect, queue, answer>>
      BY <1>6, <2>3 DEF FirstFragment, m
    <3>2. m.total > 1
      BY <1>3, <2>1, BoundsAssumption DEF Unfragmented
    <3>3. Collected'
      BY <1>1, <2>1, <2>3, <3>1, <3>2 DEF Collected, InOrder
    <3> QED
      BY <1>2, <3>1, <3>3 DEF IInv, Client, Taken, AnswerIsWhole
  <2> QED
    BY <2>2, <2>3
<1>7. CASE AddFragment
  <2>1. m.txn = txn /\ collector # <<>>
    BY <1>7 DEF AddFragment, Skips, m
  <2>2. CASE ~NextInOrder(m)
    <3>1. Refused
      BY <1>7, <2>2 DEF AddFragment, m
    <3> QED
      BY <1>1, <1>2, <3>1, RefusedKeeps DEF IInv
  <2>3. CASE NextInOrder(m)
    <3> DEFINE fs == Append(collector, m)
    <3>1. collector \in Seq(Fragments) /\ Len(collector) \in Nat /\ Len(collector) > 0
      BY <2>1 DEF IInv, Collected, InOrder
    <3>2. m.current = Len(collector) /\ m.total = collector[1].total
      BY <2>3, <3>1 DEF NextInOrder
    <3>3. /\ fs \in Seq(Fragments) /\ Len(fs) = Len(collector) + 1 /\ fs[Len(fs)] = m
          /\ \A i \in 1..Len(collector) : fs[i] = collector[i]
      BY <1>1, <3>1
    <3> HIDE DEF fs
    <3>4. InOrder(fs)
      <4> SUFFICES ASSUME NEW i \in 1..Len(fs)
                   PROVE  fs[i].txn = txn /\ fs[i].current = i - 1 /\ fs[i].total = fs[1].total
        BY <3>3 DEF InOrder
      <4>1. fs[1] = collector[1]
        BY <3>1, <3>3
      <4>2. CASE i = Len(fs)
        BY <2>1, <3>1, <3>2, <3>3, <4>1, <4>2
      <4>3. CASE i # Len(fs)
        <5>1. i \in 1..Len(collector)
          BY <3>1, <3>3, <4>3
        <5> QED
          BY <3>3, <4>1, <5>1 DEF IInv, Collected, InOrder
      <4> QED
        BY <4>2, <4>3
    <3>5. fs # <<>> /\ fs[1].total = m.total
      BY <3>1, <3>2, <3>3
    <3>6. CASE IsLast(m)
      <4>1. Complete(fs) /\ fs[1].total = Len(fs)
        BY <1>7, <2>3, <3>3, <3>5, <3>6 DEF AddFragment, IsLast, m, fs
      <4> QED
        BY <1>1, <1>2, <3>4, <3>5, <4>1, CompleteKeeps DEF IInv
    <3>7. CASE ~IsLast(m)
      <4>1. /\ collector' = fs
            /\ UNCHANGED <<link, channel, txn, msg, attempt, done, disconnect, queue, answer>>
        BY <1>7, <2>3, <3>7 DEF AddFragment, m, fs
      <4>2. Len(fs) < fs[1].total
        BY <1>3, <3>1, <3>2, <3>3, <3>5, <3>7 DEF IsLast
      <4>3. Collected'
        BY <1>1, <3>4, <4>1, <4>2 DEF Collected, InOrder
      <4> QED
        BY <1>2, <4>1, <4>3 DEF IInv, Client, Taken, AnswerIsWhole
    <3> QED
      BY <3>6, <3>7
  <2> QED
    BY <2>2, <2>3
<1> QED
  BY <1>4, <1>5, <1>6, <1>7

LEMMA CutKeeps ==
    ASSUME IInv, ReadTimeout \/ HeaderCut \/ BodyCut \/ Garbled
    PROVE  IInv'
<1>1. CASE ReadTimeout
  BY <1>1, RefusedKeeps DEF ReadTimeout, device, IInv, Rest
<1>2. CASE HeaderCut
  BY <1>2 DEF HeaderCut, device, IInv, Client, Rest, Collected, InOrder, Taken, AnswerIsWhole
<1>3. CASE BodyCut
  BY <1>3, RefusedKeeps DEF BodyCut, device, IInv, Rest
<1>4. CASE Garbled
  <2>1. Rest'
    <3>1. inbox \in Seq(Fragments) /\ inbox # <<>> => Tail(inbox) \in Seq(Fragments)
      OBVIOUS
    <3> QED
      BY <1>4, <3>1 DEF Garbled, device, IInv, Rest
  <2>2. CASE Refused
    BY <1>4, <2>1, <2>2, RefusedKeeps DEF Garbled, IInv
  <2>3. CASE ~Refused
    BY <1>4, <2>1, <2>3 DEF Garbled, IInv, Client, Collected, InOrder, Taken, AnswerIsWhole
  <2> QED
    BY <2>2, <2>3
<1> QED
  BY <1>1, <1>2, <1>3, <1>4

-----------------------------------------------------------------------------
(* The calls.                                                              *)

LEMMA CallKeeps ==
    ASSUME IInv,
           \/ Connect \/ OpenLogicalChannel \/ CloseLogicalChannel
           \/ (\E n \in APDUSizes : Transmit(n)) \/ CallDisconnect \/ Disconnect
    PROVE  IInv'
<1>1. CASE CallDisconnect
  BY <1>1 DEF CallDisconnect, device, IInv, Client, Rest, Collected, InOrder, Taken, AnswerIsWhole
<1>2. CASE ~CallDisconnect
  <2>1. /\ msg = "none" /\ UNCHANGED <<slot, channel, attempt, collector, inbox, synced, active,
                                      ready, open, indications, answer>>
        /\ calls' \in Nat
    BY <1>2 DEF Connect, OpenLogicalChannel, CloseLogicalChannel, Transmit, Disconnect,
                StartCall, device, IInv, Rest
  <2>2. collector = <<>>
    BY <2>1 DEF IInv, Collected
  <2>3. Rest' /\ Collected' /\ Taken'
    BY <2>1, <2>2 DEF IInv, Rest, Collected, InOrder, Taken, AnswerIsWhole
  <2>4. disconnect' \in {"no", "waiting", "running", "returned"}
    BY <1>2 DEF Connect, OpenLogicalChannel, CloseLogicalChannel, Transmit, Disconnect,
                StartCall, IInv, Client
  <2>5. /\ link' \in {"up", "closed"} /\ txn' \in Nat /\ msg' \in Exchanges \cup {"none"}
        /\ done' \in Outcomes /\ queue' \in Seq(Requests)
    <3>1. CASE ProxyConfig \/ OpenChannel \/ CloseChannel \/ CloseDevice
      BY <3>1, AskKeeps DEF Asks, IInv, Rest
    <3>2. CASE WriteFails
      BY <3>2 DEF WriteFails, Return, Outcomes, IInv, Client
    <3>3. CASE \E n \in APDUSizes : APDU(n)
      <4>1. PICK n \in APDUSizes : Send("apdu", channel, n)
        BY <3>3 DEF APDU
      <4>2. n \in Nat /\ n >= 48 /\ channel \in Nat /\ "apdu" \in Exchanges
        BY SizesAssumption DEF Exchanges, Commands, IInv, Client
      <4> QED
        BY <4>1, <4>2, SendKeeps DEF IInv
    <3> QED
      BY <1>2, <3>1, <3>2, <3>3 DEF Connect, OpenLogicalChannel, CloseLogicalChannel, Transmit,
                                    Disconnect
  <2> QED
    BY <2>1, <2>3, <2>4, <2>5 DEF IInv, Client
<1> QED
  BY <1>1, <1>2

-----------------------------------------------------------------------------
(* The device.                                                             *)

LEMMA AnswerIsTyped ==
    ASSUME NEW q \in Requests, NEW status \in {"ok", "failed"}, NEW val \in Nat,
           NEW n \in 1..MaxFragments, q.what = "apdu" \/ n = 1
    PROVE  Answer(q, status, val, n) \in Seq(Fragments) /\ Len(Answer(q, status, val, n)) = n
<1>1. n \in Nat /\ q.txn \in Nat /\ DoneType(q.what) \in Types
  BY BoundsAssumption DEF Requests, Sent, DoneType, Types
<1>2. DoneType(q.what) # "commandDone" => n = 1
  BY DEF DoneType
<1>3. \A i \in 1..n : [type |-> DoneType(q.what), txn |-> q.txn, total |-> n,
                       current |-> i - 1, status |-> status, val |-> val] \in Fragments
  BY <1>1, <1>2 DEF Fragments, Frame
<1> QED
  BY <1>1, <1>3 DEF Answer

LEMMA ReplyKeeps ==
    ASSUME inbox \in Seq(Fragments), NEW q \in Requests, NEW status \in {"ok", "failed"},
           NEW val \in Nat, Reply(q, status, val)
    PROVE  inbox' \in Seq(Fragments)
<1>1. PICK n \in IF q.what = "apdu" THEN {1, MaxFragments} ELSE {1} : \E k \in 1..n :
         inbox' = inbox \o SubSeq(Answer(q, status, val, n), 1, k)
  BY DEF Reply
<1>2. PICK k \in 1..n : inbox' = inbox \o SubSeq(Answer(q, status, val, n), 1, k)
  BY <1>1
<1>3. n \in 1..MaxFragments /\ (q.what = "apdu" \/ n = 1)
  BY BoundsAssumption
<1>4. Answer(q, status, val, n) \in Seq(Fragments) /\ Len(Answer(q, status, val, n)) = n
  BY <1>3, AnswerIsTyped
<1> DEFINE a == Answer(q, status, val, n)
<1> HIDE DEF a
<1>5. SubSeq(a, 1, k) \in Seq(Fragments)
  <2>1. a \in Seq(Fragments) /\ Len(a) = n /\ n \in Nat /\ k \in 1..n
    BY <1>3, <1>4, BoundsAssumption DEF a
  <2>2. \A i \in 1..k : a[i] \in Fragments
    BY <2>1, ElementOfSeq
  <2> QED
    BY <2>1, <2>2
<1> QED
  BY <1>2, <1>5, ConcatProperties DEF a

LEMMA DeviceKeeps ==
    ASSUME IInv, Handle \/ CardReady \/ Indicate
    PROVE  IInv'
<1>1. CASE Handle
  <2> DEFINE q == Head(queue)
             n == IF q.total < Len(queue) THEN q.total ELSE Len(queue)
  <2>1. queue \in Seq(Requests) /\ queue # <<>> /\ q \in Requests /\ inbox \in Seq(Fragments)
    BY <1>1 DEF Handle, IInv, Client, Rest
  <2>2. /\ q.total \in Nat /\ q.arg \in Nat /\ q.txn \in Nat
        /\ q.what = "slotSet" => q.arg \in Slots
    BY <2>1 DEF Requests, Sent
  <2>3. /\ queue' = SubSeq(queue, n + 1, Len(queue))
        /\ \/ Perform(q)
           \/ (Reply(q, "failed", 0) \/ FunctionError(q)) /\ UNCHANGED device
           \/ UNCHANGED <<inbox, device>>
        /\ UNCHANGED <<link, slot, channel, txn, msg, attempt, done, disconnect, collector,
                       synced, calls, indications, answer>>
    BY <1>1 DEF Handle
  <2>4. queue' \in Seq(Requests)
    <3>1. n \in 0..Len(queue)
      BY <2>1, <2>2
    <3> HIDE DEF n
    <3> QED
      BY <2>1, <2>3, <3>1
  <2> HIDE DEF q, n
  <2>5. active \in Nat /\ active \in Slots /\ ready \in BOOLEAN /\ open \subseteq Channels
    BY SlotsAssumption DEF IInv, Rest
  <2>6. /\ inbox' \in Seq(Fragments)
        /\ active' \in Slots /\ ready' \in BOOLEAN /\ open' \subseteq Channels
    <3>1. CASE UNCHANGED <<inbox, device>>
      BY <2>1, <2>5, <3>1 DEF device
    <3>2. CASE (Reply(q, "failed", 0) \/ FunctionError(q)) /\ UNCHANGED device
      <4>1. CASE Reply(q, "failed", 0)
        BY <2>1, <2>5, <3>2, <4>1, ReplyKeeps DEF device
      <4>2. CASE FunctionError(q)
        <5>1. [type |-> "functionError", txn |-> q.txn, total |-> 1,
               current |-> 0, status |-> "failed", val |-> 0] \in Fragments
          BY <2>2, BoundsAssumption DEF Fragments, Frame, Types
        <5>2. inbox' \in Seq(Fragments)
          BY <2>1, <4>2, <5>1 DEF FunctionError
        <5> QED
          BY <2>5, <3>2, <5>2 DEF device
      <4> QED
        BY <3>2, <4>1, <4>2
    <3>3. CASE Perform(q)
      <4>1. \E val \in Nat : Reply(q, "ok", val)
        <5>1. CASE q.what \in {"proxyConfig", "open", "close", "apdu"}
          BY <3>3, <5>1 DEF Perform
        <5>2. CASE q.what = "slotQuery" \/ q.what = "slotSet"
          BY <2>2, <2>5, <3>3, <5>2 DEF Perform
        <5>3. CASE q.what = "readyStatus" \/ q.what = "closeChannel"
          BY <3>3, <5>3 DEF Perform
        <5>4. CASE q.what = "openChannel"
          BY <3>3, <5>4, SlotsAssumption DEF Perform
        <5> QED
          BY <3>3, <5>1, <5>2, <5>3, <5>4 DEF Perform
      <4>2. inbox' \in Seq(Fragments)
        BY <2>1, <4>1, ReplyKeeps
      <4>3. active' \in Slots /\ ready' \in BOOLEAN /\ open' \subseteq Channels
        BY <2>2, <2>5, <3>3 DEF Perform, device
      <4> QED
        BY <4>2, <4>3
    <3> QED
      BY <2>3, <3>1, <3>2, <3>3
  <2> QED
    BY <2>3, <2>4, <2>6 DEF IInv, Client, Rest, Collected, InOrder, Taken, AnswerIsWhole
<1>2. CASE CardReady
  BY <1>2 DEF CardReady, IInv, Client, Rest, Collected, InOrder, Taken, AnswerIsWhole
<1>3. CASE Indicate
  <2>1. [type |-> "indicateStatus", txn |-> 0, total |-> 1,
         current |-> 0, status |-> "ok", val |-> 0] \in Fragments
    BY BoundsAssumption DEF Fragments, Frame, Types
  <2>2. Rest'
    BY <1>3, <2>1 DEF Indicate, device, IInv, Rest
  <2> QED
    BY <1>3, <2>2 DEF Indicate, IInv, Client, Collected, InOrder, Taken, AnswerIsWhole
<1> QED
  BY <1>1, <1>2, <1>3

-----------------------------------------------------------------------------
LEMMA IInvStep == IInv /\ [Next]_vars => IInv'
<1> SUFFICES ASSUME IInv, [Next]_vars
             PROVE  IInv'
  OBVIOUS
<1>1. CASE UNCHANGED vars
  BY <1>1 DEF vars, device, IInv, Client, Rest, Collected, InOrder, Taken, AnswerIsWhole
<1>2. CASE Next
  BY <1>2, CallKeeps, ReadKeeps, CutKeeps, DeviceKeeps DEF Next
<1> QED
  BY <1>1, <1>2

LEMMA Inductive == Spec => []IInv
BY IInvInit, IInvStep, PTL DEF Spec

\* Type correctness of the MBIM driver and its device.
THEOREM TypeCorrect == Spec => []TypeOK
BY Inductive, IInvIsTyped, PTL

\* The fragments the collector puts together for a call are one answer, to the
\* request of that call, and all of it.
THEOREM AnswersAreWhole == Spec => []AnswerIsWhole
<1>1. IInv => AnswerIsWhole
  BY DEF IInv, Taken
<1> QED
  BY <1>1, Inductive, PTL

-----------------------------------------------------------------------------
(* The frames of a message: dividing n - 20 bytes by the room of a frame,  *)
(* rounded up, is counting the k with k * room < n - 20.                   *)

LEMMA Ceil ==
    ASSUME NEW x \in Nat, NEW d \in Nat, d > 0, x > 0
    PROVE  LET c == (x + d - 1) \div d
           IN  c \in Nat /\ c > 0 /\ (c - 1) * d < x /\ x <= c * d
BY SMTT(30)
LEMMA Mono ==
    ASSUME NEW a \in Nat, NEW b \in Nat, NEW d \in Nat, a <= b
    PROVE  a * d <= b * d
BY SMTT(30)
LEMMA Count ==
    ASSUME NEW x \in Nat, NEW d \in Nat, d > 0, x > 0, NEW n \in Nat, n >= x
    PROVE  Cardinality({k \in 0..n : k * d < x}) = (x + d - 1) \div d
<1> DEFINE c == (x + d - 1) \div d
<1>1. c \in Nat /\ c > 0 /\ (c - 1) * d < x /\ x <= c * d
  BY Ceil
<1> HIDE DEF c
<1>2. \A k \in Nat : k * d < x <=> k < c
  <2> TAKE k \in Nat
  <2>1. k <= c - 1 => k * d <= (c - 1) * d
    BY <1>1, Mono
  <2>2. c <= k => c * d <= k * d
    BY <1>1, Mono
  <2>3. k * d \in Nat /\ c * d \in Nat /\ (c - 1) * d \in Nat
    BY <1>1
  <2> QED
    BY <1>1, <2>1, <2>2, <2>3
<1>3. c - 1 < n
  <2>1. (c - 1) * 1 <= (c - 1) * d
    BY <1>1
  <2>2. (c - 1) * d \in Nat
    BY <1>1
  <2> QED
    BY <1>1, <2>1, <2>2
<1>4. {k \in 0..n : k * d < x} = 0..(c - 1)
  BY <1>1, <1>2, <1>3
<1>5. Cardinality(0..(c - 1)) = c
  BY <1>1, FS_Interval
<1> QED
  BY <1>4, <1>5 DEF c

\* What a message of n bytes is cut into: the frames are counted right, follow
\* one another, and the last ends the message.
LEMMA FramesFollow ==
    ASSUME NEW n \in Nat, n >= 48
    PROVE  \E c \in Nat :
              /\ c > 0 /\ Frames(n) \in Seq([total : Nat, current : Nat, from : Nat, to : Nat])
              /\ Len(Frames(n)) = c
              /\ \A i \in 1..c :
                    LET f == Frames(n)[i]
                    IN  /\ f.total = c /\ f.current = i - 1
                        /\ 20 + f.to - f.from <= MaxControlTransfer
                        /\ i = 1 => f.from = 20
                        /\ i > 1 => Frames(n)[i - 1].to = f.from
                        /\ f.to = n <=> i = c
<1> DEFINE room  == MaxControlTransfer - 20
           c == Cardinality({k \in 0..n : k * room < n - 20})
<1>1. room \in Nat /\ room > 0 /\ n - 20 \in Nat /\ n - 20 > 0
  BY SizesAssumption
<1>2. FragmentTotal(n) = c
  <2>1. n >= n - 20
    OBVIOUS
  <2>2. c = (n - 20 + room - 1) \div room
    <3> DEFINE x == n - 20
    <3> HIDE DEF x, room
    <3>1. Cardinality({k \in 0..n : k * room < x}) = (x + room - 1) \div room
      BY <1>1, <2>1, Count DEF x
    <3> QED
      BY <3>1 DEF x
  <2> QED
    BY <2>2 DEF FragmentTotal
<1>3. c \in Nat /\ c > 0 /\ (c - 1) * room < n - 20 /\ n - 20 <= c * room
  <2>1. FragmentTotal(n) = (n - 20 + room - 1) \div room
    BY DEF FragmentTotal
  <2> HIDE DEF room, c
  <2> QED
    BY <1>1, <1>2, <2>1, Ceil
<1>4. CASE n <= MaxControlTransfer
  <2>1. Frames(n) = <<[total |-> 1, current |-> 0, from |-> 20, to |-> n]>>
    BY <1>4 DEF Frames
  <2>2. Frames(n) \in Seq([total : Nat, current : Nat, from : Nat, to : Nat]) /\ Len(Frames(n)) = 1
    BY <2>1
  <2> QED
    BY <1>4, <2>1, <2>2
<1>5. CASE ~(n <= MaxControlTransfer)
  <2>1. Frames(n) = [i \in 1..c |->
           [total |-> c, current |-> i - 1, from |-> 20 + (i - 1) * room,
            to |-> IF i < c THEN 20 + i * room ELSE n]]
    BY <1>2, <1>5 DEF Frames
  <2>2. \A i \in 1..c : (i - 1) * room \in Nat /\ i * room \in Nat /\ i * room = (i - 1) * room + room
    <3> HIDE DEF c
    <3> QED
      BY <1>1, <1>3
  <2>3. \A i \in 1..c : i < c => i * room < n - 20
    <3> TAKE i \in 1..c
    <3> HIDE DEF c, room
    <3>1. i < c => i * room <= (c - 1) * room
      BY <1>1, <1>3, Mono
    <3>2. i * room \in Nat /\ (c - 1) * room \in Nat
      BY <1>1, <1>3
    <3> QED
      BY <1>1, <1>3, <3>1, <3>2
  <2>4. room + 20 = MaxControlTransfer
    BY SizesAssumption
  <2>5. Frames(n) \in Seq([total : Nat, current : Nat, from : Nat, to : Nat])
    BY FramesAreTyped
  <2> HIDE DEF c, room
  <2>6. Len(Frames(n)) = c
    BY <1>3, <2>1, <2>5
  <2>7. ASSUME NEW i \in 1..c
        PROVE  LET f == Frames(n)[i]
               IN  /\ f.total = c /\ f.current = i - 1
                   /\ 20 + f.to - f.from <= MaxControlTransfer
                   /\ i = 1 => f.from = 20
                   /\ i > 1 => Frames(n)[i - 1].to = f.from
                   /\ f.to = n <=> i = c
    <3>1. /\ Frames(n)[i].total = c /\ Frames(n)[i].current = i - 1
          /\ Frames(n)[i].from = 20 + (i - 1) * room
          /\ Frames(n)[i].to = IF i < c THEN 20 + i * room ELSE n
      BY <2>1
    <3>2. i > 1 => Frames(n)[i - 1].to = 20 + (i - 1) * room
      <4>1. i > 1 => i - 1 \in 1..c /\ i - 1 < c
        BY <1>3
      <4> QED
        BY <2>1, <4>1
    <3>3. 20 + Frames(n)[i].to - Frames(n)[i].from <= MaxControlTransfer
      <4>1. CASE i < c
        BY <1>1, <2>2, <2>4, <3>1, <4>1
      <4>2. CASE ~(i < c)
        <5>1. i = c
          BY <1>3, <4>2
        <5>2. n - 20 <= (i - 1) * room + room
          BY <1>3, <2>2, <5>1
        <5> QED
          BY <1>1, <2>2, <2>4, <3>1, <4>2, <5>2
      <4> QED
        BY <4>1, <4>2
    <3>4. i = 1 => (i - 1) * room = 0
      BY <1>1
    <3>5. Frames(n)[i].to = n <=> i = c
      <4>1. CASE i < c
        BY <1>1, <2>2, <2>3, <3>1, <4>1
      <4>2. CASE ~(i < c)
        BY <1>3, <3>1, <4>2
      <4> QED
        BY <4>1, <4>2
    <3> QED
      BY <3>1, <3>2, <3>3, <3>4, <3>5
  <2> QED
    BY <1>3, <2>5, <2>6, <2>7
<1> QED
  BY <1>4, <1>5

\* What is known of the frame at place i of the sequence s: the frames of its
\* message lie together, and its bytes follow those of the frame before.
Fits(s, i) ==
    /\ s[i].current \in Nat /\ s[i].total \in Nat /\ s[i].current < s[i].total
    /\ s[i].current < i /\ i - s[i].current + s[i].total - 1 <= Len(s)

Message(s, i) ==
    \A k \in 1..s[i].total :
       LET q == s[i - s[i].current + k - 1]
       IN  q.current = k - 1 /\ q.total = s[i].total /\ q.txn = s[i].txn

Bytes(s, i) ==
    /\ 20 + s[i].to - s[i].from <= MaxControlTransfer
    /\ s[i].current = 0 => s[i].from = 20
    /\ s[i].current > 0 => s[i - 1].to = s[i].from
    /\ s[i].to = s[i].size <=> s[i].current = s[i].total - 1

Piece(s, i) == Fits(s, i) /\ Message(s, i) /\ Bytes(s, i)

Pieces(s) == \A i \in 1..Len(s) : Piece(s, i)

LEMMA MessageInside ==
    ASSUME NEW s, NEW i \in Nat, Len(s) \in Nat, Fits(s, i), NEW k \in 1..s[i].total
    PROVE  i - s[i].current + k - 1 \in 1..Len(s)
<1> DEFINE c == s[i].current
           n == s[i].total
<1>1. /\ k \in Nat /\ 1 <= k /\ k <= n
      /\ c \in Nat /\ n \in Nat /\ c < i /\ i - c + n - 1 <= Len(s)
  BY DEF Fits
<1> HIDE DEF c, n
<1>2. i - c + k - 1 \in 1..Len(s)
  BY <1>1
<1> QED
  BY <1>2 DEF c

LEMMA PiecesSay ==
    ASSUME Pieces(queue)
    PROVE  CommandIsWhole
<1> SUFFICES ASSUME NEW i \in 1..Len(queue)
             PROVE  LET q == queue[i]
                    IN  /\ 20 + q.to - q.from <= MaxControlTransfer
                        /\ IF q.current = 0 THEN q.from = 20
                           ELSE /\ i > 1 /\ queue[i-1].txn = q.txn
                                /\ queue[i-1].current = q.current - 1 /\ queue[i-1].to = q.from
                        /\ q.to = q.size <=> q.current = q.total - 1
  BY DEF CommandIsWhole
<1> DEFINE q == queue[i]
<1>1. Fits(queue, i) /\ Message(queue, i) /\ Bytes(queue, i)
  BY DEF Pieces, Piece
<1>2. CASE q.current = 0
  BY <1>1, <1>2 DEF Bytes
<1>3. CASE q.current # 0
  <2>1. i > 1 /\ q.current > 0 /\ q.current \in 1..q.total /\ i - q.current + q.current - 1 = i - 1
    BY <1>1, <1>3 DEF Fits
  <2>2. queue[i - 1].current = q.current - 1 /\ queue[i - 1].txn = q.txn
    BY <1>1, <2>1 DEF Message
  <2> QED
    BY <1>1, <1>3, <2>1, <2>2 DEF Bytes
<1> QED
  BY <1>2, <1>3

LEMMA PiecesTogether ==
    ASSUME NEW s \in Seq(Requests), NEW t \in Seq(Requests), Pieces(s), Pieces(t)
    PROVE  Pieces(s \o t)
<1> DEFINE u == s \o t
<1>1. /\ u \in Seq(Requests) /\ Len(u) = Len(s) + Len(t) /\ Len(s) \in Nat /\ Len(t) \in Nat
      /\ \A i \in 1..Len(s) : u[i] = s[i]
      /\ \A i \in 1..Len(t) : u[Len(s) + i] = t[i]
  OBVIOUS
<1> HIDE DEF u
<1>2. ASSUME NEW i \in 1..Len(s)
      PROVE  Piece(u, i)
  <2>1. Fits(s, i) /\ Message(s, i) /\ Bytes(s, i)
    BY DEF Pieces, Piece
  <2>2. \A k \in 1..s[i].total : i - s[i].current + k - 1 \in 1..Len(s)
    BY <1>1, <2>1, MessageInside
  <2>3. s[i].current > 0 => i - 1 \in 1..Len(s)
    BY <1>1, <2>1 DEF Fits
  <2>4. Fits(u, i)
    BY <1>1, <2>1 DEF Fits
  <2>5. Message(u, i)
    BY <1>1, <2>1, <2>2 DEF Message
  <2>6. Bytes(u, i)
    BY <1>1, <2>1, <2>3 DEF Bytes
  <2> QED
    BY <2>4, <2>5, <2>6 DEF Piece
<1>3. ASSUME NEW i \in 1..Len(t), NEW j \in Nat, j = Len(s) + i
      PROVE  Piece(u, j)
  <2>1. Fits(t, i) /\ Message(t, i) /\ Bytes(t, i) /\ u[j] = t[i]
    BY <1>1, <1>3 DEF Pieces, Piece
  <2>2. ASSUME NEW k \in 1..t[i].total
        PROVE  u[j - t[i].current + k - 1] = t[i - t[i].current + k - 1]
    <3>1. i - t[i].current + k - 1 \in 1..Len(t)
      <4>1. i \in Nat
        OBVIOUS
      <4> QED
        BY <1>1, <2>1, <4>1, MessageInside
    <3>2. j - t[i].current + k - 1 = Len(s) + (i - t[i].current + k - 1)
      BY <1>1, <1>3, <2>1 DEF Fits
    <3> QED
      BY <1>1, <3>1, <3>2
  <2>3. t[i].current > 0 => u[j - 1] = t[i - 1]
    <3>1. t[i].current > 0 => i - 1 \in 1..Len(t)
      BY <1>1, <2>1 DEF Fits
    <3>2. j - 1 = Len(s) + (i - 1)
      BY <1>1, <1>3
    <3> QED
      BY <1>1, <3>1, <3>2
  <2>4. Fits(u, j)
    <3> DEFINE c == t[i].current
               n == t[i].total
    <3>1. u[j].current = c /\ u[j].total = n
      BY <2>1
    <3>2. /\ c \in Nat /\ n \in Nat /\ c < n /\ c < i /\ i - c + n - 1 <= Len(t)
          /\ i \in Nat
      BY <2>1 DEF Fits
    <3> HIDE DEF c, n
    <3>3. Len(u) = Len(s) + Len(t) /\ Len(s) \in Nat /\ Len(t) \in Nat
      BY <1>1
    <3>4. c < j /\ j - c + n - 1 <= Len(u)
      BY <1>3, <3>2, <3>3
    <3> QED
      BY <3>1, <3>2, <3>4 DEF Fits
  <2>5. Message(u, j)
    BY <2>1, <2>2 DEF Message
  <2>6. Bytes(u, j)
    BY <2>1, <2>3 DEF Bytes
  <2> QED
    BY <2>4, <2>5, <2>6 DEF Piece
<1>4. ASSUME NEW i \in 1..Len(u)
      PROVE  Piece(u, i)
  <2>1. CASE i <= Len(s)
    BY <1>1, <1>2, <2>1
  <2>2. CASE i > Len(s)
    <3>1. i \in Nat /\ i - Len(s) \in 1..Len(t) /\ i = Len(s) + (i - Len(s))
      BY <1>1, <2>2
    <3> QED
      BY <1>3, <3>1
  <2> QED
    BY <1>1, <2>1, <2>2
<1> QED
  BY <1>4 DEF Pieces, u

\* Handle takes the frames of the first message, all of them and no others.
LEMMA PiecesAfter ==
    ASSUME NEW s \in Seq(Requests), s # <<>>, Pieces(s)
    PROVE  /\ s[1].total <= Len(s)
           /\ Pieces(SubSeq(s, s[1].total + 1, Len(s)))
<1> DEFINE n == s[1].total
           u == SubSeq(s, n + 1, Len(s))
<1>1. Len(s) \in Nat /\ 1 \in 1..Len(s)
  BY EmptySeq
<1>2. Fits(s, 1) /\ Message(s, 1)
  BY <1>1 DEF Pieces, Piece
<1>3. s[1].current = 0 /\ n \in Nat /\ n > 0 /\ n <= Len(s)
  BY <1>1, <1>2 DEF Fits
<1>4. \A k \in 1..n : s[k].current = k - 1 /\ s[k].total = n
  BY <1>2, <1>3 DEF Message
<1>5. /\ Len(u) = Len(s) - n
      /\ \A i \in 1..Len(u) : u[i] = s[n + i]
  <2> HIDE DEF n
  <2> QED
    BY <1>1, <1>3
<1> HIDE DEF n, u
<1>6. ASSUME NEW i \in 1..Len(u)
      PROVE  Piece(u, i)
  <2> DEFINE j == n + i
  <2>1. j \in 1..Len(s) /\ j > n /\ u[i] = s[j] /\ Len(u) \in Nat
    BY <1>1, <1>3, <1>5
  <2>2. Fits(s, j) /\ Message(s, j) /\ Bytes(s, j)
    BY <2>1 DEF Pieces, Piece
  <2>3. j - s[j].current > n
    <3> DEFINE a == j - s[j].current
    <3>1. a \in Nat /\ a >= 1 /\ j < a + s[j].total /\ s[j].total \in Nat /\ 1 \in 1..s[j].total
      BY <2>1, <2>2 DEF Fits
    <3>2. s[a].current = 0 /\ s[a].total = s[j].total
      <4>1. a + 1 - 1 = a
        BY <3>1
      <4> QED
        BY <2>2, <3>1, <4>1 DEF Message
    <3> HIDE DEF a
    <3>3. ASSUME a <= n
          PROVE  FALSE
      <4>1. a \in 1..n
        BY <1>3, <3>1, <3>3
      <4>2. a = 1 /\ s[j].total = n
        BY <1>4, <3>1, <3>2, <4>1
      <4> QED
        BY <1>3, <2>1, <3>1, <4>2
    <3>4. a > n
      BY <1>3, <3>1, <3>3
    <3> QED
      BY <3>4 DEF a
  <2>4. n + i = j
    OBVIOUS
  <2> HIDE DEF j
  <2>5. Fits(u, i)
    <3> DEFINE c == s[j].current
               t == s[j].total
    <3>1. u[i].current = c /\ u[i].total = t
      BY <2>1
    <3>2. c \in Nat /\ t \in Nat /\ c < t /\ j - c + t - 1 <= Len(s) /\ j - c > n
      BY <2>2, <2>3 DEF Fits
    <3> HIDE DEF c, t
    <3>3. i \in Nat /\ Len(u) = Len(s) - n /\ Len(s) \in Nat
      BY <1>1, <1>5, <2>1
    <3>4. c < i /\ i - c + t - 1 <= Len(u)
      BY <1>3, <2>4, <3>2, <3>3
    <3> QED
      BY <3>1, <3>2, <3>4 DEF Fits
  <2>6. ASSUME NEW k \in 1..s[j].total
        PROVE  u[i - s[j].current + k - 1] = s[j - s[j].current + k - 1]
    <3>1. i \in Nat /\ Len(u) \in Nat /\ k \in 1..u[i].total /\ u[i].current = s[j].current
      BY <2>1
    <3>2. i - u[i].current + k - 1 \in 1..Len(u)
      BY <2>5, <3>1, MessageInside
    <3>3. n + (i - s[j].current + k - 1) = j - s[j].current + k - 1
      BY <1>3, <2>2, <2>4 DEF Fits
    <3> QED
      BY <1>5, <3>1, <3>2, <3>3
  <2>7. s[j].current > 0 => u[i - 1] = s[j - 1]
    <3>1. s[j].current > 0 => i - 1 \in 1..Len(u)
      BY <2>1, <2>5 DEF Fits
    <3>2. n + (i - 1) = j - 1
      BY <1>3, <2>4
    <3> QED
      BY <1>5, <3>1, <3>2
  <2>8. Message(u, i)
    BY <2>1, <2>2, <2>6 DEF Message
  <2>9. Bytes(u, i)
    BY <2>1, <2>2, <2>7 DEF Bytes
  <2> QED
    BY <2>5, <2>8, <2>9 DEF Piece
<1> QED
  BY <1>3, <1>6 DEF Pieces, n, u

LEMMA PiecesWritten ==
    ASSUME NEW m \in Exchanges, NEW arg \in Nat, m = "slotSet" => arg \in Slots,
           NEW n \in Nat, n >= 48, txn \in Nat
    PROVE  Pieces(WriteTo(m, arg, n))
<1> DEFINE w == WriteTo(m, arg, n)
           F == Frames(n)
<1>1. PICK c \in Nat :
         /\ c > 0 /\ F \in Seq([total : Nat, current : Nat, from : Nat, to : Nat]) /\ Len(F) = c
         /\ \A i \in 1..c :
               /\ F[i].total = c /\ F[i].current = i - 1
               /\ 20 + F[i].to - F[i].from <= MaxControlTransfer
               /\ i = 1 => F[i].from = 20
               /\ i > 1 => F[i - 1].to = F[i].from
               /\ F[i].to = n <=> i = c
  BY FramesFollow
<1>2. w \in Seq(Requests)
  BY WriteToIsTyped
<1>3. DOMAIN F = 1..c
  BY <1>1
<1>4. /\ Len(w) = c
      /\ \A i \in 1..c : /\ w[i].txn = txn + 1 /\ w[i].size = n /\ w[i].total = c
                         /\ w[i].current = i - 1 /\ w[i].from = F[i].from /\ w[i].to = F[i].to
  BY <1>1, <1>2, <1>3 DEF WriteTo
<1> HIDE DEF w, F
<1>5. ASSUME NEW i \in 1..c
      PROVE  Piece(w, i)
  <2>0. i \in Nat /\ w[i].current = i - 1 /\ w[i].total = c
    BY <1>4
  <2>1. Fits(w, i)
    BY <1>4, <2>0 DEF Fits
  <2>2. Message(w, i)
    <3>1. \A k \in 1..c : i - (i - 1) + k - 1 = k
      OBVIOUS
    <3> QED
      BY <1>4, <3>1 DEF Message
  <2>3. Bytes(w, i)
    <3>1. i > 1 => w[i - 1].to = F[i - 1].to
      BY <1>4
    <3>2. w[i].from = F[i].from /\ w[i].to = F[i].to /\ w[i].size = n
      BY <1>4
    <3>3. /\ 20 + F[i].to - F[i].from <= MaxControlTransfer
          /\ i = 1 => F[i].from = 20
          /\ i > 1 => F[i - 1].to = F[i].from
          /\ F[i].to = n <=> i = c
      BY <1>1
    <3>4. w[i].to = w[i].size <=> w[i].current = w[i].total - 1
      BY <1>1, <2>0, <3>2, <3>3
    <3>5. w[i].current = 0 => w[i].from = 20
      BY <2>0, <3>2, <3>3
    <3>6. w[i].current > 0 => w[i - 1].to = w[i].from
      BY <2>0, <3>1, <3>2, <3>3
    <3> QED
      BY <3>2, <3>3, <3>4, <3>5, <3>6 DEF Bytes
  <2> QED
    BY <2>1, <2>2, <2>3 DEF Piece
<1> QED
  BY <1>4, <1>5 DEF Pieces, w

-----------------------------------------------------------------------------
(* The queue grows by whole messages.                                      *)

Writes ==
    \/ queue' = queue
    \/ \E m \in Exchanges, arg \in Nat, n \in Nat :
          (m = "slotSet" => arg \in Slots) /\ n >= 48 /\ queue' = queue \o WriteTo(m, arg, n)

LEMMA AsksWrite ==
    ASSUME Client, slot \in Slots, Asks
    PROVE  Writes
<1>1. PICK m \in Exchanges, arg \in Nat : (m = "slotSet" => arg \in Slots) /\ Send(m, arg, 48)
  BY AsksSend
<1>2. queue' = queue \o WriteTo(m, arg, 48) /\ 48 \in Nat /\ 48 >= 48
  BY <1>1 DEF Send
<1> QED
  BY <1>1, <1>2 DEF Writes

LEMMA EndsWrite ==
    ASSUME Client, slot \in Slots, NEW v, Succeed(v) \/ FailExchange
    PROVE  Writes
<1>1. Asks \/ queue' = queue
  BY DEF Asks, Succeed, FailExchange, Fail, EnsureSlotActivated, WaitForSlotActivation, Return
<1> QED
  BY <1>1, AsksWrite DEF Writes

LEMMA StepsWrite ==
    ASSUME IInv, [Next]_vars
    PROVE  Writes \/ Handle
<1> USE DEF IInv, Rest
<1>1. CASE ReadWhole \/ FirstFragment \/ AddFragment \/ ReadTimeout \/ BodyCut \/ Garbled
  <2>1. (\E v : Succeed(v)) \/ FailExchange \/ queue' = queue
    BY <1>1 DEF ReadWhole, FirstFragment, AddFragment, ReadTimeout, BodyCut, Garbled,
                Complete, Refused
  <2> QED
    BY <2>1, EndsWrite DEF Writes
<1>2. CASE \/ SkipFrame \/ HeaderCut \/ CallDisconnect \/ CardReady \/ Indicate
           \/ UNCHANGED vars
  BY <1>2 DEF SkipFrame, HeaderCut, CallDisconnect, CardReady, Indicate, vars, Writes
<1>3. CASE \/ Connect \/ OpenLogicalChannel \/ CloseLogicalChannel \/ Disconnect
  <2>1. Asks \/ queue' = queue
    BY <1>3 DEF Connect, OpenLogicalChannel, CloseLogicalChannel, Disconnect, WriteFails,
                Return, Asks
  <2> QED
    BY <2>1, AsksWrite DEF Writes
<1>4. CASE \E n \in APDUSizes : Transmit(n)
  <2>1. PICK n \in APDUSizes : APDU(n) \/ WriteFails
    BY <1>4 DEF Transmit
  <2>2. n \in Nat /\ n >= 48 /\ channel \in Nat /\ "apdu" \in Exchanges
    BY SizesAssumption DEF Exchanges, Commands, Client
  <2>3. CASE APDU(n)
    BY <2>2, <2>3 DEF APDU, Send, Writes
  <2>4. CASE WriteFails
    BY <2>4 DEF WriteFails, Return, Writes
  <2> QED
    BY <2>1, <2>3, <2>4
<1> QED
  BY <1>1, <1>2, <1>3, <1>4 DEF Next

LEMMA PiecesKept ==
    ASSUME IInv, Pieces(queue), [Next]_vars
    PROVE  Pieces(queue)'
<1>0. queue \in Seq(Requests) /\ txn \in Nat
  BY DEF IInv, Client
<1>1. CASE Writes
  <2>1. CASE queue' = queue
    BY <2>1
  <2>2. CASE queue' # queue
    <3>1. PICK m \in Exchanges, arg \in Nat, n \in Nat :
             (m = "slotSet" => arg \in Slots) /\ n >= 48 /\ queue' = queue \o WriteTo(m, arg, n)
      BY <1>1, <2>2 DEF Writes
    <3>2. WriteTo(m, arg, n) \in Seq(Requests) /\ Pieces(WriteTo(m, arg, n))
      BY <1>0, <3>1, WriteToIsTyped, PiecesWritten
    <3>3. Pieces(queue \o WriteTo(m, arg, n))
      BY <1>0, <3>2, PiecesTogether
    <3> QED
      BY <3>1, <3>3
  <2> QED
    BY <2>1, <2>2
<1>2. CASE Handle
  <2>1. queue # <<>> /\ Head(queue) = queue[1]
    BY <1>0, <1>2 DEF Handle
  <2>2. queue[1].total <= Len(queue) /\ Pieces(SubSeq(queue, queue[1].total + 1, Len(queue)))
    BY <1>0, <2>1, PiecesAfter
  <2>3. queue[1].total \in Nat /\ Len(queue) \in Nat
    <3>1. queue[1] \in Requests
      BY <1>0, <2>1
    <3> QED
      BY <1>0, <3>1 DEF Requests, Sent
  <2>4. queue' = SubSeq(queue, queue[1].total + 1, Len(queue))
    BY <1>2, <2>1, <2>2, <2>3 DEF Handle
  <2> QED
    BY <2>2, <2>4
<1> QED
  BY <1>1, <1>2, StepsWrite

\* The device gets every command whole: its frames are numbered without a gap,
\* none is longer than a control transfer, and only the last ends the message,
\* for every control transfer size and every length of a command.
THEOREM CommandsAreWhole == Spec => []CommandIsWhole
<1>1. Init => Pieces(queue)
  BY DEF Init, Pieces
<1>2. IInv /\ Pieces(queue) /\ [Next]_vars => Pieces(queue)'
  BY PiecesKept
<1>3. Pieces(queue) => CommandIsWhole
  BY PiecesSay
<1> QED
  BY <1>1, <1>2, <1>3, Inductive, PTL DEF Spec

-----------------------------------------------------------------------------
(* A Connect that succeeds.                                                *)

\* The device has no request to switch the slot.
Still == \A i \in 1..Len(queue) : queue[i].what # "slotSet"

\* The numbers of the messages on their way.
Past ==
    /\ \A i \in 1..Len(queue) : /\ queue[i].txn \in 1..txn
                                /\ queue[i].txn = txn /\ msg # "none" => queue[i].what = msg
    /\ \A i \in 1..Len(inbox) : inbox[i].txn <= txn
    /\ msg # "none" => txn >= 1

Gone == link = "closed" => msg = "none" /\ done \in {"none", "error"}

\* Only the running exchange switches the slot.
Switching ==
    link = "up" =>
      \A i \in 1..Len(queue) :
        queue[i].what = "slotSet" =>
          msg = "slotSet" /\ i = Len(queue) /\ queue[i].total = 1 /\ queue[i].arg = slot

\* A good answer to the running exchange is still true.
Says(f) ==
    f.txn = txn /\ f.status = "ok" =>
      /\ msg = "slotSet" => active = slot /\ Still
      /\ msg = "slotQuery" => f.val = active
      /\ msg = "readyStatus" /\ f.val = 1 => ready

Told == link = "up" => /\ \A i \in 1..Len(inbox) : Says(inbox[i])
                       /\ \A i \in 1..Len(collector) : Says(collector[i])

Switched == link = "up" => (msg = "readyStatus" => active = slot) /\ ConnectMeansReady

Connected == Past /\ Gone /\ Switching /\ Told /\ Switched

\* What is read was there.
Fewer == \A i \in 1..Len(inbox') : \E j \in 1..Len(inbox) : inbox'[i] = inbox[j]

LEMMA StillIf ==
    ASSUME Connected, link = "up", msg # "slotSet"
    PROVE  Still
BY DEF Connected, Switching, Still

LEMMA ReturnUp ==
    ASSUME IInv, Connected, link = "up", Still, Fewer, NEW d, Return(d),
           UNCHANGED <<link, slot, active, ready>>,
           d \in {"Connect", "ConnectSwitched"} => active = slot,
           d = "ConnectSwitched" => ready
    PROVE  Connected'
<1>1. msg' = "none" /\ done' = d /\ UNCHANGED <<txn, queue>>
  BY DEF Return
<1>2. Past'
  BY <1>1 DEF Connected, Past, Fewer
<1>3. Gone' /\ Switching' /\ Told' /\ Switched'
  BY <1>1 DEF Still, Gone, Switching, Told, Says, Switched, ConnectMeansReady
<1> QED
  BY <1>2, <1>3 DEF Connected

LEMMA ReturnClosed ==
    ASSUME IInv, Connected, Fewer, NEW d \in {"none", "error"}, Return(d), link' = "closed"
    PROVE  Connected'
<1>1. msg' = "none" /\ done' = d /\ UNCHANGED <<txn, queue>>
  BY DEF Return
<1>2. Past'
  BY <1>1 DEF Connected, Past, Fewer
<1>3. Gone' /\ Switching' /\ Told' /\ Switched'
  BY <1>1 DEF Gone, Switching, Told, Switched
<1> QED
  BY <1>2, <1>3 DEF Connected

\* A message that is not fragmented.
LEMMA ShortMessage ==
    ASSUME NEW m, NEW arg
    PROVE  /\ Len(WriteTo(m, arg, 48)) = 1 /\ WriteTo(m, arg, 48)[1].txn = txn + 1
           /\ WriteTo(m, arg, 48)[1].what = m /\ WriteTo(m, arg, 48)[1].arg = arg
           /\ WriteTo(m, arg, 48)[1].total = 1
<1>1. Frames(48) = <<[total |-> 1, current |-> 0, from |-> 20, to |-> 48]>>
  BY SizesAssumption DEF Frames
<1>2. DOMAIN Frames(48) = {1} /\ Frames(48)[1].total = 1
  BY <1>1
<1> QED
  BY <1>2 DEF WriteTo

LEMMA SendConnected ==
    ASSUME IInv, Connected, Still, Fewer, NEW m \in Exchanges, NEW arg \in Nat,
           NEW n \in Nat, n >= 48, Send(m, arg, n), collector' = <<>>,
           UNCHANGED <<slot, active, ready>>,
           m = "slotSet" => arg = slot /\ n = 48 /\ slot \in Slots,
           m = "readyStatus" => active = slot
    PROVE  Connected'
<1>1. /\ link = "up" /\ link' = "up" /\ msg' = m /\ txn' = txn + 1 /\ m # "none"
      /\ queue' = queue \o WriteTo(m, arg, n) /\ txn \in Nat /\ queue \in Seq(Requests)
  BY DEF Send, IInv, Client, Exchanges, Commands
<1>2. WriteTo(m, arg, n) \in Seq(Requests)
  BY <1>1, WriteToIsTyped
<1>3. \A i \in 1..Len(WriteTo(m, arg, n)) :
         WriteTo(m, arg, n)[i].txn = txn + 1 /\ WriteTo(m, arg, n)[i].what = m
  <2>1. DOMAIN WriteTo(m, arg, n) = 1..Len(WriteTo(m, arg, n))
    BY <1>2
  <2> QED
    BY <2>1 DEF WriteTo
<1> DEFINE w == WriteTo(m, arg, n)
<1>4. m = "slotSet" => Len(w) = 1 /\ w[1].total = 1 /\ w[1].arg = slot
  BY ShortMessage
<1> HIDE DEF w
<1>5. ASSUME NEW i \in 1..Len(queue')
      PROVE  \/ i \in 1..Len(queue) /\ queue'[i] = queue[i]
             \/ /\ queue'[i].txn = txn + 1 /\ queue'[i].what = m
                /\ m = "slotSet" => i = Len(queue') /\ queue'[i] = w[1]
  <2>1. /\ Len(queue') = Len(queue) + Len(w) /\ Len(queue) \in Nat /\ Len(w) \in Nat
        /\ i \in 1..Len(queue) => queue'[i] = queue[i]
        /\ i \notin 1..Len(queue) => queue'[i] = w[i - Len(queue)]
    BY <1>1, <1>2 DEF w
  <2>2. CASE i \in 1..Len(queue)
    BY <2>1, <2>2
  <2>3. CASE i \notin 1..Len(queue)
    <3>1. i - Len(queue) \in 1..Len(w)
      BY <2>1, <2>3
    <3>2. queue'[i].txn = txn + 1 /\ queue'[i].what = m
      BY <1>3, <2>1, <2>3, <3>1 DEF w
    <3>3. ASSUME m = "slotSet"
          PROVE  i = Len(queue') /\ queue'[i] = w[1]
      <4>1. Len(w) = 1 /\ i - Len(queue) \in 1..1
        BY <1>4, <3>1, <3>3
      <4>2. i = Len(queue) + 1
        BY <2>1, <4>1
      <4> QED
        BY <2>1, <2>3, <4>1, <4>2
    <3> QED
      BY <3>2, <3>3
  <2> QED
    BY <2>2, <2>3
<1>6. Past'
  <2>1. \A i \in 1..Len(queue) : queue[i].txn \in 1..txn
    BY DEF Connected, Past
  <2>2. \A i \in 1..Len(inbox') : inbox'[i].txn <= txn
    BY DEF Connected, Past, Fewer
  <2>3. ASSUME NEW i \in 1..Len(inbox')
        PROVE  inbox'[i].txn <= txn'
    <3>1. inbox'[i].txn \in Nat
      <4>1. PICK j \in 1..Len(inbox) : inbox'[i] = inbox[j]
        BY DEF Fewer
      <4>2. inbox[j] \in Fragments
        BY DEF IInv, Rest
      <4> QED
        BY <4>1, <4>2 DEF Fragments, Frame
    <3> QED
      BY <1>1, <2>2, <3>1
  <2>4. ASSUME NEW i \in 1..Len(queue')
        PROVE  queue'[i].txn \in 1..txn' /\ (queue'[i].txn = txn' => queue'[i].what = msg')
    <3>1. CASE i \in 1..Len(queue) /\ queue'[i] = queue[i]
      BY <1>1, <2>1, <3>1
    <3>2. CASE queue'[i].txn = txn + 1 /\ queue'[i].what = m
      BY <1>1, <3>2
    <3> QED
      BY <1>5, <3>1, <3>2
  <2>5. txn' >= 1
    BY <1>1
  <2> QED
    BY <2>3, <2>4, <2>5 DEF Past
<1>7. Gone'
  BY <1>1 DEF Gone
<1>8. Switching'
  <2> SUFFICES ASSUME NEW i \in 1..Len(queue'), queue'[i].what = "slotSet"
               PROVE  /\ msg' = "slotSet" /\ i = Len(queue') /\ queue'[i].total = 1
                      /\ queue'[i].arg = slot'
    BY DEF Switching
  <2>1. ~(i \in 1..Len(queue) /\ queue'[i] = queue[i])
    BY DEF Still
  <2> QED
    BY <1>1, <1>4, <1>5, <2>1
<1>9. Told'
  <2>1. ASSUME NEW i \in 1..Len(inbox')
        PROVE  inbox'[i].txn # txn'
    <3>1. PICK j \in 1..Len(inbox) : inbox'[i] = inbox[j]
      BY DEF Fewer
    <3>2. inbox[j] \in Fragments /\ inbox[j].txn <= txn
      BY DEF IInv, Rest, Connected, Past
    <3>3. inbox[j].txn \in Nat
      BY <3>2 DEF Fragments, Frame
    <3> QED
      BY <1>1, <3>1, <3>2, <3>3
  <2>2. Len(collector') = 0
    OBVIOUS
  <2> QED
    BY <2>1, <2>2 DEF Told, Says
<1>10. Switched'
  BY <1>1 DEF Switched, ConnectMeansReady
<1> QED
  BY <1>6, <1>7, <1>8, <1>9, <1>10 DEF Connected

LEMMA AskConnected ==
    ASSUME IInv, Connected, Still, Fewer, Asks, collector' = <<>>,
           UNCHANGED <<slot, active, ready>>, ReadyStatus => active = slot
    PROVE  Connected'
<1> USE SendConnected DEF Ask, Exchanges, Commands
<1>1. slot \in Nat /\ slot \in Slots /\ channel \in Nat
  BY SlotsAssumption DEF IInv, Client, Rest
<1>2. CASE ProxyConfig
  BY <1>2 DEF ProxyConfig
<1>3. CASE OpenDevice
  BY <1>3 DEF OpenDevice
<1>4. CASE QuerySlot
  BY <1>4 DEF QuerySlot
<1>5. CASE SetSlot
  BY <1>1, <1>5 DEF SetSlot
<1>6. CASE ReadyStatus
  BY <1>6 DEF ReadyStatus
<1>7. CASE OpenChannel
  BY <1>7 DEF OpenChannel
<1>8. CASE CloseChannel
  BY <1>1, <1>8 DEF CloseChannel
<1>9. CASE CloseDevice
  BY <1>9 DEF CloseDevice
<1> QED
  BY <1>2, <1>3, <1>4, <1>5, <1>6, <1>7, <1>8, <1>9 DEF Asks

-----------------------------------------------------------------------------
(* The end of an exchange.                                                 *)

LEMMA SucceedConnected ==
    ASSUME IInv, Connected, msg # "none", Fewer, collector' = <<>>, NEW v \in Nat, Succeed(v),
           UNCHANGED <<slot, active, ready>>,
           msg = "slotSet" => active = slot /\ Still,
           msg = "slotQuery" => v = active,
           msg = "readyStatus" /\ v = 1 => ready
    PROVE  Connected'
<1>1. link = "up" /\ Still
  BY StillIf DEF Connected, Gone, IInv, Client
<1>2. CASE msg = "proxyConfig"
  <2>1. OpenDevice /\ ~ReadyStatus
    BY <1>2 DEF Succeed, OpenDevice, ReadyStatus, Ask, Send
  <2> QED
    BY <1>1, <2>1, AskConnected DEF Asks
<1>3. CASE msg = "open"
  <2>1. QuerySlot /\ ~ReadyStatus
    BY <1>3 DEF Succeed, QuerySlot, ReadyStatus, Ask, Send
  <2> QED
    BY <1>1, <2>1, AskConnected DEF Asks
<1>4. CASE msg = "slotQuery"
  <2>1. EnsureSlotActivated(v) /\ v = active
    BY <1>4 DEF Succeed
  <2>2. CASE v = slot
    <3>1. Return("Connect") /\ UNCHANGED link
      BY <2>1, <2>2 DEF EnsureSlotActivated
    <3> QED
      BY <1>1, <2>1, <2>2, <3>1, ReturnUp
  <2>3. CASE v # slot
    <3>1. SetSlot /\ ~ReadyStatus
      BY <2>1, <2>3 DEF EnsureSlotActivated, SetSlot, ReadyStatus, Ask, Send
    <3> QED
      BY <1>1, <3>1, AskConnected DEF Asks
  <2> QED
    BY <2>2, <2>3
<1>5. CASE msg = "slotSet"
  <2>1. ReadyStatus /\ active = slot
    BY <1>5 DEF Succeed
  <2> QED
    BY <1>1, <2>1, AskConnected DEF Asks
<1>6. CASE msg = "readyStatus"
  <2>1. WaitForSlotActivation(v) /\ active = slot
    BY <1>1, <1>6 DEF Succeed, Connected, Switched
  <2>2. CASE v = 1
    <3>1. Return("ConnectSwitched") /\ UNCHANGED link /\ ready
      BY <1>6, <2>1, <2>2 DEF WaitForSlotActivation
    <3> QED
      BY <1>1, <2>1, <3>1, ReturnUp
  <2>3. CASE v # 1 /\ ReadyStatus
    BY <1>1, <2>1, <2>3, AskConnected DEF Asks
  <2>4. CASE v # 1 /\ ~ReadyStatus
    <3>1. Return("error") /\ link' = "closed"
      BY <2>1, <2>4 DEF WaitForSlotActivation
    <3> QED
      BY <3>1, ReturnClosed
  <2> QED
    BY <2>2, <2>3, <2>4
<1>7. CASE msg \in {"openChannel", "closeChannel", "apdu"}
  <2>1. UNCHANGED link /\ \E d \in {"error", "Open", "Close", "Transmit"} : Return(d)
    BY <1>7 DEF Succeed
  <2> QED
    BY <1>1, <2>1, ReturnUp
<1>8. CASE msg = "close"
  <2>1. Return("none") /\ link' = "closed"
    BY <1>8 DEF Succeed
  <2> QED
    BY <2>1, ReturnClosed
<1>9. msg \in Exchanges
  BY DEF IInv, Client
<1> QED
  BY <1>2, <1>3, <1>4, <1>5, <1>6, <1>7, <1>8, <1>9 DEF Exchanges, Commands

LEMMA FailConnected ==
    ASSUME IInv, Connected, msg # "none", Fewer, collector' = <<>>, FailExchange,
           UNCHANGED <<slot, active, ready>>
    PROVE  Connected'
<1>1. link = "up"
  BY DEF Connected, Gone, IInv, Client
<1>2. CASE msg = "readyStatus"
  <2>1. active = slot /\ Still /\ WaitForSlotActivation(0)
    BY <1>1, <1>2, StillIf DEF FailExchange, Connected, Switched
  <2>2. CASE ReadyStatus
    BY <2>1, <2>2, AskConnected DEF Asks
  <2>3. CASE ~ReadyStatus
    <3>1. Return("error") /\ link' = "closed"
      BY <2>1, <2>3 DEF WaitForSlotActivation
    <3> QED
      BY <3>1, ReturnClosed
  <2> QED
    BY <2>2, <2>3
<1>3. CASE msg \in ConnectExchanges \cup {"close"} /\ msg # "readyStatus"
  <2>1. Return("error") /\ link' = "closed"
    BY <1>3 DEF FailExchange, Fail
  <2> QED
    BY <2>1, ReturnClosed
<1>4. CASE msg \notin ConnectExchanges \cup {"close"}
  <2>1. Return("error") /\ UNCHANGED link /\ msg # "slotSet"
    BY <1>4 DEF FailExchange, Fail, ConnectExchanges
  <2> QED
    BY <1>1, <2>1, StillIf, ReturnUp
<1> QED
  BY <1>2, <1>3, <1>4

\* A turn of the loop, or another step, that ends no exchange.
LEMMA PlainConnected ==
    ASSUME IInv, Connected,
           UNCHANGED <<link, slot, txn, msg, done, queue, active>>, ready' \in {ready, TRUE},
           \A i \in 1..Len(inbox') : \/ \E j \in 1..Len(inbox) : inbox'[i] = inbox[j]
                                    \/ inbox'[i].txn = 0,
           \A i \in 1..Len(collector') : \/ \E j \in 1..Len(inbox) : collector'[i] = inbox[j]
                                        \/ \E j \in 1..Len(collector) : collector'[i] = collector[j]
    PROVE  Connected'
<1>1. txn \in Nat
  BY DEF IInv, Client
<1>2. Past'
  BY <1>1 DEF Connected, Past
<1>3. Gone' /\ Switching'
  BY DEF Connected, Gone, Switching
<1>4. ASSUME NEW f, Says(f)
      PROVE  Says(f)'
  <2> SUFFICES ASSUME f.txn = txn, f.status = "ok"
               PROVE  /\ msg = "slotSet" => active = slot /\ Still'
                      /\ msg = "slotQuery" => f.val = active
                      /\ msg = "readyStatus" /\ f.val = 1 => ready'
    BY DEF Says
  <2>1. Still => Still'
    BY DEF Still
  <2>2. ready => ready'
    OBVIOUS
  <2> QED
    BY <1>4, <2>1, <2>2 DEF Says
<1>5. ASSUME NEW f, f.txn = 0
      PROVE  Says(f)'
  BY <1>5 DEF Says, Connected, Past
<1>6. Told'
  BY <1>4, <1>5 DEF Connected, Told
<1>7. Switched'
  BY DEF Connected, Switched, ConnectMeansReady
<1> QED
  BY <1>2, <1>3, <1>6, <1>7 DEF Connected

LEMMA CompleteConnected ==
    ASSUME IInv, Connected, msg # "none", Fewer, NEW fs, Complete(fs),
           Head(fs) \in Fragments, Head(fs).txn = txn, Says(Head(fs)),
           UNCHANGED <<slot, active, ready>>
    PROVE  Connected'
<1>1. collector' = <<>> /\ Head(fs).val \in Nat
  BY DEF Complete, Fragments, Frame
<1>2. CASE Head(fs).type # "functionError" /\ Head(fs).status = "ok"
  <2>1. Succeed(Head(fs).val)
    BY <1>2 DEF Complete
  <2>2. /\ msg = "slotSet" => active = slot /\ Still
        /\ msg = "slotQuery" => Head(fs).val = active
        /\ msg = "readyStatus" /\ Head(fs).val = 1 => ready
    BY <1>2 DEF Says
  <2> QED
    BY <1>1, <2>1, <2>2, SucceedConnected
<1>3. CASE ~(Head(fs).type # "functionError" /\ Head(fs).status = "ok")
  <2>1. FailExchange
    BY <1>3 DEF Complete
  <2> QED
    BY <1>1, <2>1, FailConnected
<1> QED
  BY <1>2, <1>3

LEMMA ReadConnected ==
    ASSUME IInv, Connected, SkipFrame \/ ReadWhole \/ FirstFragment \/ AddFragment
    PROVE  Connected'
<1> DEFINE m == Head(inbox)
<1>1. /\ msg # "none" /\ inbox # <<>> /\ inbox \in Seq(Fragments) /\ inbox' = Tail(inbox)
      /\ UNCHANGED <<slot, active, ready>>
  BY DEF SkipFrame, ReadWhole, FirstFragment, AddFragment, Reading, IInv, Rest, device
<1>2. m = inbox[1] /\ 1 \in 1..Len(inbox) /\ m \in Fragments
  BY <1>1
<1>3. Fewer
  <2>1. \A i \in 1..Len(inbox') : i + 1 \in 1..Len(inbox) /\ inbox'[i] = inbox[i + 1]
    BY <1>1
  <2> QED
    BY <2>1 DEF Fewer
<1>4. link = "up"
  BY <1>1 DEF Connected, Gone, IInv, Client
<1>5. Says(m)
  BY <1>2, <1>4 DEF Connected, Told
<1> HIDE DEF m
<1>6. ASSUME UNCHANGED <<link, txn, msg, done, queue>>,
             collector' = collector \/ collector' = <<m>> \/ collector' = Append(collector, m)
      PROVE  Connected'
  <2>1. \A i \in 1..Len(collector') : \/ \E j \in 1..Len(inbox) : collector'[i] = inbox[j]
                                     \/ \E j \in 1..Len(collector) : collector'[i] = collector[j]
    <3>1. CASE collector' = collector
      BY <3>1
    <3>2. CASE collector' = <<m>>
      BY <1>2, <3>2
    <3>3. CASE collector' = Append(collector, m)
      <4>1. collector \in Seq(Fragments)
        BY DEF IInv, Collected, InOrder
      <4>2. \A i \in 1..Len(collector') : \/ i \in 1..Len(collector) /\ collector'[i] = collector[i]
                                         \/ collector'[i] = m
        BY <1>2, <3>3, <4>1
      <4> QED
        BY <1>2, <4>2
    <3> QED
      BY <1>6, <3>1, <3>2, <3>3
  <2> QED
    BY <1>1, <1>3, <1>6, <2>1, PlainConnected DEF Fewer
<1>7. ASSUME Refused
      PROVE  Connected'
  BY <1>1, <1>3, <1>7, FailConnected DEF Refused
<1>8. CASE SkipFrame
  BY <1>6, <1>8 DEF SkipFrame
<1>9. CASE ReadWhole
  <2>1. Complete(<<m>>) /\ m.txn = txn /\ Head(<<m>>) = m
    BY <1>9 DEF ReadWhole, Skips, m
  <2> QED
    BY <1>1, <1>2, <1>3, <1>5, <2>1, CompleteConnected
<1>10. CASE FirstFragment
  BY <1>6, <1>7, <1>10 DEF FirstFragment, m
<1>11. CASE AddFragment
  <2>1. CASE ~NextInOrder(m)
    BY <1>7, <1>11, <2>1 DEF AddFragment, m
  <2>2. CASE NextInOrder(m) /\ ~IsLast(m)
    BY <1>6, <1>11, <2>2 DEF AddFragment, m
  <2>3. CASE NextInOrder(m) /\ IsLast(m)
    <3> DEFINE fs == Append(collector, m)
    <3>1. Complete(fs) /\ collector # <<>>
      BY <1>11, <2>3 DEF AddFragment, m
    <3>2. collector \in Seq(Fragments) /\ 1 \in 1..Len(collector) /\ collector[1].txn = txn
      <4>1. collector \in Seq(Fragments)
        BY DEF IInv, Collected, InOrder
      <4>2. 1 \in 1..Len(collector)
        BY <3>1, <4>1
      <4> QED
        BY <4>1, <4>2 DEF IInv, Collected, InOrder
    <3>3. Head(fs) = collector[1] /\ collector[1] \in Fragments
      BY <3>2
    <3>4. Says(collector[1])
      BY <1>4, <3>2 DEF Connected, Told
    <3> HIDE DEF fs
    <3> QED
      BY <1>1, <1>3, <3>1, <3>2, <3>3, <3>4, CompleteConnected
  <2> QED
    BY <2>1, <2>2, <2>3
<1> QED
  BY <1>8, <1>9, <1>10, <1>11

LEMMA CutConnected ==
    ASSUME IInv, Connected, ReadTimeout \/ HeaderCut \/ BodyCut \/ Garbled
    PROVE  Connected'
<1>1. CASE ReadTimeout \/ BodyCut
  <2>1. Fewer
    BY <1>1 DEF ReadTimeout, BodyCut, Fewer
  <2> QED
    BY <1>1, <2>1, FailConnected DEF ReadTimeout, BodyCut, Refused, device
<1>2. CASE HeaderCut
  BY <1>2, PlainConnected DEF HeaderCut, device
<1>3. CASE Garbled
  <2>1. inbox \in Seq(Fragments) /\ inbox # <<>> /\ inbox' = Tail(inbox)
    BY <1>3 DEF Garbled, IInv, Rest
  <2>2. \A i \in 1..Len(inbox') : i + 1 \in 1..Len(inbox) /\ inbox'[i] = inbox[i + 1]
    BY <2>1
  <2>3. Fewer
    BY <2>2 DEF Fewer
  <2>4. CASE Refused
    BY <1>3, <2>3, <2>4, FailConnected DEF Garbled, Refused, device
  <2>5. CASE ~Refused
    BY <1>3, <2>3, <2>5, PlainConnected DEF Garbled, device, Fewer
  <2> QED
    BY <2>4, <2>5
<1> QED
  BY <1>1, <1>2, <1>3

LEMMA CallConnected ==
    ASSUME IInv, Connected,
           \/ Connect \/ OpenLogicalChannel \/ CloseLogicalChannel
           \/ (\E n \in APDUSizes : Transmit(n)) \/ CallDisconnect \/ Disconnect
    PROVE  Connected'
<1>1. CASE CallDisconnect
  BY <1>1, PlainConnected DEF CallDisconnect, device
<1>2. CASE ~CallDisconnect
  <2>1. /\ msg = "none" /\ UNCHANGED <<slot, collector, inbox, active, ready>>
    BY <1>2 DEF Connect, OpenLogicalChannel, CloseLogicalChannel, Transmit, Disconnect,
                StartCall, device
  <2>2. collector = <<>> /\ Fewer
    BY <2>1 DEF IInv, Collected, Fewer
  <2>3. link = "up" => Still
    BY <2>1, StillIf
  <2>4. CASE ProxyConfig \/ OpenChannel \/ CloseChannel \/ CloseDevice
    <3>1. Asks /\ ~ReadyStatus /\ link = "up"
      BY <2>4 DEF Asks, ProxyConfig, OpenChannel, CloseChannel, CloseDevice, ReadyStatus, Ask, Send
    <3> QED
      BY <2>1, <2>2, <2>3, <3>1, AskConnected
  <2>5. CASE WriteFails
    <3>1. Return("error") /\ link' = "closed"
      BY <2>5 DEF WriteFails
    <3> QED
      BY <2>2, <3>1, ReturnClosed
  <2>6. CASE \E n \in APDUSizes : APDU(n)
    <3>1. PICK n \in APDUSizes : Send("apdu", channel, n)
      BY <2>6 DEF APDU
    <3>2. n \in Nat /\ n >= 48 /\ channel \in Nat /\ "apdu" \in Exchanges /\ link = "up"
      BY <3>1, SizesAssumption DEF Exchanges, Commands, IInv, Client, Send
    <3> QED
      BY <2>1, <2>2, <2>3, <3>1, <3>2, SendConnected
  <2> QED
    BY <1>2, <2>4, <2>5, <2>6 DEF Connect, OpenLogicalChannel, CloseLogicalChannel, Transmit,
                                  Disconnect
<1> QED
  BY <1>1, <1>2

-----------------------------------------------------------------------------
(* The device.                                                             *)

\* Its frames about the request q.
LEMMA ReplyAdds ==
    ASSUME inbox \in Seq(Fragments), NEW q \in Requests, NEW status \in {"ok", "failed"},
           NEW val \in Nat, Reply(q, status, val), NEW i \in 1..Len(inbox')
    PROVE  \/ i \in 1..Len(inbox) /\ inbox'[i] = inbox[i]
           \/ inbox'[i].txn = q.txn /\ inbox'[i].status = status /\ inbox'[i].val = val
<1>1. PICK n \in IF q.what = "apdu" THEN {1, MaxFragments} ELSE {1} : \E k \in 1..n :
         inbox' = inbox \o SubSeq(Answer(q, status, val, n), 1, k)
  BY DEF Reply
<1>2. PICK k \in 1..n : inbox' = inbox \o SubSeq(Answer(q, status, val, n), 1, k)
  BY <1>1
<1>3. n \in 1..MaxFragments /\ (q.what = "apdu" \/ n = 1)
  BY BoundsAssumption
<1>4. Answer(q, status, val, n) \in Seq(Fragments) /\ Len(Answer(q, status, val, n)) = n
  BY <1>3, AnswerIsTyped
<1> DEFINE a == Answer(q, status, val, n)
           b == SubSeq(a, 1, k)
<1>5. \A j \in 1..n : a[j].txn = q.txn /\ a[j].status = status /\ a[j].val = val
  BY DEF Answer
<1> HIDE DEF a
<1>6. Len(b) = k /\ k \in Nat /\ \A j \in 1..k : b[j] = a[j] /\ j \in 1..n
  <2>1. a \in Seq(Fragments) /\ Len(a) = n /\ n \in Nat /\ k \in 1..n
    BY <1>3, <1>4, BoundsAssumption DEF a
  <2> QED
    BY <2>1
<1>7. b \in Seq(Fragments)
  <2>1. \A j \in 1..n : a[j] \in Fragments
    BY <1>3, <1>4, ElementOfSeq DEF a
  <2>2. b = [j \in 1..k |-> b[j]] /\ \A j \in 1..k : b[j] \in Fragments
    BY <1>6, <2>1
  <2> QED
    BY <1>6, <2>2
<1> HIDE DEF b
<1>8. inbox' = inbox \o b
  BY <1>2 DEF a, b
<1>9. CASE i \in 1..Len(inbox)
  BY <1>7, <1>8, <1>9
<1>10. CASE i \notin 1..Len(inbox)
  <2>1. inbox'[i] = b[i - Len(inbox)] /\ i - Len(inbox) \in 1..k
    BY <1>6, <1>7, <1>8, <1>10
  <2> QED
    BY <1>5, <1>6, <2>1
<1> QED
  BY <1>9, <1>10

\* What the device makes of a request, seen from the client.
Served(q) ==
    /\ \A i \in 1..Len(inbox') :
          \/ i \in 1..Len(inbox) /\ inbox'[i] = inbox[i]
          \/ /\ inbox'[i].txn = q.txn
             /\ inbox'[i].status = "ok" =>
                  /\ q.what = "slotSet" => active' = q.arg
                  /\ q.what = "slotQuery" => inbox'[i].val = active
                  /\ q.what = "readyStatus" /\ inbox'[i].val = 1 => ready
    /\ q.what # "slotSet" => active' = active /\ (ready => ready')

LEMMA PerformServes ==
    ASSUME IInv, NEW q \in Requests,
           \/ Perform(q)
           \/ (Reply(q, "failed", 0) \/ FunctionError(q)) /\ UNCHANGED device
           \/ UNCHANGED <<inbox, device>>
    PROVE  Served(q)
<1>1. inbox \in Seq(Fragments) /\ active \in Nat /\ q.arg \in Nat
  BY SlotsAssumption DEF IInv, Rest, Requests, Sent
<1>2. CASE UNCHANGED <<inbox, device>>
  BY <1>2 DEF Served, device
<1>3. CASE Reply(q, "failed", 0) /\ UNCHANGED device
  <2>1. \A i \in 1..Len(inbox') :
           \/ i \in 1..Len(inbox) /\ inbox'[i] = inbox[i]
           \/ inbox'[i].txn = q.txn /\ inbox'[i].status = "failed"
    BY <1>1, <1>3, ReplyAdds
  <2> QED
    BY <1>3, <2>1 DEF Served, device
<1>4. CASE FunctionError(q) /\ UNCHANGED device
  <2> DEFINE e == [type |-> "functionError", txn |-> q.txn, total |-> 1,
                   current |-> 0, status |-> "failed", val |-> 0]
  <2>1. inbox' = Append(inbox, e) /\ e.txn = q.txn /\ e.status = "failed"
    BY <1>4 DEF FunctionError
  <2> HIDE DEF e
  <2>2. \A i \in 1..Len(inbox') : (i \in 1..Len(inbox) /\ inbox'[i] = inbox[i]) \/ inbox'[i] = e
    BY <1>1, <2>1
  <2> QED
    BY <1>4, <2>1, <2>2 DEF Served, device
<1>5. ASSUME NEW val \in Nat, Reply(q, "ok", val),
             q.what = "slotSet" => active' = q.arg,
             q.what = "slotQuery" => val = active,
             q.what = "readyStatus" /\ val = 1 => ready,
             q.what # "slotSet" => active' = active /\ ready' = ready
      PROVE  Served(q)
  <2>1. \A i \in 1..Len(inbox') :
           \/ i \in 1..Len(inbox) /\ inbox'[i] = inbox[i]
           \/ inbox'[i].txn = q.txn /\ inbox'[i].val = val
    BY <1>1, <1>5, ReplyAdds
  <2> QED
    BY <1>5, <2>1 DEF Served
<1>6. CASE Perform(q)
  <2>1. CASE q.what \in {"proxyConfig", "open", "close", "apdu"}
    BY <1>5, <1>6, <2>1 DEF Perform, device
  <2>2. CASE q.what = "slotQuery"
    BY <1>1, <1>5, <1>6, <2>2 DEF Perform, device
  <2>3. CASE q.what = "slotSet"
    BY <1>1, <1>5, <1>6, <2>3 DEF Perform
  <2>4. CASE q.what = "readyStatus"
    BY <1>5, <1>6, <2>4 DEF Perform, device
  <2>5. CASE q.what = "openChannel"
    BY <1>5, <1>6, <2>5, SlotsAssumption DEF Perform
  <2>6. CASE q.what = "closeChannel"
    BY <1>5, <1>6, <2>6 DEF Perform
  <2> QED
    BY <1>6, <2>1, <2>2, <2>3, <2>4, <2>5, <2>6 DEF Perform
<1> QED
  BY <1>2, <1>3, <1>4, <1>6

LEMMA HandleConnected ==
    ASSUME IInv, Connected, Handle
    PROVE  Connected'
<1> DEFINE q == Head(queue)
           n == IF q.total < Len(queue) THEN q.total ELSE Len(queue)
<1>1. /\ queue \in Seq(Requests) /\ queue # <<>> /\ q \in Requests /\ q = queue[1]
      /\ 1 \in 1..Len(queue) /\ Len(queue) \in Nat /\ q.total \in Nat /\ q.txn \in Nat
      /\ txn \in Nat
  <2>1. queue \in Seq(Requests) /\ queue # <<>> /\ txn \in Nat
    BY DEF Handle, IInv, Client
  <2>2. q \in Requests /\ q = queue[1] /\ 1 \in 1..Len(queue) /\ Len(queue) \in Nat
    BY <2>1
  <2> QED
    BY <2>1, <2>2 DEF Requests, Sent
<1>2. UNCHANGED <<link, slot, txn, msg, done, collector>>
  BY DEF Handle
<1>3. Served(q)
  BY <1>1, PerformServes DEF Handle
<1>4. n \in 0..Len(queue) /\ queue' = SubSeq(queue, n + 1, Len(queue))
  BY <1>1 DEF Handle
<1>5. Len(queue) = 1 /\ q.total = 1 => n = 1
  BY <1>1
<1> HIDE DEF q, n
<1>6. /\ Len(queue') = Len(queue) - n
      /\ \A i \in 1..Len(queue') : n + i \in 1..Len(queue) /\ queue'[i] = queue[n + i]
  BY <1>1, <1>4
<1>7. q.txn \in 1..txn /\ (q.txn = txn /\ msg # "none" => q.what = msg)
  BY <1>1 DEF Connected, Past
<1>8. Past'
  <2>1. \A i \in 1..Len(inbox') : inbox'[i].txn <= txn
    BY <1>1, <1>3, <1>7 DEF Served, Connected, Past
  <2>2. ASSUME NEW i \in 1..Len(queue')
        PROVE  /\ queue'[i].txn \in 1..txn
               /\ queue'[i].txn = txn /\ msg # "none" => queue'[i].what = msg
    BY <1>6 DEF Connected, Past
  <2> QED
    BY <1>2, <2>1, <2>2 DEF Connected, Past
<1>9. Gone'
  BY <1>2 DEF Connected, Gone
<1>10. CASE link # "up"
  BY <1>2, <1>8, <1>9, <1>10 DEF Connected, Switching, Told, Switched
<1>11. CASE link = "up"
  <2>1. q.what = "slotSet" =>
          msg = "slotSet" /\ Len(queue) = 1 /\ q.total = 1 /\ q.arg = slot
    BY <1>1, <1>11 DEF Connected, Switching
  <2>2. ASSUME q.what = "slotSet"
        PROVE  Still'
    <3>1. n = 1 /\ Len(queue) = 1
      BY <1>5, <2>1, <2>2
    <3>2. Len(queue') = 0
      BY <1>6, <3>1
    <3> QED
      BY <3>2 DEF Still
  <2>3. Still => Still'
    BY <1>6 DEF Still
  <2>4. q.what = "slotSet" => ~Still
    BY <1>1 DEF Still
  <2>5. Switching'
    <3> SUFFICES ASSUME NEW i \in 1..Len(queue'), queue'[i].what = "slotSet"
                 PROVE  /\ msg = "slotSet" /\ i = Len(queue') /\ queue'[i].total = 1
                        /\ queue'[i].arg = slot
      BY <1>2 DEF Switching
    <3>1. n + i \in 1..Len(queue) /\ queue'[i] = queue[n + i]
      BY <1>6
    <3>2. /\ msg = "slotSet" /\ n + i = Len(queue) /\ queue'[i].total = 1
          /\ queue'[i].arg = slot
      BY <1>11, <3>1 DEF Connected, Switching
    <3> QED
      BY <1>1, <1>4, <1>6, <3>2
  <2>6. ASSUME NEW i \in 1..Len(inbox'), inbox'[i].txn = q.txn,
               inbox'[i].status = "ok" =>
                  /\ q.what = "slotSet" => active' = q.arg
                  /\ q.what = "slotQuery" => inbox'[i].val = active
                  /\ q.what = "readyStatus" /\ inbox'[i].val = 1 => ready
        PROVE  Says(inbox[i])'
    <3> SUFFICES ASSUME inbox'[i].txn = txn, inbox'[i].status = "ok", msg # "none"
                 PROVE  /\ msg = "slotSet" => active' = slot /\ Still'
                        /\ msg = "slotQuery" => inbox'[i].val = active'
                        /\ msg = "readyStatus" /\ inbox'[i].val = 1 => ready'
      BY <1>2 DEF Says
    <3>1. q.what = msg
      BY <1>7, <2>6
    <3>2. msg = "slotSet" => active' = slot /\ Still'
      BY <2>1, <2>2, <2>6, <3>1
    <3>3. msg # "slotSet" => active' = active /\ (ready => ready')
      BY <1>3, <3>1 DEF Served
    <3> QED
      BY <2>6, <3>1, <3>2, <3>3
  <2>7. Told'
    <3>1. ASSUME NEW i \in 1..Len(inbox')
          PROVE  Says(inbox[i])'
      <4>1. CASE i \in 1..Len(inbox) /\ inbox'[i] = inbox[i]
        <5>1. Says(inbox[i])
          BY <1>11, <4>1 DEF Connected, Told
        <5> QED
          BY <1>2, <2>1, <2>3, <2>4, <1>3, <4>1, <5>1 DEF Says, Served
      <4> QED
        BY <1>3, <2>6, <4>1 DEF Served
    <3>2. ASSUME NEW i \in 1..Len(collector)
          PROVE  Says(collector[i])'
      <4>1. Says(collector[i])
        BY <1>11 DEF Connected, Told
      <4> QED
        BY <1>2, <2>1, <2>3, <2>4, <1>3, <4>1 DEF Says, Served
    <3> QED
      BY <1>2, <3>1, <3>2 DEF Told
  <2>8. Switched'
    <3>1. msg # "slotSet" => active' = active /\ (ready => ready')
      BY <1>3, <2>1 DEF Served
    <3> QED
      BY <1>2, <1>11, <3>1 DEF Connected, Switched, ConnectMeansReady
  <2> QED
    BY <1>8, <1>9, <2>5, <2>7, <2>8 DEF Connected
<1> QED
  BY <1>10, <1>11

LEMMA ConnectedStep == IInv /\ Connected /\ [Next]_vars => Connected'
<1> SUFFICES ASSUME IInv, Connected, [Next]_vars
             PROVE  Connected'
  OBVIOUS
<1>1. CASE UNCHANGED vars
  BY <1>1, PlainConnected DEF vars, device
<1>2. CASE CardReady
  BY <1>2, PlainConnected DEF CardReady
<1>3. CASE Indicate
  <2> DEFINE e == [type |-> "indicateStatus", txn |-> 0, total |-> 1,
                   current |-> 0, status |-> "ok", val |-> 0]
  <2>1. inbox' = Append(inbox, e) /\ e.txn = 0 /\ inbox \in Seq(Fragments)
    BY <1>3 DEF Indicate, IInv, Rest
  <2> HIDE DEF e
  <2>2. \A i \in 1..Len(inbox') : (i \in 1..Len(inbox) /\ inbox'[i] = inbox[i]) \/ inbox'[i] = e
    BY <2>1
  <2> QED
    BY <1>3, <2>1, <2>2, PlainConnected DEF Indicate, device
<1>4. CASE Next /\ ~CardReady /\ ~Indicate
  BY <1>4, CallConnected, ReadConnected, CutConnected, HandleConnected DEF Next
<1> QED
  BY <1>1, <1>2, <1>3, <1>4

\* A Connect that succeeds has the configured slot active and, if it switched,
\* the card ready (ConnectMeansReady).
THEOREM ConnectIsReady == Spec => []ConnectMeansReady
<1>1. Init => Connected
  BY DEF Init, Connected, Past, Gone, Switching, Told, Switched, ConnectMeansReady
<1>2. IInv /\ Connected => ConnectMeansReady
  BY DEF IInv, Client, Connected, Gone, Switched, ConnectMeansReady
<1> QED
  BY <1>1, <1>2, ConnectedStep, Inductive, PTL DEF Spec
=============================================================================
