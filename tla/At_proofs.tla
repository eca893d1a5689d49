------------------------------ MODULE At_proofs ------------------------------
(***************************************************************************)
(* Proofs about At, for any channels and any number of calls.              *)
(*                                                                         *)
(* InTime says what the line holds while no command was given up: at most  *)
(* one command and its answer, which is that of the command that runs, and *)
(* with it what has become of the card.                                    *)
(***************************************************************************)
EXTENDS At, SequenceTheorems, TLAPS

ChannelHeld == channel # 0 => channel \in selected

\* The channels of the card between the steps of an OpenLogicalChannel.
Opened ==
    /\ step = "open" => open = before
    /\ step \in {"select", "undo"} => target \notin before /\ open = before \cup {target}

\* What the card has done when it answered r to the command that runs.
Performed(r) ==
    \/ r.sw = "refused" /\ ChannelHeld /\ Opened
    \/ step \in {"init", "apdu"} /\ ChannelHeld
    \/ /\ step = "open" /\ r.sw = "ok" /\ ChannelHeld
       /\ r.byte \in Channels \ before /\ open = before \cup {r.byte}
    \/ step = "select" /\ r.sw = "more" /\ ChannelHeld /\ Opened /\ target \in selected
    \/ /\ step \in {"undo", "close"} /\ r.sw = "ok"
       /\ channel \notin {0, target} => channel \in selected
       /\ step = "undo" => open = before

\* No command runs, and nothing is on the line.
Quiet ==
    /\ step = "none" /\ queue = <<>> /\ inbox = <<>> /\ ChannelHeld
    /\ done = "OpenUndone" => open = before

\* The command is on its way.
Asked ==
    /\ step # "none" /\ queue = <<[n |-> asked, what |-> step, arg |-> target]>>
    /\ inbox = <<>> /\ lines = <<>> /\ ChannelHeld /\ Opened

\* It was lost: the command ends with a timeout.
Silent == step # "none" /\ queue = <<>> /\ inbox = <<>> /\ lines = <<>>

Refused ==
    /\ step # "none" /\ queue = <<>> /\ lines = <<>> /\ Len(inbox) = 1
    /\ inbox[1].kind = "ERROR" \/ (step = "test" /\ inbox[1].kind = "OK")
    /\ ChannelHeld /\ Opened

Answered(r) ==
    /\ step \notin {"none", "test"} /\ queue = <<>>
    /\ r.kind \in {"csim", "bare"} /\ r.of = asked /\ Performed(r)
    /\ \/ /\ Len(inbox) = 2 /\ lines = <<>>
          /\ inbox[1] = r /\ inbox[2].kind = "OK"
       \/ /\ Len(inbox) = 1 /\ Len(lines) = 1
          /\ lines[1] = r /\ inbox[1].kind = "OK"

InTime == ~abandoned =>
    Quiet \/ Asked \/ Silent \/ Refused \/ \E r \in Lines : Answered(r)

IInv == TypeOK /\ AnswersMatch /\ InTime

USE ChannelsAssumption, BoundsAssumption

-----------------------------------------------------------------------------
(* Types.                                                                  *)

LEMMA SendIsTyped ==
    ASSUME TypeOK, NEW s \in Steps, NEW ch \in Channels \cup {0}, Send(s, ch),
           s \in {"select", "undo", "close"} => ch # 0
    PROVE  /\ step' \in Steps \cup {"none"} /\ target' \in Channels \cup {0}
           /\ step' \in {"select", "undo", "close"} => target' # 0
           /\ done' \in Outcomes /\ lines' \in Seq(Lines) /\ queue' \in Seq(Commands)
           /\ asked' \in Nat
<1>1. [n |-> asked + 1, what |-> s, arg |-> ch] \in Commands
  BY DEF TypeOK, Commands
<1> QED
  BY <1>1 DEF TypeOK, Send

LEMMA ReturnIsTyped ==
    ASSUME TypeOK, NEW d \in Outcomes, Return(d)
    PROVE  /\ step' \in Steps \cup {"none"} /\ target' \in Channels \cup {0}
           /\ step' \in {"select", "undo", "close"} => target' # 0
           /\ done' \in Outcomes /\ lines' \in Seq(Lines) /\ queue' \in Seq(Commands)
           /\ asked' \in Nat
BY DEF TypeOK, Return, Steps

\* The part of the state that Send and Return change.
Exchange ==
    /\ step' \in Steps \cup {"none"} /\ target' \in Channels \cup {0}
    /\ step' \in {"select", "undo", "close"} => target' # 0
    /\ done' \in Outcomes /\ lines' \in Seq(Lines) /\ queue' \in Seq(Commands)
    /\ asked' \in Nat

LEMMA CallIsTyped ==
    ASSUME TypeOK, Connect \/ OpenLogicalChannel \/ Transmit \/ Disconnect
                   \/ \E ch \in Channels \cup {0} : CloseLogicalChannel(ch)
    PROVE  TypeOK'
<1>1. {"test", "open", "apdu", "close"} \subseteq Steps /\ {"error", "Disconnect"} \subseteq Outcomes
  BY DEF Steps, Outcomes
<1>2. Exchange
  <2>1. CASE Connect \/ OpenLogicalChannel \/ Transmit
    BY <1>1, <2>1, SendIsTyped, ReturnIsTyped
    DEF Connect, OpenLogicalChannel, Transmit, SendUp, Exchange
  <2>2. CASE \E ch \in Channels \cup {0} : CloseLogicalChannel(ch)
    BY <1>1, <2>2, SendIsTyped, ReturnIsTyped
    DEF CloseLogicalChannel, ValidChannel, SendUp, Exchange
  <2>3. CASE Disconnect
    BY <1>1, <2>3, ReturnIsTyped DEF Disconnect, Exchange
  <2> QED
    BY <2>1, <2>2, <2>3
<1>3. /\ link' \in {"up", "closed"} /\ calls' \in Nat
      /\ before' \in {before, open} /\ UNCHANGED <<channel, inbox, bare, card, abandoned, answer>>
  BY DEF TypeOK, Connect, OpenLogicalChannel, Transmit, Disconnect, CloseLogicalChannel, StartCall
<1> QED
  BY <1>2, <1>3 DEF TypeOK, Exchange, card

LEMMA FailIsTyped ==
    ASSUME TypeOK, FailCommand
    PROVE  Exchange /\ channel' = channel
<1>1. "undo" \in Steps /\ "error" \in Outcomes
  BY DEF Steps, Outcomes
<1> QED
  BY <1>1, SendIsTyped, ReturnIsTyped DEF FailCommand, Undo, Exchange, TypeOK

LEMMA RespondIsTyped ==
    ASSUME TypeOK, NEW r \in Lines, Respond(r)
    PROVE  Exchange /\ channel' \in Channels \cup {0}
<1>1. /\ {"select", "undo"} \subseteq Steps
      /\ {"error", "Connect", "Open", "OpenUndone", "Close", "Transmit"} \subseteq Outcomes
  BY DEF Steps, Outcomes
<1>2. Exchange
  BY <1>1, SendIsTyped, ReturnIsTyped DEF Respond, Undo, ValidChannel, Exchange, TypeOK
<1>3. channel' \in Channels \cup {0}
  BY DEF Respond, Unset, TypeOK
<1> QED
  BY <1>2, <1>3

LEMMA ReadIsTyped ==
    ASSUME TypeOK, ReadData \/ ReadOK \/ ReadERROR \/ ReadTimeout \/ LineCut
    PROVE  TypeOK'
<1>1. CASE ReadData
  BY <1>1 DEF ReadData, Reading, TypeOK, card
<1>2. CASE ReadOK
  <2>1. "init" \in Steps
    BY DEF Steps
  <2>2. ASSUME NEW i \in DOMAIN lines PROVE lines[i] \in Lines /\ lines[i].of \in Nat
    <3>1. lines[i] \in Lines
      BY DEF TypeOK
    <3> QED
      BY <3>1 DEF Lines
  <2>3. Exchange /\ channel' \in Channels \cup {0}
    BY <1>2, <2>1, <2>2, SendIsTyped, FailIsTyped, RespondIsTyped DEF ReadOK, Exchange, TypeOK
  <2>4. answer' \in [to : Nat, from : Nat, late : BOOLEAN]
    BY <1>2, <2>2 DEF ReadOK, TypeOK
  <2>5. inbox' \in Seq(Lines)
    BY <1>2 DEF ReadOK, Reading, TypeOK
  <2> QED
    BY <1>2, <2>3, <2>4, <2>5 DEF ReadOK, Exchange, TypeOK, card
<1>3. CASE ReadERROR \/ ReadTimeout
  <2>1. inbox' \in Seq(Lines)
    <3>1. inbox \in Seq(Lines)
      BY DEF TypeOK
    <3>2. inbox' = inbox \/ (inbox # <<>> /\ inbox' = Tail(inbox))
      BY <1>3 DEF ReadERROR, ReadTimeout, Reading
    <3> QED
      BY <3>1, <3>2
  <2>2. Exchange /\ channel' = channel
    BY <1>3, FailIsTyped DEF ReadERROR, ReadTimeout
  <2> QED
    BY <1>3, <2>1, <2>2 DEF ReadERROR, ReadTimeout, Exchange, TypeOK, card
<1>4. CASE LineCut
  <2>1. PICK k \in {"bare", "junk"} :
          inbox' = <<[Head(inbox) EXCEPT !.kind = k]>> \o Tail(inbox)
    BY <1>4 DEF LineCut
  <2>2. [Head(inbox) EXCEPT !.kind = k] \in Lines /\ Tail(inbox) \in Seq(Lines)
    <3>1. Head(inbox) \in Lines /\ Tail(inbox) \in Seq(Lines)
      BY <1>4 DEF LineCut, Reading, TypeOK
    <3> QED
      BY <3>1 DEF Lines
  <2>3. inbox' \in Seq(Lines)
    BY <2>1, <2>2
  <2>4. Exchange /\ channel' = channel
    BY <1>4, FailIsTyped DEF LineCut
  <2> QED
    BY <1>4, <2>3, <2>4 DEF LineCut, Exchange, TypeOK, card
<1> QED
  BY <1>1, <1>2, <1>3, <1>4

LEMMA ReplyIsTyped ==
    ASSUME TypeOK, NEW q \in Commands, NEW sw \in Statuses, NEW byte \in Nat
    PROVE  /\ Say(q, IF bare THEN "bare" ELSE "csim", sw, byte) \in Lines
           /\ \A k \in {"OK", "ERROR"} : Say(q, k, "ok", 0) \in Lines
           /\ Reply(q, sw, byte) => inbox' \in Seq(Lines)
<1>1. Say(q, IF bare THEN "bare" ELSE "csim", sw, byte) \in Lines
  BY DEF Say, Lines, Commands
<1>2. \A k \in {"OK", "ERROR"} : Say(q, k, "ok", 0) \in Lines
  BY DEF Say, Lines, Commands, Statuses
<1>3. Reply(q, sw, byte) => inbox' \in Seq(Lines)
  BY <1>1, <1>2 DEF Reply, TypeOK
<1> QED
  BY <1>1, <1>2, <1>3

LEMMA HandleIsTyped ==
    ASSUME TypeOK, Handle
    PROVE  TypeOK'
<1> DEFINE q == Head(queue)
<1>1. q \in Commands /\ queue' \in Seq(Commands)
  BY DEF Handle, TypeOK
<1>2. \A ch \in Channels \cup {0} : ch \in Nat
  OBVIOUS
<1>3. {"ok", "more", "refused"} \subseteq Statuses /\ 0 \in Nat
  BY DEF Statuses
<1>4. inbox \in Seq(Lines) /\ Say(q, "OK", "ok", 0) \in Lines /\ Say(q, "ERROR", "ok", 0) \in Lines
  BY <1>1, <1>3, ReplyIsTyped DEF TypeOK
<1>5. Perform(q) => inbox' \in Seq(Lines) /\ open' \subseteq Channels /\ selected' \subseteq open'
  <2>1. \A sw \in Statuses, byte \in Nat : Reply(q, sw, byte) => inbox' \in Seq(Lines)
    BY <1>1, ReplyIsTyped
  <2>2. Perform(q) => inbox' \in Seq(Lines)
    <3>1. Perform(q) =>
             \/ inbox' = Append(inbox, Say(q, "OK", "ok", 0))
             \/ \E sw \in {"ok", "more", "refused"}, byte \in Channels \cup {0} : Reply(q, sw, byte)
      BY DEF Perform
    <3> QED
      BY <1>2, <1>3, <1>4, <2>1, <3>1
  <2>3. Perform(q) => open' \subseteq Channels /\ selected' \subseteq open'
    BY DEF Perform, card, TypeOK
  <2> QED
    BY <2>2, <2>3
<1>6. inbox' \in Seq(Lines) /\ open' \subseteq Channels /\ selected' \subseteq open'
  <2>1. CASE Perform(q)
    BY <1>5, <2>1
  <2>2. CASE Reply(q, "refused", 0) /\ UNCHANGED card
    BY <1>1, <1>3, <2>2, ReplyIsTyped DEF card, TypeOK
  <2>3. CASE (inbox' = inbox \/ inbox' = Append(inbox, Say(q, "ERROR", "ok", 0)))
             /\ UNCHANGED card
    <3>1. inbox' \in Seq(Lines)
      BY <1>4, <2>3
    <3> QED
      BY <2>3, <3>1 DEF card, TypeOK
  <2> QED
    BY <2>1, <2>2, <2>3 DEF Handle
<1> QED
  BY <1>1, <1>6 DEF Handle, TypeOK

\* Every variable of At keeps its type: no channel but one of the card's, no
\* line or command but one that was said.
THEOREM TypeCorrect == Spec => []TypeOK
<1>1. Init => TypeOK
  <2> SUFFICES ASSUME Init
               PROVE  TypeOK
    OBVIOUS
  <2>1. answer \in [to : Nat, from : Nat, late : BOOLEAN] /\ abandoned \in BOOLEAN
    BY DEF Init
  <2>2. bare \in BOOLEAN
    BY DEF Init
  <2> QED
    BY <2>1, <2>2 DEF Init, TypeOK, Outcomes, Steps
<1>2. TypeOK /\ [Next]_vars => TypeOK'
  <2>1. TypeOK /\ UNCHANGED vars => TypeOK'
    BY DEF TypeOK, vars, line, card
  <2> QED
    BY <2>1, CallIsTyped, ReadIsTyped, HandleIsTyped DEF Next
<1> QED
  BY <1>1, <1>2, PTL DEF Spec

-----------------------------------------------------------------------------
(* What is on the line while every read is in time.                        *)

USE DEF ChannelHeld, Opened

LEMMA SendAsks ==
    ASSUME NEW s \in Steps, NEW ch, Send(s, ch), inbox' = <<>>, queue = <<>>,
           ChannelHeld', Opened'
    PROVE  Asked'
BY DEF Send, Asked, Steps

LEMMA ReturnIsQuiet ==
    ASSUME NEW d, Return(d), inbox' = <<>>, queue = <<>>, ChannelHeld',
           d = "OpenUndone" => open' = before'
    PROVE  Quiet'
BY DEF Return, Quiet

LEMMA CallKeeps ==
    ASSUME IInv, Connect \/ OpenLogicalChannel \/ Transmit \/ Disconnect
                 \/ \E ch \in Channels \cup {0} : CloseLogicalChannel(ch)
    PROVE  InTime' /\ AnswersMatch'
<1>1. AnswersMatch' /\ abandoned' = abandoned /\ step = "none"
  BY DEF IInv, AnswersMatch, Connect, OpenLogicalChannel, Transmit, Disconnect,
         CloseLogicalChannel, StartCall
<1>2. CASE ~abandoned
  <2>1. Quiet
    BY <1>1, <1>2 DEF IInv, InTime, Asked, Silent, Refused, Answered
  <2>2. inbox' = <<>> /\ queue = <<>> /\ ChannelHeld'
    BY <2>1 DEF Quiet, Connect, OpenLogicalChannel, Transmit, Disconnect,
                CloseLogicalChannel, StartCall, card
  <2>3. CASE Disconnect
    BY <1>1, <2>2, <2>3, ReturnIsQuiet DEF Disconnect, InTime
  <2>4. CASE \E s \in {"test", "open", "apdu", "close"}, ch \in Channels \cup {0} :
               StartCall /\ Send(s, ch)
    <3>1. PICK s \in {"test", "open", "apdu", "close"}, ch \in Channels \cup {0} :
                 StartCall /\ Send(s, ch)
      BY <2>4
    <3>2. s \in Steps /\ Opened'
      BY <3>1 DEF Steps, StartCall, Send, card
    <3> QED
      <4>1. Asked'
        BY <2>2, <3>1, <3>2, SendAsks
      <4> QED
        BY <1>1, <4>1 DEF InTime
  <2>5. CASE Return("error")
    <3>1. Quiet'
      BY <2>2, <2>5, ReturnIsQuiet
    <3> QED
      BY <1>1, <3>1 DEF InTime
  <2> QED
    BY <2>3, <2>4, <2>5
    DEF Connect, OpenLogicalChannel, Transmit, CloseLogicalChannel, SendUp
<1> QED
  BY <1>1, <1>2 DEF InTime

\* A command that ended without a response, the card untouched.
LEMMA FailKeeps ==
    ASSUME FailCommand, inbox' = <<>>, queue = <<>>, ChannelHeld, Opened,
           UNCHANGED <<card, before>>
    PROVE  Quiet' \/ Asked'
<1>1. CASE step = "select"
  <2>1. Send("undo", target) /\ "undo" \in Steps
    BY <1>1 DEF FailCommand, Undo, Steps
  <2>2. ChannelHeld' /\ Opened'
    BY <1>1, <2>1 DEF FailCommand, Send, card
  <2> QED
    BY <2>1, <2>2, SendAsks
<1>2. CASE step # "select"
  BY <1>2, ReturnIsQuiet DEF FailCommand, card
<1> QED
  BY <1>1, <1>2

\* The response to a command that ran, taken for what it is.
LEMMA RespondKeeps ==
    ASSUME NEW r, Respond(r), Performed(r), inbox' = <<>>, queue = <<>>,
           UNCHANGED <<card, before>>
    PROVE  Quiet' \/ Asked'
<1> USE DEF Performed, card, Accepted
<1>1. CASE step = "init" \/ step = "apdu"
  BY <1>1, ReturnIsQuiet DEF Respond
<1>2. CASE step = "open"
  <2>1. CASE r.sw = "ok" /\ ValidChannel(r.byte)
    <3>1. Send("select", r.byte) /\ "select" \in Steps /\ channel' = channel
      BY <1>2, <2>1 DEF Respond, Steps
    <3>2. ChannelHeld' /\ Opened'
      BY <1>2, <2>1, <3>1 DEF Send
    <3> QED
      BY <3>1, <3>2, SendAsks
  <2>2. CASE ~(r.sw = "ok" /\ ValidChannel(r.byte))
    BY <1>2, <2>2, ReturnIsQuiet DEF Respond, ValidChannel
  <2> QED
    BY <2>1, <2>2
<1>3. CASE step = "select"
  <2>1. CASE Accepted(r)
    BY <1>3, <2>1, ReturnIsQuiet DEF Respond
  <2>2. CASE ~Accepted(r)
    <3>1. Send("undo", target) /\ "undo" \in Steps /\ channel' = channel
      BY <1>3, <2>2 DEF Respond, Undo, Steps
    <3>2. ChannelHeld' /\ Opened'
      BY <1>3, <2>2, <3>1 DEF Send
    <3> QED
      BY <3>1, <3>2, SendAsks
  <2> QED
    BY <2>1, <2>2
<1>4. CASE step \in {"undo", "close"}
  <2>1. CASE r.sw = "ok"
    <3>1. Return(IF step = "undo" THEN "OpenUndone" ELSE "Close") /\ Unset(target)
      BY <1>4, <2>1 DEF Respond
    <3>2. ChannelHeld'
      BY <1>4, <2>1, <3>1 DEF Unset
    <3> QED
      BY <1>4, <2>1, <3>1, <3>2, ReturnIsQuiet
  <2>2. CASE r.sw # "ok"
    BY <1>4, <2>2, ReturnIsQuiet DEF Respond
  <2> QED
    BY <2>1, <2>2
<1> QED
  BY <1>1, <1>2, <1>3, <1>4 DEF Respond

LEMMA ReadKeeps ==
    ASSUME IInv, ReadData \/ ReadOK \/ ReadERROR \/ ReadTimeout \/ LineCut
    PROVE  InTime' /\ AnswersMatch'
<1>1. CASE ReadTimeout \/ LineCut
  BY <1>1 DEF IInv, InTime, AnswersMatch, ReadTimeout, LineCut
<1>2. CASE abandoned /\ (ReadData \/ ReadOK \/ ReadERROR)
  <2>1. abandoned' = abandoned
    BY <1>2 DEF ReadData, ReadOK, ReadERROR
  <2>2. answer' = answer \/ \E i \in DOMAIN lines :
          answer' = [to |-> asked, from |-> lines[i].of, late |-> abandoned]
    BY <1>2 DEF ReadData, ReadOK, ReadERROR
  <2> QED
    BY <1>2, <2>1, <2>2 DEF IInv, InTime, AnswersMatch
<1>3. CASE ~abandoned /\ (ReadData \/ ReadOK \/ ReadERROR)
  <2>1. /\ inbox \in Seq(Lines) /\ lines \in Seq(Lines) /\ step # "none" /\ inbox # <<>>
        /\ Head(inbox) = inbox[1] /\ inbox' = Tail(inbox) /\ abandoned' = abandoned
        /\ UNCHANGED <<card, before>>
    BY <1>3 DEF IInv, TypeOK, ReadData, ReadOK, ReadERROR, Reading
  <2>2. CASE Refused
    <3>1. inbox' = <<>> /\ queue = <<>> /\ ChannelHeld /\ lines = <<>>
      BY <2>1, <2>2 DEF Refused
    <3>2. CASE FailCommand /\ answer' = answer
      BY <2>1, <3>1, <3>2, <2>2, FailKeeps DEF InTime, IInv, AnswersMatch, Refused
    <3>3. CASE step = "test" /\ Send("init", 0) /\ UNCHANGED <<channel, answer>>
      <4>1. "init" \in Steps /\ ChannelHeld' /\ Opened'
        BY <2>1, <3>1, <3>3 DEF Send, Steps, card
      <4>2. Asked'
        BY <3>1, <3>3, <4>1, SendAsks
      <4> QED
        BY <3>3, <4>2 DEF InTime, IInv, AnswersMatch
    <3> QED
      BY <1>3, <2>1, <2>2, <3>1, <3>2, <3>3 DEF Refused, ReadData, ReadOK, ReadERROR
  <2>3. CASE \E r \in Lines : Answered(r)
    <3>1. PICK r \in Lines : Answered(r)
      BY <2>3
    <3>2. CASE Len(inbox) = 2
      <4>1. lines = <<>> /\ inbox[1] = r /\ inbox[2].kind = "OK"
        BY <3>1, <3>2 DEF Answered
      <4>2. ReadData /\ lines' = Append(lines, r)
        BY <1>3, <2>1, <3>1, <4>1 DEF Answered, ReadData, ReadOK, ReadERROR
      <4>3. Len(inbox') = 1 /\ inbox'[1] = inbox[2] /\ Len(lines') = 1 /\ lines'[1] = r
        BY <2>1, <3>2, <4>1, <4>2
      <4>4. Answered(r)'
        BY <3>1, <4>1, <4>2, <4>3 DEF Answered, Performed, ReadData, card
      <4> QED
        BY <4>2, <4>4 DEF InTime, IInv, AnswersMatch, ReadData
    <3>3. CASE Len(inbox) = 1
      <4>1. Len(lines) = 1 /\ lines[1] = r /\ inbox[1].kind = "OK" /\ inbox' = <<>>
        BY <2>1, <3>1, <3>3 DEF Answered
      <4>2. ReadOK /\ step # "test"
        BY <1>3, <2>1, <3>1, <4>1 DEF Answered, ReadData, ReadERROR
      <4>3. Readable = {1}
        <5>1. DOMAIN lines = {1}
          BY <2>1, <4>1
        <5> QED
          BY <3>1, <4>1, <5>1 DEF Answered, Readable, Hits
      <4>4. /\ answer' = [to |-> asked, from |-> r.of, late |-> abandoned]
            /\ Respond(r)
        BY <4>1, <4>2, <4>3 DEF ReadOK, First
      <4>5. Quiet' \/ Asked'
        BY <2>1, <3>1, <4>1, <4>4, RespondKeeps DEF Answered
      <4>6. AnswersMatch'
        BY <3>1, <4>4 DEF AnswersMatch, Answered
      <4> QED
        BY <4>5, <4>6 DEF InTime
    <3> QED
      BY <3>1, <3>2, <3>3 DEF Answered
  <2> QED
    BY <1>3, <2>1, <2>2, <2>3 DEF IInv, InTime, Quiet, Asked, Silent
<1> QED
  BY <1>1, <1>2, <1>3

LEMMA HandleKeeps ==
    ASSUME IInv, Handle
    PROVE  InTime' /\ AnswersMatch'
<1> DEFINE q == Head(queue)
<1>1. AnswersMatch' /\ UNCHANGED <<link, channel, step, target, done, lines, asked, abandoned, before>>
  BY DEF IInv, AnswersMatch, Handle
<1>2. CASE ~abandoned
  <2>1. Asked
    BY <1>2 DEF IInv, InTime, Handle, Quiet, Silent, Refused, Answered
  <2>2. q = [n |-> asked, what |-> step, arg |-> target] /\ queue' = <<>>
    BY <2>1 DEF Asked, Handle
  <2>3. inbox = <<>> /\ lines = <<>> /\ step # "none" /\ ChannelHeld /\ Opened
    BY <2>1 DEF Asked
  <2>4. ASSUME NEW sw \in Statuses, NEW byte \in Channels \cup {0}, NEW r,
               r = Say(q, IF bare THEN "bare" ELSE "csim", sw, byte),
               Reply(q, sw, byte), step # "test", Performed(r)'
        PROVE  InTime'
    <3>1. q \in Commands /\ byte \in Nat
      BY DEF IInv, TypeOK, Handle
    <3>2. r \in Lines
      BY <3>1, <2>4, ReplyIsTyped DEF IInv
    <3>3. inbox' = <<r, Say(q, "OK", "ok", 0)>>
      BY <2>3, <2>4 DEF Reply
    <3>4. r.kind \in {"csim", "bare"} /\ r.of = asked /\ Say(q, "OK", "ok", 0).kind = "OK"
      BY <2>2, <2>4 DEF Say
    <3>5. Answered(r)'
      BY <1>1, <2>2, <2>3, <2>4, <3>3, <3>4 DEF Answered
    <3> QED
      BY <3>2, <3>5 DEF InTime
  <2>5. CASE Perform(q)
    <3>1. CASE step = "test"
      <4>1. inbox' = <<Say(q, "OK", "ok", 0)>> /\ UNCHANGED card
        BY <2>2, <2>3, <2>5, <3>1 DEF Perform, Reply
      <4>2. Refused'
        BY <1>1, <2>2, <2>3, <3>1, <4>1 DEF Refused, Say, card
      <4> QED
        BY <1>1, <4>2 DEF InTime
    <3>2. CASE step # "test"
      <4>1. PICK sw \in Statuses, byte \in Channels \cup {0} :
              /\ Reply(q, sw, byte)
              /\ \/ step \in {"init", "apdu"} /\ UNCHANGED card
                 \/ /\ step = "open" /\ sw = "ok" /\ byte \in Channels \ open
                    /\ open' = open \cup {byte} /\ UNCHANGED selected
                 \/ /\ step = "select" /\ sw = "more"
                    /\ selected' = selected \cup {target} /\ UNCHANGED open
                 \/ /\ step \in {"close", "undo"} /\ sw = "ok" /\ open' = open \ {target}
                    /\ selected' = selected \ {target}
        <5>1. {"ok", "more"} \subseteq Statuses
          BY DEF Statuses
        <5> QED
          BY <2>2, <2>5, <3>2, <5>1 DEF Perform, card
      <4>2. PICK r : r = Say(q, IF bare THEN "bare" ELSE "csim", sw, byte)
        OBVIOUS
      <4>3. r.sw = sw /\ r.byte = byte
        BY <4>2 DEF Say
      <4>4. Performed(r)'
        BY <1>1, <2>3, <4>1, <4>3 DEF Performed, card
      <4> QED
        BY <1>1, <2>4, <3>2, <4>1, <4>2, <4>4
    <3> QED
      BY <3>1, <3>2
  <2>6. CASE step # "test" /\ Reply(q, "refused", 0) /\ UNCHANGED card
    <3>1. PICK r : r = Say(q, IF bare THEN "bare" ELSE "csim", "refused", 0)
      OBVIOUS
    <3>2. r.sw = "refused" /\ "refused" \in Statuses
      BY <3>1 DEF Say, Statuses
    <3>3. Performed(r)'
      BY <1>1, <2>3, <2>6, <3>2 DEF Performed, card
    <3> QED
      BY <1>1, <2>4, <2>6, <3>1, <3>2, <3>3
  <2>7. CASE inbox' = Append(inbox, Say(q, "ERROR", "ok", 0)) /\ UNCHANGED card
    <3>1. inbox' = <<Say(q, "ERROR", "ok", 0)>>
      BY <2>3, <2>7
    <3>2. Refused'
      BY <1>1, <2>2, <2>3, <2>7, <3>1 DEF Refused, Say, card
    <3> QED
      BY <1>1, <3>2 DEF InTime
  <2>8. CASE UNCHANGED <<inbox, card>>
    BY <1>1, <2>2, <2>3, <2>8 DEF InTime, Silent
  <2> QED
    BY <1>1, <2>2, <2>5, <2>6, <2>7, <2>8 DEF Handle
<1> QED
  BY <1>1, <1>2 DEF InTime

LEMMA Inductive == Spec => []IInv
<1>1. Init => InTime /\ AnswersMatch
  BY DEF Init, InTime, Quiet, AnswersMatch
<1>2. IInv /\ [Next]_vars => InTime' /\ AnswersMatch'
  <2>1. IInv /\ UNCHANGED vars => InTime' /\ AnswersMatch'
    BY DEF IInv, InTime, AnswersMatch, Quiet, Asked, Silent, Refused, Answered, Performed,
           vars, line, card
  <2> QED
    BY <2>1, CallKeeps, ReadKeeps, HandleKeeps DEF Next
<1>3. TypeOK /\ InTime /\ AnswersMatch <=> IInv
  BY DEF IInv
<1> QED
  BY <1>1, <1>2, <1>3, TypeCorrect, PTL DEF Spec

\* For any channels and calls, a response is taken for another command's only
\* after a command was given up: the driver needs no numbers on the line as long
\* as every read is in time.
THEOREM AnswersAreOurs == Spec => []AnswersMatch
<1>1. IInv => AnswersMatch
  BY DEF IInv
<1> QED
  BY <1>1, Inductive, PTL

\* An OpenLogicalChannel that is undone leaves the card with the channels it had,
\* while no command was given up.
THEOREM UndoRestores == Spec => []ChannelsRestored
<1>1. IInv => ChannelsRestored
  BY DEF IInv, InTime, ChannelsRestored, Quiet, Asked, Silent, Refused, Answered
<1> QED
  BY <1>1, Inductive, PTL

\* The channel the driver remembers is open on the card, with the AID selected,
\* while no command was given up.
THEOREM ChannelStaysOpen == Spec => []ChannelIsOpen
<1>1. IInv => ChannelIsOpen
  BY DEF IInv, InTime, ChannelIsOpen, Quiet, Asked, Silent, Refused, Answered
<1> QED
  BY <1>1, Inductive, PTL
=============================================================================
