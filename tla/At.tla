--------------------------------- MODULE At ---------------------------------
(***************************************************************************)
(* The AT driver (driver/at): APDUs as AT+CSIM commands on a serial line.  *)
(*                                                                         *)
(* AT.mu lets one call run at a time; a call makes one command after       *)
(* another, and step is the one that runs, "none" between calls.  Nothing  *)
(* in an answer says which command it is for: sendCommand collects lines   *)
(* until the first OK or ERROR, whichever command that ended.  A read that *)
(* times out gives the command up; what comes later stays on the line.     *)
(*                                                                         *)
(* Blank lines, echoes and unsolicited lines never decode and are left     *)
(* out.  The modem and the card are external.                              *)
(***************************************************************************)
EXTENDS Integers, Sequences

CONSTANTS
    Channels,   \* logical channels of the card: 1..19 in the code
    MaxCalls    \* bound on the calls

ASSUME ChannelsAssumption == Channels \subseteq 1..19
ASSUME BoundsAssumption == MaxCalls \in Nat

VARIABLES
    link,       \* "up" or "closed": the serial port
    channel,    \* AT.channel
    step, target,       \* the command that runs, the channel it is about
    done,       \* what the last call came to
    lines,      \* the lines sendCommand has collected
    queue,      \* commands the modem has not handled
    inbox,      \* lines the client has not read
    bare,       \* the modem answers without the +CSIM: prefix
    open, selected,     \* the card
    calls,      \* bound
    asked,      \* history: commands written
    abandoned,  \* history: a command was given up
    before,     \* history: the card's channels when the last call began
    answer      \* history: the command answered, and the one the answer is from

line == <<link, channel, step, target, done, lines, queue, asked>>
card == <<open, selected>>
vars == <<line, inbox, bare, card, calls, abandoned, before, answer>>

Steps    == {"test", "init", "open", "select", "undo", "close", "apdu"}
Outcomes == {"none", "error", "Connect", "Open", "OpenUndone", "Close", "Transmit",
             "Disconnect"}
Statuses == {"ok", "more", "refused"}

Commands == [n : Nat, what : Steps, arg : Nat]
\* A "csim" line and, on its own, a "bare" one carry a response: its status
\* and its first byte of data, 0 for none.
Lines    == [kind : {"csim", "bare", "junk", "OK", "ERROR"}, of : Nat, sw : Statuses,
             byte : Nat]

TypeOK ==
    /\ link \in {"up", "closed"} /\ channel \in Channels \cup {0}
    /\ step \in Steps \cup {"none"} /\ target \in Channels \cup {0}
    /\ step \in {"select", "undo", "close"} => target # 0
    /\ done \in Outcomes
    /\ lines \in Seq(Lines) /\ queue \in Seq(Commands) /\ inbox \in Seq(Lines)
    /\ bare \in BOOLEAN /\ open \subseteq Channels /\ selected \subseteq open
    /\ calls \in Nat /\ asked \in Nat /\ abandoned \in BOOLEAN
    /\ before \subseteq Channels /\ answer \in [to : Nat, from : Nat, late : BOOLEAN]

\* New has opened the port and flushed it.
Init ==
    /\ link = "up" /\ channel = 0 /\ step = "none" /\ target = 0 /\ done = "none"
    /\ lines = <<>> /\ queue = <<>> /\ inbox = <<>> /\ bare \in BOOLEAN
    /\ open = {} /\ selected = {} /\ calls = 0 /\ asked = 0
    /\ abandoned = FALSE /\ before = {} /\ answer = [to |-> 0, from |-> 0, late |-> FALSE]

-----------------------------------------------------------------------------
(* Commands and calls.                                                     *)

Send(s, ch) ==
    /\ step' = s /\ target' = ch /\ lines' = <<>> /\ asked' = asked + 1
    /\ queue' = Append(queue, [n |-> asked + 1, what |-> s, arg |-> ch])
    /\ UNCHANGED done

Return(d) ==
    step' = "none" /\ target' = 0 /\ lines' = <<>> /\ done' = d /\ UNCHANGED <<queue, asked>>

\* On a closed port the write fails.
StartCall ==
    /\ step = "none" /\ calls < MaxCalls
    /\ calls' = calls + 1 /\ before' = open
    /\ UNCHANGED <<link, channel, inbox, bare, card, abandoned, answer>>

SendUp(s, ch) == IF link = "up" THEN Send(s, ch) ELSE Return("error")

Connect            == StartCall /\ SendUp("test", 0)
OpenLogicalChannel == StartCall /\ (SendUp("open", 0) \/ Return("error"))   \* the AID is too long
Transmit           == StartCall /\ SendUp("apdu", 0)

ValidChannel(ch) == ch # 0 /\ ch \in Channels

CloseLogicalChannel(ch) ==
    StartCall /\ IF ValidChannel(ch) THEN SendUp("close", ch) ELSE Return("error")

Disconnect ==
    /\ step = "none" /\ link = "up"
    /\ link' = "closed" /\ Return("Disconnect")
    /\ UNCHANGED <<channel, inbox, bare, card, calls, abandoned, before, answer>>

-----------------------------------------------------------------------------
(* What a response makes of the call.                                      *)

\* Mutant: the channel is remembered after it was closed.
StillSet(ch) == UNCHANGED channel

Unset(ch) == channel' = IF channel = ch THEN 0 ELSE channel

\* Mutant: what is closed again is the channel in use.
UndoCurrent == IF channel = 0 THEN Return("error") ELSE Send("undo", channel)

Undo == Send("undo", target)

\* transmitAPDU returns an error, or sendCommand for the test command.
FailCommand ==
    /\ IF step = "select" THEN Undo ELSE Return("error")
    /\ UNCHANGED channel

Accepted(r) == r.sw \in {"ok", "more"}

Respond(r) ==
    \/ /\ step = "init"
       /\ IF Accepted(r) THEN Return("Connect") ELSE Return("error")
       /\ UNCHANGED channel
    \/ /\ step = "open"
       /\ IF r.sw = "ok" /\ ValidChannel(r.byte) THEN Send("select", r.byte)
                                                ELSE Return("error")
       /\ UNCHANGED channel
    \/ /\ step = "select" /\ Accepted(r)
       /\ channel' = target /\ Return("Open")
    \/ /\ step = "select" /\ ~Accepted(r)
       /\ Undo /\ UNCHANGED channel
    \/ /\ step \in {"undo", "close"} /\ r.sw = "ok"
       /\ Unset(target) /\ Return(IF step = "undo" THEN "OpenUndone" ELSE "Close")
    \/ /\ step \in {"undo", "close"} /\ r.sw # "ok"
       /\ Return("error") /\ UNCHANGED channel
    \/ /\ step = "apdu"
       /\ Return("Transmit") /\ UNCHANGED channel

-----------------------------------------------------------------------------
(* sendCommand: one action per line read.                                  *)

Reading == step # "none" /\ inbox # <<>>

ReadData ==
    /\ Reading /\ Head(inbox).kind \in {"csim", "bare", "junk"}
    /\ inbox' = Tail(inbox) /\ lines' = Append(lines, Head(inbox))
    /\ UNCHANGED <<link, channel, step, target, done, queue, asked, bare, card, calls,
                   abandoned, before, answer>>

\* decodeCSIMResponse: the first +CSIM line, else the first that reads as one.
Hits(k)  == {i \in DOMAIN lines : lines[i].kind = k}
Readable == IF Hits("csim") # {} THEN Hits("csim") ELSE Hits("bare")
First(i) == i \in Readable /\ \A j \in Readable : i <= j

\* Mutant: a response is as good as the OK that follows it.
ReadFirstLine ==
    /\ Reading /\ Head(inbox).kind \in {"csim", "OK"} /\ inbox' = Tail(inbox)
    /\ IF Head(inbox).kind = "csim"
       THEN answer' = [to |-> asked, from |-> Head(inbox).of, late |-> abandoned]
            /\ Respond(Head(inbox))
       ELSE FailCommand /\ UNCHANGED answer
    /\ UNCHANGED <<link, bare, card, calls, abandoned, before>>

ReadOK ==
    /\ Reading /\ Head(inbox).kind = "OK" /\ inbox' = Tail(inbox)
    /\ \/ step = "test" /\ Send("init", 0) /\ UNCHANGED <<channel, answer>>
       \/ step # "test" /\ Readable = {} /\ FailCommand /\ UNCHANGED answer
       \/ \E i \in DOMAIN lines :
            /\ step # "test" /\ First(i)
            /\ answer' = [to |-> asked, from |-> lines[i].of, late |-> abandoned]
            /\ Respond(lines[i])
    /\ UNCHANGED <<link, bare, card, calls, abandoned, before>>

ReadERROR ==
    /\ Reading /\ Head(inbox).kind = "ERROR" /\ inbox' = Tail(inbox)
    /\ FailCommand
    /\ UNCHANGED <<link, bare, card, calls, abandoned, before, answer>>

\* The port returns nothing for the time of VTIME, or fails; a command whose
\* write fails is one that is lost and given up.
ReadTimeout ==
    /\ step # "none"
    /\ abandoned' = TRUE /\ FailCommand
    /\ UNCHANGED <<link, inbox, bare, card, calls, before, answer>>

\* The same inside a line: what was read of it is dropped.  The rest of a
\* response may still read as one; of the others nothing is left that matters.
LineCut ==
    /\ Reading
    /\ \E k \in IF Head(inbox).kind \in {"csim", "bare"} THEN {"bare", "junk"} ELSE {"junk"} :
          inbox' = <<[Head(inbox) EXCEPT !.kind = k]>> \o Tail(inbox)
    /\ abandoned' = TRUE /\ FailCommand
    /\ UNCHANGED <<link, bare, card, calls, before, answer>>

-----------------------------------------------------------------------------
(* The modem and the card.                                                 *)

Say(q, k, sw, byte) == [kind |-> k, of |-> q.n, sw |-> sw, byte |-> byte]

Reply(q, sw, byte) ==
    inbox' = inbox \o <<Say(q, IF bare THEN "bare" ELSE "csim", sw, byte),
                        Say(q, "OK", "ok", 0)>>

Perform(q) ==
    \/ /\ q.what = "test"
       /\ inbox' = Append(inbox, Say(q, "OK", "ok", 0)) /\ UNCHANGED card
    \/ q.what = "init" /\ Reply(q, "ok", 0) /\ UNCHANGED card
    \/ /\ q.what = "open"
       /\ \E ch \in Channels \ open : Reply(q, "ok", ch) /\ open' = open \cup {ch}
       /\ UNCHANGED selected
    \/ /\ q.what = "select" /\ q.arg \in open
       /\ Reply(q, "more", 0)
       /\ selected' = selected \cup {q.arg} /\ UNCHANGED open
    \/ /\ q.what \in {"close", "undo"} /\ q.arg \in open
       /\ Reply(q, "ok", 0)
       /\ open' = open \ {q.arg} /\ selected' = selected \ {q.arg}
    \/ /\ q.what = "apdu"
       /\ \E byte \in Channels \cup {0} : Reply(q, "ok", byte)
       /\ UNCHANGED card

Handle ==
    LET q == Head(queue)
    IN  /\ queue # <<>> /\ queue' = Tail(queue)
        /\ \/ Perform(q)
           \/ q.what # "test" /\ Reply(q, "refused", 0) /\ UNCHANGED card
           \/ inbox' = Append(inbox, Say(q, "ERROR", "ok", 0)) /\ UNCHANGED card
           \/ UNCHANGED <<inbox, card>>         \* lost
        /\ UNCHANGED <<link, channel, step, target, done, lines, asked, bare, calls,
                       abandoned, before, answer>>

-----------------------------------------------------------------------------
Next ==
    \/ Connect \/ OpenLogicalChannel \/ Transmit \/ Disconnect
    \/ \E ch \in Channels \cup {0} : CloseLogicalChannel(ch)
    \/ ReadData \/ ReadOK \/ ReadERROR \/ ReadTimeout \/ LineCut
    \/ Handle

Spec == Init /\ [][Next]_vars

-----------------------------------------------------------------------------
(* Properties.                                                             *)

\* A response is taken for that of another command only after a command was
\* given up: while every read is in time, no line is left over for the next.
AnswersMatch == answer.from # answer.to => answer.late

\* An OpenLogicalChannel that could not select the AID and closed the channel
\* again leaves the card with the channels it had, while no command was given up
\* (~abandoned): after a select that timed out, its late answer may be read as that
\* of the close.
ChannelsRestored == done = "OpenUndone" /\ step = "none" /\ ~abandoned => open = before

\* The driver's channel is open on the card with the AID selected, across
\* opening more channels, closing any of them, and failures of the card, while no
\* command was given up (~abandoned): a late answer may name another channel.
ChannelIsOpen == channel # 0 /\ step = "none" /\ ~abandoned => channel \in selected
=============================================================================
