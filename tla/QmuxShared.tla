----------------------------- MODULE QmuxShared -----------------------------
(* One qmi-proxy socket and two goroutines on it: "transmit" is an exchange of *)
(* the UIM client, made under the client's mutex; "release" is Disconnect,     *)
(* which sends its last request without that mutex. Each runs the transport's  *)
(* Transmit and Read. The read deadline belongs to the socket, not to the      *)
(* reader: each reader arms it for at most a second, and its deferred call     *)
(* removes it.                                                                 *)
EXTENDS Naturals, Sequences

VARIABLES
    pc,          \* where each goroutine stands in Transmit and Read
    late,        \* the goroutines whose own ReadTimeout has passed
    deadline,    \* the socket's read deadline: "none", "set" or "expired"
    open,        \* conn.Close was not called yet
    stream,      \* what waits in the socket: of each message its
                 \* "head", the three bytes Read asks for first, and its "body"
    unanswered   \* the goroutines whose request the modem has yet to answer

vars == <<pc, late, deadline, open, stream, unanswered>>

Goroutines == {"transmit", "release"}

Init ==
    /\ pc = [g \in Goroutines |-> "idle"]
    /\ late = {}
    /\ deadline = "none"
    /\ open = TRUE
    /\ stream = <<>>
    /\ unanswered = {}

Goto(g, place) == pc' = [pc EXCEPT ![g] = place]

-----------------------------------------------------------------------------
(* The goroutines                                                            *)

\* Transmit writes the request; on a closed socket it fails before it reads.
Ask(g) ==
    /\ pc[g] = "idle"
    /\ IF open
         THEN Goto(g, "arm") /\ unanswered' = unanswered \cup {g}
         ELSE Goto(g, "done") /\ UNCHANGED unanswered
    /\ UNCHANGED <<late, deadline, open, stream>>

\* The head of Read's loop: give up when the time is over, else arm the
\* deadline of the next second. A closed socket refuses the deadline.
Arm(g) ==
    /\ pc[g] = "arm"
    /\ IF g \in late \/ ~open
         THEN Goto(g, "clear") /\ UNCHANGED deadline
         ELSE Goto(g, "header") /\ deadline' = "set"
    /\ UNCHANGED <<late, open, stream, unanswered>>

\* ReadAtLeast takes three bytes. Those of a body, whose header the other
\* goroutine took, are a length that is refused or a header like any other.
ReadHeader(g) ==
    /\ pc[g] = "header" /\ open
    /\ deadline # "expired"
    /\ stream # <<>>
    /\ stream' = Tail(stream)
    /\ Goto(g, "body") \/ (Head(stream) = "body" /\ Goto(g, "clear"))
    /\ UNCHANGED <<late, deadline, open, unanswered>>

\* A timeout while the header is awaited goes round the loop once more.
HeaderTimeout(g) ==
    /\ pc[g] = "header" /\ open
    /\ deadline = "expired"
    /\ Goto(g, "arm")
    /\ UNCHANGED <<late, deadline, open, stream, unanswered>>

\* ReadFull takes the rest. Every response is accepted, whoever asked for it,
\* and what does not parse is an error: Read returns in either case.
ReadBody(g) ==
    /\ pc[g] = "body" /\ open
    /\ deadline # "expired"
    /\ stream # <<>>
    /\ stream' = Tail(stream)
    /\ Goto(g, "clear")
    /\ UNCHANGED <<late, deadline, open, unanswered>>

\* A timeout inside a message, or a socket closed under the reader, ends Read.
ReadFails(g) ==
    /\ \/ pc[g] = "body" /\ deadline = "expired"
       \/ pc[g] \in {"header", "body"} /\ ~open
    /\ Goto(g, "clear")
    /\ UNCHANGED <<late, deadline, open, stream, unanswered>>

\* The deferred SetReadDeadline(time.Time{}), then Transmit returns: Disconnect
\* goes on to close the socket, whatever the release came to.
Clear(g) ==
    /\ pc[g] = "clear"
    /\ deadline' = "none"
    /\ Goto(g, IF g = "release" THEN "close" ELSE "done")
    /\ UNCHANGED <<late, open, stream, unanswered>>

Close ==
    /\ pc["release"] = "close"
    /\ open' = FALSE
    /\ Goto("release", "done")
    /\ UNCHANGED <<late, deadline, stream, unanswered>>

Step(g) ==
    \/ Ask(g) \/ Arm(g)
    \/ ReadHeader(g) \/ HeaderTimeout(g)
    \/ ReadBody(g) \/ ReadFails(g)
    \/ Clear(g)
    \/ (g = "release" /\ Close)

-----------------------------------------------------------------------------
(* The clock and the modem                                                   *)

\* The second the socket was armed for passes.
Expire ==
    /\ deadline = "set"
    /\ deadline' = "expired"
    /\ UNCHANGED <<pc, late, open, stream, unanswered>>

\* The 30 seconds of one goroutine's own Read pass.
RunOut(g) ==
    /\ pc[g] \in {"arm", "header", "body"}
    /\ g \notin late
    /\ late' = late \cup {g}
    /\ UNCHANGED <<pc, deadline, open, stream, unanswered>>

\* The modem answers a request, or never does.
Answer(g) ==
    /\ g \in unanswered
    /\ stream' = stream \o <<"head", "body">>
    /\ unanswered' = unanswered \ {g}
    /\ UNCHANGED <<pc, late, deadline, open>>

Next ==
    \/ \E g \in Goroutines : Step(g) \/ RunOut(g) \/ Answer(g)
    \/ Expire

\* Every goroutine keeps running and time passes; the modem may stay silent.
Fairness ==
    /\ \A g \in Goroutines : WF_vars(Step(g)) /\ WF_vars(RunOut(g))
    /\ WF_vars(Expire)

FairSpec == Init /\ [][Next]_vars /\ Fairness

-----------------------------------------------------------------------------
(* "Disconnect releases the client ID and closes the connection" (qmi.go:95). *)
(* Its read has a time limit of its own, so it ends and the socket is closed  *)
(* however long the modem is silent; but the reader beside it, on its way     *)
(* out, removes the deadline the release waits under.                         *)
DisconnectReturns == pc["release"] # "idle" ~> pc["release"] = "done"
=============================================================================
