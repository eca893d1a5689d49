--------------------------------- MODULE Lpa ----------------------------------
(***************************************************************************)
(* The requests of lpa.Client that take one exchange: the profiles, the    *)
(* notifications and the data of the eUICC (lpa/es10a.go, es10b.go,        *)
(* es10c.go), and HandleNotification (lpa/es9p.go), with what v2 makes of  *)
(* their answers.                                                          *)
(*                                                                         *)
(* Nothing in an answer but its tag says which request it is for, and the  *)
(* AT and QMUX drivers hand out the next answer there is, which is that of *)
(* an earlier request when that one was given up (At, Uim: AnswersMatch).  *)
(* Some decoders compare the tag, some look for what they need.            *)
(*                                                                         *)
(* The eUICC, the SM-DP+ and the caller are external.  The caller is       *)
(* taken to remove a notification only by the number in its metadata, and  *)
(* after its HandleNotification returned nil.                              *)
(***************************************************************************)
EXTENDS Integers, Sequences, FiniteSets

CONSTANTS
    Profiles, NoProfile,
    Filters,    \* the filters given to ListNotification
    MaxCalls,   \* bound on the requests to the card
    MaxMade     \* bound on the notifications of the eUICC

Events == {"install", "enable", "disable", "delete"}

ASSUME ProfilesAssumption == NoProfile \notin Profiles
ASSUME FiltersAssumption == Filters \subseteq SUBSET Events
ASSUME BoundsAssumption == MaxCalls \in Nat /\ MaxMade \in Nat

VARIABLES
    profile,    \* the card: the state of each profile
    made,       \* the events of its notifications, by sequence number
    pending,    \* those it still has
    received,   \* those the SM-DP+ has
    queue, inbox,       \* requests on their way to the card, answers back
    asked,      \* requests so far
    call,       \* the request that waits for an answer
    got,        \* what the last call came to
    retrieved, sent     \* the caller's notifications; those a nil error was for

card == <<profile, made, pending>>
link == <<queue, inbox, asked, call>>
caller == <<retrieved, sent>>
vars == <<card, received, link, got, caller>>

ProfileOps == {"enable", "disable", "delete"}
\* Requests answered by a result code, by a value, by a list.
CodeOps  == ProfileOps \cup {"sent", "nickname", "reset", "dpAddress"}
ValueOps == {"challenge", "info1", "info2", "addresses", "eid"}
ListOps  == {"profiles", "notifications", "retrieve"}
Ops      == CodeOps \cup ValueOps \cup ListOps

Requests == [op : Ops, profile : Profiles \cup {NoProfile}, seq : Nat,
             events : SUBSET Events, id : Nat]
NoRequest == [op |-> "eid", profile |-> NoProfile, seq |-> 0, events |-> {}, id |-> 0]

\* then is the card's list when it answered; did, that it did what it was asked.
Answers == [op : Ops, id : Nat, form : {"code", "value", "list", "error"}, code : Nat,
            items : SUBSET Nat, then : SUBSET Nat, did : BOOLEAN]
NoAnswer == [op |-> "eid", id |-> 0, form |-> "value", code |-> 0, items |-> {},
             then |-> {}, did |-> FALSE]

Gots == [outcome : {"none", "ok", "error", "panic"}, call : Requests, answer : Answers]

TypeOK ==
    /\ profile \in [Profiles -> {"absent", "disabled", "enabled"}]
    /\ made \in Seq(Events) /\ pending \subseteq 1..Len(made) /\ received \subseteq Nat
    /\ queue \in Seq(Requests) /\ inbox \in Seq(Answers) /\ asked \in Nat
    /\ call \in Requests
    /\ got \in Gots
    /\ retrieved \subseteq Nat /\ sent \subseteq retrieved

Nothing == [outcome |-> "none", call |-> NoRequest, answer |-> NoAnswer]

\* The card has one notification per event that led to its profiles.
Init ==
    /\ profile \in [Profiles -> {"disabled", "enabled"}]
    /\ made = <<"install">> /\ pending = {1} /\ received = {}
    /\ queue = <<>> /\ inbox = <<>> /\ asked = 0 /\ call = NoRequest
    /\ got = Nothing /\ retrieved = {} /\ sent = {}

-----------------------------------------------------------------------------
(* Requests.                                                               *)

Free == call = NoRequest /\ got.outcome # "panic"

\* MarshalBERTLV.  A ListNotification without filters asks for every event.
Encode(c) == IF c.op = "notifications" /\ c.events = {} THEN [c EXCEPT !.events = Events]
             ELSE c

Ask(op, p, n, es) ==
    /\ Free /\ asked < MaxCalls /\ asked' = asked + 1
    /\ call' = [op |-> op, profile |-> p, seq |-> n, events |-> es, id |-> asked + 1]
    /\ queue' = Append(queue, Encode(call'))
    /\ got' = Nothing
    /\ UNCHANGED <<card, received, inbox, caller>>

SetProfile(op, p) == op \in ProfileOps /\ Ask(op, p, 0, {})
SetNickname(p)    == Ask("nickname", p, 0, {})
MemoryReset       == Ask("reset", NoProfile, 0, {})
SetDefaultDPAddress == Ask("dpAddress", NoProfile, 0, {})
GetData(op)       == op \in ValueOps /\ Ask(op, NoProfile, 0, {})
ListProfile       == Ask("profiles", NoProfile, 0, {})

ListNotification(es) == Ask("notifications", NoProfile, 0, es)

\* The search criteria are a sequence number or an event.
RetrieveBySeq(n)   == Ask("retrieve", NoProfile, n, {})
RetrieveByEvent(e) == Ask("retrieve", NoProfile, 0, {e})

RemoveNotificationFromList(n) == n \in sent /\ Ask("sent", NoProfile, n, {})

\* An identifier, a search criterion or a text of the wrong kind.
RefuseCall ==
    /\ Free /\ got' = [Nothing EXCEPT !.outcome = "error"]
    /\ UNCHANGED <<card, received, link, caller>>

-----------------------------------------------------------------------------
(* What the client makes of an answer: UnmarshalBERTLV, then Valid.        *)

\* Mutant: the number of the operation is not compared.
SameClass(c, a) == a.op = c.op \/ {a.op, c.op} \subseteq ProfileOps

\* The tag of the answer is that of the request.
SameTag(c, a) == a.op = c.op

\* Mutant: only the codes that have a text are errors.
ValidUnlessKnown(code) == code \notin 1..5

\* Valid of the answers with a result code; what has no text is ErrUndefined.
Valid(code) == code = 0

\* A list of the other kind is accepted when it has no element.
Fits(c, a) == a.op = c.op \/ a.items = {}

\* EID looks for a child that no other answer has, which comes to its tag.
Accepts(c, a) ==
    \/ c.op \in CodeOps /\ SameTag(c, a) /\ Valid(a.code)
    \/ c.op \in {"challenge", "addresses", "eid"} /\ SameTag(c, a)
    \/ c.op \in {"info1", "info2"} /\ a.op \in {"info1", "info2"}
    \/ c.op \in {"profiles", "notifications"} /\ a.form = "list" /\ Fits(c, a)
    \/ c.op = "retrieve" /\ SameTag(c, a) /\ a.form = "list" /\ a.items # {}

\* A child [1]: an error to ListProfile.
HasError(a) == a.form = "error" \/ a.op \in {"addresses", "info2"}

\* The children of a list that is not there are asked for.
Panics(c, a) ==
    \/ c.op = "notifications" /\ a.form # "list"
    \/ c.op = "profiles" /\ a.form # "list" /\ ~HasError(a)

Outcome(c, a) == IF Panics(c, a) THEN "panic"
                 ELSE IF Accepts(c, a) THEN "ok" ELSE "error"

\* PendingNotification takes the first notification of the list it is given.
FirstOf(items) == {n \in items : \A k \in items : n <= k}

TakeAnswer ==
    LET a == Head(inbox)
        o == Outcome(call, a)
    IN  /\ call # NoRequest /\ inbox # <<>> /\ inbox' = Tail(inbox)
        /\ call' = NoRequest
        /\ got' = IF o = "ok" THEN [outcome |-> o, call |-> call, answer |-> a]
                              ELSE [Nothing EXCEPT !.outcome = o]
        /\ retrieved' = IF o = "ok" /\ call.op = "retrieve"
                        THEN retrieved \cup FirstOf(a.items) ELSE retrieved
        /\ UNCHANGED <<card, received, queue, asked, sent>>

\* Transmit returns an error: the time is over, or the card is not reached.
GiveUp ==
    /\ call # NoRequest /\ call' = NoRequest
    /\ got' = [Nothing EXCEPT !.outcome = "error"]
    /\ UNCHANGED <<card, received, queue, inbox, asked, caller>>

\* The process ends, by a panic or otherwise, and another one opens the card.
Restart ==
    /\ call' = NoRequest /\ got' = Nothing /\ queue' = <<>> /\ inbox' = <<>>
    /\ retrieved' = {} /\ sent' = {}
    /\ UNCHANGED <<card, received, asked>>

-----------------------------------------------------------------------------
(* HandleNotification.                                                     *)

\* What becomes of a request to the SM-DP+: whether it has the notification,
\* and what SendRequest sees.
Replies == {[kept |-> TRUE,  seen |-> "done"],
            [kept |-> FALSE, seen |-> "status"],        \* a status above 299
            [kept |-> TRUE,  seen |-> "unreadable"],    \* a body that is not JSON
            [kept |-> TRUE,  seen |-> "lost"],
            [kept |-> FALSE, seen |-> "lost"]}

\* Mutant: the status is not looked at.
AnyStatus(reply) == reply.seen \in {"done", "status"}

\* The body may be empty, and the function's status is taken for success.
SendRequest(reply) == reply.seen = "done"

HandleNotification(n) ==
    /\ Free /\ n \in retrieved
    /\ \E reply \in Replies :
         /\ received' = IF reply.kept THEN received \cup {n} ELSE received
         /\ sent' = IF SendRequest(reply) THEN sent \cup {n} ELSE sent
         /\ got' = IF SendRequest(reply) THEN Nothing
                   ELSE [Nothing EXCEPT !.outcome = "error"]
    /\ UNCHANGED <<card, link, retrieved>>

-----------------------------------------------------------------------------
(* The card.                                                               *)

Answer(q, form, code, items, did) ==
    inbox' = Append(inbox, [op |-> q.op, id |-> q.id, form |-> form, code |-> code,
                            items |-> items, did |-> did,
                            then |-> IF form = "list" THEN pending ELSE {}])

Note(event) ==
    /\ Len(made) < MaxMade
    /\ made' = Append(made, event) /\ pending' = pending \cup {Len(made) + 1}

\* The state each operation needs, and the one it leads to.
From(op) == IF op = "enable" THEN {"disabled"}
            ELSE IF op = "disable" THEN {"enabled"} ELSE {"disabled"}
To(op)   == IF op = "enable" THEN "enabled"
            ELSE IF op = "disable" THEN "disabled" ELSE "absent"

ServeProfile(q) ==
    /\ q.op \in ProfileOps
    /\ profile[q.profile] \in From(q.op)
    /\ profile' = [p \in Profiles |->
                     IF p = q.profile THEN To(q.op)
                     ELSE IF q.op = "enable" /\ profile[p] = "enabled" THEN "disabled"
                     ELSE profile[p]]
    /\ Note(q.op)
    /\ Answer(q, "code", 0, {}, TRUE)

ServeRemoval(q) ==
    /\ q.op = "sent" /\ q.seq \in pending /\ pending' = pending \ {q.seq}
    /\ Answer(q, "code", 0, {}, TRUE)
    /\ UNCHANGED <<profile, made>>

ServeReset(q) ==
    /\ q.op = "reset" /\ \E p \in Profiles : profile[p] # "absent"
    /\ profile' = [p \in Profiles |-> "absent"]
    /\ Answer(q, "code", 0, {}, TRUE)
    /\ UNCHANGED <<made, pending>>

ServeText(q) ==
    /\ \/ q.op = "nickname" /\ profile[q.profile] # "absent"
       \/ q.op = "dpAddress"
    /\ Answer(q, "code", 0, {}, TRUE)
    /\ UNCHANGED card

ServeList(q) ==
    /\ \/ /\ q.op = "notifications"
          /\ Answer(q, "list", 0, {n \in pending : made[n] \in q.events}, TRUE)
       \/ /\ q.op = "retrieve"
          /\ Answer(q, "list", 0,
                    {n \in pending : n = q.seq \/ made[n] \in q.events}, TRUE)
       \/ /\ q.op = "profiles"
          /\ Answer(q, "list", 0,        \* only whether there is one
                    IF \E p \in Profiles : profile[p] # "absent" THEN {1} ELSE {}, TRUE)
    /\ UNCHANGED card

ServeValue(q) == q.op \in ValueOps /\ Answer(q, "value", 0, {}, TRUE) /\ UNCHANGED card

\* The card may refuse what it is asked, for a reason of the request's or none.
Refuse(q) ==
    /\ \/ q.op \in CodeOps /\ \E code \in {1, 5, 127} : Answer(q, "code", code, {}, FALSE)
       \/ q.op \in ListOps /\ Answer(q, "error", 1, {}, FALSE)
    /\ UNCHANGED card

Serve ==
    LET q == Head(queue)
    IN  /\ queue # <<>> /\ queue' = Tail(queue)
        /\ \/ ServeProfile(q) \/ ServeRemoval(q) \/ ServeReset(q) \/ ServeText(q)
           \/ ServeList(q) \/ ServeValue(q) \/ Refuse(q)
           \/ UNCHANGED <<inbox, card>>         \* the answer, or the request, is lost
        /\ UNCHANGED <<received, asked, call, got, caller>>

\* DownloadProfile installs a profile.
Install(p) ==
    /\ Free /\ queue = <<>> /\ profile[p] = "absent"
    /\ profile' = [profile EXCEPT ![p] = "disabled"] /\ Note("install")
    /\ UNCHANGED <<received, link, got, caller>>

-----------------------------------------------------------------------------
Next ==
    \/ \E p \in Profiles : SetNickname(p) \/ Install(p)
    \/ \E p \in Profiles, op \in ProfileOps : SetProfile(op, p)
    \/ MemoryReset \/ SetDefaultDPAddress \/ ListProfile \/ RefuseCall
    \/ \E op \in ValueOps : GetData(op)
    \/ \E es \in Filters : ListNotification(es)
    \/ \E n \in 1..MaxMade : \/ RetrieveBySeq(n) \/ HandleNotification(n)
                             \/ RemoveNotificationFromList(n)
    \/ \E e \in Events : RetrieveByEvent(e)
    \/ TakeAnswer \/ GiveUp \/ Restart
    \/ Serve

Spec == Init /\ [][Next]_vars

-----------------------------------------------------------------------------
(* Properties.                                                             *)

Done == got.outcome = "ok"

\* A call that succeeds took an answer to the same kind of request, also when
\* the answer came late: another one is refused, but for an empty list, and for
\* the two versions of EUICCInfo, which are read alike.
OwnKind ==
    Done => \/ got.answer.op = got.call.op
            \/ {got.answer.op, got.call.op} = {"info1", "info2"}
            \/ got.call.op \in {"profiles", "notifications"} /\ got.answer.items = {}

\* A call that succeeds by its own answer did on the card what it asks for; a
\* list of notifications is what the card then had, by the filter; the one that
\* is retrieved is one of them, and one that was asked for.
SuccessMeansDone ==
    Done /\ got.answer.id = got.call.id =>
        /\ got.answer.did
        /\ got.call.op = "notifications" =>
             got.answer.items = {n \in got.answer.then :
                                   got.call.events = {} \/ made[n] \in got.call.events}
        /\ got.call.op = "retrieve" =>
             \A n \in FirstOf(got.answer.items) :
                 n \in got.answer.then /\ (n = got.call.seq \/ made[n] \in got.call.events)

\* A refinement of Outbox: a notification is handed over at least once before
\* it is forgotten, only one the eUICC made is, and none comes back: across answers
\* that come late or never, calls made again, and a client that starts over.  It
\* is for a caller that removes a notification by the number in its metadata, and
\* takes a 2xx for a promise of the SM-DP+ to keep it.
Out == INSTANCE Outbox WITH count <- Len(made), kept <- pending, delivered <- received

OutboxSpec == Out!Spec
=============================================================================
