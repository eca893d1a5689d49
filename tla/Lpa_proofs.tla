----------------------------- MODULE Lpa_proofs -------------------------------
(***************************************************************************)
(* Proofs about Lpa, for any profiles, filters and bounds.                 *)
(*                                                                         *)
(* A notification leaves the card by a removal only, and the client asks   *)
(* for a removal only of what the SM-DP+ has: RemovalsSafe says so of the  *)
(* caller's memory and of every request on its way, however late.          *)
(*                                                                         *)
(* What a call takes may be the answer to an earlier one: Numbered says of *)
(* every answer on its way whose it is and, if it is the running call's,   *)
(* that it is true to the card.                                            *)
(*                                                                         *)
(* Named says of every number that is retrieved, or is about to be, that   *)
(* it is that of a notification of this eUICC: with RemovalsSafe, every    *)
(* step is one of Outbox or none.                                          *)
(***************************************************************************)
EXTENDS Lpa, SequenceTheorems, TLAPS

Removals == {queue[i].seq : i \in {j \in 1..Len(queue) : queue[j].op = "sent"}}
RemovalsSafe == sent \subseteq received /\ Removals \subseteq received

\* Every notification of the eUICC is still there, or its SM-DP+ has it.
NoneLost == 1..Len(made) \subseteq pending \cup received

IInv == TypeOK /\ RemovalsSafe /\ NoneLost

-----------------------------------------------------------------------------
(* Types.                                                                  *)

LEMMA OpsAre ==
    /\ ProfileOps \subseteq Ops /\ ValueOps \subseteq Ops
    /\ {"nickname", "reset", "dpAddress", "profiles", "notifications", "retrieve", "sent"}
         \subseteq Ops
BY Zenon DEF ProfileOps, ValueOps, Ops, CodeOps, ListOps

LEMMA AskIsTyped ==
    ASSUME TypeOK, NEW op \in Ops, NEW p \in Profiles \cup {NoProfile}, NEW n \in Nat,
           NEW es \in SUBSET Events, Ask(op, p, n, es)
    PROVE  /\ call' \in Requests /\ queue' = Append(queue, Encode(call'))
           /\ call'.op = op /\ call'.seq = n
           /\ Encode(call') \in Requests /\ Encode(call').op = op /\ Encode(call').seq = n
<1>1. call' \in Requests /\ call'.op = op /\ call'.seq = n
  BY DEF Ask, Requests, TypeOK
<1>2. Encode(call') \in Requests /\ Encode(call').op = op /\ Encode(call').seq = n
  BY <1>1 DEF Encode, Requests
<1> QED
  BY <1>1, <1>2 DEF Ask

LEMMA NothingIsTyped ==
    /\ NoRequest \in Requests /\ NoAnswer \in Answers
    /\ Nothing \in Gots /\ [Nothing EXCEPT !.outcome = "error"] \in Gots
    /\ [Nothing EXCEPT !.outcome = "panic"] \in Gots
<1>1. "eid" \in Ops
  BY Zenon DEF Ops, ValueOps
<1>2. NoRequest \in Requests
  BY <1>1 DEF NoRequest, Requests
<1>3. NoAnswer \in Answers
  BY <1>1 DEF NoAnswer, Answers
<1> QED
  BY <1>2, <1>3 DEF Nothing, Gots

LEMMA AskKeepsTypes ==
    ASSUME TypeOK, NEW op \in Ops, NEW p \in Profiles \cup {NoProfile}, NEW n \in Nat,
           NEW es \in SUBSET Events, Ask(op, p, n, es)
    PROVE  TypeOK'
<1>1. queue' \in Seq(Requests) /\ call' \in Requests
  <2>1. queue \in Seq(Requests)
    BY DEF TypeOK
  <2>2. /\ call' \in Requests /\ Encode(call') \in Requests
        /\ queue' = Append(queue, Encode(call'))
    BY AskIsTyped
  <2> QED
    BY <2>1, <2>2
<1>2. got' \in Gots /\ asked' \in Nat
  BY NothingIsTyped DEF Ask, TypeOK
<1>3. UNCHANGED <<profile, made, pending, received, inbox, retrieved, sent>>
  BY DEF Ask, card, caller
<1> QED
  BY <1>1, <1>2, <1>3 DEF TypeOK

LEMMA NoteKeepsTypes ==
    ASSUME TypeOK, NEW event \in Events, Note(event)
    PROVE  /\ made' \in Seq(Events) /\ pending' \subseteq 1..Len(made')
           /\ Len(made') = Len(made) + 1 /\ Len(made) \in Nat
<1>1. /\ made' = Append(made, event) /\ pending' = pending \cup {Len(made) + 1}
      /\ made \in Seq(Events) /\ pending \subseteq 1..Len(made)
  BY DEF Note, TypeOK
<1>2. made' \in Seq(Events) /\ Len(made') = Len(made) + 1 /\ Len(made) \in Nat
  BY <1>1
<1>3. ASSUME NEW k \in pending'
      PROVE  k \in 1..Len(made')
  <2>1. k \in 1..Len(made) \/ k = Len(made) + 1
    BY <1>1
  <2> QED
    BY <1>2, <2>1
<1> QED
  BY <1>2, <1>3

LEMMA ServeKeepsTypes ==
    ASSUME TypeOK, Serve
    PROVE  TypeOK'
<1> DEFINE q == Head(queue)
<1>1. q \in Requests /\ queue' \in Seq(Requests) /\ q.op \in Ops /\ q.id \in Nat
  <2>1. queue # <<>> /\ queue' = Tail(queue) /\ queue \in Seq(Requests)
    BY DEF Serve, TypeOK
  <2>2. q \in Requests /\ queue' \in Seq(Requests)
    BY <2>1, HeadTailProperties
  <2> QED
    BY <2>2 DEF Requests
<1>2. ASSUME NEW form \in {"code", "value", "list", "error"}, NEW code \in Nat,
             NEW items \in SUBSET Nat, NEW did \in BOOLEAN, Answer(q, form, code, items, did)
      PROVE  inbox' \in Seq(Answers)
  <2>1. (IF form = "list" THEN pending ELSE {}) \in SUBSET Nat
    BY DEF TypeOK
  <2> QED
    BY <1>1, <1>2, <2>1 DEF Answer, Answers, TypeOK
<1> HIDE DEF q
<1>3. /\ profile' \in [Profiles -> {"absent", "disabled", "enabled"}]
      /\ made' \in Seq(Events) /\ pending' \subseteq 1..Len(made')
      /\ inbox' \in Seq(Answers)
  <2>1. CASE ServeProfile(q)
    <3>1. q.op \in Events /\ To(q.op) \in {"absent", "disabled", "enabled"}
      BY <2>1 DEF ServeProfile, ProfileOps, Events, To
    <3>2. made' \in Seq(Events) /\ pending' \subseteq 1..Len(made')
      BY <2>1, <3>1, NoteKeepsTypes DEF ServeProfile
    <3>3. profile' \in [Profiles -> {"absent", "disabled", "enabled"}]
      BY <2>1, <3>1 DEF ServeProfile, TypeOK
    <3>4. inbox' \in Seq(Answers)
      BY <1>2, <2>1 DEF ServeProfile, q
    <3> QED
      BY <3>2, <3>3, <3>4
  <2>2. CASE ServeRemoval(q)
    BY <1>2, <2>2 DEF ServeRemoval, TypeOK, q
  <2>3. CASE ServeReset(q)
    BY <1>2, <2>3 DEF ServeReset, TypeOK, q
  <2>4. CASE ServeText(q)
    BY <1>2, <2>4 DEF ServeText, TypeOK, card, q
  <2>5. CASE ServeList(q)
    <3>1. /\ {n \in pending : made[n] \in q.events} \in SUBSET Nat
          /\ {n \in pending : n = q.seq \/ made[n] \in q.events} \in SUBSET Nat
          /\ (IF \E p \in Profiles : profile[p] # "absent" THEN {1} ELSE {}) \in SUBSET Nat
      <4>1. \A n \in pending : n \in Nat
        BY DEF TypeOK
      <4>2. {1} \in SUBSET Nat /\ {} \in SUBSET Nat
        BY SMT
      <4> QED
        BY Zenon, <4>1, <4>2
    <3>2. inbox' \in Seq(Answers)
      BY <1>2, <2>5, <3>1 DEF ServeList, q
    <3> QED
      BY <2>5, <3>2 DEF ServeList, TypeOK, card
  <2>6. CASE ServeValue(q)
    BY <1>2, <2>6 DEF ServeValue, TypeOK, card, q
  <2>7. CASE Refuse(q)
    <3>1. inbox' \in Seq(Answers)
      <4>1. \/ \E code \in {1, 5, 127} : Answer(q, "code", code, {}, FALSE)
            \/ Answer(q, "error", 1, {}, FALSE)
        BY <2>7 DEF Refuse
      <4>2. ASSUME NEW code \in {1, 5, 127}, Answer(q, "code", code, {}, FALSE)
            PROVE  inbox' \in Seq(Answers)
        <5>1. code \in Nat
          OBVIOUS
        <5> QED
          BY <1>2, <4>2, <5>1 DEF q
      <4>3. CASE Answer(q, "error", 1, {}, FALSE)
        BY <1>2, <4>3 DEF q
      <4> QED
        BY <4>1, <4>2, <4>3
    <3> QED
      BY <2>7, <3>1 DEF Refuse, TypeOK, card
  <2>8. CASE UNCHANGED <<inbox, card>>
    BY <2>8 DEF TypeOK, card
  <2> QED
    BY <2>1, <2>2, <2>3, <2>4, <2>5, <2>6, <2>7, <2>8 DEF Serve, q
<1> QED
  BY <1>1, <1>3 DEF Serve, TypeOK, caller

LEMMA RestKeepsTypes ==
    ASSUME TypeOK, \/ RefuseCall \/ TakeAnswer \/ GiveUp \/ Restart
                   \/ (\E n \in 1..MaxMade : HandleNotification(n))
                   \/ (\E p \in Profiles : Install(p))
    PROVE  TypeOK'
<1>1. NoRequest \in Requests
  BY NothingIsTyped
<1>2. CASE RefuseCall
  BY <1>2, NothingIsTyped DEF RefuseCall, TypeOK, card, caller, link
<1>3. CASE TakeAnswer
  <2>1. Head(inbox) \in Answers /\ inbox' \in Seq(Answers)
    <3>1. inbox # <<>> /\ inbox' = Tail(inbox) /\ inbox \in Seq(Answers)
      BY <1>3 DEF TakeAnswer, TypeOK
    <3> QED
      BY <3>1, HeadTailProperties
  <2>2. Outcome(call, Head(inbox)) \in {"ok", "error", "panic"}
    BY DEF Outcome
  <2>3. got' \in Gots
    <3>1. call \in Requests
      BY DEF TypeOK
    <3>2. [outcome |-> Outcome(call, Head(inbox)), call |-> call, answer |-> Head(inbox)]
            \in Gots
      BY <2>1, <2>2, <3>1 DEF Gots
    <3> QED
      BY <1>3, <2>2, <3>2, NothingIsTyped DEF TakeAnswer
  <2>4. retrieved' \subseteq Nat /\ retrieved \subseteq retrieved'
    <3>1. Head(inbox).items \subseteq Nat
      BY <2>1 DEF Answers
    <3> QED
      BY <1>3, <3>1 DEF TakeAnswer, TypeOK, FirstOf
  <2> QED
    BY <1>1, <1>3, <2>1, <2>3, <2>4 DEF TakeAnswer, TypeOK, card
<1>4. CASE GiveUp
  BY <1>1, <1>4, NothingIsTyped DEF GiveUp, TypeOK, card, caller
<1>5. CASE Restart
  BY <1>1, <1>5, NothingIsTyped DEF Restart, TypeOK, card
<1>6. ASSUME NEW n \in 1..MaxMade, HandleNotification(n)
      PROVE  TypeOK'
  <2>1. n \in Nat
    BY BoundsAssumption
  <2> QED
    BY <1>6, <2>1, NothingIsTyped DEF HandleNotification, TypeOK, card, link
<1>7. ASSUME NEW p \in Profiles, Install(p)
      PROVE  TypeOK'
  <2>1. Note("install") /\ "install" \in Events
    BY <1>7 DEF Install, Events
  <2>2. made' \in Seq(Events) /\ pending' \subseteq 1..Len(made')
    BY <2>1, NoteKeepsTypes
  <2>3. profile' \in [Profiles -> {"absent", "disabled", "enabled"}]
    BY <1>7 DEF Install, TypeOK
  <2> QED
    BY <1>7, <2>2, <2>3 DEF Install, TypeOK, link, caller
<1> QED
  BY <1>2, <1>3, <1>4, <1>5, <1>6, <1>7

-----------------------------------------------------------------------------
(* The steps.                                                              *)

Asked(op, n) ==
    \E p \in Profiles \cup {NoProfile}, es \in SUBSET Events : Ask(op, p, n, es)

\* A request is a removal only of what the caller may remove.
LEMMA StepsAre ==
    ASSUME TypeOK, Next
    PROVE  \/ \E op \in Ops, n \in Nat : Asked(op, n) /\ (op = "sent" => n \in sent)
           \/ RefuseCall \/ TakeAnswer \/ GiveUp \/ Restart \/ Serve
           \/ \E n \in 1..MaxMade : HandleNotification(n)
           \/ \E p \in Profiles : Install(p)
<1> DEFINE A(op, n) == Asked(op, n) /\ (op = "sent" => n \in sent)
           Goal == \E op \in Ops, n \in Nat : A(op, n)
<1>1. ASSUME NEW op \in Ops, op # "sent", NEW p \in Profiles \cup {NoProfile},
             NEW n \in Nat, NEW es \in SUBSET Events, Ask(op, p, n, es)
      PROVE  Goal
  BY <1>1 DEF Asked
<1>2. ASSUME NEW n \in 1..MaxMade
      PROVE  n \in Nat
  BY BoundsAssumption
<1>3. {} \in SUBSET Events /\ NoProfile \in Profiles \cup {NoProfile} /\ 0 \in Nat
  OBVIOUS
<1>4. ASSUME NEW p \in Profiles, SetNickname(p)
      PROVE  Goal
  BY <1>1, <1>3, <1>4, OpsAre DEF SetNickname
<1>5. ASSUME NEW p \in Profiles, NEW op \in ProfileOps, SetProfile(op, p)
      PROVE  Goal
  BY <1>1, <1>3, <1>5, OpsAre DEF SetProfile, ProfileOps
<1>6. ASSUME MemoryReset \/ SetDefaultDPAddress \/ ListProfile
      PROVE  Goal
  BY <1>1, <1>3, <1>6, OpsAre DEF MemoryReset, SetDefaultDPAddress, ListProfile
<1>7. ASSUME NEW op \in ValueOps, GetData(op)
      PROVE  Goal
  BY <1>1, <1>3, <1>7, OpsAre DEF GetData, ValueOps
<1>8. ASSUME NEW es \in Filters, ListNotification(es)
      PROVE  Goal
  BY <1>1, <1>3, <1>8, OpsAre, FiltersAssumption DEF ListNotification
<1>9. ASSUME NEW n \in 1..MaxMade, RetrieveBySeq(n)
      PROVE  Goal
  BY <1>1, <1>2, <1>3, <1>9, OpsAre DEF RetrieveBySeq
<1>10. ASSUME NEW n \in 1..MaxMade, RemoveNotificationFromList(n)
       PROVE  Goal
  <2>1. n \in sent /\ Ask("sent", NoProfile, n, {}) /\ n \in Nat /\ "sent" \in Ops
    BY <1>2, <1>10, OpsAre DEF RemoveNotificationFromList
  <2> QED
    BY <1>3, <2>1 DEF Asked
<1>11. ASSUME NEW e \in Events, RetrieveByEvent(e)
       PROVE  Goal
  BY <1>1, <1>3, <1>11, OpsAre DEF RetrieveByEvent
<1> QED
  BY <1>4, <1>5, <1>6, <1>7, <1>8, <1>9, <1>10, <1>11 DEF Next

\* Every state has the types of TypeOK.
THEOREM TypeCorrect == Spec => []TypeOK
<1>1. Init => TypeOK
  <2>1. <<"install">> \in Seq(Events) /\ Len(<<"install">>) = 1
    BY DEF Events
  <2> QED
    BY <2>1, NothingIsTyped DEF Init, TypeOK
<1>2. TypeOK /\ [Next]_vars => TypeOK'
  <2> SUFFICES ASSUME TypeOK, [Next]_vars
               PROVE  TypeOK'
    OBVIOUS
  <2>1. CASE UNCHANGED vars
    BY <2>1 DEF vars, card, link, caller, TypeOK
  <2>2. CASE Next
    <3>1. ASSUME NEW op \in Ops, NEW n \in Nat, Asked(op, n)
          PROVE  TypeOK'
      BY <3>1, AskKeepsTypes DEF Asked
    <3> QED
      BY <2>2, <3>1, StepsAre, ServeKeepsTypes, RestKeepsTypes
  <2> QED
    BY <2>1, <2>2
<1> QED
  BY <1>1, <1>2, PTL DEF Spec

-----------------------------------------------------------------------------
(* No notification is lost.                                                *)

LEMMA AskKeepsSafe ==
    ASSUME IInv, NEW op \in Ops, NEW n \in Nat, Asked(op, n), op = "sent" => n \in sent
    PROVE  RemovalsSafe' /\ NoneLost'
<1>1. PICK p \in Profiles \cup {NoProfile}, es \in SUBSET Events : Ask(op, p, n, es)
  BY DEF Asked
<1>2. TypeOK /\ sent \subseteq received /\ Removals \subseteq received
  BY DEF IInv, RemovalsSafe
<1>3. /\ queue' = Append(queue, Encode(call')) /\ Encode(call').op = op
      /\ Encode(call').seq = n /\ queue \in Seq(Requests)
  BY <1>1, <1>2, AskIsTyped DEF TypeOK
<1>4. UNCHANGED <<made, pending, received, sent>>
  BY <1>1 DEF Ask, card, caller
<1>5. ASSUME NEW i \in 1..Len(queue'), queue'[i].op = "sent"
      PROVE  queue'[i].seq \in received
  <2>1. CASE i = Len(queue) + 1
    <3>1. queue'[i] = Encode(call')
      BY <1>3, <2>1
    <3> QED
      BY <1>2, <1>3, <1>5, <3>1
  <2>2. CASE i # Len(queue) + 1
    <3>1. i \in 1..Len(queue) /\ queue'[i] = queue[i]
      BY <1>3, <2>2
    <3> QED
      BY <1>2, <1>5, <3>1 DEF Removals
  <2> QED
    BY <2>1, <2>2
<1>6. Removals' \subseteq received'
  BY <1>4, <1>5 DEF Removals
<1> QED
  BY <1>2, <1>4, <1>6 DEF RemovalsSafe, NoneLost, IInv

LEMMA NoteKeepsSafe ==
    ASSUME IInv, NEW event \in Events, Note(event), received' = received
    PROVE  NoneLost'
<1>1. /\ Len(made') = Len(made) + 1 /\ Len(made) \in Nat
      /\ pending' = pending \cup {Len(made) + 1}
  BY NoteKeepsTypes DEF IInv, Note
<1>2. ASSUME NEW k \in 1..Len(made')
      PROVE  k \in pending' \cup received'
  <2>1. k \in 1..Len(made) \/ k = Len(made) + 1
    BY <1>1
  <2> QED
    BY <1>1, <2>1 DEF IInv, NoneLost
<1> QED
  BY <1>2 DEF NoneLost

LEMMA ServeKeepsSafe ==
    ASSUME IInv, Serve
    PROVE  RemovalsSafe' /\ NoneLost'
<1> DEFINE q == Head(queue)
<1>1. /\ queue # <<>> /\ queue' = Tail(queue) /\ queue \in Seq(Requests)
      /\ received' = received /\ sent' = sent
  BY DEF IInv, Serve, TypeOK, caller
<1>2. Len(queue) >= 1 /\ q = queue[1]
  BY <1>1
<1>3. /\ Len(queue') = Len(queue) - 1
      /\ \A i \in 1..Len(queue') : queue'[i] = queue[i+1]
  BY <1>1, HeadTailProperties
<1>4. ASSUME NEW i \in 1..Len(queue'), queue'[i].op = "sent"
      PROVE  queue'[i].seq \in received
  <2>1. i + 1 \in 1..Len(queue) /\ queue[i+1].op = "sent" /\ queue'[i] = queue[i+1]
    BY <1>1, <1>3, <1>4
  <2> QED
    BY <2>1 DEF IInv, RemovalsSafe, Removals
<1>5. RemovalsSafe'
  BY <1>1, <1>4 DEF IInv, RemovalsSafe, Removals
<1>6. NoneLost'
  <2>1. CASE ServeProfile(q)
    <3>1. q.op \in Events /\ Note(q.op)
      BY <2>1 DEF ServeProfile, ProfileOps, Events
    <3> QED
      BY <1>1, <3>1, NoteKeepsSafe
  <2>2. CASE ServeRemoval(q)
    <3>1. q.op = "sent" /\ pending' = pending \ {q.seq} /\ made' = made
      BY <2>2 DEF ServeRemoval
    <3>2. q.seq \in received
      <4>1. 1 \in 1..Len(queue)
        BY <1>1, <1>2
      <4> QED
        BY <1>2, <3>1, <4>1 DEF IInv, RemovalsSafe, Removals
    <3> QED
      BY <1>1, <3>1, <3>2 DEF IInv, NoneLost
  <2>3. CASE UNCHANGED <<made, pending>>
    BY <1>1, <2>3 DEF IInv, NoneLost
  <2> QED
    BY <2>1, <2>2, <2>3
    DEF Serve, ServeReset, ServeText, ServeList, ServeValue, Refuse, card
<1> QED
  BY <1>5, <1>6

LEMMA RestKeepsSafe ==
    ASSUME IInv, \/ RefuseCall \/ TakeAnswer \/ GiveUp \/ Restart
                 \/ (\E n \in 1..MaxMade : HandleNotification(n))
                 \/ (\E p \in Profiles : Install(p))
    PROVE  RemovalsSafe' /\ NoneLost'
<1> USE DEF IInv, RemovalsSafe, NoneLost, Removals
<1>1. CASE RefuseCall \/ TakeAnswer \/ GiveUp
  BY <1>1 DEF RefuseCall, TakeAnswer, GiveUp, card, caller, link
<1>2. CASE Restart
  BY <1>2 DEF Restart, card
<1>3. ASSUME NEW n \in 1..MaxMade, HandleNotification(n)
      PROVE  RemovalsSafe' /\ NoneLost'
  <2>1. PICK reply \in Replies :
          /\ received' = IF reply.kept THEN received \cup {n} ELSE received
          /\ sent' = IF SendRequest(reply) THEN sent \cup {n} ELSE sent
    BY <1>3 DEF HandleNotification
  <2>2. SendRequest(reply) => reply.kept
    BY DEF Replies, SendRequest
  <2>3. UNCHANGED <<made, pending, queue>>
    BY <1>3 DEF HandleNotification, card, link
  <2>4. received \subseteq received' /\ sent' \subseteq received'
    BY <2>1, <2>2
  <2> QED
    BY <2>3, <2>4
<1>4. ASSUME NEW p \in Profiles, Install(p)
      PROVE  RemovalsSafe' /\ NoneLost'
  <2>1. Note("install") /\ "install" \in Events /\ UNCHANGED <<received, queue, sent>>
    BY <1>4 DEF Install, Events, link, caller
  <2> QED
    BY <2>1, NoteKeepsSafe
<1> QED
  BY <1>1, <1>2, <1>3, <1>4

LEMMA AlwaysSafe == Spec => []IInv
<1>1. Init => RemovalsSafe /\ NoneLost
  <2> SUFFICES ASSUME Init
               PROVE  RemovalsSafe /\ NoneLost
    OBVIOUS
  <2>1. Len(made) = 1 /\ Len(queue) = 0 /\ pending = {1} /\ sent = {}
    BY DEF Init
  <2> QED
    BY <2>1 DEF RemovalsSafe, Removals, NoneLost
<1>2. TypeOK /\ RemovalsSafe /\ NoneLost /\ [Next]_vars => RemovalsSafe' /\ NoneLost'
  <2> SUFFICES ASSUME IInv, [Next]_vars
               PROVE  RemovalsSafe' /\ NoneLost'
    BY DEF IInv
  <2>1. CASE UNCHANGED vars
    BY <2>1 DEF IInv, vars, card, link, caller, RemovalsSafe, Removals, NoneLost
  <2>2. CASE Next
    <3>1. TypeOK
      BY DEF IInv
    <3> QED
      BY <2>2, <3>1, StepsAre, AskKeepsSafe, ServeKeepsSafe, RestKeepsSafe
  <2> QED
    BY <2>1, <2>2
<1> QED
  BY <1>1, <1>2, TypeCorrect, PTL DEF Spec, IInv

\* Every notification the eUICC made is on it, or its SM-DP+ has it (NoneLost),
\* for any bounds: the part of OutboxSpec that is an invariant.
THEOREM NothingLost == Spec => []NoneLost
<1>1. IInv => NoneLost
  BY DEF IInv
<1> QED
  BY <1>1, AlwaysSafe, PTL

-----------------------------------------------------------------------------
(* Whose answer a call takes, and what its success means.                  *)

\* An answer of the card that did not do what it was asked says so.
Honest(a) ==
    /\ ~a.did => a.code # 0 /\ a.form \in {"code", "error"}
    /\ a.op \in ValueOps => a.did

\* a is an answer to c, given when the card's notifications were among m.
AnswerTo(c, a, m) ==
    /\ a.op = c.op
    /\ a.form = "list" => a.then \subseteq 1..Len(m)
    /\ a.form = "list" /\ a.op = "notifications" =>
          a.items = {n \in a.then : c.events = {} \/ m[n] \in c.events}
    /\ a.form = "list" /\ a.op = "retrieve" =>
          \A n \in a.items : n \in a.then /\ (n = c.seq \/ m[n] \in c.events)

\* The numbers tell requests apart: what has that of the running one is it, or
\* its answer.
Numbered ==
    /\ call.id <= asked
    /\ \A i \in 1..Len(queue) :
          queue[i].id \in 1..asked /\ (queue[i].id = call.id => queue[i] = Encode(call))
    /\ \A i \in 1..Len(inbox) :
          /\ inbox[i].id \in 1..asked /\ Honest(inbox[i])
          /\ inbox[i].id = call.id => AnswerTo(call, inbox[i], made)

Answered ==
    Done /\ got.answer.id = got.call.id =>
        /\ got.answer.did /\ AnswerTo(got.call, got.answer, made)
        /\ got.call.op \in {"notifications", "retrieve"} => got.answer.form = "list"

LEMMA AnsweredSays == Answered => SuccessMeansDone
BY DEF Answered, AnswerTo, SuccessMeansDone, FirstOf

\* The card only adds to its notifications.
Grows(m, n) == Len(m) <= Len(n) /\ \A k \in 1..Len(m) : n[k] = m[k]

LEMMA AnswerStays ==
    ASSUME NEW m \in Seq(Events), NEW n \in Seq(Events), Grows(m, n),
           NEW c, NEW a, AnswerTo(c, a, m)
    PROVE  AnswerTo(c, a, n)
<1>1. Len(m) \in Nat /\ Len(n) \in Nat
  OBVIOUS
<1>2. CASE a.form = "list"
  <2>1. a.then \subseteq 1..Len(m) /\ 1..Len(m) \subseteq 1..Len(n)
    BY <1>1, <1>2 DEF AnswerTo, Grows
  <2>2. \A k \in a.then : n[k] = m[k]
    BY <2>1 DEF Grows
  <2> QED
    BY <1>2, <2>1, <2>2 DEF AnswerTo
<1>3. CASE a.form # "list"
  BY <1>3 DEF AnswerTo
<1> QED
  BY <1>2, <1>3

LEMMA NoteGrows ==
    ASSUME TypeOK, NEW event \in Events, Note(event)
    PROVE  Grows(made, made')
<1>1. made' = Append(made, event) /\ made \in Seq(Events)
  BY DEF Note, TypeOK
<1> QED
  BY <1>1 DEF Grows

\* What a call makes of an answer it takes.
LEMMA TakenIsOwnKind ==
    ASSUME NEW c \in Requests, NEW a \in Answers, Outcome(c, a) = "ok"
    PROVE  /\ \/ a.op = c.op
              \/ {a.op, c.op} = {"info1", "info2"}
              \/ c.op \in {"profiles", "notifications"} /\ a.items = {}
           /\ Honest(a) /\ a.op = c.op => a.did
           /\ c.op \in {"notifications", "retrieve"} => a.form = "list"
<1>1. Accepts(c, a) /\ ~Panics(c, a)
  BY DEF Outcome
<1>2. \/ a.op = c.op
      \/ {a.op, c.op} = {"info1", "info2"}
      \/ c.op \in {"profiles", "notifications"} /\ a.items = {}
  BY <1>1 DEF Accepts, SameTag, Fits
<1>3. c.op \in {"notifications", "retrieve"} => a.form = "list"
  <2>1. c.op = "notifications" => a.form = "list"
    BY <1>1 DEF Panics
  <2>2. c.op = "retrieve" => a.form = "list"
    BY <1>1 DEF Accepts, CodeOps, ProfileOps
  <2> QED
    BY <2>1, <2>2
<1>4. ASSUME Honest(a), a.op = c.op
      PROVE  a.did
  <2>1. CASE c.op \in CodeOps
    BY <1>1, <1>4, <2>1 DEF Accepts, Valid, Honest, CodeOps, ProfileOps
  <2>2. CASE c.op \in ValueOps
    BY <1>4, <2>2 DEF Honest
  <2>3. CASE c.op \in ListOps
    BY <1>1, <1>4, <2>3 DEF Accepts, Honest, ListOps, CodeOps, ProfileOps
  <2>4. c.op \in CodeOps \cup ValueOps \cup ListOps
    BY Zenon DEF Requests, Ops
  <2> QED
    BY <2>1, <2>2, <2>3, <2>4
<1> QED
  BY <1>2, <1>3, <1>4

\* What the card answers.
AnswerOf(q, a) ==
    /\ inbox' = Append(inbox, a) /\ a.id = q.id /\ a.op = q.op /\ Honest(a)
    /\ a.form = "list" => a.then = pending /\ made' = made
    /\ a.form = "list" /\ a.op = "notifications" =>
          a.items = {n \in pending : made[n] \in q.events}
    /\ a.form = "list" /\ a.op = "retrieve" =>
          a.items = {n \in pending : n = q.seq \/ made[n] \in q.events}

LEMMA ServeAnswers ==
    ASSUME TypeOK, Serve
    PROVE  inbox' = inbox \/ \E a \in Answers : AnswerOf(Head(queue), a)
<1> DEFINE q == Head(queue)
           Did(form, items) ==
               [op |-> q.op, id |-> q.id, form |-> form, code |-> 0, items |-> items,
                did |-> TRUE, then |-> IF form = "list" THEN pending ELSE {}]
           Refused(form, code) ==
               [op |-> q.op, id |-> q.id, form |-> form, code |-> code, items |-> {},
                did |-> FALSE, then |-> {}]
<1>1. q \in Requests
  <2>1. queue # <<>> /\ queue \in Seq(Requests)
    BY DEF Serve, TypeOK
  <2> QED
    BY <2>1, HeadTailProperties
<1>2. q.op \in Ops /\ q.id \in Nat /\ pending \in SUBSET Nat
  BY <1>1 DEF Requests, TypeOK
<1>3. ASSUME NEW form \in {"code", "value", "list"}, NEW items \in SUBSET Nat
      PROVE  /\ Did(form, items) \in Answers
             /\ Did(form, items).id = q.id /\ Did(form, items).op = q.op
             /\ Did(form, items).form = form /\ Honest(Did(form, items))
             /\ Did(form, items).items = items
             /\ form = "list" => Did(form, items).then = pending
  BY <1>2 DEF Answers, Honest
<1>4. ASSUME NEW form \in {"code", "error"}, NEW code \in Nat, code # 0,
             q.op \notin ValueOps
      PROVE  /\ Refused(form, code) \in Answers
             /\ Refused(form, code).id = q.id /\ Refused(form, code).op = q.op
             /\ Refused(form, code).form = form /\ Honest(Refused(form, code))
  BY <1>2, <1>4 DEF Answers, Honest
<1>5. CASE ServeProfile(q) \/ ServeRemoval(q) \/ ServeReset(q) \/ ServeText(q)
  <2> DEFINE r == Did("code", {})
  <2>1. inbox' = Append(inbox, r)
    BY <1>5 DEF ServeProfile, ServeRemoval, ServeReset, ServeText, Answer
  <2>2. r \in Answers /\ r.id = q.id /\ r.op = q.op /\ r.form = "code" /\ Honest(r)
    BY ONLY <1>3
  <2> HIDE DEF r, q
  <2>3. AnswerOf(q, r)
    BY <2>1, <2>2 DEF AnswerOf
  <2> QED
    BY <2>2, <2>3 DEF q
<1>6. CASE ServeValue(q)
  <2> DEFINE r == Did("value", {})
  <2>1. inbox' = Append(inbox, r)
    BY <1>6 DEF ServeValue, Answer
  <2>2. r \in Answers /\ r.id = q.id /\ r.op = q.op /\ r.form = "value" /\ Honest(r)
    BY ONLY <1>3
  <2> HIDE DEF r, q
  <2>3. AnswerOf(q, r)
    BY <2>1, <2>2 DEF AnswerOf
  <2> QED
    BY <2>2, <2>3 DEF q
<1>7. CASE Refuse(q)
  <2>1. q.op \notin ValueOps
    BY <1>7 DEF Refuse, ValueOps, CodeOps, ProfileOps, ListOps
  <2>2. PICK form \in {"code", "error"}, code \in {1, 5, 127} :
          inbox' = Append(inbox, Refused(form, code))
    BY <1>7 DEF Refuse, Answer
  <2>3. code \in Nat /\ code # 0
    OBVIOUS
  <2> DEFINE r == Refused(form, code)
  <2>4. r \in Answers /\ r.id = q.id /\ r.op = q.op /\ r.form # "list" /\ Honest(r)
    BY <1>4, <2>1, <2>3
  <2> HIDE DEF r, q
  <2>5. AnswerOf(q, r)
    BY <2>2, <2>4 DEF AnswerOf, r
  <2> QED
    BY <2>4, <2>5 DEF q
<1>8. CASE ServeList(q)
  <2>1. made' = made
    BY <1>8 DEF ServeList, card
  <2>2. PICK items \in SUBSET Nat :
          /\ inbox' = Append(inbox, Did("list", items))
          /\ q.op = "notifications" => items = {n \in pending : made[n] \in q.events}
          /\ q.op = "retrieve" => items = {n \in pending : n = q.seq \/ made[n] \in q.events}
    <3>1. CASE q.op = "notifications"
      <4>1. {n \in pending : made[n] \in q.events} \in SUBSET Nat
        BY <1>2
      <4> QED
        BY <1>8, <3>1, <4>1 DEF ServeList, Answer
    <3>2. CASE q.op = "retrieve"
      <4>1. {n \in pending : n = q.seq \/ made[n] \in q.events} \in SUBSET Nat
        BY <1>2
      <4> QED
        BY <1>8, <3>2, <4>1 DEF ServeList, Answer
    <3>3. CASE q.op = "profiles"
      <4>1. (IF \E p \in Profiles : profile[p] # "absent" THEN {1} ELSE {}) \in SUBSET Nat
        OBVIOUS
      <4> QED
        BY <1>8, <3>3, <4>1 DEF ServeList, Answer
    <3> QED
      BY <1>8, <3>1, <3>2, <3>3 DEF ServeList
  <2> DEFINE r == Did("list", items)
  <2>3. /\ r \in Answers /\ r.id = q.id /\ r.op = q.op /\ r.form = "list"
        /\ r.items = items /\ r.then = pending /\ Honest(r)
    BY <1>3
  <2> HIDE DEF r, q
  <2>4. AnswerOf(q, r)
    BY <2>1, <2>2, <2>3 DEF AnswerOf, r
  <2> QED
    BY <2>3, <2>4 DEF q
<1>9. CASE UNCHANGED <<inbox, card>>
  BY <1>9
<1> QED
  BY <1>5, <1>6, <1>7, <1>8, <1>9 DEF Serve, q

OwnInv == Numbered /\ Answered /\ OwnKind

LEMMA AskKeepsOwn ==
    ASSUME TypeOK, OwnInv, NEW op \in Ops, NEW n \in Nat, Asked(op, n)
    PROVE  OwnInv'
<1>1. PICK p \in Profiles \cup {NoProfile}, es \in SUBSET Events : Ask(op, p, n, es)
  BY DEF Asked
<1>2. ~Done' /\ inbox' = inbox /\ asked' = asked + 1 /\ call'.id = asked' /\ asked \in Nat
  BY <1>1 DEF Ask, Done, Nothing, TypeOK
<1>3. /\ queue' = Append(queue, Encode(call')) /\ Encode(call').id = call'.id
      /\ queue \in Seq(Requests)
  <2>1. call' \in Requests /\ queue' = Append(queue, Encode(call'))
    BY <1>1, AskIsTyped
  <2>2. Encode(call').id = call'.id
    BY <2>1 DEF Encode, Requests
  <2> QED
    BY <2>1, <2>2 DEF TypeOK
<1>4. ASSUME NEW i \in 1..Len(queue')
      PROVE  queue'[i].id \in 1..asked' /\ (queue'[i].id = call'.id => queue'[i] = Encode(call'))
  <2>1. CASE i = Len(queue) + 1
    <3>1. queue'[i] = Encode(call')
      BY <1>3, <2>1
    <3> QED
      BY <1>2, <1>3, <3>1
  <2>2. CASE i # Len(queue) + 1
    <3>1. i \in 1..Len(queue) /\ queue'[i] = queue[i]
      BY <1>3, <2>2
    <3>2. queue[i].id \in 1..asked
      BY <3>1 DEF OwnInv, Numbered
    <3> QED
      BY <1>2, <3>1, <3>2
  <2> QED
    BY <2>1, <2>2
<1>5. ASSUME NEW i \in 1..Len(inbox')
      PROVE  inbox'[i].id \in 1..asked' /\ Honest(inbox'[i]) /\ inbox'[i].id # call'.id
  <2>1. inbox[i].id \in 1..asked /\ Honest(inbox[i])
    BY <1>2 DEF OwnInv, Numbered
  <2> QED
    BY <1>2, <2>1
<1>6. Numbered'
  BY <1>2, <1>4, <1>5 DEF Numbered
<1> QED
  BY <1>2, <1>6 DEF OwnInv, Answered, OwnKind

LEMMA TakeKeepsOwn ==
    ASSUME TypeOK, OwnInv, TakeAnswer
    PROVE  OwnInv'
<1> DEFINE a == Head(inbox)
<1>1. /\ inbox # <<>> /\ inbox \in Seq(Answers) /\ inbox' = Tail(inbox)
      /\ call' = NoRequest /\ call \in Requests /\ asked \in Nat
      /\ UNCHANGED <<queue, asked, made>>
  BY DEF TakeAnswer, TypeOK, card
<1>2. /\ a \in Answers /\ a = inbox[1] /\ 1 \in 1..Len(inbox)
      /\ Len(inbox') = Len(inbox) - 1
      /\ \A i \in 1..Len(inbox') : inbox'[i] = inbox[i+1]
  BY <1>1, HeadTailProperties
<1>3. Honest(a) /\ (a.id = call.id => AnswerTo(call, a, made))
  BY <1>2 DEF OwnInv, Numbered
<1>4. Numbered'
  <2>1. call'.id = 0
    BY <1>1 DEF NoRequest
  <2>2. ASSUME NEW i \in 1..Len(inbox')
        PROVE  inbox'[i].id \in 1..asked /\ Honest(inbox'[i])
    <3>1. i + 1 \in 1..Len(inbox) /\ inbox'[i] = inbox[i+1]
      BY <1>1, <1>2
    <3> QED
      BY <3>1 DEF OwnInv, Numbered
  <2>3. ASSUME NEW i \in 1..Len(queue)
        PROVE  queue[i].id \in 1..asked
    BY DEF OwnInv, Numbered
  <2> QED
    BY <1>1, <2>1, <2>2, <2>3 DEF Numbered
<1>5. CASE Outcome(call, a) # "ok"
  <2>1. ~Done'
    BY <1>5 DEF TakeAnswer, Outcome, Done, Nothing
  <2> QED
    BY <1>4, <2>1 DEF OwnInv, Answered, OwnKind
<1>6. CASE Outcome(call, a) = "ok"
  <2>1. got'.call = call /\ got'.answer = a
    BY <1>6 DEF TakeAnswer
  <2>2. /\ \/ a.op = call.op
           \/ {a.op, call.op} = {"info1", "info2"}
           \/ call.op \in {"profiles", "notifications"} /\ a.items = {}
        /\ a.op = call.op => a.did
        /\ call.op \in {"notifications", "retrieve"} => a.form = "list"
    BY <1>1, <1>2, <1>3, <1>6, TakenIsOwnKind
  <2>3. a.id = call.id => a.op = call.op
    BY <1>3 DEF AnswerTo
  <2> HIDE DEF a
  <2>4. Answered'
    BY <1>1, <1>3, <2>1, <2>2, <2>3 DEF Answered
  <2>5. OwnKind'
    BY <2>1, <2>2 DEF OwnKind
  <2> QED
    BY <1>4, <2>4, <2>5 DEF OwnInv
<1> QED
  BY <1>5, <1>6

LEMMA ServeKeepsOwn ==
    ASSUME TypeOK, OwnInv, Serve
    PROVE  OwnInv'
<1> DEFINE q == Head(queue)
<1>1. /\ queue # <<>> /\ queue \in Seq(Requests) /\ queue' = Tail(queue)
      /\ inbox \in Seq(Answers) /\ call \in Requests
      /\ UNCHANGED <<asked, call, got>>
  BY DEF Serve, TypeOK
<1>2. /\ q \in Requests /\ q = queue[1] /\ 1 \in 1..Len(queue)
      /\ Len(queue') = Len(queue) - 1
      /\ \A i \in 1..Len(queue') : queue'[i] = queue[i+1]
  BY <1>1, HeadTailProperties
<1>3. q.id \in 1..asked /\ (q.id = call.id => q = Encode(call))
  BY <1>2 DEF OwnInv, Numbered
<1>4. Grows(made, made') /\ made \in Seq(Events) /\ made' \in Seq(Events)
  <2>1. TypeOK'
    BY ServeKeepsTypes
  <2>2. CASE ServeProfile(q)
    <3>1. q.op \in Events /\ Note(q.op)
      BY <2>2 DEF ServeProfile, ProfileOps, Events
    <3> QED
      BY <2>1, <3>1, NoteGrows DEF TypeOK
  <2>3. CASE made' = made
    BY <2>3 DEF Grows, TypeOK
  <2> QED
    BY <2>2, <2>3
    DEF Serve, ServeRemoval, ServeReset, ServeText, ServeList, ServeValue, Refuse, card
<1>5. \A i \in 1..Len(queue') :
         queue'[i].id \in 1..asked /\ (queue'[i].id = call.id => queue'[i] = Encode(call))
  <2> SUFFICES ASSUME NEW i \in 1..Len(queue')
               PROVE  /\ queue'[i].id \in 1..asked
                      /\ queue'[i].id = call.id => queue'[i] = Encode(call)
    OBVIOUS
  <2>1. i + 1 \in 1..Len(queue) /\ queue'[i] = queue[i+1]
    BY <1>1, <1>2
  <2> QED
    BY <2>1 DEF OwnInv, Numbered
<1>6. ASSUME NEW i \in 1..Len(inbox)
      PROVE  /\ inbox[i].id \in 1..asked /\ Honest(inbox[i])
             /\ inbox[i].id = call.id => AnswerTo(call, inbox[i], made')
  <2>1. /\ inbox[i].id \in 1..asked /\ Honest(inbox[i])
        /\ inbox[i].id = call.id => AnswerTo(call, inbox[i], made)
    BY DEF OwnInv, Numbered
  <2> QED
    BY <1>4, <2>1, AnswerStays
<1>7. Answered'
  <2>1. CASE Done /\ got.answer.id = got.call.id
    <3>1. /\ got.answer.did /\ AnswerTo(got.call, got.answer, made)
          /\ got.call.op \in {"notifications", "retrieve"} => got.answer.form = "list"
      BY <2>1 DEF OwnInv, Answered
    <3>2. AnswerTo(got.call, got.answer, made')
      BY <1>4, <3>1, AnswerStays
    <3> QED
      BY <1>1, <3>1, <3>2 DEF Answered
  <2>2. CASE ~(Done /\ got.answer.id = got.call.id)
    BY <1>1, <2>2 DEF Answered, Done
  <2> QED
    BY <2>1, <2>2
<1>8. OwnKind'
  BY <1>1 DEF OwnInv, OwnKind, Done
<1>9. CASE inbox' = inbox
  BY <1>1, <1>5, <1>6, <1>7, <1>8, <1>9 DEF OwnInv, Numbered
<1>10. ASSUME NEW a \in Answers, AnswerOf(q, a)
       PROVE  Numbered'
  <2>1. /\ inbox' = Append(inbox, a) /\ a.id \in 1..asked /\ Honest(a)
    BY <1>3, <1>10 DEF AnswerOf
  <2>2. ASSUME a.id = call.id
        PROVE  AnswerTo(call, a, made')
    <3>1. q = Encode(call) /\ a.op = q.op
      BY <1>3, <1>10, <2>2 DEF AnswerOf
    <3>2. /\ a.op = call.op /\ q.op = call.op /\ q.seq = call.seq
          /\ q.events = IF call.op = "notifications" /\ call.events = {} THEN Events
                        ELSE call.events
      BY <1>1, <3>1 DEF Encode, Requests
    <3>3. CASE a.form = "list"
      <4>1. a.then = pending /\ made' = made /\ pending \subseteq 1..Len(made)
        BY <1>10, <3>3 DEF AnswerOf, TypeOK
      <4>2. \A k \in pending : made[k] \in Events
        BY <1>4, <4>1
      <4>3. a.op = "notifications" =>
               a.items = {k \in a.then : call.events = {} \/ made[k] \in call.events}
        <5>1. a.op = "notifications" => a.items = {k \in pending : made[k] \in q.events}
          BY <1>10, <3>3 DEF AnswerOf
        <5> HIDE DEF q
        <5> QED
          BY <3>2, <4>1, <4>2, <5>1
      <4>4. a.op = "retrieve" =>
               \A k \in a.items : k \in a.then /\ (k = call.seq \/ made[k] \in call.events)
        <5>1. a.op = "retrieve" =>
                 a.items = {k \in pending : k = q.seq \/ made[k] \in q.events}
          BY <1>10, <3>3 DEF AnswerOf
        <5> HIDE DEF q
        <5> QED
          BY <3>2, <4>1, <5>1
      <4> HIDE DEF q
      <4> QED
        BY <3>2, <4>1, <4>3, <4>4 DEF AnswerTo
    <3>4. CASE a.form # "list"
      BY <3>2, <3>4 DEF AnswerTo
    <3> QED
      BY <3>3, <3>4
  <2>3. ASSUME NEW i \in 1..Len(inbox')
        PROVE  /\ inbox'[i].id \in 1..asked /\ Honest(inbox'[i])
               /\ inbox'[i].id = call.id => AnswerTo(call, inbox'[i], made')
    <3>1. CASE i = Len(inbox) + 1
      <4>1. inbox'[i] = a
        BY <1>1, <2>1, <3>1
      <4> QED
        BY <2>1, <2>2, <4>1
    <3>2. CASE i # Len(inbox) + 1
      <4>1. i \in 1..Len(inbox) /\ inbox'[i] = inbox[i]
        BY <1>1, <2>1, <3>2
      <4> QED
        BY <1>6, <4>1
    <3> QED
      BY <3>1, <3>2
  <2>4. call.id <= asked
    BY DEF OwnInv, Numbered
  <2> QED
    BY <1>1, <1>5, <2>3, <2>4 DEF Numbered
<1> QED
  BY <1>7, <1>8, <1>9, <1>10, ServeAnswers DEF OwnInv

LEMMA RestKeepsOwn ==
    ASSUME TypeOK, OwnInv, \/ RefuseCall \/ GiveUp \/ Restart
                           \/ (\E n \in 1..MaxMade : HandleNotification(n))
                           \/ (\E p \in Profiles : Install(p))
    PROVE  OwnInv'
<1>1. ASSUME ~Done', UNCHANGED <<made, queue, inbox, asked>>,
             call' = call \/ call' = NoRequest
      PROVE  OwnInv'
  <2>1. Numbered'
    <3>1. asked \in Nat /\ NoRequest.id = 0
      BY DEF TypeOK, NoRequest
    <3>2. CASE call' = call
      BY <1>1, <3>2 DEF OwnInv, Numbered
    <3>3. CASE call' = NoRequest
      BY <1>1, <3>1, <3>3 DEF OwnInv, Numbered
    <3> QED
      BY <1>1, <3>2, <3>3
  <2> QED
    BY <1>1, <2>1 DEF OwnInv, Answered, OwnKind
<1>2. CASE RefuseCall
  BY <1>1, <1>2 DEF RefuseCall, Done, Nothing, card, link
<1>3. CASE GiveUp
  BY <1>1, <1>3 DEF GiveUp, Done, Nothing, card
<1>4. CASE Restart
  <2>1. /\ ~Done' /\ queue' = <<>> /\ inbox' = <<>> /\ call'.id = 0 /\ asked' \in Nat
    BY <1>4 DEF Restart, Done, Nothing, NoRequest, TypeOK
  <2>2. Numbered'
    BY <2>1 DEF Numbered
  <2> QED
    BY <2>1, <2>2 DEF OwnInv, Answered, OwnKind
<1>5. ASSUME NEW n \in 1..MaxMade, HandleNotification(n)
      PROVE  OwnInv'
  <2>1. ~Done'
    BY <1>5 DEF HandleNotification, Done, Nothing
  <2> QED
    BY <1>1, <1>5, <2>1 DEF HandleNotification, card, link
<1>6. ASSUME NEW p \in Profiles, Install(p)
      PROVE  OwnInv'
  <2>1. UNCHANGED <<queue, inbox, asked, call, got>> /\ Note("install")
    BY <1>6 DEF Install, link
  <2>2. Grows(made, made') /\ made \in Seq(Events) /\ made' \in Seq(Events)
    <3>1. "install" \in Events
      BY DEF Events
    <3> QED
      BY <2>1, <3>1, NoteGrows, NoteKeepsTypes DEF TypeOK
  <2>3. Numbered'
    <3>1. ASSUME NEW i \in 1..Len(inbox)
          PROVE  /\ inbox[i].id \in 1..asked /\ Honest(inbox[i])
                 /\ inbox[i].id = call.id => AnswerTo(call, inbox[i], made')
      <4>1. /\ inbox[i].id \in 1..asked /\ Honest(inbox[i])
            /\ inbox[i].id = call.id => AnswerTo(call, inbox[i], made)
        BY DEF OwnInv, Numbered
      <4> QED
        BY <2>2, <4>1, AnswerStays
    <3> QED
      BY <2>1, <3>1 DEF OwnInv, Numbered
  <2>4. Answered'
    <3>1. CASE Done /\ got.answer.id = got.call.id
      <4>1. /\ got.answer.did /\ AnswerTo(got.call, got.answer, made)
            /\ got.call.op \in {"notifications", "retrieve"} => got.answer.form = "list"
        BY <3>1 DEF OwnInv, Answered
      <4>2. AnswerTo(got.call, got.answer, made')
        BY <2>2, <4>1, AnswerStays
      <4> QED
        BY <2>1, <4>1, <4>2 DEF Answered
    <3>2. CASE ~(Done /\ got.answer.id = got.call.id)
      BY <2>1, <3>2 DEF Answered, Done
    <3> QED
      BY <3>1, <3>2
  <2> QED
    BY <2>1, <2>3, <2>4 DEF OwnInv, OwnKind, Done
<1> QED
  BY <1>2, <1>3, <1>4, <1>5, <1>6

LEMMA OwnInvHolds == Spec => []OwnInv
<1>1. Init => OwnInv
  <2> SUFFICES ASSUME Init
               PROVE  OwnInv
    OBVIOUS
  <2>1. queue = <<>> /\ inbox = <<>> /\ call.id = 0 /\ asked = 0 /\ ~Done
    BY DEF Init, NoRequest, Done, Nothing
  <2> QED
    BY <2>1 DEF OwnInv, Numbered, Answered, OwnKind
<1>2. TypeOK /\ OwnInv /\ [Next]_vars => OwnInv'
  <2> SUFFICES ASSUME TypeOK, OwnInv, [Next]_vars
               PROVE  OwnInv'
    OBVIOUS
  <2>1. CASE UNCHANGED vars
    BY <2>1 DEF vars, card, link, OwnInv, Numbered, Answered, OwnKind, Done
  <2>2. CASE Next
    BY <2>2, StepsAre, AskKeepsOwn, TakeKeepsOwn, ServeKeepsOwn, RestKeepsOwn
  <2> QED
    BY <2>1, <2>2
<1> QED
  BY <1>1, <1>2, TypeCorrect, PTL DEF Spec

\* A call that succeeds took an answer to its own kind of request (OwnKind).
THEOREM AnswersAreOfKind == Spec => []OwnKind
<1>1. OwnInv => OwnKind
  BY DEF OwnInv
<1> QED
  BY <1>1, OwnInvHolds, PTL

\* A call that succeeds by its own answer had the card do what it asks for
\* (SuccessMeansDone).
THEOREM SuccessIsDone == Spec => []SuccessMeansDone
<1>1. OwnInv => SuccessMeansDone
  BY AnsweredSays DEF OwnInv
<1> QED
  BY <1>1, OwnInvHolds, PTL
-----------------------------------------------------------------------------
(* The notifications, step by step.                                        *)

\* What the caller retrieved, and what an answer on its way would let it
\* retrieve, are notifications of this eUICC.
Named ==
    /\ retrieved \subseteq 1..Len(made)
    /\ \A i \in 1..Len(inbox) :
          inbox[i].op = "retrieve" /\ inbox[i].form = "list" =>
              inbox[i].items \subseteq 1..Len(made)

\* What a step does to the notifications and to the answers on their way.
MakesOne  == Len(made') = Len(made) + 1 /\ pending' = pending \cup {Len(made) + 1}
MakesNone == made' = made
SameInbox == inbox' = inbox \/ inbox' = <<>>

LEMMA ServeMakes ==
    ASSUME IInv, Serve
    PROVE  \/ MakesOne
           \/ MakesNone /\ pending' = pending
           \/ MakesNone /\ \E n \in pending \cap received : pending' = pending \ {n}
<1> DEFINE q == Head(queue)
<1>1. queue # <<>> /\ queue \in Seq(Requests) /\ TypeOK
  BY DEF IInv, Serve, TypeOK
<1>2. q = queue[1] /\ 1 \in 1..Len(queue)
  BY <1>1
<1>3. CASE ServeProfile(q)
  <2>1. q.op \in Events /\ Note(q.op)
    BY <1>3 DEF ServeProfile, ProfileOps, Events
  <2> QED
    BY <1>1, <2>1, NoteKeepsTypes DEF MakesOne, Note
<1>4. CASE ServeRemoval(q)
  <2>1. q.op = "sent" /\ q.seq \in pending /\ pending' = pending \ {q.seq} /\ made' = made
    BY <1>4 DEF ServeRemoval
  <2>2. q.seq \in received
    BY <1>2, <2>1 DEF IInv, RemovalsSafe, Removals
  <2> QED
    BY <2>1, <2>2 DEF MakesNone
<1>5. CASE made' = made /\ pending' = pending
  BY <1>5 DEF MakesNone
<1> QED
  BY <1>3, <1>4, <1>5 DEF Serve, ServeReset, ServeText, ServeList, ServeValue, Refuse, card

LEMMA ServeKeepsNamed ==
    ASSUME IInv, Named, Serve
    PROVE  Named'
<1>1. /\ retrieved' = retrieved /\ Len(made) \in Nat /\ inbox \in Seq(Answers)
      /\ pending \subseteq 1..Len(made) /\ TypeOK
  BY DEF IInv, TypeOK, Serve, caller
<1>2. 1..Len(made) \subseteq 1..Len(made')
  BY <1>1, ServeMakes DEF MakesOne, MakesNone
<1>3. CASE inbox' = inbox
  BY <1>1, <1>2, <1>3 DEF Named
<1>4. ASSUME NEW a \in Answers, AnswerOf(Head(queue), a)
      PROVE  Named'
  <2>1. inbox' = Append(inbox, a)
    BY <1>4 DEF AnswerOf
  <2>2. a.op = "retrieve" /\ a.form = "list" => a.items \subseteq pending
    BY <1>4 DEF AnswerOf
  <2>3. ASSUME NEW i \in 1..Len(inbox'), inbox'[i].op = "retrieve", inbox'[i].form = "list"
        PROVE  inbox'[i].items \subseteq 1..Len(made')
    <3>1. CASE i = Len(inbox) + 1
      <4>1. inbox'[i] = a
        BY <1>1, <2>1, <3>1
      <4> QED
        BY <1>1, <1>2, <2>2, <2>3, <4>1
    <3>2. CASE i # Len(inbox) + 1
      <4>1. i \in 1..Len(inbox) /\ inbox'[i] = inbox[i]
        BY <1>1, <2>1, <3>2
      <4>2. inbox[i].items \subseteq 1..Len(made)
        BY <2>3, <4>1 DEF Named
      <4> QED
        BY <1>2, <4>1, <4>2
    <3> QED
      BY <3>1, <3>2
  <2> QED
    BY <1>1, <1>2, <2>3 DEF Named
<1> QED
  BY <1>1, <1>3, <1>4, ServeAnswers

LEMMA TakeKeepsNamed ==
    ASSUME IInv, Named, TakeAnswer
    PROVE  Named'
<1> DEFINE a == Head(inbox)
<1>1. /\ inbox # <<>> /\ inbox \in Seq(Answers) /\ inbox' = Tail(inbox)
      /\ call \in Requests /\ made' = made
  BY DEF TakeAnswer, IInv, TypeOK, card
<1>2. /\ a \in Answers /\ a = inbox[1] /\ 1 \in 1..Len(inbox)
      /\ Len(inbox') = Len(inbox) - 1
      /\ \A i \in 1..Len(inbox') : inbox'[i] = inbox[i+1]
  BY <1>1, HeadTailProperties
<1>3. retrieved' \subseteq 1..Len(made)
  <2>1. CASE Outcome(call, a) = "ok" /\ call.op = "retrieve"
    <3>1. a.op = "retrieve" /\ a.form = "list"
      BY <1>1, <1>2, <2>1, TakenIsOwnKind
    <3>2. FirstOf(a.items) \subseteq 1..Len(made)
      BY <1>2, <3>1 DEF Named, FirstOf
    <3>3. retrieved' = retrieved \cup FirstOf(a.items)
      BY <2>1 DEF TakeAnswer
    <3> QED
      BY <3>2, <3>3 DEF Named
  <2>2. CASE ~(Outcome(call, a) = "ok" /\ call.op = "retrieve")
    BY <2>2 DEF TakeAnswer, Named
  <2> QED
    BY <2>1, <2>2
<1>4. ASSUME NEW i \in 1..Len(inbox'), inbox'[i].op = "retrieve", inbox'[i].form = "list"
      PROVE  inbox'[i].items \subseteq 1..Len(made)
  <2>1. i + 1 \in 1..Len(inbox) /\ inbox'[i] = inbox[i+1]
    BY <1>1, <1>2
  <2> QED
    BY <1>4, <2>1 DEF Named
<1> QED
  BY <1>1, <1>3, <1>4 DEF Named

LEMMA NamedKept ==
    ASSUME IInv, Named, Next
    PROVE  Named'
<1>1. TypeOK /\ Len(made) \in Nat
  BY DEF IInv, TypeOK
<1>2. ASSUME retrieved' \subseteq retrieved, SameInbox, MakesNone
      PROVE  Named'
  <2>1. CASE inbox' = inbox
    BY <1>2, <2>1 DEF Named, MakesNone
  <2>2. CASE inbox' = <<>>
    BY <1>2, <2>2 DEF Named, MakesNone
  <2> QED
    BY <1>2, <2>1, <2>2 DEF SameInbox
<1>3. ASSUME NEW op \in Ops, NEW n \in Nat, Asked(op, n)
      PROVE  Named'
  BY <1>2, <1>3 DEF Asked, Ask, SameInbox, MakesNone, card, caller
<1>4. CASE RefuseCall \/ GiveUp \/ Restart \/ (\E n \in 1..MaxMade : HandleNotification(n))
  BY <1>2, <1>4 DEF RefuseCall, GiveUp, Restart, HandleNotification, SameInbox, MakesNone,
     card, link, caller
<1>5. ASSUME NEW p \in Profiles, Install(p)
      PROVE  Named'
  <2>1. Note("install") /\ "install" \in Events /\ UNCHANGED <<retrieved, inbox>>
    BY <1>5 DEF Install, Events, link, caller
  <2>2. 1..Len(made) \subseteq 1..Len(made')
    BY <1>1, <2>1, NoteKeepsTypes
  <2> QED
    BY <2>1, <2>2 DEF Named
<1> QED
  BY <1>1, <1>3, <1>4, <1>5, StepsAre, ServeKeepsNamed, TakeKeepsNamed

LEMMA OutboxStep ==
    ASSUME IInv, Named, Next
    PROVE  Out!Next \/ UNCHANGED <<Len(made), pending, received>>
<1>1. TypeOK /\ Len(made) \in Nat /\ pending \subseteq 1..Len(made)
  BY DEF IInv, TypeOK
<1>2. ASSUME MakesOne, received' = received
      PROVE  Out!Next
  BY <1>2 DEF MakesOne, Out!Next, Out!Make
<1>3. CASE Serve
  <2>1. received' = received
    BY <1>3 DEF Serve
  <2>2. ASSUME NEW n \in pending \cap received, MakesNone, pending' = pending \ {n}
        PROVE  Out!Next
    BY <1>1, <2>1, <2>2 DEF MakesNone, Out!Next, Out!Forget
  <2> QED
    BY <1>2, <1>3, <2>1, <2>2, ServeMakes DEF MakesNone
<1>4. ASSUME NEW p \in Profiles, Install(p)
      PROVE  Out!Next
  <2>1. Note("install") /\ "install" \in Events /\ received' = received
    BY <1>4 DEF Install, Events
  <2> QED
    BY <1>1, <1>2, <2>1, NoteKeepsTypes DEF MakesOne, Note
<1>5. ASSUME NEW n \in 1..MaxMade, HandleNotification(n)
      PROVE  Out!Next \/ UNCHANGED <<Len(made), pending, received>>
  <2>1. n \in 1..Len(made) /\ made' = made /\ pending' = pending
    BY <1>5 DEF HandleNotification, Named, card
  <2>2. received' = received \cup {n} \/ received' = received
    BY <1>5 DEF HandleNotification
  <2> QED
    BY <2>1, <2>2 DEF Out!Next, Out!Deliver
<1>6. ASSUME NEW op \in Ops, NEW n \in Nat, Asked(op, n)
      PROVE  UNCHANGED <<Len(made), pending, received>>
  BY <1>6 DEF Asked, Ask, card
<1>7. CASE RefuseCall \/ TakeAnswer \/ GiveUp \/ Restart
  BY <1>7 DEF RefuseCall, TakeAnswer, GiveUp, Restart, card
<1> QED
  BY <1>1, <1>3, <1>4, <1>5, <1>6, <1>7, StepsAre

\* The requests of the client, its HandleNotification and its restarts implement
\* Outbox: a notification is removed from the eUICC only after its SM-DP+ has it,
\* and only notifications of the eUICC are sent.
THEOREM ImplementsOutbox == Spec => OutboxSpec
<1>1. Init => Out!Init /\ Named
  <2> SUFFICES ASSUME Init
               PROVE  Out!Init /\ Named
    OBVIOUS
  <2>1. Len(made) = 1 /\ Len(inbox) = 0 /\ pending = {1} /\ received = {} /\ retrieved = {}
    BY DEF Init
  <2> QED
    BY <2>1 DEF Out!Init, Named
<1>2. IInv /\ Named /\ [Next]_vars => Named'
  <2>1. Named /\ UNCHANGED vars => Named'
    BY DEF Named, vars, card, link, caller
  <2> QED
    BY <2>1, NamedKept
<1>3. IInv /\ Named /\ [Next]_vars => [Out!Next]_<<Len(made), pending, received>>
  <2>1. UNCHANGED vars => UNCHANGED <<Len(made), pending, received>>
    BY DEF vars, card
  <2> QED
    BY <2>1, OutboxStep
<1> QED
  BY <1>1, <1>2, <1>3, AlwaysSafe, PTL DEF Spec, OutboxSpec, Out!Spec
=============================================================================
