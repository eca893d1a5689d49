--------------------------- MODULE QrtrConn_proofs --------------------------
(***************************************************************************)
(* Proofs about QrtrConn, for any number of readers, writers and closers.  *)
(*                                                                         *)
(* The counters of Conn are exact (CountersExact); hence Close, which goes *)
(* on when activeOps is 0, closes descriptors nobody holds.  ClosersWait   *)
(* is what the inductive invariant adds: how far each Close has come.      *)
(***************************************************************************)
EXTENDS QrtrConn, FiniteSetTheorems, SequenceTheorems, TLAPS

Taking == {"waitIdle", "asleep", "closing", "closeWake", "closed"}
Past   == {"closing", "closeWake", "closed"}

\* A Close that took the connection down left fdValid false; one past waitIdle
\* has seen the last holder leave.
ClosersWait ==
    \A c \in Closers :
        /\ cpc[c] \in Taking => ~fdValid
        /\ cpc[c] \in Past => Holders = {}

IInv == TypeOK /\ CountersExact /\ ClosersWait /\ NoUseAfterClose

-----------------------------------------------------------------------------
(* What a step does to the holders of the descriptors, and to the pollers. *)

HoldStays == Holders' = Holders /\ activeOps' = activeOps
HoldGrows(u) ==
    /\ u \in Readers \cup Writers /\ u \notin Holders /\ fdValid
    /\ Holders' = Holders \cup {u} /\ activeOps' = activeOps + 1
HoldShrinks(u) ==
    /\ u \in Holders
    /\ Holders' = Holders \ {u} /\ activeOps' = activeOps - 1

PollStays == Polling' = Polling /\ pollWaiters' = pollWaiters
PollGrows(r) ==
    /\ r \in Readers /\ r \notin Polling
    /\ Polling' = Polling \cup {r} /\ pollWaiters' = pollWaiters + 1
PollShrinks(r) ==
    /\ r \in Polling
    /\ Polling' = Polling \ {r} /\ pollWaiters' = pollWaiters - 1

\* Every step of the system leaves the set of holders and activeOps alone, or
\* adds one holder while the connection is open, or ends one hold.
LEMMA HoldStep ==
    ASSUME TypeOK, Next
    PROVE  HoldStays \/ \E u \in Readers \cup Writers : HoldGrows(u) \/ HoldShrinks(u)
<1> USE DEF TypeOK, Holders, HoldLocations, PollLocations, Locations, conn, kernel, locals
<1>1. ASSUME NEW r \in Readers, BeginRead(r) \/ Snapshot(r)
      PROVE  HoldStays
  BY <1>1 DEF BeginRead, Snapshot, Goto, GotoWith, HoldStays
<1>2. ASSUME NEW r \in Readers, AcquireFDs(r)
      PROVE  HoldStays \/ HoldGrows(r)
  <2>1. CASE pc'[r] = "idle"
    BY <1>2, <2>1 DEF AcquireFDs, Goto, GotoWith, HoldStays
  <2>2. CASE pc'[r] # "idle"
    <3>1. fdValid /\ pc[r] = "loop" /\ pc' = [pc EXCEPT ![r] = "register"]
          /\ wpc' = wpc /\ activeOps' = activeOps + 1
      BY <1>2, <2>2 DEF AcquireFDs, Goto, GotoWith
    <3> QED BY <3>1, ActorsAssumption DEF HoldGrows
  <2> QED BY <2>1, <2>2
<1>3. ASSUME NEW r \in Readers, RegisterPoll(r)
      PROVE  HoldStays
  BY <1>3 DEF RegisterPoll, Goto, GotoWith, HoldStays
<1>4. ASSUME NEW r \in Readers,
             PollWake(r) \/ PollReadable(r) \/ PollTimeout(r) \/ PollFails(r) \/ DrainWakeFD(r)
      PROVE  HoldStays
  BY <1>4 DEF PollWake, PollReadable, PollTimeout, PollFails, DrainWakeFD, Goto, GotoWith, HoldStays
<1>5. ASSUME NEW r \in Readers,
             UnregisterPoll(r) \/ NextDatagramSize(r) \/ RecvFrom(r) \/ SocketFails(r)
      PROVE  HoldStays
  BY <1>5 DEF UnregisterPoll, NextDatagramSize, RecvFrom, SocketFails, Goto, GotoWith, HoldStays
<1>6. ASSUME NEW r \in Readers, Release(r)
      PROVE  HoldShrinks(r)
  <2>1. /\ pc[r] = "release" /\ wpc' = wpc /\ activeOps' = activeOps - 1
        /\ \E l \in {"idle", "begin", "loop"} : pc' = [pc EXCEPT ![r] = l]
    BY <1>6 DEF Release, ReleaseFD, Goto, GotoWith
  <2> QED BY <2>1, ActorsAssumption DEF HoldShrinks
<1>7. ASSUME NEW w \in Writers, AcquireFD(w)
      PROVE  HoldGrows(w)
  BY <1>7, ActorsAssumption DEF AcquireFD, HoldGrows
<1>8. ASSUME NEW w \in Writers, SendTo(w)
      PROVE  HoldShrinks(w)
  BY <1>8, ActorsAssumption DEF SendTo, ReleaseFD, HoldShrinks
<1>9. ASSUME NEW c \in Closers, Close(c) \/ CloseStep(c)
      PROVE  HoldStays
  BY <1>9 DEF Close, CloseStep, WaitIdle, CloseSocket, CloseWakeFD, HoldStays
<1>10. ASSUME Tick \/ (\E t \in 0..MaxTime : SetReadDeadline(t)) \/ (\E p \in Packets : Arrive(p))
       PROVE  HoldStays
  BY <1>10 DEF Tick, SetReadDeadline, Arrive, HoldStays
<1> QED BY <1>1, <1>2, <1>3, <1>4, <1>5, <1>6, <1>7, <1>8, <1>9, <1>10 DEF Next, ReadStep

\* The same for the pollers and pollWaiters.
LEMMA PollStep ==
    ASSUME TypeOK, Next
    PROVE  PollStays \/ \E r \in Readers : PollGrows(r) \/ PollShrinks(r)
<1> USE DEF TypeOK, Polling, PollLocations, Locations, conn, kernel, locals
<1>1. ASSUME NEW r \in Readers, BeginRead(r) \/ Snapshot(r) \/ AcquireFDs(r)
      PROVE  PollStays
  BY <1>1 DEF BeginRead, Snapshot, AcquireFDs, Goto, GotoWith, PollStays
<1>2. ASSUME NEW r \in Readers, RegisterPoll(r)
      PROVE  PollStays \/ PollGrows(r)
  <2>1. CASE pc'[r] = "release"
    BY <1>2, <2>1 DEF RegisterPoll, Goto, GotoWith, PollStays
  <2>2. CASE pc'[r] # "release"
    <3>1. /\ pc[r] = "register" /\ pc' = [pc EXCEPT ![r] = "poll"]
          /\ pollWaiters' = pollWaiters + 1
      BY <1>2, <2>2 DEF RegisterPoll, Goto, GotoWith
    <3> QED BY <3>1 DEF PollGrows
  <2> QED BY <2>1, <2>2
<1>3. ASSUME NEW r \in Readers,
             PollWake(r) \/ PollReadable(r) \/ PollTimeout(r) \/ PollFails(r) \/ DrainWakeFD(r)
      PROVE  PollStays
  BY <1>3 DEF PollWake, PollReadable, PollTimeout, PollFails, DrainWakeFD, Goto, GotoWith, PollStays
<1>4. ASSUME NEW r \in Readers, UnregisterPoll(r)
      PROVE  PollShrinks(r)
  <2>1. /\ pc[r] = "unregister" /\ pollWaiters' = pollWaiters - 1
        /\ \E l \in {"size", "release"} : pc' = [pc EXCEPT ![r] = l]
    BY <1>4 DEF UnregisterPoll, Goto
  <2> QED BY <2>1 DEF PollShrinks
<1>5. ASSUME NEW r \in Readers,
             NextDatagramSize(r) \/ RecvFrom(r) \/ SocketFails(r) \/ Release(r)
      PROVE  PollStays
  BY <1>5 DEF NextDatagramSize, RecvFrom, SocketFails, Release, Goto, GotoWith, PollStays
<1>6. ASSUME NEW w \in Writers, AcquireFD(w) \/ SendTo(w)
      PROVE  PollStays
  BY <1>6 DEF AcquireFD, SendTo, PollStays
<1>7. ASSUME NEW c \in Closers, Close(c) \/ CloseStep(c)
      PROVE  PollStays
  BY <1>7 DEF Close, CloseStep, WaitIdle, CloseSocket, CloseWakeFD, PollStays
<1>8. ASSUME Tick \/ (\E t \in 0..MaxTime : SetReadDeadline(t)) \/ (\E p \in Packets : Arrive(p))
      PROVE  PollStays
  BY <1>8 DEF Tick, SetReadDeadline, Arrive, PollStays
<1> QED BY <1>1, <1>2, <1>3, <1>4, <1>5, <1>6, <1>7, <1>8 DEF Next, ReadStep

-----------------------------------------------------------------------------
(* The counters.                                                           *)

LEMMA FiniteSets ==
    ASSUME TypeOK
    PROVE  IsFiniteSet(Holders) /\ IsFiniteSet(Polling)
<1>1. Holders \subseteq Readers \cup Writers /\ Polling \subseteq Readers
  BY DEF Holders, Polling
<1>2. IsFiniteSet(Readers \cup Writers)
  BY ActorsAssumption, FS_Union
<1> QED BY <1>1, <1>2, ActorsAssumption, FS_Subset

\* The two counters stay exact.
LEMMA CountersStep ==
    ASSUME TypeOK, CountersExact, Next
    PROVE  CountersExact'
<1> USE DEF CountersExact
<1>0. IsFiniteSet(Holders) /\ IsFiniteSet(Polling)
  BY FiniteSets
<1>1. activeOps' = Cardinality(Holders')
  <2>1. CASE HoldStays
    BY <2>1 DEF HoldStays
  <2>2. ASSUME NEW u \in Readers \cup Writers, HoldGrows(u)
        PROVE  activeOps' = Cardinality(Holders')
    BY <1>0, <2>2, FS_AddElement DEF HoldGrows
  <2>3. ASSUME NEW u \in Readers \cup Writers, HoldShrinks(u)
        PROVE  activeOps' = Cardinality(Holders')
    BY <1>0, <2>3, FS_RemoveElement DEF HoldShrinks
  <2> QED BY <2>1, <2>2, <2>3, HoldStep
<1>2. pollWaiters' = Cardinality(Polling')
  <2>1. CASE PollStays
    BY <2>1 DEF PollStays
  <2>2. ASSUME NEW r \in Readers, PollGrows(r)
        PROVE  pollWaiters' = Cardinality(Polling')
    BY <1>0, <2>2, FS_AddElement DEF PollGrows
  <2>3. ASSUME NEW r \in Readers, PollShrinks(r)
        PROVE  pollWaiters' = Cardinality(Polling')
    BY <1>0, <2>3, FS_RemoveElement DEF PollShrinks
  <2> QED BY <2>1, <2>2, <2>3, PollStep
<1> QED BY <1>1, <1>2

\* A goroutine that lets go was counted: the counters never go below zero.
LEMMA CountersPositive ==
    ASSUME TypeOK, CountersExact
    PROVE  /\ Holders # {} => activeOps - 1 \in Nat
           /\ Polling # {} => pollWaiters - 1 \in Nat
<1>1. IsFiniteSet(Holders) /\ IsFiniteSet(Polling)
  BY FiniteSets
<1> QED BY <1>1, FS_EmptySet, FS_CardinalityType DEF CountersExact, TypeOK

-----------------------------------------------------------------------------
(* Type correctness.                                                       *)

LEMMA TypeStep ==
    ASSUME TypeOK, CountersExact, Next
    PROVE  TypeOK'
<1> USE DEF TypeOK, Locations, Outcomes, conn, kernel, locals, Goto, GotoWith
<1>1. ASSUME NEW r \in Readers, BeginRead(r) \/ Snapshot(r) \/ AcquireFDs(r) \/ RegisterPoll(r)
      PROVE  TypeOK'
  <2>1. CASE BeginRead(r)
    BY <2>1 DEF BeginRead
  <2>2. CASE Snapshot(r)
    BY <2>2 DEF Snapshot
  <2>3. CASE AcquireFDs(r)
    <3>1. activeOps' \in Nat
      BY <2>3 DEF AcquireFDs
    <3>2. \E l \in {"idle", "register"}, o \in {"deadline", "closed", "none"} : GotoWith(r, l, o)
      BY <2>3 DEF AcquireFDs
    <3>3. pc' \in [Readers -> Locations] /\ out' \in [Readers -> Outcomes]
      BY <3>2
    <3> QED BY <2>3, <3>1, <3>3 DEF AcquireFDs
  <2>4. CASE RegisterPoll(r)
    <3>1. pollWaiters' \in Nat
      BY <2>4 DEF RegisterPoll
    <3>2. \E l \in {"release", "poll"}, o \in {"deadline", "closed", "changed", "none"} :
             GotoWith(r, l, o)
      BY <2>4 DEF RegisterPoll
    <3>3. pc' \in [Readers -> Locations] /\ out' \in [Readers -> Outcomes]
      BY <3>2
    <3> QED BY <2>4, <3>1, <3>3 DEF RegisterPoll
  <2> QED BY <1>1, <2>1, <2>2, <2>3, <2>4
<1>2. ASSUME NEW r \in Readers,
             PollWake(r) \/ PollReadable(r) \/ PollTimeout(r) \/ PollFails(r) \/ DrainWakeFD(r)
      PROVE  TypeOK'
  BY <1>2 DEF PollWake, PollReadable, PollTimeout, PollFails, DrainWakeFD
<1>3. ASSUME NEW r \in Readers, UnregisterPoll(r)
      PROVE  TypeOK'
  <2>1. r \in Polling
    BY <1>3 DEF UnregisterPoll, Polling, PollLocations
  <2> QED BY <1>3, <2>1, CountersPositive DEF UnregisterPoll
<1>4. ASSUME NEW r \in Readers, NextDatagramSize(r)
      PROVE  TypeOK'
  <2>1. Readable => wire[taken + 1].size \in Nat
    BY PacketsAssumption DEF Readable
  <2> QED BY <1>4, <2>1 DEF NextDatagramSize
<1>5. ASSUME NEW r \in Readers, RecvFrom(r) \/ SocketFails(r)
      PROVE  TypeOK'
  <2>1. CASE RecvFrom(r)
    <3>1. \E o \in {"packet", "error"} : GotoWith(r, "release", o)
      BY <2>1 DEF RecvFrom
    <3> QED BY <2>1, <3>1 DEF RecvFrom
  <2>2. CASE SocketFails(r)
    BY <2>2 DEF SocketFails
  <2> QED BY <1>5, <2>1, <2>2
<1>6. ASSUME NEW r \in Readers, Release(r)
      PROVE  TypeOK'
  <2>1. r \in Holders
    BY <1>6 DEF Release, Holders, HoldLocations
  <2>2. activeOps' \in Nat /\ cpc' \in [Closers -> {"idle", "rejected", "waitIdle", "asleep",
                                                   "closing", "closeWake", "closed"}]
    BY <1>6, <2>1, CountersPositive DEF Release, ReleaseFD
  <2>3. \E l \in {"begin", "loop", "idle"} : Goto(r, l)
    BY <1>6 DEF Release
  <2>4. out' = out \/ \E o \in {"error", "data"} : out' = [out EXCEPT ![r] = o]
    BY <1>6 DEF Release
  <2>5. delivered' = delivered \/ delivered' = Append(delivered, pkt[r])
    BY <1>6 DEF Release
  <2>6. pc' \in [Readers -> Locations]
    BY <2>3
  <2>7. out' \in [Readers -> Outcomes]
    BY <2>4
  <2>8. delivered' \in Seq(Nat)
    <3>1. pkt[r] \in Nat /\ delivered \in Seq(Nat)
      OBVIOUS
    <3>2. Append(delivered, pkt[r]) \in Seq(Nat)
      BY <3>1, AppendProperties
    <3> QED BY <2>5, <3>1, <3>2, Zenon
  <2> QED BY <1>6, <2>2, <2>6, <2>7, <2>8 DEF Release
<1>7. ASSUME NEW w \in Writers, AcquireFD(w)
      PROVE  TypeOK'
  BY <1>7 DEF AcquireFD
<1>8. ASSUME NEW w \in Writers, SendTo(w)
      PROVE  TypeOK'
  <2>1. w \in Holders
    BY <1>8 DEF SendTo, Holders
  <2> QED BY <1>8, <2>1, CountersPositive DEF SendTo, ReleaseFD
<1>9. ASSUME NEW c \in Closers, Close(c) \/ CloseStep(c)
      PROVE  TypeOK'
  BY <1>9 DEF Close, CloseStep, WaitIdle, CloseSocket, CloseWakeFD, NotifyPollers
<1>10. ASSUME Tick \/ (\E t \in 0..MaxTime : SetReadDeadline(t)) \/ (\E p \in Packets : Arrive(p))
       PROVE  TypeOK'
  <2>1. CASE Tick
    BY <2>1 DEF Tick
  <2>2. CASE \E t \in 0..MaxTime : SetReadDeadline(t)
    BY <2>2, BoundsAssumption DEF SetReadDeadline, NotifyPollers
  <2>3. CASE \E p \in Packets : Arrive(p)
    BY <2>3 DEF Arrive
  <2> QED BY <1>10, <2>1, <2>2, <2>3
<1> QED BY <1>1, <1>2, <1>3, <1>4, <1>5, <1>6, <1>7, <1>8, <1>9, <1>10 DEF Next, ReadStep

-----------------------------------------------------------------------------
(* No use after close.                                                     *)

\* Once the connection is down no goroutine becomes a holder.
LEMMA NoNewHolder ==
    ASSUME TypeOK, Next, ~fdValid
    PROVE  Holders' \subseteq Holders
BY HoldStep DEF HoldStays, HoldGrows, HoldShrinks

\* A Close past waitIdle keeps the holders away, whatever the others do.
LEMMA ClosersStep ==
    ASSUME IInv, Next
    PROVE  ClosersWait' /\ NoUseAfterClose'
<1> USE DEF IInv, TypeOK, ClosersWait, NoUseAfterClose, Taking, Past, conn, kernel, locals
<1>1. ~fdValid => Holders' \subseteq Holders
  BY NoNewHolder
<1>2. ASSUME NEW c \in Closers, Close(c)
      PROVE  ClosersWait' /\ NoUseAfterClose'
  <2>1. Holders' = Holders
    BY <1>2 DEF Close, Holders
  <2>2. CASE fdValid
    <3>1. \A d \in Closers : cpc[d] \notin Taking /\ (cpc'[d] \in Taking => d = c)
      BY <1>2, <2>2 DEF Close
    <3>2. cpc'[c] = "waitIdle" /\ fdValid' = FALSE /\ sockOpen' = sockOpen /\ wakeOpen' = wakeOpen
      BY <1>2, <2>2 DEF Close
    <3> QED BY <2>1, <2>2, <3>1, <3>2
  <2>3. CASE ~fdValid
    <3>1. /\ cpc' = [cpc EXCEPT ![c] = "rejected"]
          /\ fdValid' = fdValid /\ sockOpen' = sockOpen /\ wakeOpen' = wakeOpen
      BY <1>2, <2>3 DEF Close
    <3> QED BY <2>1, <3>1
  <2> QED BY <2>2, <2>3
<1>3. ASSUME NEW c \in Closers, WaitIdle(c)
      PROVE  ClosersWait' /\ NoUseAfterClose'
  <2>1. Holders' = Holders
    BY <1>3 DEF WaitIdle, Holders
  <2>2. activeOps = 0 => Holders = {}
    BY FiniteSets, FS_EmptySet DEF CountersExact
  <2> QED BY <1>3, <2>1, <2>2 DEF WaitIdle
<1>4. ASSUME NEW c \in Closers, CloseSocket(c) \/ CloseWakeFD(c)
      PROVE  ClosersWait' /\ NoUseAfterClose'
  <2>1. Holders' = Holders
    BY <1>4 DEF CloseSocket, CloseWakeFD, Holders
  <2> QED BY <1>4, <2>1 DEF CloseSocket, CloseWakeFD
<1>5. ASSUME /\ fdValid' = fdValid /\ sockOpen' = sockOpen /\ wakeOpen' = wakeOpen
             /\ \A c \in Closers : cpc'[c] # cpc[c] => cpc[c] = "asleep" /\ cpc'[c] = "waitIdle"
      PROVE  ClosersWait' /\ NoUseAfterClose'
  BY <1>1, <1>5
<1>6. ASSUME NEW r \in Readers, BeginRead(r) \/ ReadStep(r) \/ PollFails(r) \/ SocketFails(r)
      PROVE  ClosersWait' /\ NoUseAfterClose'
  <2>1. CASE Release(r)
    BY <1>5, <2>1 DEF Release, ReleaseFD
  <2>2. CASE ~Release(r)
    BY <1>5, <1>6, <2>2 DEF BeginRead, ReadStep, Snapshot, AcquireFDs, RegisterPoll, PollWake,
         PollReadable, PollTimeout, PollFails, DrainWakeFD, UnregisterPoll,
         NextDatagramSize, RecvFrom, SocketFails
  <2> QED BY <2>1, <2>2
<1>7. ASSUME NEW w \in Writers, AcquireFD(w) \/ SendTo(w)
      PROVE  ClosersWait' /\ NoUseAfterClose'
  BY <1>5, <1>7 DEF AcquireFD, SendTo, ReleaseFD
<1>8. ASSUME Tick \/ (\E t \in 0..MaxTime : SetReadDeadline(t)) \/ (\E p \in Packets : Arrive(p))
      PROVE  ClosersWait' /\ NoUseAfterClose'
  BY <1>5, <1>8 DEF Tick, SetReadDeadline, Arrive
<1> QED BY <1>2, <1>3, <1>4, <1>6, <1>7, <1>8 DEF Next, CloseStep

LEMMA IInvInit == Init => IInv
<1> SUFFICES ASSUME Init PROVE IInv
  OBVIOUS
<1>1. TypeOK
  <2>1. <<>> \in Seq(Packets) /\ <<>> \in Seq(Nat)
    BY EmptySeq
  <2>2. pc \in [Readers -> Locations] /\ out \in [Readers -> Outcomes]
    BY DEF Init, Locations, Outcomes
  <2>3. wpc \in [Writers -> {"idle", "sending"}]
        /\ cpc \in [Closers -> {"idle", "rejected", "waitIdle", "asleep",
                                "closing", "closeWake", "closed"}]
    BY DEF Init
  <2>4. wire \in Seq(Packets) /\ delivered \in Seq(Nat)
    BY <2>1, Zenon DEF Init
  <2> QED BY <2>2, <2>3, <2>4 DEF Init, TypeOK
<1>3. ClosersWait /\ NoUseAfterClose
  BY DEF Init, ClosersWait, NoUseAfterClose, Taking, Past
<1>2. Holders = {} /\ Polling = {}
  BY DEF Init, Holders, Polling, HoldLocations, PollLocations
<1> QED BY <1>1, <1>2, <1>3, FS_EmptySet DEF Init, IInv, CountersExact

LEMMA IInvStep == IInv /\ [Next]_vars => IInv'
<1> SUFFICES ASSUME IInv, [Next]_vars PROVE IInv'
  OBVIOUS
<1>1. CASE Next
  BY <1>1, TypeStep, CountersStep, ClosersStep DEF IInv
<1>2. CASE UNCHANGED vars
  <2>1. Holders' = Holders /\ Polling' = Polling
    BY <1>2 DEF vars, Holders, Polling
  <2> QED BY <1>2, <2>1 DEF vars, conn, kernel, locals, IInv, TypeOK, CountersExact,
             ClosersWait, NoUseAfterClose
<1> QED BY <1>1, <1>2

\* Type correctness of the connection, whatever the goroutines do.
THEOREM TypeCorrect == Spec => []TypeOK
<1>1. IInv => TypeOK
  BY DEF IInv
<1> QED BY <1>1, IInvInit, IInvStep, PTL DEF Spec

\* activeOps and pollWaiters count the holders and the pollers.
THEOREM CountersCorrect == Spec => []CountersExact
<1>1. IInv => CountersExact
  BY DEF IInv
<1> QED BY <1>1, IInvInit, IInvStep, PTL DEF Spec

\* No goroutine holds a descriptor that Close has given back to the kernel.
THEOREM SafeClose == Spec => []NoUseAfterClose
<1>1. IInv => NoUseAfterClose
  BY DEF IInv
<1> QED BY <1>1, IInvInit, IInvStep, PTL DEF Spec

-----------------------------------------------------------------------------
(* The wake-up of a single reader.                                         *)

\* uim.Client serialises its calls under a mutex, so one goroutine reads.
SingleReader == \A r, s \in Readers : r = s

\* Whoever changes the deadline or closes sees the reader counted in
\* pollWaiters while it polls; only that reader drains the token.
LEMMA WakeStep ==
    ASSUME SingleReader, IInv, NoMissedWakeUp, Next
    PROVE  NoMissedWakeUp'
<1> USE DEF NoMissedWakeUp, IInv, TypeOK, conn, kernel, locals, Goto, GotoWith
<1>1. ASSUME NEW r \in Readers, pc[r] = "poll"
      PROVE  pollWaiters > 0
  <2>1. Polling # {} /\ IsFiniteSet(Polling)
    BY <1>1, FiniteSets DEF Polling, PollLocations
  <2> QED BY <2>1, FS_EmptySet, FS_CardinalityType DEF CountersExact
<1>2. ASSUME NEW r \in Readers, BeginRead(r) \/ ReadStep(r) \/ PollFails(r) \/ SocketFails(r)
      PROVE  NoMissedWakeUp'
  <2>1. \A q \in Readers : q = r
    BY DEF SingleReader
  <2>2. CASE RegisterPoll(r)
    <3>1. fdValid' = fdValid /\ seq' = seq /\ deadlineSeq' = deadlineSeq
      BY <2>2 DEF RegisterPoll
    <3>2. CASE fdValid /\ seq[r] = deadlineSeq
      BY <2>1, <3>1, <3>2
    <3>3. CASE ~(fdValid /\ seq[r] = deadlineSeq)
      <4>1. Goto(r, "release")
        BY <2>2, <3>3 DEF RegisterPoll
      <4> QED BY <2>1, <4>1
    <3> QED BY <3>2, <3>3
  <2>3. CASE Release(r)
    <3>1. \E l \in {"begin", "loop", "idle"} : Goto(r, l)
      BY <2>3 DEF Release
    <3> QED BY <2>1, <3>1
  <2>4. CASE BeginRead(r) \/ Snapshot(r) \/ AcquireFDs(r)
    <3>1. \E l \in {"begin", "loop", "idle", "register"} : Goto(r, l)
      BY <2>4 DEF BeginRead, Snapshot, AcquireFDs
    <3> QED BY <2>1, <3>1
  <2>5. CASE \/ PollWake(r) \/ PollReadable(r) \/ PollTimeout(r) \/ PollFails(r)
             \/ DrainWakeFD(r) \/ UnregisterPoll(r) \/ NextDatagramSize(r)
             \/ RecvFrom(r) \/ SocketFails(r)
    <3>1. \E l \in {"drain", "unregister", "size", "recv", "release"} : Goto(r, l)
      BY <2>5 DEF PollWake, PollReadable, PollTimeout, PollFails, DrainWakeFD,
           UnregisterPoll, NextDatagramSize, RecvFrom, SocketFails
    <3> QED BY <2>1, <3>1
  <2> QED BY <1>2, <2>2, <2>3, <2>4, <2>5 DEF ReadStep
<1>3. ASSUME NEW c \in Closers, Close(c)
      PROVE  NoMissedWakeUp'
  <2>1. pc' = pc /\ seq' = seq /\ deadlineSeq' = deadlineSeq
    BY <1>3 DEF Close
  <2>2. CASE fdValid
    <3>1. wake' = (wake \/ pollWaiters > 0)
      BY <1>3, <2>2 DEF Close, NotifyPollers
    <3> QED BY <1>1, <2>1, <3>1
  <2>3. CASE ~fdValid
    BY <1>3, <2>1, <2>3 DEF Close
  <2> QED BY <2>2, <2>3
<1>4. ASSUME NEW t \in 0..MaxTime, SetReadDeadline(t)
      PROVE  NoMissedWakeUp'
  <2>1. pc' = pc /\ wake' = (wake \/ pollWaiters > 0)
    BY <1>4 DEF SetReadDeadline, NotifyPollers
  <2> QED BY <1>1, <2>1
<1>5. ASSUME NEW c \in Closers, CloseStep(c)
      PROVE  NoMissedWakeUp'
  BY <1>5 DEF CloseStep, WaitIdle, CloseSocket, CloseWakeFD
<1>6. ASSUME NEW w \in Writers, AcquireFD(w) \/ SendTo(w)
      PROVE  NoMissedWakeUp'
  BY <1>6 DEF AcquireFD, SendTo
<1>7. ASSUME Tick \/ \E p \in Packets : Arrive(p)
      PROVE  NoMissedWakeUp'
  BY <1>7 DEF Tick, Arrive
<1> QED BY <1>2, <1>3, <1>4, <1>5, <1>6, <1>7 DEF Next

\* With one reader, no change of the deadline and no Close is missed by a poll.
THEOREM WakeUpNotMissed ==
    ASSUME SingleReader
    PROVE  Spec => []NoMissedWakeUp
<1>1. Init => NoMissedWakeUp
  BY DEF Init, NoMissedWakeUp
<1>2. IInv /\ NoMissedWakeUp /\ [Next]_vars => NoMissedWakeUp'
  <2>1. UNCHANGED vars /\ NoMissedWakeUp => NoMissedWakeUp'
    BY DEF vars, conn, kernel, locals, NoMissedWakeUp
  <2> QED BY <2>1, WakeStep
<1> QED BY <1>1, <1>2, IInvInit, IInvStep, PTL DEF Spec

-----------------------------------------------------------------------------
(* The connection implements the lease of its descriptors.                 *)

LEMMA LeaseInit == Init => Lease!Init
BY DEF Init, Lease!Init, Phase, Holders, HoldLocations, PollLocations

LEMMA LeaseStep ==
    ASSUME IInv, Next
    PROVE  Lease!Next \/ UNCHANGED <<Phase, Holders>>
<1> USE DEF IInv, TypeOK, Phase, conn, kernel, locals
<1>1. NoUseAfterClose /\ (~fdValid => Holders' \subseteq Holders)
  BY NoNewHolder
<1>2. ASSUME NEW c \in Closers, Close(c)
      PROVE  Lease!Next \/ UNCHANGED <<Phase, Holders>>
  <2>1. Holders' = Holders /\ sockOpen' = sockOpen
    BY <1>2 DEF Close, Holders
  <2>2. CASE fdValid
    <3>1. fdValid' = FALSE
      BY <1>2, <2>2 DEF Close
    <3>2. sockOpen
      BY <2>2 DEF NoUseAfterClose
    <3> QED BY <2>1, <2>2, <3>1, <3>2 DEF Lease!Next, Lease!Shut
  <2>3. CASE ~fdValid
    BY <1>2, <2>1, <2>3 DEF Close
  <2> QED BY <2>2, <2>3
<1>3. ASSUME NEW c \in Closers, CloseSocket(c)
      PROVE  Lease!Next \/ UNCHANGED <<Phase, Holders>>
  <2>1. /\ Holders' = Holders /\ fdValid' = fdValid /\ sockOpen' = FALSE
        /\ ~fdValid /\ Holders = {}
    BY <1>3 DEF CloseSocket, Holders, ClosersWait, Taking, Past
  <2> QED BY <2>1 DEF Lease!Next, Lease!Free
<1>4. ASSUME fdValid' = fdValid /\ sockOpen' = sockOpen
      PROVE  Lease!Next \/ UNCHANGED <<Phase, Holders>>
  <2>1. Phase' = Phase
    BY <1>4
  <2>2. ASSUME NEW u \in Readers \cup Writers, HoldGrows(u)
        PROVE  Lease!Acquire(u)
    BY <2>1, <2>2 DEF HoldGrows, Lease!Acquire
  <2>3. ASSUME NEW u \in Readers \cup Writers, HoldShrinks(u)
        PROVE  Lease!Release(u)
    BY <2>1, <2>3 DEF HoldShrinks, Lease!Release
  <2> QED BY <2>1, <2>2, <2>3, HoldStep DEF HoldStays, Lease!Next
<1>5. ASSUME NEW r \in Readers, BeginRead(r) \/ ReadStep(r) \/ PollFails(r) \/ SocketFails(r)
      PROVE  fdValid' = fdValid /\ sockOpen' = sockOpen
  BY <1>5 DEF BeginRead, ReadStep, Snapshot, AcquireFDs, RegisterPoll, PollWake,
     PollReadable, PollTimeout, PollFails, DrainWakeFD, UnregisterPoll,
     NextDatagramSize, RecvFrom, SocketFails, Release
<1>6. ASSUME NEW c \in Closers, WaitIdle(c) \/ CloseWakeFD(c)
      PROVE  fdValid' = fdValid /\ sockOpen' = sockOpen
  BY <1>6 DEF WaitIdle, CloseWakeFD
<1>7. ASSUME NEW w \in Writers, AcquireFD(w) \/ SendTo(w)
      PROVE  fdValid' = fdValid /\ sockOpen' = sockOpen
  BY <1>7 DEF AcquireFD, SendTo
<1>8. ASSUME Tick \/ (\E t \in 0..MaxTime : SetReadDeadline(t)) \/ (\E p \in Packets : Arrive(p))
      PROVE  fdValid' = fdValid /\ sockOpen' = sockOpen
  BY <1>8 DEF Tick, SetReadDeadline, Arrive
<1> QED BY <1>2, <1>3, <1>4, <1>5, <1>6, <1>7, <1>8 DEF Next, CloseStep

\* Reading, writing and closing, with their counters, implement FdLease: the
\* descriptors go back to the kernel once, and after the last lease.
THEOREM ImplementsLease == Spec => LeaseSpec
<1>1. IInv /\ [Next]_vars => [Lease!Next]_<<Phase, Holders>>
  <2>1. UNCHANGED vars => UNCHANGED <<Phase, Holders>>
    BY DEF vars, conn, kernel, locals, Phase, Holders
  <2> QED BY <2>1, LeaseStep
<1> QED BY <1>1, LeaseInit, IInvInit, IInvStep, PTL DEF Spec, LeaseSpec, Lease!Spec

-----------------------------------------------------------------------------
(* What a single reader returns: Kept ties its place in the code to the    *)
(* socket's queue and to the datagram it took, and is inductive with       *)
(* TypeOK.                                                                 *)

\* What the reader's place in the code says of the socket and of the datagram
\* it took from it.
Place(r) ==
    /\ pc[r] \in {"size", "recv"} \/ (pc[r] = "unregister" /\ out[r] = "ready") => Readable
    /\ pc[r] = "recv" => sz[r] = wire[taken + 1].size
    /\ pc[r] = "unregister" => out[r] # "packet"
    /\ pc[r] = "release" /\ out[r] = "packet" =>
          /\ taken > 0 /\ pkt[r] = taken /\ sz[r] = wire[taken].size
          /\ \A k \in 1..Len(delivered) : delivered[k] < taken

InOrder == \A i, j \in 1..Len(delivered) : i < j => delivered[i] < delivered[j]

\* Every datagram taken was returned if it was wanted, but for one on its way.
NoneLost ==
    \A i \in 1..taken :
        Wanted(i) => i \in InFlight \/ \E k \in 1..Len(delivered) : delivered[k] = i

Kept ==
    /\ taken <= Len(wire)
    /\ \A k \in 1..Len(delivered) : delivered[k] \in 1..taken /\ Wanted(delivered[k])
    /\ \A r \in Readers : Place(r)
    /\ InOrder /\ NoneLost

LEMMA KeptSays == Kept => RecvNeverBlocks /\ InOrderAndNoneLost
BY DEF Kept, Place, InOrder, NoneLost, RecvNeverBlocks, InOrderAndNoneLost

\* The steps that leave the socket's queue and the messages returned alone.
LEMMA KeptByOthers ==
    ASSUME SingleReader, TypeOK, Kept, NEW r \in Readers,
           \/ BeginRead(r) \/ Snapshot(r) \/ AcquireFDs(r) \/ RegisterPoll(r)
           \/ PollWake(r) \/ PollReadable(r) \/ PollTimeout(r) \/ PollFails(r)
           \/ DrainWakeFD(r) \/ UnregisterPoll(r) \/ NextDatagramSize(r) \/ SocketFails(r)
           \/ (Release(r) /\ out[r] # "packet")
    PROVE  Kept'
<1> USE DEF TypeOK, conn, kernel, locals, Goto, GotoWith
<1>1. \A q \in Readers : q = r
  BY DEF SingleReader
<1>2. UNCHANGED <<wire, taken, delivered, pkt>>
  BY DEF BeginRead, Snapshot, AcquireFDs, RegisterPoll, PollWake, PollReadable, PollTimeout,
         PollFails, DrainWakeFD, UnregisterPoll, NextDatagramSize, SocketFails, Release
<1>3. ~(pc[r] = "release" /\ out[r] = "packet") /\ ~(pc'[r] = "release" /\ out'[r] = "packet")
      /\ Place(r)'
  <2>0. Place(r)
    BY DEF Kept
  <2>1. CASE BeginRead(r) \/ Snapshot(r) \/ AcquireFDs(r) \/ RegisterPoll(r)
    BY <2>1 DEF BeginRead, Snapshot, AcquireFDs, RegisterPoll, Place
  <2>2. CASE PollWake(r) \/ PollReadable(r) \/ PollTimeout(r) \/ PollFails(r) \/ DrainWakeFD(r)
    BY <1>2, <2>2 DEF PollWake, PollReadable, PollTimeout, PollFails, DrainWakeFD, Place, Readable
  <2>3. CASE UnregisterPoll(r)
    BY <1>2, <2>0, <2>3 DEF UnregisterPoll, Place, Readable
  <2>4. CASE NextDatagramSize(r)
    BY <1>2, <2>0, <2>4 DEF NextDatagramSize, Place, Readable
  <2>5. CASE SocketFails(r)
    BY <1>2, <2>5 DEF SocketFails, Place
  <2>6. CASE Release(r) /\ out[r] # "packet"
    BY <1>2, <2>6 DEF Release, Place
  <2> QED
    BY <2>1, <2>2, <2>3, <2>4, <2>5, <2>6
<1>4. InFlight = {} /\ InFlight' = {}
  BY <1>1, <1>3 DEF InFlight
<1>5. NoneLost'
  BY <1>2, <1>4 DEF Kept, NoneLost, Wanted
<1>6. \A i : Wanted(i)' <=> Wanted(i)
  BY <1>2 DEF Wanted
<1> QED
  BY <1>1, <1>2, <1>3, <1>5, <1>6 DEF Kept, InOrder

LEMMA KeptByRecv ==
    ASSUME SingleReader, TypeOK, Kept, NEW r \in Readers, RecvFrom(r)
    PROVE  Kept'
<1> USE DEF TypeOK, conn, kernel, locals, Goto, GotoWith
<1>1. \A q \in Readers : q = r
  BY DEF SingleReader
<1>2. /\ pc[r] = "recv" /\ taken < Len(wire) /\ taken' = taken + 1
      /\ UNCHANGED <<wire, delivered, sz>> /\ pkt'[r] = taken + 1 /\ pc'[r] = "release"
      /\ sz[r] = wire[taken + 1].size
  BY DEF RecvFrom, Readable, Kept, Place
<1>3. wire[taken + 1].size \in Nat
  <2>1. wire[taken + 1] \in Packets
    BY <1>2
  <2> QED
    BY <2>1, PacketsAssumption
<1>4. out'[r] = "packet"
  BY <1>2, <1>3 DEF RecvFrom
<1>5. InFlight = {} /\ InFlight' = {taken + 1}
  <2>1. InFlight = {}
    BY <1>1, <1>2 DEF InFlight
  <2>2. InFlight' = {pkt'[r]}
    BY <1>1, <1>2, <1>4 DEF InFlight
  <2> QED
    BY <1>2, <2>1, <2>2
<1>6. Place(r)'
  BY <1>2, <1>4 DEF Place, Kept
<1>7. taken \in Nat /\ Len(wire) \in Nat /\ \A i : Wanted(i)' <=> Wanted(i)
  BY <1>2 DEF Wanted
<1>8. NoneLost'
  <2> SUFFICES ASSUME NEW i \in 1..(taken + 1), Wanted(i)
               PROVE  i = taken + 1 \/ \E k \in 1..Len(delivered) : delivered[k] = i
    BY <1>2, <1>5, <1>7 DEF NoneLost
  <2> QED
    BY <1>5, <1>7 DEF Kept, NoneLost
<1>9. \A k \in 1..Len(delivered) : delivered[k] \in 1..(taken + 1)
  BY <1>7 DEF Kept
<1>10. InOrder'
  BY <1>2 DEF Kept, InOrder
<1> QED
  <2> HIDE DEF TypeOK
  <2> QED
    BY <1>1, <1>2, <1>6, <1>7, <1>8, <1>9, <1>10 DEF Kept

LEMMA KeptByRelease ==
    ASSUME SingleReader, TypeOK, Kept, NEW r \in Readers, Release(r), out[r] = "packet"
    PROVE  Kept'
<1> USE DEF TypeOK, conn, kernel, locals, Goto, GotoWith
<1>1. \A q \in Readers : q = r
  BY DEF SingleReader
<1>2. /\ pc[r] = "release" /\ taken > 0 /\ pkt[r] = taken /\ sz[r] = wire[taken].size
      /\ \A k \in 1..Len(delivered) : delivered[k] < taken
      /\ UNCHANGED <<wire, taken, pkt>> /\ pc'[r] \in {"begin", "idle"}
  BY DEF Release, Kept, Place
<1>3. InFlight = {taken} /\ InFlight' = {}
  BY <1>1, <1>2 DEF InFlight
<1>4. Place(r)'
  BY <1>2 DEF Place
<1>5. /\ taken \in Nat /\ Len(wire) \in Nat /\ Len(delivered) \in Nat
      /\ \A i : Wanted(i)' <=> Wanted(i)
  BY <1>2 DEF Wanted
<1>6. CASE Wanted(taken)
  <2>1. delivered' = Append(delivered, taken)
    BY <1>2, <1>6, PacketsAssumption DEF Release, Wanted
  <2>2. /\ Len(delivered') = Len(delivered) + 1 /\ delivered'[Len(delivered) + 1] = taken
        /\ \A k \in 1..Len(delivered) : delivered'[k] = delivered[k]
    BY <2>1
  <2>3. InOrder'
    <3> SUFFICES ASSUME NEW i \in 1..(Len(delivered) + 1), NEW j \in 1..(Len(delivered) + 1), i < j
                 PROVE  delivered'[i] < delivered'[j]
      BY <2>2 DEF InOrder
    <3> HIDE DEF TypeOK
    <3>1. i \in 1..Len(delivered)
      BY <1>5
    <3>2. CASE j = Len(delivered) + 1
      BY <1>2, <2>2, <3>1, <3>2
    <3>3. CASE j # Len(delivered) + 1
      <4>1. j \in 1..Len(delivered)
        BY <1>5, <3>3
      <4> QED
        BY <2>2, <3>1, <4>1 DEF Kept, InOrder
    <3> QED
      BY <3>2, <3>3
  <2>4. NoneLost'
    <3> SUFFICES ASSUME NEW i \in 1..taken, Wanted(i)
                 PROVE  \E k \in 1..(Len(delivered) + 1) : delivered'[k] = i
      BY <1>2, <1>5, <2>2 DEF NoneLost
    <3>1. CASE i = taken
      <4>1. Len(delivered) + 1 \in 1..(Len(delivered) + 1)
        BY <1>5
      <4> QED
        BY <2>2, <3>1, <4>1
    <3>2. CASE i # taken
      <4>1. PICK k \in 1..Len(delivered) : delivered[k] = i
        BY <1>3, <3>2 DEF Kept, NoneLost
      <4> QED
        BY <1>5, <2>2, <4>1
    <3> QED
      BY <3>1, <3>2
  <2>5. \A k \in 1..Len(delivered') : delivered'[k] \in 1..taken /\ Wanted(delivered'[k])
    <3> SUFFICES ASSUME NEW k \in 1..(Len(delivered) + 1)
                 PROVE  delivered'[k] \in 1..taken /\ Wanted(delivered'[k])
      BY <2>2
    <3>1. CASE k = Len(delivered) + 1
      BY <1>2, <1>5, <1>6, <2>2, <3>1
    <3>2. CASE k # Len(delivered) + 1
      <4>1. k \in 1..Len(delivered)
        BY <1>5, <3>2
      <4> QED
        BY <2>2, <4>1 DEF Kept
    <3> QED
      BY <3>1, <3>2
  <2> QED
    BY <1>1, <1>2, <1>4, <1>5, <2>3, <2>4, <2>5 DEF Kept
<1>7. CASE ~Wanted(taken)
  <2>1. wire[taken].size \in Nat
    <3>1. wire[taken] \in Packets
      BY <1>2, <1>5 DEF Kept
    <3> QED
      BY <3>1, PacketsAssumption
  <2>2. delivered' = delivered
    BY <1>2, <1>7, <2>1, PacketsAssumption DEF Release, Wanted
  <2>3. NoneLost'
    <3> SUFFICES ASSUME NEW i \in 1..taken, Wanted(i)
                 PROVE  \E k \in 1..Len(delivered) : delivered[k] = i
      BY <1>2, <1>5, <2>2 DEF NoneLost
    <3>1. i # taken
      BY <1>7
    <3> QED
      BY <1>3, <3>1 DEF Kept, NoneLost
  <2> QED
    BY <1>1, <1>2, <1>4, <1>5, <2>2, <2>3 DEF Kept, InOrder
<1> QED
  BY <1>6, <1>7

LEMMA KeptByArrive ==
    ASSUME TypeOK, Kept, NEW p \in Packets, Arrive(p)
    PROVE  Kept'
<1> USE DEF TypeOK, conn, kernel, locals
<1>1. /\ Len(wire') = Len(wire) + 1 /\ \A i \in 1..Len(wire) : wire'[i] = wire[i]
      /\ UNCHANGED <<taken, delivered, pc, out, sz, pkt>>
  BY DEF Arrive
<1>2. InFlight' = InFlight
  BY <1>1 DEF InFlight
<1>3. taken \in Nat /\ Len(wire) \in Nat /\ taken <= Len(wire)
  BY DEF Kept
<1>4. \A i \in 1..taken : Wanted(i)' <=> Wanted(i)
  <2> SUFFICES ASSUME NEW i \in 1..taken
               PROVE  Wanted(i)' <=> Wanted(i)
    OBVIOUS
  <2>1. wire'[i] = wire[i]
    BY <1>1, <1>3
  <2> QED
    BY <2>1 DEF Wanted
<1>5. NoneLost'
  <2> SUFFICES ASSUME NEW i \in 1..taken, Wanted(i)
               PROVE  i \in InFlight \/ \E k \in 1..Len(delivered) : delivered[k] = i
    BY <1>1, <1>2, <1>4 DEF NoneLost
  <2> QED
    BY DEF Kept, NoneLost
<1>6. ASSUME NEW r \in Readers
      PROVE  Place(r)'
  <2>1. Place(r)
    BY DEF Kept
  <2>2. Readable => Readable'
    BY <1>1, <1>3 DEF Readable
  <2>3. Readable => wire'[taken + 1] = wire[taken + 1]
    BY <1>1, <1>3 DEF Readable
  <2>4. taken > 0 => wire'[taken] = wire[taken]
    BY <1>1, <1>3
  <2> QED
    BY <1>1, <2>1, <2>2, <2>3, <2>4 DEF Place
<1>7. \A k \in 1..Len(delivered') : delivered'[k] \in 1..taken' /\ Wanted(delivered[k])'
  BY <1>1, <1>4 DEF Kept
<1>8. InOrder'
  BY <1>1 DEF Kept, InOrder
<1> QED
  <2> HIDE DEF TypeOK
  <2> QED
    BY <1>1, <1>3, <1>5, <1>6, <1>7, <1>8 DEF Kept

LEMMA KeptStep ==
    ASSUME SingleReader, TypeOK, Kept, [Next]_vars
    PROVE  Kept'
<1>1. ASSUME UNCHANGED <<wire, taken, delivered, pc, out, sz, pkt>>
      PROVE  Kept'
  BY <1>1 DEF Kept, Place, Readable, InOrder, NoneLost, InFlight, Wanted
<1>2. ASSUME NEW w \in Writers, AcquireFD(w) \/ SendTo(w)
      PROVE  Kept'
  BY <1>1, <1>2 DEF AcquireFD, SendTo, kernel, locals
<1>3. ASSUME NEW c \in Closers, Close(c) \/ CloseStep(c)
      PROVE  Kept'
  BY <1>1, <1>3 DEF Close, CloseStep, WaitIdle, CloseSocket, CloseWakeFD, kernel, locals
<1>4. ASSUME Tick \/ (\E t \in 0..MaxTime : SetReadDeadline(t)) \/ UNCHANGED vars
      PROVE  Kept'
  BY <1>1, <1>4 DEF Tick, SetReadDeadline, vars, kernel, locals
<1> QED
  BY <1>2, <1>3, <1>4, KeptByOthers, KeptByRecv, KeptByRelease, KeptByArrive DEF Next, ReadStep

LEMMA AlwaysKept ==
    ASSUME SingleReader
    PROVE  Spec => []Kept
<1>1. Init => Kept
  BY DEF Init, Kept, Place, InOrder, NoneLost, InFlight
<1> QED
  BY <1>1, KeptStep, TypeCorrect, PTL DEF Spec

\* With one reader, nothing blocks outside poll: recvfrom finds a datagram.
THEOREM RecvFinds ==
    ASSUME SingleReader
    PROVE  Spec => []RecvNeverBlocks
BY AlwaysKept, KeptSays, PTL

\* With one reader, the service's messages are returned whole and in the order they
\* came, and none is dropped between the socket and the caller.
THEOREM MessagesInOrder ==
    ASSUME SingleReader
    PROVE  Spec => []InOrderAndNoneLost
BY AlwaysKept, KeptSays, PTL
=============================================================================
