----------------------------- MODULE Ccid_proofs ------------------------------
(***************************************************************************)
(* Proofs about Ccid, for any finite number of readers, any channels and   *)
(* any number of calls.                                                    *)
(*                                                                         *)
(* LifeCycle says which PC/SC call a reader can be at in each part of its  *)
(* life: what the code knows by the order of its statements and its mutex. *)
(***************************************************************************)
EXTENDS Ccid, FiniteSetTheorems, TLAPS

\* The readers that count as users of the library.
InUse == {r \in Readers : life[r] \in {"new", "live"} \/ step[r] = "releasePCSC"}

LifeCycle == \A r \in Readers :
    /\ life[r] = "none" => step[r] = "none"
    /\ life[r] = "new" <=> step[r] \in {"newContext", "releasePCSC"} /\ life[r] # "closed"
    /\ life[r] = "closed" => step[r] \in {"none", "releasePCSC"}
    /\ life[r] = "live" <=> r \in contexts
    /\ open[r] => life[r] = "live" /\ step[r] # "release"

IInv == TypeOK /\ LifeCycle /\ LibraryInUse /\ HandlesAccounted

-----------------------------------------------------------------------------
(* Types and the life of a reader.                                         *)

LEMMA DisconnectedIsTyped ==
    ASSUME TypeOK, NEW r \in Readers,
           Disconnected(r) \/ UNCHANGED <<handles, open, channel>>
    PROVE  /\ \A h \in handles' : h \in [id : Nat \ {0}, reader : Readers]
           /\ open' \in [Readers -> BOOLEAN] /\ channel' \in [Readers -> Channels \cup {0}]
           /\ \A q \in Readers : open'[q] => open[q]
           /\ \A q \in Readers : q # r => open'[q] = open[q]
BY DEF TypeOK, Disconnected

LEMMA PerformIsTyped ==
    ASSUME TypeOK, NEW r \in Readers, NEW ch \in Channels, Perform(r, ch)
    PROVE  channels' \subseteq Channels /\ selected' \subseteq channels'
BY DEF TypeOK, Perform, card

USE DEF library, object, card

LEMMA TypesKept ==
    ASSUME TypeOK, NEW r \in Readers, refs' \in 0..Cardinality(Readers),
           \/ AcquirePCSC(r) \/ NewContext(r) \/ ReleasePCSC(r)
           \/ SetReader(r) \/ Connect(r) \/ Protocol(r) \/ DisconnectCard(r)
           \/ Disconnect(r) \/ Release(r)
           \/ OpenLogicalChannel(r) \/ Transmit(r)
           \/ \E ch \in Channels : CloseLogicalChannel(r, ch)
           \/ Answered(r) \/ Failed(r)
    PROVE  TypeOK'
<1> USE DEF Goto, StartCall, Steps, Lives
<1>1. CASE AcquirePCSC(r)
  BY <1>1 DEF AcquirePCSC, TypeOK
<1>2. CASE NewContext(r)
  BY <1>2 DEF NewContext, TypeOK
<1>3. CASE ReleasePCSC(r)
  BY <1>3 DEF ReleasePCSC, TypeOK
<1>4. CASE SetReader(r)
  BY <1>4 DEF SetReader, TypeOK
<1>5. CASE Connect(r)
  <2>1. UNCHANGED <<library, life, named, open, channel, target, contexts, card>>
    BY <1>5 DEF Connect
  <2>2. calls' \in Nat /\ calls + 1 \in Nat \ {0} /\ again' \subseteq Readers
    BY <1>5 DEF Connect, TypeOK
  <2>3. /\ handle' \in [Readers -> Nat] /\ step' \in [Readers -> Steps]
        /\ \A h \in handles' : h \in [id : Nat \ {0}, reader : Readers]
    BY <1>5, <2>2 DEF Connect, TypeOK
  <2> QED
    BY <2>1, <2>2, <2>3 DEF TypeOK
<1>6. CASE Protocol(r)
  BY <1>6 DEF Protocol, TypeOK
<1>7. CASE DisconnectCard(r)
  <2>1. Disconnected(r) \/ UNCHANGED <<handles, open, channel>>
    BY <1>7 DEF DisconnectCard
  <2>2. step' \in [Readers -> Steps]
    BY <1>7 DEF DisconnectCard, TypeOK
  <2>3. UNCHANGED <<library, life, named, handle, target, contexts, card, calls, again>>
    BY <1>7 DEF DisconnectCard
  <2> QED
    BY <2>1, <2>2, <2>3, DisconnectedIsTyped DEF TypeOK
<1>8. CASE Disconnect(r)
  <2>1. Disconnected(r) \/ UNCHANGED <<handles, open, channel>>
    BY <1>8 DEF Disconnect
  <2>2. step' \in [Readers -> Steps] /\ calls' \in Nat
    BY <1>8 DEF Disconnect, TypeOK
  <2>3. UNCHANGED <<library, life, named, handle, target, contexts, card, again>>
    BY <1>8 DEF Disconnect
  <2> QED
    BY <2>1, <2>2, <2>3, DisconnectedIsTyped DEF TypeOK
<1>9. CASE Release(r)
  BY <1>9 DEF Release, TypeOK
<1>10. CASE \/ OpenLogicalChannel(r) \/ Transmit(r)
            \/ \E ch \in Channels : CloseLogicalChannel(r, ch)
  BY <1>10 DEF OpenLogicalChannel, Transmit, CloseLogicalChannel, Start, Send, TypeOK
<1>11. CASE Answered(r)
  <2>1. PICK ch \in Channels :
            /\ Perform(r, ch)
            /\ \/ step[r] = "open" /\ Send(r, "select", ch) /\ UNCHANGED channel
               \/ /\ step[r] = "select"
                  /\ channel' = [channel EXCEPT ![r] = ch] /\ Send(r, "none", 0)
               \/ /\ step[r] \in {"close", "undo"} /\ Send(r, "none", 0)
                  /\ channel' = [channel EXCEPT ![r] =
                                   IF channel[r] = ch THEN 0 ELSE channel[r]]
               \/ step[r] \in {"init", "apdu"} /\ Send(r, "none", 0) /\ UNCHANGED channel
    BY <1>11 DEF Answered
  <2>2. channels' \subseteq Channels /\ selected' \subseteq channels'
    BY <2>1, PerformIsTyped
  <2>3. /\ step' \in [Readers -> Steps] /\ target' \in [Readers -> Channels \cup {0}]
        /\ channel' \in [Readers -> Channels \cup {0}]
    BY <2>1 DEF Send, TypeOK
  <2>4. UNCHANGED <<library, life, named, open, handle, contexts, handles, calls, again>>
    BY <1>11 DEF Answered, Transmitting
  <2> QED
    BY <2>2, <2>3, <2>4 DEF TypeOK
<1>12. CASE Failed(r)
  <2>1. channels' \subseteq Channels /\ selected' \subseteq channels'
    BY <1>12, PerformIsTyped DEF Failed, TypeOK
  <2>2. step' \in [Readers -> Steps] /\ target' \in [Readers -> Channels \cup {0}]
    BY <1>12 DEF Failed, Transmitting, Send, TypeOK
  <2>3. /\ UNCHANGED <<library, life, named, open, handle, contexts, handles, calls, again>>
        /\ UNCHANGED channel
    BY <1>12 DEF Failed, Transmitting
  <2> QED
    BY <2>1, <2>2, <2>3 DEF TypeOK
<1> QED
  BY <1>1, <1>2, <1>3, <1>4, <1>5, <1>6, <1>7, <1>8, <1>9, <1>10, <1>11, <1>12

\* Any call of the driver's that is made on a card that is open, or that is
\* under way there, leaves the lives, the contexts and the handles alone.
Quiet(r) ==
    \/ SetReader(r)
    \/ OpenLogicalChannel(r) \/ Transmit(r)
    \/ \E ch \in Channels : CloseLogicalChannel(r, ch)
    \/ Answered(r) \/ Failed(r)

APDUSteps == {"disconnectCard", "init", "open", "select", "undo", "close", "apdu"}

LEMMA QuietLeaves ==
    ASSUME TypeOK, LifeCycle, NEW r \in Readers, Quiet(r)
    PROVE  /\ UNCHANGED <<refs, loaded, life, open, handle, contexts, handles, again>>
           /\ life[r] = "live" /\ \A q \in Readers \ {r} : step'[q] = step[q]
           /\ step[r] \in APDUSteps \cup {"none"} /\ step'[r] \in APDUSteps \cup {"none"}
<1> USE DEF APDUSteps
<1>1. CASE SetReader(r)
  BY <1>1 DEF SetReader, StartCall
<1>2. CASE \/ OpenLogicalChannel(r) \/ Transmit(r)
           \/ \E ch \in Channels : CloseLogicalChannel(r, ch)
  BY <1>2 DEF OpenLogicalChannel, Transmit, CloseLogicalChannel, Start, StartCall,
              Send, Goto, TypeOK, LifeCycle
<1>3. CASE Answered(r)
  BY <1>3 DEF Answered, Transmitting, Send, Goto, TypeOK, LifeCycle, Lives
<1>4. CASE Failed(r)
  BY <1>4 DEF Failed, Transmitting, Send, Goto, TypeOK, LifeCycle, Lives
<1> QED
  BY <1>1, <1>2, <1>3, <1>4 DEF Quiet

LEMMA LifeCycleKept ==
    ASSUME TypeOK, LifeCycle, NEW r \in Readers,
           \/ AcquirePCSC(r) \/ NewContext(r) \/ ReleasePCSC(r)
           \/ Connect(r) \/ Protocol(r) \/ DisconnectCard(r)
           \/ Disconnect(r) \/ Release(r) \/ Quiet(r)
    PROVE  LifeCycle'
<1> USE DEF Goto, StartCall
<1>1. CASE AcquirePCSC(r)
  BY <1>1 DEF AcquirePCSC, TypeOK, LifeCycle
<1>2. CASE NewContext(r)
  BY <1>2 DEF NewContext, TypeOK, LifeCycle
<1>3. CASE ReleasePCSC(r)
  BY <1>3 DEF ReleasePCSC, TypeOK, LifeCycle, Lives
<1>4. CASE Connect(r)
  BY <1>4 DEF Connect, TypeOK, LifeCycle
<1>5. CASE Protocol(r)
  BY <1>5 DEF Protocol, TypeOK, LifeCycle, Lives
<1>6. CASE DisconnectCard(r)
  <2>1. \A q \in Readers : open'[q] => open[q]
    BY <1>6, DisconnectedIsTyped DEF DisconnectCard
  <2>2. UNCHANGED <<life, contexts>> /\ step' = [step EXCEPT ![r] = "none"]
    BY <1>6 DEF DisconnectCard
  <2>3. life[r] = "live"
    BY <1>6 DEF DisconnectCard, TypeOK, LifeCycle, Lives
  <2> QED
    BY <2>1, <2>2, <2>3 DEF TypeOK, LifeCycle
<1>7. CASE Disconnect(r)
  <2>1. /\ \A q \in Readers : open'[q] => open[q]
        /\ step' # step => ~open'[r]
    BY <1>7, DisconnectedIsTyped DEF Disconnect, Disconnected, TypeOK
  <2>2. UNCHANGED <<life, contexts>> /\ step' \in {step, [step EXCEPT ![r] = "release"]}
    BY <1>7 DEF Disconnect
  <2>3. life[r] = "live"
    BY <1>7 DEF Disconnect
  <2> QED
    BY <2>1, <2>2, <2>3 DEF TypeOK, LifeCycle
<1>8. CASE Release(r)
  BY <1>8 DEF Release, TypeOK, LifeCycle, Lives
<1>9. CASE Quiet(r)
  BY <1>9, QuietLeaves DEF APDUSteps, TypeOK, LifeCycle
<1> QED
  BY <1>1, <1>2, <1>3, <1>4, <1>5, <1>6, <1>7, <1>8, <1>9

-----------------------------------------------------------------------------
(* The count of users.                                                     *)

LEMMA InUseIsFinite ==
    /\ IsFiniteSet(InUse) /\ Cardinality(InUse) \in 0..Cardinality(Readers)
    /\ Cardinality(InUse) = 0 <=> InUse = {}
<1>1. InUse \in SUBSET Readers
  BY DEF InUse
<1> QED
  BY <1>1, ReadersAssumption, FS_Subset, FS_CardinalityType, FS_EmptySet

LEMMA LibraryKept ==
    ASSUME TypeOK, LifeCycle, LibraryInUse, LifeCycle', NEW r \in Readers,
           \/ AcquirePCSC(r) \/ NewContext(r) \/ ReleasePCSC(r)
           \/ Connect(r) \/ Protocol(r) \/ DisconnectCard(r)
           \/ Disconnect(r) \/ Release(r) \/ Quiet(r)
    PROVE  LibraryInUse' /\ refs' \in 0..Cardinality(Readers)
<1> USE DEF Goto, StartCall
<1>1. refs = Cardinality(InUse) /\ (loaded <=> refs > 0) /\ loaded \in BOOLEAN
  BY DEF LibraryInUse, InUse, TypeOK
<1>2. IsFiniteSet(InUse') /\ Cardinality(InUse') \in 0..Cardinality(Readers)
  <2>1. InUse' \in SUBSET Readers
    BY DEF InUse
  <2> QED
    BY <2>1, ReadersAssumption, FS_Subset, FS_CardinalityType
<1>3. refs' = Cardinality(InUse') /\ (loaded' <=> refs' > 0)
  <2>1. CASE AcquirePCSC(r)
    <3>1. r \notin InUse /\ InUse' = InUse \cup {r}
      BY <2>1 DEF AcquirePCSC, InUse, TypeOK
    <3>2. Cardinality(InUse') = Cardinality(InUse) + 1
      BY <3>1, InUseIsFinite, FS_AddElement
    <3> QED
      BY <1>1, <2>1, <3>2, InUseIsFinite DEF AcquirePCSC
  <2>2. CASE ReleasePCSC(r)
    <3>1. r \in InUse /\ InUse' = InUse \ {r}
      BY <2>2 DEF ReleasePCSC, InUse, TypeOK, LifeCycle, Lives
    <3>2. Cardinality(InUse') = Cardinality(InUse) - 1 /\ Cardinality(InUse) > 0
      BY <3>1, InUseIsFinite, FS_RemoveElement
    <3>3. refs' = refs - 1 /\ refs > 0
      BY <1>1, <2>2, <3>2, InUseIsFinite DEF ReleasePCSC
    <3>4. loaded' <=> loaded /\ refs' > 0
      BY <2>2 DEF ReleasePCSC
    <3>5. loaded
      BY <1>1, <3>3
    <3> QED
      BY <1>1, <3>2, <3>3, <3>4, <3>5
  <2>3. ASSUME UNCHANGED <<refs, loaded>>, InUse' = InUse
        PROVE  refs' = Cardinality(InUse') /\ (loaded' <=> refs' > 0)
    BY <1>1, <2>3
  <2>4. CASE NewContext(r)
    <3>1. InUse' = InUse
      BY <2>4 DEF NewContext, InUse, TypeOK, LifeCycle, Lives
    <3> QED
      BY <2>3, <2>4, <3>1 DEF NewContext
  <2>5. CASE Connect(r) \/ Protocol(r) \/ DisconnectCard(r) \/ Disconnect(r)
    <3>1. InUse' = InUse
      BY <2>5 DEF Connect, Protocol, DisconnectCard, Disconnect, InUse, TypeOK
    <3> QED
      BY <2>3, <2>5, <3>1 DEF Connect, Protocol, DisconnectCard, Disconnect
  <2>6. CASE Release(r)
    <3>1. InUse' = InUse
      BY <2>6 DEF Release, InUse, TypeOK, LifeCycle, Lives
    <3> QED
      BY <2>3, <2>6, <3>1 DEF Release
  <2>7. CASE Quiet(r)
    <3>1. InUse' = InUse /\ UNCHANGED <<refs, loaded>>
      BY <2>7, QuietLeaves DEF APDUSteps, InUse, TypeOK
    <3> QED
      BY <2>3, <3>1
  <2> QED
    BY <2>1, <2>2, <2>4, <2>5, <2>6, <2>7
<1>4. contexts' # {} => loaded'
  <2>1. SUFFICES ASSUME NEW q \in contexts', contexts' \subseteq Readers
                 PROVE  loaded'
    <3>1. contexts' \subseteq Readers
      BY QuietLeaves DEF TypeOK, AcquirePCSC, NewContext, ReleasePCSC, Connect, Protocol,
                         DisconnectCard, Disconnect, Release
    <3> QED
      BY <3>1
  <2>2. q \in InUse'
    BY <2>1 DEF LifeCycle, InUse
  <2>3. Cardinality(InUse') # 0
    BY <1>2, <2>2, FS_EmptySet
  <2> QED
    BY <1>2, <1>3, <2>3
<1> QED
  BY <1>2, <1>3, <1>4 DEF LibraryInUse, InUse

-----------------------------------------------------------------------------
(* The handles.                                                            *)

LEMMA HandlesKept ==
    ASSUME TypeOK, LifeCycle, HandlesAccounted, NEW r \in Readers,
           \/ AcquirePCSC(r) \/ NewContext(r) \/ ReleasePCSC(r)
           \/ Connect(r) \/ Protocol(r) \/ DisconnectCard(r)
           \/ Disconnect(r) \/ Release(r) \/ Quiet(r)
    PROVE  HandlesAccounted'
<1> USE DEF Goto, StartCall
\* A reader that is neither open nor connecting has no handle to account for.
<1>0. ASSUME NEW h \in handles, h.reader \notin again
      PROVE  /\ h.reader \in Readers /\ h.reader \in contexts /\ h.id = handle[h.reader]
             /\ open[h.reader] \/ step[h.reader] = "protocol"
  BY <1>0 DEF HandlesAccounted, TypeOK
<1>1. CASE AcquirePCSC(r)
  BY <1>0, <1>1 DEF AcquirePCSC, TypeOK, HandlesAccounted
<1>2. CASE NewContext(r)
  BY <1>0, <1>2 DEF NewContext, TypeOK, HandlesAccounted
<1>3. CASE ReleasePCSC(r)
  BY <1>0, <1>3 DEF ReleasePCSC, TypeOK, HandlesAccounted
<1>4. CASE Connect(r)
  <2>1. SUFFICES ASSUME NEW h \in handles', h.reader \notin again'
                 PROVE  /\ h.reader \in contexts /\ h.id = handle'[h.reader]
                        /\ open[h.reader] \/ step'[h.reader] = "protocol"
    BY <1>4 DEF Connect, HandlesAccounted
  <2>2. CASE h \in handles
    <3>1. h.reader \notin again
      BY <1>4, <2>1 DEF Connect
    <3>2. h.reader # r
      BY <1>0, <1>4, <2>1, <2>2, <3>1 DEF Connect
    <3> QED
      BY <1>0, <1>4, <2>2, <3>1, <3>2 DEF Connect, TypeOK
  <2>3. CASE h \notin handles
    <3>1. /\ h = [id |-> calls + 1, reader |-> r]
          /\ handle' = [handle EXCEPT ![r] = calls + 1]
          /\ step' = [step EXCEPT ![r] = "protocol"]
      BY <1>4, <2>1, <2>3 DEF Connect
    <3> QED
      BY <1>4, <3>1 DEF Connect, TypeOK, LifeCycle
  <2> QED
    BY <2>2, <2>3
<1>5. CASE Protocol(r)
  BY <1>0, <1>5 DEF Protocol, TypeOK, HandlesAccounted
<1>6. ASSUME Disconnected(r), UNCHANGED <<handle, contexts, again>>,
             \A q \in Readers \ {r} : step'[q] = step[q]
      PROVE  HandlesAccounted'
  <2>1. SUFFICES ASSUME NEW h \in handles', h.reader \notin again
                 PROVE  /\ h.reader \in contexts /\ h.id = handle[h.reader]
                        /\ open'[h.reader] \/ step'[h.reader] = "protocol"
    BY <1>6 DEF HandlesAccounted
  <2>2. h \in handles /\ h.id # handle[r]
    BY <1>6, <2>1 DEF Disconnected
  <2>3. h.reader # r
    BY <1>0, <2>1, <2>2
  <2> QED
    BY <1>0, <1>6, <2>1, <2>2, <2>3 DEF Disconnected, TypeOK
<1>7. CASE DisconnectCard(r)
  <2>1. CASE Disconnected(r)
    BY <1>6, <1>7, <2>1 DEF DisconnectCard, TypeOK
  <2>2. CASE UNCHANGED <<handles, open, channel>>
    BY <1>0, <1>7, <2>2 DEF DisconnectCard, TypeOK, HandlesAccounted
  <2> QED
    BY <1>7, <2>1, <2>2 DEF DisconnectCard
<1>8. CASE Disconnect(r)
  <2>1. CASE Disconnected(r)
    BY <1>6, <1>8, <2>1 DEF Disconnect, TypeOK
  <2>2. CASE UNCHANGED <<handles, open, channel>>
    BY <1>0, <1>8, <2>2 DEF Disconnect, TypeOK, HandlesAccounted
  <2> QED
    BY <1>8, <2>1, <2>2 DEF Disconnect
<1>9. CASE Release(r)
  <2>1. \A h \in handles : h.reader \notin again => h.reader # r
    BY <1>0, <1>9 DEF Release, LifeCycle
  <2> QED
    BY <1>0, <1>9, <2>1 DEF Release, TypeOK, HandlesAccounted
<1>10. CASE Quiet(r)
  BY <1>0, <1>10, QuietLeaves DEF APDUSteps, TypeOK, HandlesAccounted
<1> QED
  BY <1>1, <1>2, <1>3, <1>4, <1>5, <1>7, <1>8, <1>9, <1>10

-----------------------------------------------------------------------------
(* The theorems.                                                           *)

LEMMA InitIInv == Init => IInv
<1> SUFFICES ASSUME Init
             PROVE  IInv
  OBVIOUS
<1>1. InUse = {}
  BY DEF Init, InUse
<1>2. refs = Cardinality(InUse) /\ 0 \in 0..Cardinality(Readers)
  BY <1>1, ReadersAssumption, FS_EmptySet, FS_CardinalityType DEF Init
<1>3. TypeOK
  BY <1>2 DEF Init, TypeOK, Lives, Steps
<1>4. LifeCycle /\ HandlesAccounted
  BY DEF Init, LifeCycle, HandlesAccounted
<1>5. LibraryInUse
  BY <1>2 DEF Init, LibraryInUse, InUse
<1> QED
  BY <1>3, <1>4, <1>5 DEF IInv

LEMMA NextIInv == IInv /\ [Next]_vars => IInv'
<1> SUFFICES ASSUME IInv, [Next]_vars
             PROVE  IInv'
  OBVIOUS
<1>1. CASE UNCHANGED vars
  BY <1>1 DEF vars, IInv, TypeOK, LifeCycle, LibraryInUse, HandlesAccounted
<1>2. ASSUME NEW r \in Readers,
             \/ AcquirePCSC(r) \/ NewContext(r) \/ ReleasePCSC(r)
             \/ Connect(r) \/ Protocol(r) \/ DisconnectCard(r)
             \/ Disconnect(r) \/ Release(r) \/ Quiet(r)
      PROVE  IInv'
  <2>1. LifeCycle'
    BY <1>2, LifeCycleKept DEF IInv
  <2>2. LibraryInUse' /\ refs' \in 0..Cardinality(Readers)
    BY <1>2, <2>1, LibraryKept DEF IInv
  <2>3. TypeOK'
    BY <1>2, <2>2, TypesKept DEF IInv, Quiet
  <2>4. HandlesAccounted'
    BY <1>2, HandlesKept DEF IInv
  <2> QED
    BY <2>1, <2>2, <2>3, <2>4 DEF IInv
<1> QED
  BY <1>1, <1>2 DEF Next, Quiet

LEMMA Inductive == Spec => []IInv
BY InitIInv, NextIInv, PTL DEF Spec

\* Every variable of the readers keeps its type.
THEOREM TypeCorrect == Spec => []TypeOK
<1>1. IInv => TypeOK
  BY DEF IInv
<1> QED
  BY <1>1, Inductive, PTL

\* acquirePCSC and releasePCSC count the users exactly, so that no reader with
\* a context finds the library unloaded, for any number of readers.
THEOREM LibraryStays == Spec => []LibraryInUse
<1>1. IInv => LibraryInUse
  BY DEF IInv
<1> QED
  BY <1>1, Inductive, PTL

\* No failure of PC/SC makes a reader forget a card handle; only a Connect on
\* a reader that is open does.
THEOREM HandlesKnown == Spec => []HandlesAccounted
<1>1. IInv => HandlesAccounted
  BY DEF IInv
<1> QED
  BY <1>1, Inductive, PTL
=============================================================================
