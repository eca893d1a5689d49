-------------------------------- MODULE Ccid --------------------------------
(***************************************************************************)
(* The CCID driver (driver/ccid): readers that share one PC/SC library,    *)
(* which is loaded for the first and unloaded after the last, and one      *)
(* card.  CCIDReader.mu lets one call of a reader run at a time; step is   *)
(* the PC/SC call it is at, "none" between calls.  pcsc.mu guards refs.    *)
(*                                                                         *)
(* PC/SC and the card are external: each call of theirs may fail, an APDU  *)
(* before or after the card has acted on it.                               *)
(***************************************************************************)
EXTENDS Integers, FiniteSets

CONSTANTS
    Readers,    \* CCIDReader objects
    Channels,   \* logical channels of the card: 1..19 in the code
    MaxCalls    \* bound on the calls

ASSUME ReadersAssumption == IsFiniteSet(Readers)
ASSUME ChannelsAssumption == Channels \subseteq 1..19
ASSUME BoundsAssumption == MaxCalls \in Nat

VARIABLES
    refs, loaded,   \* pcsc.refs; the library is loaded
    life,       \* of a reader: none, new, live, closed
    named, open, handle, channel,   \* CCIDReader: reader # "", open, card, channel
    step, target,       \* the PC/SC call that runs, the channel it is about
    contexts,   \* readers whose context PC/SC has established
    handles,    \* card handles PC/SC has connected, with their reader
    channels, selected, \* the card
    calls,      \* bound
    again       \* history: readers connected while they were open

library == <<refs, loaded>>
object  == <<named, open, handle, channel>>
card    == <<channels, selected>>
vars    == <<library, life, object, step, target, contexts, handles, card, calls, again>>

Lives == {"none", "new", "live", "closed"}
Steps == {"none", "newContext", "protocol", "disconnectCard", "release", "releasePCSC",
          "init", "open", "select", "undo", "close", "apdu"}

TypeOK ==
    /\ refs \in 0..Cardinality(Readers) /\ loaded \in BOOLEAN
    /\ life \in [Readers -> Lives] /\ step \in [Readers -> Steps]
    /\ named \in [Readers -> BOOLEAN] /\ open \in [Readers -> BOOLEAN]
    /\ handle \in [Readers -> Nat]
    /\ channel \in [Readers -> Channels \cup {0}] /\ target \in [Readers -> Channels \cup {0}]
    /\ contexts \subseteq Readers
    /\ \A h \in handles : h \in [id : Nat \ {0}, reader : Readers]
    /\ channels \subseteq Channels /\ selected \subseteq channels
    /\ calls \in Nat /\ again \subseteq Readers

Init ==
    /\ refs = 0 /\ loaded = FALSE
    /\ life = [r \in Readers |-> "none"] /\ step = [r \in Readers |-> "none"]
    /\ named \in [Readers -> BOOLEAN]               \* NewWithReader, or New
    /\ open = [r \in Readers |-> FALSE] /\ handle = [r \in Readers |-> 0]
    /\ channel = [r \in Readers |-> 0] /\ target = [r \in Readers |-> 0]
    /\ contexts = {} /\ handles = {} /\ channels = {} /\ selected = {}
    /\ calls = 0 /\ again = {}

Goto(r, s) == step' = [step EXCEPT ![r] = s]

-----------------------------------------------------------------------------
(* New and the count of the library's users.                               *)

AcquirePCSC(r) ==
    /\ life[r] = "none" /\ step[r] = "none"
    /\ refs' = refs + 1 /\ loaded' = TRUE
    /\ life' = [life EXCEPT ![r] = "new"] /\ Goto(r, "newContext")
    /\ UNCHANGED <<object, target, contexts, handles, card, calls, again>>

\* If no context is established, New gives the library back and fails.
NewContext(r) ==
    /\ step[r] = "newContext"
    /\ \/ /\ contexts' = contexts \cup {r} /\ life' = [life EXCEPT ![r] = "live"]
          /\ Goto(r, "none")
       \/ Goto(r, "releasePCSC") /\ UNCHANGED <<contexts, life>>
    /\ UNCHANGED <<library, object, target, handles, card, calls, again>>

\* Mutant: the library is unloaded with the first reader that is done.
UnloadAtOnce(r) ==
    /\ step[r] = "releasePCSC"
    /\ refs' = refs - 1 /\ loaded' = FALSE
    /\ life' = [life EXCEPT ![r] = IF life[r] = "new" THEN "none" ELSE life[r]]
    /\ Goto(r, "none")
    /\ UNCHANGED <<object, target, contexts, handles, card, calls, again>>

ReleasePCSC(r) ==
    /\ step[r] = "releasePCSC"
    /\ refs' = IF refs = 0 THEN 0 ELSE refs - 1
    /\ loaded' = (loaded /\ refs' > 0)
    /\ life' = [life EXCEPT ![r] = IF life[r] = "new" THEN "none" ELSE life[r]]
    /\ Goto(r, "none")
    /\ UNCHANGED <<object, target, contexts, handles, card, calls, again>>

-----------------------------------------------------------------------------
(* Connect and Disconnect.                                                 *)

StartCall(r) ==
    /\ life[r] \in {"live", "closed"} /\ step[r] = "none" /\ calls < MaxCalls
    /\ calls' = calls + 1

SetReader(r) ==
    /\ StartCall(r) /\ life[r] = "live" /\ ~open[r]
    /\ named' = [named EXCEPT ![r] = TRUE]
    /\ UNCHANGED <<library, life, open, handle, channel, step, target, contexts, handles,
                   card, again>>

\* A handle that there was before is overwritten, by nothing if this fails.
Connect(r) ==
    /\ StartCall(r) /\ life[r] = "live" /\ named[r]
    /\ again' = IF open[r] THEN again \cup {r} ELSE again
    /\ \/ handle' = [handle EXCEPT ![r] = 0] /\ UNCHANGED <<handles, step>>
       \/ /\ handle' = [handle EXCEPT ![r] = calls + 1]
          /\ handles' = handles \cup {[id |-> calls + 1, reader |-> r]}
          /\ Goto(r, "protocol")
    /\ UNCHANGED <<library, life, named, open, channel, target, contexts, card>>

\* Mutant: a card with another protocol is not marked open to disconnect it.
ProtocolUnmarked(r) ==
    /\ step[r] = "protocol"
    /\ \/ Goto(r, "init") /\ open' = [open EXCEPT ![r] = TRUE]
       \/ Goto(r, "none") /\ UNCHANGED open
    /\ UNCHANGED <<library, life, named, handle, channel, target, contexts, handles, card,
                   calls, again>>

\* ioRequestForProtocol: T=0 or T=1, or disconnectCard.
Protocol(r) ==
    /\ step[r] = "protocol"
    /\ open' = [open EXCEPT ![r] = TRUE]
    /\ Goto(r, "init") \/ Goto(r, "disconnectCard")
    /\ UNCHANGED <<library, life, named, handle, channel, target, contexts, handles, card,
                   calls, again>>

Disconnected(r) ==
    /\ \E h \in handles : h.id = handle[r]
    /\ handles' = {h \in handles : h.id # handle[r]}
    /\ open' = [open EXCEPT ![r] = FALSE] /\ channel' = [channel EXCEPT ![r] = 0]

\* After a Connect that failed: its error is returned either way.
DisconnectCard(r) ==
    /\ step[r] = "disconnectCard" /\ Goto(r, "none")
    /\ Disconnected(r) \/ UNCHANGED <<handles, open, channel>>
    /\ UNCHANGED <<library, life, named, handle, target, contexts, card, calls, again>>

\* A reader that is closed returns at once.
Disconnect(r) ==
    /\ StartCall(r) /\ life[r] = "live"
    /\ \/ ~open[r] /\ Goto(r, "release") /\ UNCHANGED <<handles, open, channel>>
       \/ open[r] /\ Disconnected(r) /\ Goto(r, "release")
       \/ open[r] /\ UNCHANGED <<handles, open, channel, step>>
    /\ UNCHANGED <<library, life, named, handle, target, contexts, card, again>>

Release(r) ==
    /\ step[r] = "release"
    /\ \/ /\ contexts' = contexts \ {r} /\ life' = [life EXCEPT ![r] = "closed"]
          /\ Goto(r, "releasePCSC")
       \/ Goto(r, "none") /\ UNCHANGED <<contexts, life>>
    /\ UNCHANGED <<library, object, target, handles, card, calls, again>>

-----------------------------------------------------------------------------
(* APDUs.                                                                  *)

Send(r, s, ch) == Goto(r, s) /\ target' = [target EXCEPT ![r] = ch]

Start(r, s, ch) ==
    /\ StartCall(r) /\ open[r]
    /\ Send(r, s, ch)
    /\ UNCHANGED <<library, life, object, contexts, handles, card, again>>

OpenLogicalChannel(r)      == Start(r, "open", 0)
CloseLogicalChannel(r, ch) == Start(r, "close", ch)
Transmit(r)                == Start(r, "apdu", 0)

\* What the card does with the APDU of r, when it does it.
Perform(r, ch) ==
    \/ step[r] \in {"init", "apdu"} /\ UNCHANGED card
    \/ /\ step[r] = "open" /\ ch \notin channels
       /\ channels' = channels \cup {ch} /\ UNCHANGED selected
    \/ /\ step[r] = "select" /\ ch = target[r] /\ ch \in channels
       /\ selected' = selected \cup {ch} /\ UNCHANGED channels
    \/ /\ step[r] \in {"close", "undo"} /\ ch = target[r] /\ ch \in channels
       /\ channels' = channels \ {ch} /\ selected' = selected \ {ch}

Transmitting(r) ==
    /\ step[r] \in {"init", "open", "select", "undo", "close", "apdu"}
    /\ UNCHANGED <<library, life, named, open, handle, contexts, handles, calls, again>>

\* The handle is connected, the card accepts, and the response arrives.
Answered(r) ==
    /\ Transmitting(r) /\ \E h \in handles : h.id = handle[r]
    /\ \E ch \in Channels :
          /\ Perform(r, ch)
          /\ \/ step[r] = "open" /\ Send(r, "select", ch) /\ UNCHANGED channel
             \/ /\ step[r] = "select"
                /\ channel' = [channel EXCEPT ![r] = ch] /\ Send(r, "none", 0)
             \/ /\ step[r] \in {"close", "undo"} /\ Send(r, "none", 0)
                /\ channel' = [channel EXCEPT ![r] = IF channel[r] = ch THEN 0 ELSE channel[r]]
             \/ step[r] \in {"init", "apdu"} /\ Send(r, "none", 0) /\ UNCHANGED channel

\* An error, or a status that the driver does not accept.
Failed(r) ==
    /\ Transmitting(r) /\ UNCHANGED channel
    /\ UNCHANGED card \/ \E ch \in Channels : Perform(r, ch)
    /\ CASE step[r] = "init"   -> Send(r, "disconnectCard", 0)
         [] step[r] = "select" -> Send(r, "undo", target[r])
         [] OTHER              -> Send(r, "none", 0)

-----------------------------------------------------------------------------
Next == \E r \in Readers :
    \/ AcquirePCSC(r) \/ NewContext(r) \/ ReleasePCSC(r)
    \/ SetReader(r) \/ Connect(r) \/ Protocol(r) \/ DisconnectCard(r)
    \/ Disconnect(r) \/ Release(r)
    \/ OpenLogicalChannel(r) \/ Transmit(r)
    \/ \E ch \in Channels : CloseLogicalChannel(r, ch)
    \/ Answered(r) \/ Failed(r)

Spec == Init /\ [][Next]_vars

-----------------------------------------------------------------------------
(* Properties.                                                             *)

\* The library is loaded while any reader has, or is about to have, a context,
\* and unloaded when the last is done, whoever comes and goes in between.
LibraryInUse ==
    /\ refs = Cardinality({r \in Readers : life[r] \in {"new", "live"}
                                           \/ step[r] = "releasePCSC"})
    /\ loaded <=> refs > 0
    /\ contexts # {} => loaded

\* Every handle that PC/SC has connected can still be disconnected: it is that
\* of a reader that counts as open, or that Connect is at work on.  Only a
\* Connect on a reader that was open loses one.
HandlesAccounted ==
    \A h \in handles :
       h.reader \notin again =>
           /\ h.reader \in contexts /\ h.id = handle[h.reader]
           /\ open[h.reader] \/ step[h.reader] = "protocol"
=============================================================================
