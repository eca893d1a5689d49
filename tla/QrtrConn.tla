------------------------------ MODULE QrtrConn ------------------------------
(***************************************************************************)
(* The QRTR connection of driver/qmi/qrtr/conn.go: one AF_QIPCRTR socket   *)
(* and one eventfd shared by the goroutines that read, write, move the     *)
(* read deadline and close.                                                *)
(*                                                                         *)
(* Every critical section of c.mu is one action, and so is every system    *)
(* call made outside it.  A reader is a program with a location pc[r]; the *)
(* outcome it carries across unregisterPoll and releaseFD is out[r], which *)
(* is the result of the last Read once pc[r] = "idle".                     *)
(*                                                                         *)
(* notifyWakeFD reports no error on a live eventfd (EAGAIN and EINTR are   *)
(* absorbed, and c.mu keeps it open), so its error returns have no action. *)
(* wakeFDValid always equals fdValid and is not kept apart.                *)
(***************************************************************************)
EXTENDS Integers, Sequences, FiniteSets

CONSTANTS
    Readers,     \* goroutines calling Read
    Writers,     \* goroutines calling Write or localAddr
    Closers,     \* goroutines calling Close
    Packets,     \* the datagrams the kernel may queue
    BufLen,      \* len(b) of every Read
    MaxPackets,  \* bound on the datagrams that arrive
    MaxSets,     \* bound on the calls of SetReadDeadline
    MaxTime      \* bound on the clock

ASSUME ActorsAssumption ==
    /\ IsFiniteSet(Readers) /\ IsFiniteSet(Writers)
    /\ Readers \cap Writers = {}

ASSUME PacketsAssumption ==
    /\ Packets \subseteq [from : {"service", "control", "other"}, size : Nat]
    /\ BufLen \in Nat \ {0}

ASSUME BoundsAssumption ==
    MaxPackets \in Nat /\ MaxSets \in Nat /\ MaxTime \in Nat

VARIABLES
    fdValid, activeOps, pollWaiters, readDeadline, deadlineSeq,  \* Conn
    sockOpen, wakeOpen, wake, wire, taken, now,                  \* the kernel
    pc, dl, seq, sz, pkt, out,                                   \* readers
    wpc, cpc,                                                    \* the others
    delivered                            \* indices of wire that Read returned

conn   == <<fdValid, activeOps, pollWaiters, readDeadline, deadlineSeq>>
kernel == <<sockOpen, wakeOpen, wake, wire, taken, now>>
locals == <<dl, seq, sz, pkt, out>>
vars   == <<conn, kernel, pc, locals, wpc, cpc, delivered>>

Locations == {"idle", "begin", "loop", "register", "poll", "drain",
              "unregister", "size", "recv", "release"}
Outcomes  == {"none", "ready", "changed", "retry", "packet",
              "data", "closed", "deadline", "error"}

PollLocations == {"poll", "drain", "unregister"}
HoldLocations == PollLocations \cup {"register", "size", "recv", "release"}

Polling == {r \in Readers : pc[r] \in PollLocations}
Holders == {r \in Readers : pc[r] \in HoldLocations}
           \cup {w \in Writers : wpc[w] = "sending"}

TypeOK ==
    /\ fdValid \in BOOLEAN /\ sockOpen \in BOOLEAN
    /\ wakeOpen \in BOOLEAN /\ wake \in BOOLEAN
    /\ activeOps \in Nat /\ pollWaiters \in Nat
    /\ readDeadline \in Nat /\ deadlineSeq \in Nat
    /\ wire \in Seq(Packets) /\ taken \in Nat /\ now \in Nat
    /\ pc \in [Readers -> Locations] /\ out \in [Readers -> Outcomes]
    /\ dl \in [Readers -> Nat] /\ seq \in [Readers -> Nat]
    /\ sz \in [Readers -> Nat] /\ pkt \in [Readers -> Nat]
    /\ wpc \in [Writers -> {"idle", "sending"}]
    /\ cpc \in [Closers -> {"idle", "rejected", "waitIdle", "asleep",
                            "closing", "closeWake", "closed"}]
    /\ delivered \in Seq(Nat)

Init ==
    /\ fdValid = TRUE /\ activeOps = 0 /\ pollWaiters = 0
    /\ readDeadline = 0 /\ deadlineSeq = 0
    /\ sockOpen = TRUE /\ wakeOpen = TRUE /\ wake = FALSE
    /\ wire = <<>> /\ taken = 0 /\ now = 1
    /\ pc = [r \in Readers |-> "idle"] /\ out = [r \in Readers |-> "none"]
    /\ dl = [r \in Readers |-> 0] /\ seq = [r \in Readers |-> 0]
    /\ sz = [r \in Readers |-> 0] /\ pkt = [r \in Readers |-> 0]
    /\ wpc = [w \in Writers |-> "idle"] /\ cpc = [c \in Closers |-> "idle"]
    /\ delivered = <<>>

-----------------------------------------------------------------------------
(* Helpers.                                                                *)

\* The zero time.Time is 0 and means no deadline.
Expired(d) == d # 0 /\ now >= d

Readable == taken < Len(wire)

Goto(r, l)         == pc' = [pc EXCEPT ![r] = l]
GotoWith(r, l, o)  == Goto(r, l) /\ out' = [out EXCEPT ![r] = o]

\* notifyWakeFD, as both callers guard it: a token in the eventfd.
NotifyPollers == wake' = (wake \/ pollWaiters > 0)

\* Mutant: releaseFD without the broadcast.
ReleaseSilently == activeOps' = activeOps - 1 /\ UNCHANGED cpc

\* releaseFD: the last operation wakes every Close asleep in waitIdle.
ReleaseFD ==
    /\ activeOps' = activeOps - 1
    /\ cpc' = [c \in Closers |->
                 IF activeOps = 1 /\ cpc[c] = "asleep" THEN "waitIdle" ELSE cpc[c]]

-----------------------------------------------------------------------------
(* Read.                                                                   *)

BeginRead(r) ==
    /\ pc[r] = "idle"
    /\ GotoWith(r, "begin", "none")
    /\ UNCHANGED <<conn, kernel, dl, seq, sz, pkt, wpc, cpc, delivered>>

\* currentReadDeadline, and the check that follows it.
Snapshot(r) ==
    /\ pc[r] = "begin"
    /\ dl' = [dl EXCEPT ![r] = readDeadline]
    /\ seq' = [seq EXCEPT ![r] = deadlineSeq]
    /\ \/ Expired(readDeadline) /\ GotoWith(r, "idle", "deadline")
       \/ ~Expired(readDeadline) /\ GotoWith(r, "loop", "none")
    /\ UNCHANGED <<conn, kernel, sz, pkt, wpc, cpc, delivered>>

\* Mutant: acquireFDs that does not look at fdValid.
AcquireUnchecked(r) ==
    /\ pc[r] = "loop"
    /\ GotoWith(r, "register", "none") /\ activeOps' = activeOps + 1
    /\ UNCHANGED <<fdValid, pollWaiters, readDeadline, deadlineSeq, kernel,
                   dl, seq, sz, pkt, wpc, cpc, delivered>>

\* The head of recvPacketWithDeadline's loop: deadline check, acquireFDs.
AcquireFDs(r) ==
    /\ pc[r] = "loop"
    /\ \/ /\ Expired(dl[r])
          /\ GotoWith(r, "idle", "deadline") /\ UNCHANGED activeOps
       \/ /\ ~Expired(dl[r]) /\ ~fdValid
          /\ GotoWith(r, "idle", "closed") /\ UNCHANGED activeOps
       \/ /\ ~Expired(dl[r]) /\ fdValid
          /\ GotoWith(r, "register", "none") /\ activeOps' = activeOps + 1
    /\ UNCHANGED <<fdValid, pollWaiters, readDeadline, deadlineSeq, kernel,
                   dl, seq, sz, pkt, wpc, cpc, delivered>>

\* Mutant: registerPoll does not compare the sequence number.
RegisterUnchecked(r) ==
    /\ pc[r] = "register" /\ ~Expired(dl[r]) /\ fdValid
    /\ GotoWith(r, "poll", "none") /\ pollWaiters' = pollWaiters + 1
    /\ UNCHANGED <<fdValid, activeOps, readDeadline, deadlineSeq, kernel,
                   dl, seq, sz, pkt, wpc, cpc, delivered>>

\* The remaining time, then registerPoll with the deadline's sequence number.
RegisterPoll(r) ==
    /\ pc[r] = "register"
    /\ \/ /\ Expired(dl[r])
          /\ GotoWith(r, "release", "deadline") /\ UNCHANGED pollWaiters
       \/ /\ ~Expired(dl[r]) /\ ~fdValid
          /\ GotoWith(r, "release", "closed") /\ UNCHANGED pollWaiters
       \/ /\ ~Expired(dl[r]) /\ fdValid /\ seq[r] # deadlineSeq
          /\ GotoWith(r, "release", "changed") /\ UNCHANGED pollWaiters
       \/ /\ ~Expired(dl[r]) /\ fdValid /\ seq[r] = deadlineSeq
          /\ GotoWith(r, "poll", "none") /\ pollWaiters' = pollWaiters + 1
    /\ UNCHANGED <<fdValid, activeOps, readDeadline, deadlineSeq, kernel,
                   dl, seq, sz, pkt, wpc, cpc, delivered>>

\* waitReadable's poll returns: the eventfd is looked at before the socket.
PollWake(r) ==
    /\ pc[r] = "poll" /\ wake
    /\ Goto(r, "drain")
    /\ UNCHANGED <<conn, kernel, locals, wpc, cpc, delivered>>

PollReadable(r) ==
    /\ pc[r] = "poll" /\ ~wake /\ Readable
    /\ GotoWith(r, "unregister", "ready")
    /\ UNCHANGED <<conn, kernel, dl, seq, sz, pkt, wpc, cpc, delivered>>

\* Mutant: waitReadable takes a timeout for a readable socket.
PollTimeoutReads(r) ==
    /\ pc[r] = "poll" /\ ~wake /\ ~Readable /\ dl[r] # 0
    /\ GotoWith(r, "unregister", "ready")
    /\ UNCHANGED <<conn, kernel, dl, seq, sz, pkt, wpc, cpc, delivered>>

\* The timeout is at most a second of the remaining time, so the poll of a
\* read with a deadline may time out long before that deadline.
PollTimeout(r) ==
    /\ pc[r] = "poll" /\ ~wake /\ ~Readable /\ dl[r] # 0
    /\ GotoWith(r, "unregister", "retry")
    /\ UNCHANGED <<conn, kernel, dl, seq, sz, pkt, wpc, cpc, delivered>>

\* EINTR when nothing is ready, or POLLERR, POLLHUP or another poll error.
PollFails(r) ==
    /\ pc[r] = "poll" /\ ~wake
    /\ \/ ~Readable /\ GotoWith(r, "unregister", "retry")
       \/ GotoWith(r, "unregister", "error")
    /\ UNCHANGED <<conn, kernel, dl, seq, sz, pkt, wpc, cpc, delivered>>

DrainWakeFD(r) ==
    /\ pc[r] = "drain"
    /\ wake' = FALSE
    /\ GotoWith(r, "unregister", "changed")
    /\ UNCHANGED <<conn, sockOpen, wakeOpen, wire, taken, now,
                   dl, seq, sz, pkt, wpc, cpc, delivered>>

UnregisterPoll(r) ==
    /\ pc[r] = "unregister"
    /\ pollWaiters' = pollWaiters - 1
    /\ Goto(r, IF out[r] = "ready" THEN "size" ELSE "release")
    /\ UNCHANGED <<fdValid, activeOps, readDeadline, deadlineSeq, kernel,
                   locals, wpc, cpc, delivered>>

\* Mutant: a buffer of one byte without asking for the size.
SizeUnknown(r) ==
    /\ pc[r] = "size"
    /\ sz' = [sz EXCEPT ![r] = 0]
    /\ Goto(r, "recv")
    /\ UNCHANGED <<conn, kernel, dl, seq, pkt, out, wpc, cpc, delivered>>

\* TIOCINQ reports the size of the first datagram, 0 when there is none.
NextDatagramSize(r) ==
    /\ pc[r] = "size"
    /\ sz' = [sz EXCEPT ![r] = IF Readable THEN wire[taken + 1].size ELSE 0]
    /\ Goto(r, "recv")
    /\ UNCHANGED <<conn, kernel, dl, seq, pkt, out, wpc, cpc, delivered>>

\* recvfrom on a blocking socket: it waits while the queue is empty, and cuts
\* the datagram to a buffer of max(size, 1) bytes.
RecvFrom(r) ==
    LET size == wire[taken + 1].size
        room == IF sz[r] = 0 THEN 1 ELSE sz[r]
        n    == IF size < room THEN size ELSE room
    IN  /\ pc[r] = "recv" /\ Readable
        /\ taken' = taken + 1
        /\ pkt' = [pkt EXCEPT ![r] = taken + 1]
        /\ GotoWith(r, "release", IF n = sz[r] THEN "packet" ELSE "error")
        /\ UNCHANGED <<conn, sockOpen, wakeOpen, wake, wire, now,
                       dl, seq, sz, wpc, cpc, delivered>>

\* The ioctl or the recvfrom fails: EAGAIN or EINTR is retried, else reported.
SocketFails(r) ==
    /\ pc[r] \in {"size", "recv"}
    /\ \E o \in {"retry", "error"} : GotoWith(r, "release", o)
    /\ UNCHANGED <<conn, kernel, dl, seq, sz, pkt, wpc, cpc, delivered>>

\* releaseFD and what the loops of recvPacketWithDeadline, recvWithDeadline
\* and Read do with the outcome.
Release(r) ==
    LET p == wire[pkt[r]]
    IN  /\ pc[r] = "release"
        /\ ReleaseFD
        /\ \/ out[r] = "changed" /\ Goto(r, "begin") /\ UNCHANGED <<out, delivered>>
           \/ out[r] = "retry" /\ Goto(r, "loop") /\ UNCHANGED <<out, delivered>>
           \/ /\ out[r] \in {"deadline", "closed", "error"}
              /\ Goto(r, "idle") /\ UNCHANGED <<out, delivered>>
           \/ /\ out[r] = "packet" /\ sz[r] > BufLen
              /\ GotoWith(r, "idle", "error") /\ UNCHANGED delivered
           \/ /\ out[r] = "packet" /\ sz[r] <= BufLen /\ p.from # "service"
              /\ Goto(r, "begin") /\ UNCHANGED <<out, delivered>>
           \/ /\ out[r] = "packet" /\ sz[r] <= BufLen /\ p.from = "service"
              /\ GotoWith(r, "idle", "data") /\ delivered' = Append(delivered, pkt[r])
        /\ UNCHANGED <<fdValid, pollWaiters, readDeadline, deadlineSeq, kernel,
                       dl, seq, sz, pkt, wpc>>

-----------------------------------------------------------------------------
(* Write and localAddr, SetReadDeadline, Close.  A call that finds the     *)
(* connection closed returns ErrClosed and changes nothing.                *)

AcquireFD(w) ==
    /\ wpc[w] = "idle" /\ fdValid
    /\ activeOps' = activeOps + 1
    /\ wpc' = [wpc EXCEPT ![w] = "sending"]
    /\ UNCHANGED <<fdValid, pollWaiters, readDeadline, deadlineSeq, kernel,
                   pc, locals, cpc, delivered>>

SendTo(w) ==
    /\ wpc[w] = "sending"
    /\ wpc' = [wpc EXCEPT ![w] = "idle"]
    /\ ReleaseFD
    /\ UNCHANGED <<fdValid, pollWaiters, readDeadline, deadlineSeq, kernel,
                   pc, locals, delivered>>

\* Mutant: the pollers are not told.
SetQuietly(t) ==
    /\ fdValid /\ deadlineSeq < MaxSets
    /\ readDeadline' = t
    /\ deadlineSeq' = deadlineSeq + 1
    /\ UNCHANGED <<fdValid, activeOps, pollWaiters, kernel, pc, locals, wpc, cpc, delivered>>

SetReadDeadline(t) ==
    /\ fdValid /\ deadlineSeq < MaxSets
    /\ readDeadline' = t
    /\ deadlineSeq' = deadlineSeq + 1
    /\ NotifyPollers
    /\ UNCHANGED <<fdValid, activeOps, pollWaiters, sockOpen, wakeOpen, wire,
                   taken, now, pc, locals, wpc, cpc, delivered>>

Close(c) ==
    /\ cpc[c] = "idle"
    /\ \/ /\ fdValid
          /\ NotifyPollers
          /\ fdValid' = FALSE
          /\ cpc' = [cpc EXCEPT ![c] = "waitIdle"]
       \/ /\ ~fdValid
          /\ cpc' = [cpc EXCEPT ![c] = "rejected"]
          /\ UNCHANGED <<wake, fdValid>>
    /\ UNCHANGED <<activeOps, pollWaiters, readDeadline, deadlineSeq, sockOpen,
                   wakeOpen, wire, taken, now, pc, locals, wpc, delivered>>

\* Mutant: Close does not wait for the operations that hold the descriptors.
WaitSkipped(c) ==
    /\ cpc[c] = "waitIdle"
    /\ cpc' = [cpc EXCEPT ![c] = "closing"]
    /\ UNCHANGED <<conn, kernel, pc, locals, wpc, delivered>>

\* One turn of the loop in waitIdle; "asleep" is cond.Wait.
WaitIdle(c) ==
    /\ cpc[c] = "waitIdle"
    /\ cpc' = [cpc EXCEPT ![c] = IF activeOps > 0 THEN "asleep" ELSE "closing"]
    /\ UNCHANGED <<conn, kernel, pc, locals, wpc, delivered>>

CloseSocket(c) ==
    /\ cpc[c] = "closing"
    /\ sockOpen' = FALSE
    /\ cpc' = [cpc EXCEPT ![c] = "closeWake"]
    /\ UNCHANGED <<conn, wakeOpen, wake, wire, taken, now, pc, locals, wpc, delivered>>

CloseWakeFD(c) ==
    /\ cpc[c] = "closeWake"
    /\ wakeOpen' = FALSE
    /\ cpc' = [cpc EXCEPT ![c] = "closed"]
    /\ UNCHANGED <<conn, sockOpen, wake, wire, taken, now, pc, locals, wpc, delivered>>

-----------------------------------------------------------------------------
(* The kernel: a datagram arrives, the clock moves.                        *)

Arrive(p) ==
    /\ sockOpen /\ Len(wire) < MaxPackets
    /\ wire' = Append(wire, p)
    /\ UNCHANGED <<conn, sockOpen, wakeOpen, wake, taken, now,
                   pc, locals, wpc, cpc, delivered>>

Tick ==
    /\ now < MaxTime
    /\ now' = now + 1
    /\ UNCHANGED <<conn, sockOpen, wakeOpen, wake, wire, taken,
                   pc, locals, wpc, cpc, delivered>>

-----------------------------------------------------------------------------
\* A step the goroutine of a running Read takes by itself.
ReadStep(r) ==
    \/ Snapshot(r) \/ AcquireFDs(r) \/ RegisterPoll(r)
    \/ PollWake(r) \/ PollReadable(r) \/ PollTimeout(r)
    \/ DrainWakeFD(r) \/ UnregisterPoll(r)
    \/ NextDatagramSize(r) \/ RecvFrom(r) \/ Release(r)

CloseStep(c) == WaitIdle(c) \/ CloseSocket(c) \/ CloseWakeFD(c)

Next ==
    \/ \E r \in Readers : BeginRead(r) \/ ReadStep(r) \/ PollFails(r) \/ SocketFails(r)
    \/ \E w \in Writers : AcquireFD(w) \/ SendTo(w)
    \/ \E c \in Closers : Close(c) \/ CloseStep(c)
    \/ \E t \in 0..MaxTime : SetReadDeadline(t)
    \/ \E p \in Packets : Arrive(p)
    \/ Tick

Spec == Init /\ [][Next]_vars

\* The Go scheduler runs every goroutine, poll keeps its timeout, sendto
\* returns and the clock moves.  No call is promised to be made.
Fairness ==
    /\ \A r \in Readers : WF_vars(ReadStep(r))
    /\ \A w \in Writers : WF_vars(SendTo(w))
    /\ \A c \in Closers : WF_vars(CloseStep(c))
    /\ WF_vars(Tick)

FairSpec == Spec /\ Fairness

-----------------------------------------------------------------------------
(* Properties.                                                             *)

\* The two counters of Conn say how many goroutines are between acquire and
\* release, and how many between registerPoll and unregisterPoll.
CountersExact ==
    /\ activeOps = Cardinality(Holders)
    /\ pollWaiters = Cardinality(Polling)

\* A descriptor is closed only when no goroutine is between acquire and release
\* and none can get there: no system call reaches a closed (and perhaps reused)
\* descriptor number, whatever the interleaving of Read, Write and Close.
NoUseAfterClose ==
    ~(sockOpen /\ wakeOpen) => ~fdValid /\ Holders = {}

\* With one reader a change of the deadline, or Close, is never missed by a
\* poll: a reader in poll whose snapshot is stale has a token waiting for it.
NoMissedWakeUp ==
    \A r \in Readers :
        pc[r] = "poll" /\ (~fdValid \/ seq[r] # deadlineSeq) => wake

\* With one reader the blocking recvfrom is entered only when a datagram is
\* there, so a Read cannot block outside poll, where nothing would wake it.
RecvNeverBlocks ==
    \A r \in Readers : pc[r] = "recv" => Readable

\* With one reader the messages of the service that fit the buffer reach the
\* callers in the order of arrival, whole, and none is lost: each one taken from
\* the socket has been returned or is being returned by the reader that took it.
InFlight == {pkt[r] : r \in {q \in Readers : pc[q] = "release" /\ out[q] = "packet"}}
Wanted(i) == wire[i].from = "service" /\ wire[i].size <= BufLen

InOrderAndNoneLost ==
    /\ \A i, j \in 1..Len(delivered) : i < j => delivered[i] < delivered[j]
    /\ \A i \in 1..taken :
          Wanted(i) <=> i \in {delivered[k] : k \in 1..Len(delivered)}
                              \cup {k \in InFlight : Wanted(k)}

\* Close returns once it has taken the connection down: the readers and writers
\* it waits for let go of the descriptors.
CloseReturns ==
    \A c \in Closers : cpc[c] = "waitIdle" ~> cpc[c] = "closed"

\* A Read that is running when the connection is closed returns, and so does one
\* for which a deadline is set, before or during the call, and stays.
ReadEnds ==
    \A r \in Readers :
        /\ ~fdValid /\ pc[r] # "idle" ~> pc[r] = "idle"
        /\ pc[r] # "idle" /\ readDeadline # 0 ~> pc[r] = "idle" \/ readDeadline = 0

-----------------------------------------------------------------------------
\* What the counting of active operations is for: the descriptors are leased,
\* and given back to the kernel after the last lease has ended (LeaseSpec).
Phase == IF fdValid THEN "open" ELSE IF sockOpen THEN "closing" ELSE "freed"

Lease == INSTANCE FdLease WITH
    Users <- Readers \cup Writers, phase <- Phase, holders <- Holders

LeaseSpec == Lease!Spec
=============================================================================
