# A verification project for euicc-go

euicc-go is a Go library that manages the profiles of an eUICC (an eSIM): it
speaks SGP.22 to the card over a smart-card channel and to the SM-DP+ over HTTP.
This directory holds TLA+ modules of its parts, TLC configurations that check
them on small instances, and proofs that TLAPS checks for every value of the
constants. `PROJECT.json` ties every definition to the lines it models.

Run TLC with `tlc -config X.cfg M`, the prover with `tlapm M_proofs.tla`.

## 1. The system

```
  lpa.Client --- HTTP --------------------------------------------> SM-DP+, SM-DS
      |
      |  driver.Transmitter (one command at a time: the caller's business)
      v
  apdu.Transmitter (a mutex held for one command; blocks, GET RESPONSE)
      v
  apdu.SmartCardChannel:   at.AT     ccid.CCIDReader    mbim.MBIM     qmi.QMI (uim.Client)
                            |            |                 |           |            |
                        serial port  PC/SC library    mbim-proxy   QMUX transport  QRTR transport
                                                       (stream)     (stream)       qrtr.Conn (datagrams)
```

| Component | Source | State it keeps | Operations | Hard behaviour | What makes it correct |
|---|---|---|---|---|---|
| QRTR connection | `driver/qmi/qrtr/conn.go` | descriptors, `activeOps`, `pollWaiters`, deadline and its sequence number, the eventfd's token | Read, Write, SetReadDeadline, Close | goroutines interleave at every lock and system call; a condition variable; an eventfd shared by pollers | no descriptor used after it is closed; no wake-up missed; Close and Read return; messages in order, none lost |
| QMI transports | `driver/qmi/transport/{qmi,qrtr}` | the stream's or the socket's unread input, the socket's one read deadline | Transmit, Read | late answers, deadlines inside a message, 16-bit transactions that wrap, a Disconnect beside a call | an answer, or a refusal, is that of the request |
| UIM client | `driver/qmi/uim`, `driver/qmi/qmi.go`, `qrtr.go` | slot, client ID, channel, transaction counter | New, NewQRTR, Connect, OpenLogicalChannel, CloseLogicalChannel, Transmit, Disconnect | retries while the slot switches; a modem that keeps IDs | a Connect that succeeds has the slot active and ready; the channel is open; the client ID goes back |
| MBIM driver | `driver/mbim` | slot, channel, transaction, fragments collected | New, Connect, channel operations, Transmit, Disconnect | fragmentation both ways, messages between fragments, streams cut by a deadline, Disconnect beside a call | answers and commands are whole; Connect means ready; Disconnect returns |
| AT driver | `driver/at` | channel, lines read | New, Connect, channel operations, Transmit, Disconnect | no transaction number on the line; timeouts leave answers behind | a response belongs to its command; the channel is open; a failed open leaves no channel |
| CCID driver | `driver/ccid` | `pcsc.refs`; per reader context, handle, open, closed, channel | New, SetReader, Connect, channel operations, Transmit, Disconnect | readers share a library that is loaded and unloaded; each PC/SC call may fail | loaded while in use; no handle forgotten |
| APDU transmitter | `apdu`, `driver/transmitter.go` | channel, request reused for each block, response | NewTransmitter, TransmitRaw (Write, ReadAll), Close | one-byte block numbers, GET RESPONSE chains, class byte masked again and again | the card has the whole command, the caller the whole answer, on the right channel |
| Profile download | `lpa/download.go` and the requests it makes | the activation code; locals of one call | DownloadProfile | eleven exchanges with two peers, each may fail before or after it took effect; cancellation; refusal | nothing installed without consent; sessions cleaned up; what no error means |
| LPA requests of one exchange | `lpa/es10{a,b,c}.go`, `lpa/es9p.go`, the decoders of `v2` | none; the notifications are the card's | fifteen requests, HandleNotification | an answer that comes late is the next request's first; some decoders take what they did not ask for | an answer is of the request's kind; success means done; no notification lost |
| BER-TLV codec | `bertlv` | none | tags, lengths, trees to and from bytes | limits of the encodings; children past their parent's end | what is written reads back; what is read is stable |
| Bound package segmentation | `v2/bpp.go` | none | SegmentedBoundProfilePackage | headers rebuilt from children | the segments are the package |
| Primitives | `bertlv/primitive`, `v2/identifier.go` | none | integers, bit strings, digits | signs, widths, padding | what is written reads back |
| HTTP client | `driver/http.go`, `http` | none | SendRequest | a status without a body, a body without a header | what `Download` and `Lpa` take of it |
| Layouts of SGP.22, options, examples | `v2`, `lpa/euicc.go`, `examples` | none | encode, decode | none beyond their layout | unit tests of the repository |

The hazards of this code, each at its line with the properties aimed at it, are
under `hazards` in `PROJECT.json`.

## 2. The modules

| Module | Models | Run(s) |
|---|---|---|
| `QrtrConn`, `MCQrtrConn` | qrtr.Conn at the grain of its critical sections and system calls | `qrtr` |
| `FdLease` | abstract: descriptors are leased while open, freed after the last lease | refined by `QrtrConn` |
| `Transmitter`, `MCTransmitter` | apdu.Transmitter under driver.Transmitter | `transmitter` |
| `Download` | DownloadProfile with the two sessions it leads | `download`, `download_lost` |
| `Order` | abstract: the order in which the user agrees and the sessions open, bind, install and end | refined by `Download` |
| `Lpa` | the requests of one exchange, HandleNotification, what their decoders take | `lpa` |
| `Outbox` | abstract: a notification is kept until its SM-DP+ has it | refined by `Lpa` |
| `Uim` | uim.Client over both transports, one call at a time | `uim`, `uim_slot` |
| `QmuxShared` | Disconnect beside an exchange on one qmi-proxy socket | `qmi_disconnect` |
| `Mbim` | the MBIM driver and its wire format at the grain of frames | `mbim` |
| `At` | the AT driver, line by line | `at` |
| `Ccid` | the CCID driver, PC/SC call by PC/SC call | `ccid` |
| `Bertlv` | tags, lengths, primitives: writers and readers of octets | through `Codec` |
| `Codec`, `MCCodec` | trees and bound profile packages, written, cut, read | `codec` |
| `X_proofs` | theorems about `X`: QrtrConn, Download, Lpa, Mbim, At, Ccid, Transmitter, Uim; those about `Bertlv` and `Codec` are in `Download_proofs` | |

Each module declares its parameters as CONSTANTS with named assumptions, has
one action per operation, message or system call, and keeps what is outside the
library (kernel, modem, card, SM-DP+, PC/SC) in actions mapped as external.
Operators whose comment begins with `Mutant` are plausible bugs; each property
is shown to fail when one of them takes the place of the definition it follows.
No module has a RECURSIVE operator: what recurses over trees or octets is a
recursive function, so that it can be proved about. The theorems about the octets
that are exchanged stand after those about the call that exchanges them, in
`Download_proofs`; the names of `Codec` begin with its own (`CodecSpec`, `codec`)
so that both are in scope.

### QrtrConn
A reader is a program with a location `pc[r]`, a snapshot of the deadline and
its sequence number, and an outcome that it carries through `unregisterPoll` and
`releaseFD`. `WaitIdle` is one turn of the loop around `cond.Wait`. The kernel
queues datagrams (`Arrive`), moves the clock (`Tick`), and reports POLLERR or an
error of the ioctl or recvfrom at any time. `waitReadable` looks at the eventfd
before the socket, drains it and reports a changed deadline. A poll with a
deadline may time out at any time because the code caps the timeout at a second.

### Transmitter
Commands are lengths, answers numbered pieces. `Write` numbers the blocks with a
byte, reuses one request, and masks its class byte for each block; the class
byte is kept bit for bit, because the coding of channels 0-3 and 4-19 and the
repeated masking are what `OnOurChannel` is about. `Close` and the construction
of a transmitter over a channel that fails are actions.

### Download
One action per leg. An APDU leg may fail without a status; an HTTP leg ends in
one of `Replies`: accepted, rejected, unreachable (the request may have been
acted on), or an answer without a status. `cancelSession` is the two legs
`CancelCard` and `CancelServer`, with what the caller returns afterwards in
`pending`. `ctx` may become done between any two steps. A second call starts
over with the activation code, and its confirmation code, of the first.

`Order` is what the call promises whatever fails: the sessions are open before the
user is asked, the package is bound and installed only after the user agreed, and
the SM-DP+ cancels only what the card does not hold. `Ord == INSTANCE Order WITH`
`Agreed` (consent, and the right code if one is asked for), `EUICC` (`open` from
an authenticated card to the last segment, `installed` until the next call) and
`Server` (`initiated` and `authenticated` are both `open`).

### Lpa
A request goes into `queue`, the card serves them in order, an answer waits in
`inbox`. `GiveUp` is a driver that timed out: the answer then comes to a later
request, as `At` and `Uim` show it can. `TakeAnswer` is the decoder of the
request that waits: `Accepts` says which answers it lets through (some compare
the tag, some look for the child they need). `Restart` is a client that starts
over: what the card and the SM-DP+ have (`pending`, `received`) survives it. The card
adds a notification for every change of a profile, and forgets one only when
`RemoveNotificationFromList` asks for its number.

`Outbox` has three variables and three actions: a notification is made, delivered,
perhaps again, and forgotten once delivered. Its `count` is `Len(made)`, its `kept`
is `pending`, its `delivered` is `received`.

### Uim and QmuxShared
`New` over QMUX (proxy open, client ID) or `NewQRTR`. One exchange runs at a time
under `Client.mu`. The modem answers in order, late if it likes; `queue` and
`inbox` outlive the exchange. QMUX skips a message only if type, client and
transaction are all wrong, where the client is the request's (`RequestClient`), which
is zero for a request to the control service, the release among them; QRTR compares the transaction after it has parsed the
message, so a late failure ends another exchange (`ReadFailure`), and
`FailuresMatch` says when. `HeaderCut` and `BodyCut` are deadlines inside a QMUX
message: the stream loses its place.

`Disconnect` does not take `Client.mu`. `QmuxShared` has it beside one exchange,
at the grain of the calls on the socket: arm the deadline, read the header, read
the rest, clear the deadline. The read deadline is the socket's, not the reader's.

### Mbim
A command longer than `MaxControlTransfer` goes out as fragments, whose headers
are computed as `Frames` computes them, with the lengths of the code. `ReadFrom`
is one action per frame: skip, take whole, first fragment, next fragment. A
fragment out of order ends the exchange. `Disconnect` is called while another
call holds the mutex and waits for it.

### At
`sendCommand` is one action per line: data is collected, OK and ERROR end the
command, a deadline between or inside lines gives it up and leaves the rest in
the port or in the bufio reader. `LineCut` keeps the rest of a cut line, which may
still read as a bare response. A modem may answer with or without `+CSIM:`.
Over Linux, the zero-byte read that VTIME ends in comes out of os.File as io.EOF;
it ends the command as errReadTimeout would.

### Ccid
Every PC/SC call is a step and may fail. `AcquirePCSC` and `ReleasePCSC` are the
critical sections of `pcsc.mu`; between them the readers interleave freely. A
`Connect` on a connected reader overwrites its handle, as the code does.

### Bertlv and Codec
Readers take a sequence of octets and a position and return the position that
follows, or `Failed`; writers return octets, so that the lengths, the limits of
each form and the order of the octets of a tag number are those of the code.
`Codec` is a machine of one value: it is written (or refused), may be cut from
its end, and is read; or foreign octets arrive one by one and are read.
`TlvLen`, `WriteTo`, `Clone` and `Nodes` recurse over the levels of a tree
(`TLVs`). `ReadChildren(s)` gives, for a position and an end, what the loop of
`TLV.ReadFrom` reads between them; `ReadFrom` is the body, given that function. Its
position only grows, which is why the recursion ends whatever the octets say.

## 3. What the runs check

| Run | Instance | Question |
|---|---|---|
| `qrtr` | 1 reader, 1 writer, 1 closer, 2 datagrams of 3 kinds, 2 deadlines, fairness | `NoUseAfterClose`, `NoMissedWakeUp`, `RecvNeverBlocks`, `InOrderAndNoneLost` in every interleaving; `CloseReturns`, `ReadEnds`; refinement of `FdLease` |
| `transmitter` | blocks of 2 bytes; lengths 0-5 and 510-513; channels 0, 3, 4, 19; 1, 255 or "256 and more" (6100) bytes announced | whole command exactly up to 256 blocks, whole answer, last block flagged, right channel |
| `download` | 3 segments, 2 calls, every reply | consent, cancellation, no session forgotten, the card first, what no error means; refinement of `Order` |
| `lpa` | 1 profile, filters none and one, 3 requests, 2 notifications | whose answer is taken, what success means; refinement of `Outbox`: no notification lost, made up or back |
| `uim` | 2 slots, 1 channel, 4 transaction identifiers, 2 polls, 2 calls, 1 sync | whose answer and whose refusal is taken, what success means |
| `mbim` | 2 slots, messages of 4096, 8172 and 8173 bytes, answers of up to 3 fragments, 2 calls, 1 indication | whole answers and commands, Connect, Disconnect returns |
| `at` | 2 channels, 3 calls | whose response is taken, which channels the card has |
| `ccid` | 2 readers, 1 channel, 4 calls | library loaded while used, handles accounted for |
| `codec` | every TLV, package and value of `MCCodec`; up to 5 foreign octets of 7 | reads back, stable, segments are the package |
| `download_lost` | violation | finding 1 below |
| `uim_slot` | violation | finding 2 below |
| `qmi_disconnect` | violation | finding 3 below |

`qrtr` and `lpa` check deadlock. The other runs state `CHECK_DEADLOCK FALSE`: their
number of calls is bounded and the system stops when they are made, or, in
`codec`, when the value is read.

Types are invariants of the proofs (`TypeCorrect` of each proof module); only
`uim` checks `TypeOK` in a run.

### Bounds
* *Readers, writers, closers.* `uim.Client.mu` allows one reader, so the run has
  one; with two readers that poll one eventfd the first to drain it takes the
  token of the second, and `NoMissedWakeUp` is false. The proofs drop the bounds
  on writers and closers, and on readers where one is not needed.
* *Deadlines.* Two calls of SetReadDeadline: one before and one after a snapshot.
* *Lengths.* 0-5 are below, at and above one and two blocks of two bytes;
  510-513 fill 255 blocks, 256 blocks but for a byte, 256 blocks, and begin a 257th,
  where the number is 0 again.
* *Transactions.* Four identifiers make the counter wrap within one instance,
  and a stale answer meets its own number again; `AnswersMatch` says so.
  `uim_slot` has all 65536.
* *MBIM sizes.* 4096 fits in one transfer, 8172 fills two fragments exactly, 8173
  needs a third. The transfer size is the code's; three fragments have a first,
  a middle and a last.
* *Octets.* `MCCodec` takes values around 0, 128 and 256 octets, tag numbers around
  31, 128 and 2^14, nested nodes whose own length crosses 128, nil children,
  packages that lack, repeat or permute a child. The seven foreign octets are an
  end-of-contents, a tag, two lengths, a constructed tag, a long tag, a long
  length and one that is none of these.
* `MaxOctets` (264) bounds the octets of a TLV that callers write, with
  `4 * MaxOctets <= MaxLength`, the 2^24 - 1 of three length octets, because
  reading and writing again may turn a length octet into four. It is far above
  what the LPA sends, and TLC's trees all lie below it. `MaxLevels` bounds the levels
  of a tree; each takes a tag and a length, hence `MaxOctets <= 2 * MaxLevels`, so
  that no tree of so many octets is left out.
* *Calls.* Two or three calls make one exchange late and read the answer in
  another; the AT driver needs three, because opening a channel is two commands.
* `MaxPackets`, `MaxSets`, `MaxTime`, `MaxPieces`, `MaxSyncs`, `MaxIndications`,
  `MaxMade`, `MaxCalls` bound counters only; no proof uses their values.

### Fairness
* `QrtrConn`: weak fairness of each step of a reader that runs, of sendto, of a
  Close under way and of the clock. The Go scheduler runs every runnable
  goroutine, the kernel ends a poll whose timeout is over and a sendto on a
  datagram socket. Nobody is obliged to call Read, Close or SetReadDeadline, no
  datagram need come, and failures are never required.
* `Mbim`: weak fairness of `ReadTimeout`: every exchange sets a deadline and the
  clock reaches it. Strong fairness of `Disconnect`: it waits for `MBIM.mu`, which
  is released between calls, and sync.Mutex hands itself to a goroutine that has
  starved for a millisecond. Without the first, a device that is gone would keep
  Disconnect waiting; without the second, calls could pass it for ever.
* `QmuxShared`: weak fairness of each goroutine's steps, of the 30 seconds each
  waits (`RunOut`) and of the second the socket is armed for (`Expire`). The modem
  may stay silent: that is what the deadlines are for.

### Findings
1. `download_lost`: `DownloadProfile` (`lpa/download.go:123`) asks the response of
   a failed AuthenticateClient for its status whenever it is not nil.
   `InvokeHTTP` returns a response without a header when the request fails in the
   HTTP client, so a lost reply makes the call panic. The abort of the other legs
   does not look at the response.
2. `uim_slot`: `Connect` sets `q.Slot = 1` once the slot is active, and a second
   `Connect` on that client compares the physical slot with it: with slot 2
   configured and active it switches the modem to slot 1.
3. `qmi_disconnect`: `Disconnect` sends its release without `Client.mu`
   (`driver/qmi/qmi.go:95`). An exchange that ends beside it removes the read
   deadline of the socket both read from; the release then waits without a limit
   and the socket is never closed.

Behaviour the models show that is no disagreement with a doc:
* A command of more than 256 blocks numbers a block 0 again, and the card is left
  with what follows it although the call succeeds (`WholeCommand` states that a call
  that succeeds left the whole command exactly if it has at most 256 blocks).
* A command of a multiple of the block size is never flagged as complete in P1
  (`FlaggedLast` states when the flag is set).
* A QMUX, AT or LPA answer that comes late is taken for the next one's
  (`AnswersMatch` and `OwnKind` state when that may happen). What a call makes of an
  answer that is not its own is not bounded further: `ConnectMeansReady`,
  `ChannelIsOpen` and `DesiredSlotActive` of `Uim` are about calls that took their
  own answers (`~mixed`, which begins anew with each call), `ChannelsRestored` and
  `ChannelIsOpen` of `At` about runs in which no command was given up (`~abandoned`).
* The requests of the QMI control service leave the client at zero, as the
  modem's sync indication does: one that comes while New or the release of the
  client ID waits is taken for the answer. New goes on or fails; Disconnect fails,
  and the client ID stays allocated. Of the LPA's decoders
  only the two of EUICCInfo, and those of lists for an empty list, take another
  request's.
* `ListNotification` and `ListProfile` use the list of an answer without looking
  whether there is one; a late answer without it makes the call panic. `Lpa` has
  the panic as an outcome of its own.
* `RetrieveNotificationList` keeps the first of the notifications it is sent.
* A tag number of 128 or more is written least significant group first, with the
  continuation bit on its last octet: it never reads back (`ReadsBack`,
  `LongTagsRunOn`). The tags of SGP.22 are all below 128.
* A bit string of a multiple of eight bits gets a whole octet of padding, which the
  reader refuses (`PrimitivesReadBack`, `BitsReadBack`).

## 4. What is proved

Every invariant that a passing run checks is proved for every value of the
constants, and so are the three refinements. Each proof module has `TypeCorrect`
and one theorem for each property; below is the strengthening each rests on.

* **`QrtrConn_proofs`** (`CountersCorrect`, `SafeClose`, `WakeUpNotMissed`,
  `RecvFinds`, `MessagesInOrder`, `ImplementsLease`), for any finite numbers of
  readers and writers and any closers, datagrams and buffer. `NoUseAfterClose` is
  not inductive: Close goes on when it reads `activeOps = 0`, which says that nobody
  holds a descriptor only because the counter is exact, and a Close is past that
  point in two more steps. The inductive invariant is
  `IInv == TypeOK /\ CountersExact /\ ClosersWait /\ NoUseAfterClose`, where
  `ClosersWait` says that a Close under way has made `fdValid` false and that one
  past waitIdle has seen the last holder leave. `HoldStep` and `PollStep` reduce
  each action to one of three changes of the set of holders and of pollers; the
  counters follow from the cardinality theorems. With `SingleReader`, a reader that
  polls is counted, so a change of the deadline sees `pollWaiters > 0` and leaves a
  token that only this reader drains; `Kept` follows each datagram from the socket
  to the caller, and `Place` says what the reader knows of the one it is about to
  take, which is why recvfrom finds it. `ImplementsLease` is the refinement: every
  step maps to one of `FdLease` or to a stutter, because nobody acquires once
  Close began (`NoNewHolder`).
* **`Download_proofs`** (`NothingUnwanted`, `NothingAfterCancel`, `SessionsClosed`,
  `CardFirst`, `NilErrorSettled`), for any number of segments and calls and any
  subset of the HTTP outcomes. The invariant adds `Progress` (what each point of the
  code has established: consent before the code is asked for, a bound package
  before the first segment, no segment before the last check) and `Settled` (an
  installed profile leaves the card idle). The step is split along the code:
  `AuthenticateKeeps`, `PrepareKeeps`, `InstallKeeps`. `ImplementsOrder`, for the same
  constants, needs to know where both sessions are at each point of the code
  (`Led`): that an answer which the code goes on with left the peer in the state
  the next leg starts from. A leg whose answer is lost or refused still maps to
  the step of `Order` it took, or to a stutter.
* **`Lpa_proofs`** (`NothingLost`, `AnswersAreOfKind`, `SuccessIsDone`), for any
  profiles, filters and numbers of requests and notifications. No notification is
  lost because every removal on its way, and every number the caller may still
  send, is one the SM-DP+ has (`RemovalsSafe`). Success means done because the
  answers in `inbox` with the number of the request that waits are answers to it
  (`Numbered`, `AnswerTo`), and stay so while the card only adds to its
  notifications (`Grows`). `ImplementsOutbox` rests on `RemovalsSafe` and on `Named`:
  the numbers that the caller sends, and that answers carry, are of notifications
  that were made.
* **`Uim_proofs`** (`AnswersAreOurs`, `FailuresAreOurs`, `ConnectIsReady`,
  `ChannelStaysOpen`, `ClientIDGoesBack`), for any slots, channels, transaction
  identifiers, attempts and bounds. The modem answers in the order it was asked
  (`Ordered`). When the answer to the running request is read, no request is behind
  it that could still change the modem, so what it says is still true (`Told`,
  `Waits`); that is why Connect means ready and the channel is open in a call that
  took its own answers, whatever earlier calls gave up or took for theirs. `mixed`
  is what the theorems exclude: over QMUX a call that takes a late answer may be
  told anything, and `AnswersAreOurs` is all that is proved of it. Whose answer is taken needs `InTime`: while no request was
  given up, nothing but sync indications is on the way beside the running request;
  over QRTR the rest is arithmetic of transactions that wrap. The client ID goes
  back because answers that carry one are only on the way while their exchange
  runs (`Pending`), and what the modem holds is at most the client's own
  (`Returned`). TLC checked each conjunct on the instance of `uim` first.
* **`Mbim_proofs`** (`AnswersAreWhole`, `CommandsAreWhole`, `ConnectIsReady`), for any
  slots, channels, transfer size, command lengths, attempts and bounds. An answer is
  whole because the collector holds the first fragments of one message and no more
  (`Collected`); a command is whole because the queue only ever holds whole
  messages (`Pieces`), cut as `FramesFollow` says for every length; Connect means
  ready because only the running exchange can switch the slot (`Switching`), so that
  a good answer to it is still true when it is read (`Told`).
* **`At_proofs`** (`AnswersAreOurs`, `UndoRestores`, `ChannelStaysOpen`), for any
  channels and number of calls. While no command was given up the line is in one
  of five shapes (`InTime`): quiet, a command under way, lost, refused, or answered
  with what the card did.
* **`Ccid_proofs`** (`LibraryStays`, `HandlesKnown`), for any finite number of readers.
  `LifeCycle` ties the life of a reader to the step of the call it runs; the count
  of users follows from the cardinality of the readers in use.
* **`Transmitter_proofs`** (`ChannelNamed`, `AnswerComplete`, `CommandComplete`,
  `FlagIsLast`), for any block size below 255, commands, channels and answers.
  Any xx of a 61xx is an answer, 00 included. `InCommand` bounds what was sent,
  `Collected` says that the response is every piece so far, `Placed` that block
  numbers and bytes agree until the number wraps, and `Bounded` that the card puts no
  more than 256 blocks together: hence the equivalence in `WholeCommand`. `Flagged`
  needs one block fewer, because the count of blocks is a byte too.
* **`Bertlv`, in `Download_proofs`** (`LengthReadsBack`, `ShortTagReadsBack`,
  `LongTagsRunOn`, `IntegersReadBack`, `BitsReadBack`, `DigitsReadBack`): the operators
  of the codec.
  Every length below 2^24 and every tag with a number below 128 reads back,
  whatever follows; a tag of NewTag with a larger number does not, by itself. An
  integer reads back into every type that holds it and is refused by every other:
  what is written is the shortest form with its value (`Written`), which has no sign
  to skip (`NoneSkipped`), and no part of it overflows in the loop (`LoopValue`). The
  writer's buffer has four octets in the model and eight in the code. A bit
  string of any length reads back unless its length is a multiple of eight, and
  digits of any number read back. The groups of a number, the end of a tag and the
  last padding digit are CHOOSEn, so `Groups` and the lemmas beside it first show
  that there is one to choose, and only one.

* **`Codec`, in `Download_proofs`** (`TreesReadBack`, `ReadingIsStable`,
  `SegmentsAreThePackage`, `PrimitivesAreReadBack`), for all trees, packages, values
  and octets within `MaxOctets`. The prover cannot use an induction theorem that takes
  an operator, so induction is stated of sets: `AllNumbers` follows from `WFMin`, that a
  set of numbers which is not empty has a least one, and `AllSequences`, `AllTrees`
  (over the levels) and `AllPositions` (from the end of the octets) from it. A recursive
  function is a CHOICE until one is shown to exist: `TLVsAre`, `TlvLenIs`, `WriteToIs`,
  `CloneIs`, `NodesIs` and `ReadChildrenIs` build it level by level, or position by
  position, and `SumIs` and `FlattenIs` do so for sums and concatenations.
  * `WrittenIsRead`: by induction over the tree, at every position and whatever
    follows, the octets of a TLV read as its copy. It needs the shape of every tag
    (`TagShape`) and that its length fits; `SmallTags` is where NewTag gives that shape,
    and a copy of a tree with a larger tag is one that no reader returns
    (`CopySmall`), hence the equivalence in `ReadsBack`. That fewer octets are never
    enough follows from `ReadOfWhole`: what is read of a beginning is read of the
    whole, and no further.
  * `ReadIsReadable`: whatever was read, a child past its parent's end included, can
    be written, and fits. `ListSettles` shows by induction over the position that the
    levels and the octets of what was read are bounded by those of the input, a length
    octet becoming four at most; then `WrittenIsRead` gives that it reads back.
  * `SegmentsOfPackage`: the segments are the header and the first children of five
    tags, whatever their order (`SegmentsFlatten`), so they are the package's octets if
    its children are those, in order. The converse is that octets tell the tags of a
    list that was written (`ListsTold`), which is `WrittenIsRead` once more.
  * `ForeignIntegers`: the loop that skips repeated signs stops where the value is
    unchanged (`SkippedKeeps`), so the value is the two's complement of all the octets.
  * `CodecIInv` carries these to the machine: the octets are those of the source, a
    beginning of them, or foreign, and `got` is what reading them gives.

The assumptions are those the modules name with ASSUME (`ActorsAssumption`,
`SizesAssumption`, `ProfilesAssumption`, ...), which TLC evaluates in the runs, and
`SingleReader` where a theorem states it.

Only model-checked: the liveness properties `CloseReturns`, `ReadEnds` and
`DisconnectReturns` of `Mbim`, as fairness and ENABLED are out of the prover's reach.

## 5. What is not modelled

* *Discovery* (`lpa/es11.go` as a chain): the same legs
  as those of `Download`, with nothing kept between them.
* *LPA options and construction, texts of errors, error tables*: data without control.
* *The layouts of SGP.22 messages*: `Download` and `Lpa` take from them which answers
  are accepted and which carry a status.
* *`serial_windows.go`*: the same port on Windows. *Examples*: sample code.
* *Booleans and big integers*: one conversion each.
* *The service lookup of QRTR*: it runs before the connection is shared; `Uim`
  has it as the failure of `NewQRTR`.
* *Two readers on one QRTR connection*: `uim.Client.mu` excludes them; see Bounds.
* *Two concurrent downloads on one client*: the sessions of the eUICC are one, and
  the library leaves that to its caller.
* *AT lines that belong to no command* (`at.go:46`): they never decode, and that a
  stream of them holds the call for ever follows from the loop.
* *Responses shorter than two bytes* (`apdu/response.go:11`): `Transmitter` has answers
  with a status.

## 6. Plan

Done, in this order: `QrtrConn` with `FdLease`, its proofs; `Transmitter`;
`Download` and its proofs; `Uim`; `Mbim`; `At`; `Ccid`; `Bertlv` and `Codec`; `Lpa`;
`QmuxShared`; proofs of `Lpa`, `Bertlv`, `Ccid`, `At`, `Transmitter` and `Mbim`; proofs
of `Uim`; `Order` and `Outbox` with their refinements; integers, bits and digits of
`Bertlv`; trees, segments and foreign octets of `Codec`.

Next:
1. An abstract exchange (one command whole, one answer whole or an error) that
   `Transmitter` refines, from `WholeCommand` and `WholeAnswer`.
2. `At`: unsolicited lines, and what bounds a command that reads them.
3. Responses of fewer than two bytes, from the driver that returns them to the
   accessor that fails on them.
