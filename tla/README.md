# gflex in TLA+

gflex is a command-line program for the VFLEX, a USB-C Power Delivery adapter
that is set up over USB-MIDI and updated over a bulk interface of its
bootloader.  This directory models the parts of it whose correctness depends on
the order of events: answers that carry no request tag, a reader goroutine that
races `Close`, timeouts that race late answers, frames that are lost, units
that are unplugged, swapped or left half flashed.

Paths below are relative to the repository.  `PROJECT.json` maps every
definition to the lines it models, lists the runs, and gives for each property
a mutation of the code that breaks it.

## The system

| part | source | state | how it meets the others |
|---|---|---|---|
| framer | `internal/framer/framer.go` | reader goroutine, two buffered channels, `started`, `closed`, `done`, `readerExit` | feeds bytes of a transport to the decoder, hands frames and one terminal error to its consumer, writes frames message by message |
| decoder, MIDI | `internal/framer/decoder.go`, `midi.go` | MIDI running status, frame accumulator, overflow count | called by the reader, one byte at a time |
| session | `internal/session/session.go` | a one-slot semaphore, `closed` | one command at a time over a framer: drain, send, wait, settle |
| accessors, info, PDO log | `internal/session/accessors.go`, `info.go`, `pdolog.go` | none | sequences of commands with retries, budgets and error marks |
| monitor | `internal/cli/monitor.go` | none | consumes a framer until the link dies or the context ends |
| bootloader | `internal/bootloader/{update,flasher,frames}.go` | the result, the rounds | serial, flash, verify, jump over two bulk endpoints; connect and pick the interface before |
| image | `internal/bootloader/firmware.go` | none | a document, from the service or a file, read as pages of equal length |
| download | `internal/bootloader/websocket.go`, `internal/cli/writefile.go` | the socket, the deadline, the message so far; the file and its temporary one | one request of the vendor's service over a WebSocket client of its own, and the reply saved |
| finding a unit | `internal/usbfs/{descriptors,enumerate}.go`, `internal/transport/rawmidi/discover.go`, `internal/cli/connect.go` | none of its own; the bus and the nodes change under it | the transports and the bootloader's flasher are opened on what it finds |
| usbfs | `internal/usbfs/` | claimed interfaces, the `releasing` flag | ioctls that move an interface between the program and its kernel driver |
| transports | `internal/transport/{usbmidi,rawmidi}` | pending bytes, `closed` | the framer's byte stream, over usbfs or a device file |
| commands | `internal/cli/` | the flags | settings and their interlocks, firmware flow, scan, monitor, queries |
| algorithms | `internal/proto`, `internal/pdo`, `internal/cli/interlock.go` | none | frame and payload codecs, PDO parsing and matching, version and limit rules |

There are two goroutines that matter, the framer's reader and the one that
runs the command; a download adds the one that closes its socket when the
context ends.  Every context descends from one `signal.NotifyContext`, so
an interrupt ends all of them at once; the package interfaces allow more, and
the models say where that makes a difference.

What makes each part correct:

* framer: no frame is lost or reordered before `Close`; a dead link is told
  apart from a closed one; `Close` returns, and nothing is delivered after it;
  no channel is closed twice or written after its close.
* decoder: any frame that arrives whole is delivered whatever came before it;
  nothing is dropped in silence; no index leaves its array.
* session: an answer is given to the command it answers; a write that may have
  landed is never denied, and one that did not is never marked; every call
  ends; closing ends all of them.
* bootloader update: a unit is started only on the image, or on what the
  operator accepted beforehand; a refusal has written nothing; what the
  result says of the jump is true; the update returns.
* usbfs: an interface whose driver was taken away gets it back, or the user is
  told that it did not.
* settings: what is said of a write is never stronger than what is known;
  interlocks judge only values that mean something.
* image: what is flashed is what the document states, page for page, or nothing
  is; what `fetch` saves is read back as what was fetched.
* download: the reply is taken whole and in order, or a reason is given; memory
  is bounded whatever the server claims; an interrupt ends it; a file is the
  old one or the new one whole.
* finding a unit: what is opened is the unit that was meant, while units come,
  go, change mode and take over each other's addresses; none that could be
  flashed is given up on; nothing is left open by a failure.
* firmware flow: the same unit before, during and after; the advice to flash
  again, or not to, is right in every failure.
* scan: the log that is evaluated is the one recorded, since the erasure, by the
  unit erased; no current is reported that the source does not supply; nothing
  it recorded is passed over.

## Modules

| module | models |
|---|---|
| `Framer` | `Start`, `readLoop`, `Close`, the two channels.  One action per select arm, per deferred close and per step of `Close` between two points where another goroutine can run.  Frames are opaque; the byte stream is `Decoder`'s |
| `Monitor` | the framer used by `runMonitor`, with callers of `Close` beside it.  `MCMonitor` instantiates it |
| `CommandContract` | abstract: what a command promises over a link that may lose it, its answer or itself |
| `Session` | callers of `exchange` and `SendNoACK` over a framer (`INSTANCE Framer`) and a device that serves, loses and delays.  `MCSession` instantiates it |
| `SessionProofs` | theorems about `Session` |
| `Decoder` | `feedByte`, `complete`, `message`, byte for byte |
| `UsbMidi` | event packets: `PackPacket`, `UnpackPackets`, `splitMessages`, `fitPackets` and the batching of `WriteMIDI`, without variables |
| `MidiStream` | the decoder fed with encoded frames, compressed or not, cut short, too long, as a byte stream or through `UsbMidi`, and with foreign traffic.  `MCMidiStream` instantiates it |
| `Update` | `update` with the flasher's `Serial`, `Flash`, `Verify`, `JumpToApp` and `awaitACK`, against a unit and its two endpoints.  `MCUpdate` instantiates it |
| `BootloaderProofs` | theorems about `Update` and `Opening` |
| `Usbfs` | `ClaimInterface`, `detachThenClaim`, `ReleaseInterface`, `attachDriver`, `Transfer` and the descriptor's close, against the kernel's owner of the interface, goroutines with transfers under way, and other programs.  `MCUsbfs` instantiates it |
| `UsbfsProofs` | theorems about `Usbfs` |
| `Flash` | `firmware flash` and `firmware recover` from the first question to the replay of the settings, with units that come, go and are swapped.  The bootloader's part is any outcome `Update` allows.  Run as it is |
| `FlashProofs` | theorems about `Flash` |
| `Settings` | the commands that write a setting, with interlocks 1 to 3, `SetVoltageMv`, `VoltageMv`, the read-backs and what each prints, and `raw` for the two fields the interlocks guard, against a unit that acts late, keeps its value or never acts.  `MCSettings` instantiates it |
| `Capability` | `internal/pdo` without variables: `Parse` with every class of object, the current an object supplies at a voltage, `Evaluate` with its caveats |
| `Scan` | `scan`, `pdo dump` and `pdo clear`: erasing, the handover with and without a prompt, the identity check, the download in chunks, and `Capability`'s verdict, with units that are carried between the host and a power source.  `MCScan` instantiates it and lists the sources |
| `Image` | a document without variables: every shape of the pages a document may have (`normalisePages`, `decodePage`, `decodeChunkedPage`, `decodeByteString`), the raw image with its padding, `newFirmware` with what `printableASCII` leaves of a version, and what `marshalFirmware` writes |
| `WebSocket` | `wsDial` and `FetchRaw`: the handshake with its header limit, `readFrame` and `readMessage` with the ceiling, the hooks that close the socket, against an endpoint that fragments, interleaves, stalls, leaves or breaks the protocol |
| `SaveFile` | `writeFileAtomic`, with calls that fail and power that goes between any two of them; what a process sees and what the disk has are kept apart |
| `Fetch` | `firmware fetch` from the serial number to the file, and `firmware flash FILE` reading it: the composition of the three.  `MCFetch` instantiates it and lists the documents |
| `FetchProofs` | theorems about `Image`, `WebSocket`, `SaveFile` and `Fetch` |
| `Descriptors` | a blob of descriptors taken apart, the configuration in force, and the two rules that choose an interface; without variables |
| `Bus` | external: the machine, on which units come, go, change mode, reuse addresses, and have nodes that are denied until udev has applied its rule |
| `UsbOpen` | `ConnectWithOptions`, `connectOnce`, `Flasher.claim`, `EnsureConfigured` and `usbmidi.OpenAuto`, one action per look at the machine |
| `Ports` | rawmidi `Discover` in its two passes, `SelectPort`, `openRawMIDI` with its wait for the node, and the two warnings |
| `Opening` | the three ways to a unit on one machine: `UsbOpen` and `Ports` over `Bus`, with the fallback between the two MIDI routes.  `MCOpening` instantiates it and lists the units |
| `MonitorProofs` | theorems about the receiving side: `Framer` and `Monitor`, `Decoder`, and `MidiStream` with `UsbMidi` |
| `SettingsProofs` | theorems about `Settings` |
| `ScanProofs` | theorems about `Capability` and `Scan` |

An operator whose comment says *mutant* is not part of a model: it is the
changed form of the definition it names, and the runs must notice it.

Correspondence, where it is not by name:

* `Framer!port` is what the transport answers: `open` reads and writes, `gone`
  fails both (the unit was unplugged), `closed` is after `t.Close`.  `wire`
  holds frames `ReadMIDI` has not returned, `held` those of the batch `Feed`
  returned that are not yet on the channel.
* `Framer!closer[k]` is the program counter of a caller of `Close`: `signal`
  and `closePort` for the first, `wait` and `waitLater` inside `awaitReader`,
  `ok`/`okLater` for a nil error of the reader, `stuck`/`lateGiveUp` for the
  end of the grace period.  With `MayStick = FALSE` a `ReadMIDI` that `Close`
  interrupts returns within the grace period, which is what both transports
  promise; with `TRUE` it may not.
* `Session!pc[c]` follows `exchange`: `queued` in `acquire`, `locked` between
  the slot and the second look at `closed`, `stale` in `drainStale`, `send` and
  `sending` in `SendFrame`, `await`, and `settle` in `drainFor`.  `req.id` is a
  name the model gives a request; the program has none, and compares only
  `req.cmd`.
* `Update!phase` follows `update` through the flasher's methods; the three
  waits are `awaitACK` called from each.  `outq` and `inq` are the two
  endpoints, `flash` what the pages hold, `opt` the image's validity and
  declared CRC and the options of the call.
* `Usbfs!owner` is the kernel's owner of the interface: the driver, usbfs for
  this program, usbfs for another, or nobody.  `pc` follows the caller of the
  claim and of the release; `user[u]` a goroutine inside `Transfer`, from the
  transport's look at `closed` to the ioctl, which may make the kernel claim
  the interface again on its own (the *stray* claim).  `call` says for
  whom: the opening, its fallback, the claim that is given up, and then the
  transport with its goroutines or the bootloader's flasher.
* `Flash!pc` follows `runFlash` phase by phase.  `told` is the set of statements
  that reach the user, `named` says whether `--port` was given, `presence`
  whether the absence of a MIDI port means anything (`midiPresenceMeaningful`).
  `Mine` is the unit the command opened first; which unit a name or a port leads
  to later is what the properties are about.
* `Settings` runs one command at a time.  `pending` holds the frames sent and
  not answered, which the unit may act on yet, even during the next command.
  `said[f]` is what reached the user about field `f`: a printed line, a warning,
  or the text of the error, which `Execute` prints on an interrupt too.  `limits` is
  `LimitState` with the pair read; `Frame.aside` says that
  `--ignore-device-limits` set an unknown window aside.
* `Scan!pc` follows `runScan`; `reappear`, `leave` and `return` are the three waits
  of `scanAwaitHandover`, `prompt` and `replug` those of `scanHandover`.  `bound[u]`
  says that the MIDI driver sits on a unit, so that it has a port; `recognised[u]`
  that the port gives the vendor's ID (`IsVFlex`).  `memory` says only when a log
  was recorded; what is in it (`source`) is chosen when it is decoded, since
  nothing depends on it before.
* `WebSocket!call` is where the one request is, from `dial` to `done`; `left` is
  what the `headerLimitReader` of the handshake has, and `bound` that it is still in
  force.  `buf` with `started` is the message in `readMessage`, `frame` the header
  read whose payload is awaited.  The reply is its pieces `1 .. length`; a frame
  of anything else carries `Junk`.  `hook` says that `context.AfterFunc` is armed:
  it closes the socket on a goroutine of its own, so that the arming, the end of
  the context and the closing are three steps.
* `SaveFile`: `fresh` is the temporary file; `synced` and `recorded` are what a
  power cut leaves of its bytes and of the directory.  `Fetch!cmd` follows
  `runFirmwareFetch`; `loaded` is what a later `firmware flash` reads.
* `Image`: a document is the tree a JSON decoder sees.  A text is the bytes it
  encodes and how: `enc` is the one encoding it is meant in (`marked` is hex after a
  0x, `raw` base64 without its padding), `cut` that its last character is gone.  What the
  program takes it for is computed from its characters: `Digits` are those of base64, each
  as the number it stands for, and `SpellsHex` asks of every one whether it is a digit of
  hex.  A version is a sequence of `Chars`, of which "c" stands for any
  that is printed and is neither a dot nor a blank.
* `Bus!bus[u]` is where unit `u` is and in which layout; `file` is the process's
  descriptor, which stays with the unit it was opened on while its address may
  be given to another.  `UsbOpen!refs` is the enumeration being walked,
  `face` the interface picked, `allApp` the fail-fast verdict so far.
  `Ports!ports` is the list discovery builds, whose fields were read at
  different times.
* `Capability` counts in mV, W and units of 10 mA, in which every field of an object
  is exact; a word is four bytes.  Not being `Blank` stands for Go's `Mode`.

## Runs

| run | bounds | shows |
|---|---|---|
| `Monitor` | 2 kinds of frames, 3 sent, channel of 1, two callers of `Close` | `NoPanic`, `InOrder`, `EndsWithTheCause`, `CloseIsBarrier`, `CloseCompletes` |
| `Session` | 2 callers, 2 requests, one command code, 1 message a frame, answers within timeout + settle, one context | `AnswerIsMine`, the refinement `ContractSpec`, and `CallsReturn`, `CloseEndsCalls` |
| `SessionLossy` | the same with 2 command codes, reads, writes and jumps, 2 messages a frame, answers however late, contexts apart, a reader that may stick | `LandedNeverDenied` |
| `MidiStream` | frames of 1 to 5 bytes against a cap of 3, as bytes or as event packets, 4 bytes of noise drawn from every class of status byte | `WholeFrameDelivered`, `NothingLostSilently` |
| `Update` | 2 pages of 2 chunks, 2 frames of room in the unit, 1 corrupted page, 1 packet of zeroes, the answers, the verification and the last frames of an image that an interrupted run left, when a serial number is expected | `StartsOnlyTheImage`, `JumpReported`, `UpdateReturns` |
| `Usbfs` | 2 goroutines with a transfer each, 2 interventions of other programs, 2 calls that fail | `DriverBackOrReported`, `OneMishapCostsNothing` |
| `UsbfsStray` | the same with no intervention and no failing call | violation of `LossIsReported` (the finding below) |
| `Flash` | 2 units, one of them swapped or replugged once, an image of major version 5 | `ReplayLandsOnTheFlashed`, `AdviceIsEarned`, `StrandedIsTold`, `LossIsReported` |
| `Settings` | 2 commands; a scale of 0 to 4 on which 1 to 3 is the hardware's, 2 the default, and 7 typed by the user wraps to 2 | `NothingDenied`, `ShownIsHeld`, `RailGuarded`, `WideningAgreed` |
| `Scan` | 2 units, 3 moves between host, source and elsewhere; a log of 2 chunks with 2 attempts each; 187 sources of up to 3 objects in 4 slots; 9 voltages, 0 and exactly 15 V among them, at -1, 3, 4 and 6 A | `ReportedIsFresh`, `WatchedTheTrip`, `ErasureTold`, `NeverOverReports`, `NothingReachableMissed` |
| `Fetch` | pages of 2 chunks of at most 3 bytes, 3 pages at most, versions of at most 4 characters, 667 documents; replies of 1, 3 and 4 pieces against a ceiling of 3; 2 header reads, 2 lines, 2 control or empty frames | `ReplyOrReason`, `CeilingHeld`, `FileIsWhole`, `ImageAsStated`, `SavedIsFetched`, `CalledOffReturns` |
| `Opening` | 2 VFLEX units and a place for somebody else's card, 7 layouts, 2 addresses, 2 events on the bus (a unit plugged in, pulled out, reset, or its node released) | `ClaimsOnlyABootloader`, `OpenedIsMeant`, `ReadyIsClaimed`, `OpeningEnds` |

The type invariants are theorems where there are proofs; no run checks one.

Why the bounds are enough.  A caller interacts with one earlier request at a
time: two requests are the one that leaves something behind and the one that
meets it, and the second caller is there for the slot.  A channel of one fills
with one frame, where the program's 16 fill with sixteen; the proofs hold for
any capacity.  A frame of two messages has a point between two writes.  The
decoder's cap of 3 stands for 64: one data byte under, at and over it.  Two
pages of two chunks have a chunk that is not the last, a page that is not the
last, and a commit between two chunks; with room for two frames in the unit, one
can arrive while it is busy.  One transfer can slip into a release and a second
into its retry, so two goroutines are needed and a third adds nothing.  In
`Flash` what matters of the units is whether one is the one opened first: two
suffice.  In `Settings` a late frame belongs to one earlier command, and
a scale of five values has one below, on, between and above every bound the
interlocks compare with.  In `Scan` three moves are the trip to the source, the way
back, and one more, of the other unit or of this one at the wrong time; a
verdict rests on the best object of each of four classes, and two objects beside
the mandatory one meet in every pair of kinds, valid and not.  In `Fetch` a reply of
three pieces has a first fragment, one between, and a last one, and fills the
ceiling; one of four passes it, in one frame or by the sum of several.  Three pages
can be out of order in every way that two cannot; two chunks of at most three
bytes are equal, unequal, too short and too long, and the default of four bytes is none
of the extremes.  Of four characters of a version, which stand for the program's 64, none, one, two,
three or all can be blanks at the cut, and with the dots it is then too long, at the limit, or short of
it.  Four characters of base64, and the three that are left of them, spell hex in one and none in another
of the documents, with a 0x before it and without.  In `Opening` one unit is the one meant and the other takes its
address, is plugged in beside it, or is the application that stands in a
fail-fast's way; two events are a unit leaving and another coming.  A voltage of 0 and a current below 0 are what `Evaluate` refuses outright, and 6 A is past any cable.  Counters that grow without end in the program
(requests, noise, faults, frames sent, interventions, moves, commands) are
bounded by the constants `MaxReq`, `MaxNoise`, `MaxFaults`, `MaxFrames`,
`MaxMeddling`, `MaxMoves`, `MaxCommands`, `MaxFlood`, `MaxControls`, `MaxHotplug`, in
the guards.

Deadlock is not checked: each program ends, and its last state has no
successor.

### Fairness

Goroutines run: `WF` of the reader once its read can return, of a caller's
next step that waits for no timer, of a `Close` that has been entered.  In
`Monitor` the two arms of the select that are always ready again (a frame, an
error) are given `WF` one by one: Go chooses among ready arms at random, so none
is passed over for ever.  Timers fire only where a property says so:
`CallsReturn` assumes that the response and settle timers do
(`TimerFairness`, a hypothesis of the property and not of the specification);
`CloseEndsCalls` needs no timer at all.  In `Update` the host has `WF`, which covers
its timers: a wait is over only after a poll has found nothing.  In `Fetch` the client has `WF` for
what it does next and the hook for its one call, once armed and due: a
goroutine runs.  Nothing is asked of the server or of the context, so
`CalledOffReturns` has both as its hypothesis.  In `Opening` the steps of the
command have `WF`; the window's timer has `SF`, because the wait it ends is left and
entered again by every round of looking, and a `time.Timer` that has fired stays so.
No fairness is ever asked of the device, the operator or the bus.

### Assumptions of a run that are not the code's

* `SettleCovers`: an answer comes within timeout + settle or not at all.  The
  code cannot know; `settleAfterTimeout` is its bet.  `SessionLossy` drops it.
* `RootContext`: an interrupt ends every call's context at once, as `Execute`
  arranges.
* A write error means that the message did not leave.  A write that fails after
  its last byte has left the host is beyond what `SendFrame` can tell, and its
  comment makes the same assumption.
* `Update`: two different flash contents have different CRCs; a unit that is
  busy loses `WRITE_CHUNK` and `COMMIT_PAGE` frames only; a chunk that arrives
  makes the CRC computed before it worthless.  The bootloader is not in the
  repository: these are SPEC.md 10.5's, and everything else it may do, silence
  above all, is left open.
* `Update`, `CleanStart`: nothing an earlier run left behind is on the endpoints
  when no serial number is expected.  The CLI always passes one, and the
  answer to it flushes whatever precedes it.  Without one, and without the
  assumption, `StartsOnlyTheImage` would fail: an unanswered serial read is
  shrugged off (`update.go:210`), nothing else empties the endpoint, and the
  verify answer of an interrupted run of the same image can stand for the CRC
  of this flash.
* `Update`, `LeftoverAssumption`: what an earlier run left is frames and answers of its
  image and its verification; it had read its serial number, and nothing it sent
  is still to start the unit.
* `Usbfs`: `USBDEVFS_DISCONNECT_CLAIM` is one step of the kernel.  Two transfers
  that slip in, one before the release's `CONNECT` and one before its retry, are
  more than the retry covers; `OneMishapCostsNothing` says what one may do.
  `MaxFaults` calls may fail, each for a reason of its own: the claim, in one
  step or after detaching, the release, the reattachment and the release that precedes its
  second attempt.  The reattachment is asked
  again only when it is answered busy; any other failure of it leaves the interface
  without a driver and is reported, which `OneMishapCostsNothing` excepts by name.
  A claim that fails half-way throws away the error of its own release, and
  `DriverBackOrReported` counts the failed claim as the report.
* `Flash`: a jump whose send failed did not leave.  Settings can be replayed on
  another unit only if the serial number could not be read, which the
  properties name.  `--dry-run` is left out.
* `Settings`: a unit acts on frames in order, so that an answer means that
  nothing earlier is pending.  It may acknowledge a write and keep its value.  A
  link that dies under a write ends in `ErrTransportClosed`, which carries no
  mark, and is said to the user as "link dead".  A failure to connect has
  written nothing and is left out, and so is `--dry-run`.  `raw` is there only for
  the frames that carry a voltage or a window.
* `Scan`: a unit records a source it is left at, and never the host; its log is
  whole or empty.  A look at the ports does not fail.  `SourceAssumption`: what a
  source announces fits the array of objects, a word carries each field of it, and
  objects of an earlier source stay in the array only behind a count that says
  so.  A source's power is no less than any of its fixed objects up to 20 V
  claims, which is what the inferred budget of a power-limited range rests on.
  `--voltage` and `--current` are given.
* `Capability` computes exactly, the program in `float64` with an epsilon.  Over every
  object that can be encoded the two differ in one place: the inferred budget
  comes out 1 W lower for four fixed objects of voltages no source uses (6.25 V
  4.64 A; 12.5 V 2.32, 4.56 and 4.64 A).

* `Fetch`: TLS, the masking of what the client sends and the headers' wording are
  left out: an upgrade is answered rightly or is refused.  The disk keeps what was
  synced; of what was not, any part.  A rename is atomic in the directory.
* `Image`: a base64 text all of whose characters are digits of hex is read as hex, which
  the program does on purpose ("abcd", meant as 69 B7 1D, is AB CD); one that lost a
  character may still decode; and "0x" with nothing after it is base64 for one byte.
  `ImageAsStated` sets these three aside (`Ambiguous`) and no other; hex, which `fetch`
  writes, is never among them.  A version longer than is kept, whose last one or two
  kept characters were blanks, is cut a second time when a saved image is read
  back: `SavedIsFetched` sets it aside (`ShortOfTheCut`), and its pages not.
  `RepliesAssumption` has a document be what a JSON decoder may hand over, and no more.
* `Opening`, `ShapeAssumption`: descriptors tell the truth.  Those of a VFLEX are
  well-formed, and the mark of the application is in the configuration in force if
  and only if the application runs.  Of other makers' nothing is asked but the vendor.
* `Opening`, `Bus`: an address is given again only to another unit.  A unit is
  *undisturbed* if nothing has happened to it since the command last looked at
  the bus: what happens between a look and an open cannot be seen, and the
  properties about which unit was opened name it.

## Findings

`internal/usbfs/device.go:758`: the look at sysfs takes any driver for the one
that was taken away, usbfs included.  A transfer that was under way when
the interface was released can make usbfs claim it again, `Close` finds a
driver and reports success, and the descriptor's close leaves the interface
with none (`UsbfsStray`).

Met while modelling, with no run of their own:

* `internal/cli/firmware.go:1606`: SPEC.md has a failed flash "state clearly that the
  unit is still in bootloader mode and is re-flashable" (1455), and
  `bootloaderPhaseFailure` adds nothing because every error but an interrupt "carries its
  own text saying the same thing" (1136).  With a second unit running its application,
  the refusal of that one is the whole of the error when the jumped unit does not
  show up in time: of the unit that this command put into its bootloader, nothing is
  said.  The code does not keep the promise there, and `StrandedIsTold` does not claim it:
  `Refused` names the case, without which the run `Flash` fails after six states.  The
  other ways the search can end name the bootloader, if only in the note on how the LED blinks
  in it (`bootloaderLEDNote`).
* `pdo/evaluate.go:194`: SPEC.md row 9.5 has every object whose decoded range covers
  the request considered when a weaker one is short.  Above 20 V a PPS range is
  looked at only where no EPR object covers the request: 21 V at 3 A is refused by
  a 60 W EPR AVS object beside a PPS range that has 3.25 A.  SPR AVS beside a short
  fixed object is passed over the same way, but it has no range to decode.
  `PassedOver` names the two exceptions in `NothingReachableMissed`.
* `flasher.go:578`: the fail-fast is meant to keep waiting while a unit may be between
  its two modes, and asks for that that every candidate refuse as an application.  A
  unit that is off the bus at that moment is no candidate: with another VFLEX
  running its application the pass gives up.  `ReadyIsClaimed` is about units that
  are there.
* `websocket.go:625`: a failure to send the serial number is reported as it is,
  where the other steps look whether it was the context that ended.
* `bootloader/firmware.go:927`: the version of an image is cleaned of what could harm a
  terminal, cut at 64 characters, trimmed, and "..." added.  Where the cut falls
  behind one or two blanks the result is longer than 64 again, so that a saved image reads
  back with a dot more or less.  `"0x"` alone is taken for base64.
* `EnsureConfigured` and `Descriptors` read the sysfs directory of the port that was
  enumerated, while the descriptor belongs to whoever has the address by then.
  `ClaimsOnlyABootloader` holds for the vendor in every case, since the open
  device is asked for it, and for the rest where no other unit took over.
* rawmidi: the second pass of discovery can identify a port as somebody else's after
  it was selected by name; it is opened all the same, and the warning about
  names is suppressed.  The node's path is not looked at again between discovery
  and open.
* `framer.go:209`: the error of a `Close` that gave up on a stuck reader says that
  nothing further will be delivered.  The read may return with bytes
  afterwards, and the publishing `select` may choose the channel although `done`
  is closed.
* `session.go:387`: a call whose own context ends returns without settling, and
  its late answer can be taken for that of the next call with the same code.  In
  the program all calls share one context, and none follows the one that was
  interrupted.
* `scan.go:262`: a handover that is given up says that the unit holds no capture;
  it may hold a fresh one by then.
* SPEC.md row 9.5 has a refusal at 15 V or above carry a recorded cable fault.
  A verdict of too little current at 15 to 20 V does not: `finish` asks for a
  voltage above 20 V or an EPR object.

A comment that is out of date: `settings.go:46` says that
`Execute` prints nothing but "gflex: interrupted" on an interrupt; it prints the
error's text too (`root.go:142`).  `Settings` follows the code.

## Proofs

`SessionProofs` holds for any number of callers, commands, requests and messages
per frame, and any capacity of the frames channel, from `SessionAssumption` and
`FramerAssumption`, under both values of `MayStick`:

* `TypeCorrect`, `OneInFlight`: `TypeOK` and `SingleFlight` are inductive
  together.
* `NeverDenied`, `MarkJustified`: neither invariant is inductive.  `FateInv`
  adds where a request can be: not begun (`Untouched`), known to the device only
  if its last message was written (`DeviceKnows`), in progress with its caller
  (`InProgress`), and what its caller was told (`Truthful`).
* `OwnAnswer`, `AckMeansDone`, `PipelineQuiet`, assuming `SettleCovers` and
  `RootContext`: `QuietInv` says that whatever is in the pipeline - the device,
  the wire, the reader's hands, the channel - belongs to the one request in
  flight and is at most one thing, and that nothing is in it when a request is
  sent.  The `jump`, after which nobody waits, and an interrupt, after which
  nobody sends, are the two cases where something is left behind; `Life` and
  `Clean` carry them.
* `Implements`: every step of the session is a step of `CommandContract` or a
  stutter, from the same invariant.

Of `Decoder`, `MonitorProofs` holds for any cap from 2 to 255 and any sequence of bytes:
`DecoderTypeCorrect`, `NeverOutOfBounds`, `FramesWellFormed` and `SilenceTold`
(`NothingLostSilently`) follow from one inductive invariant, in which
`nData < want <= 2` whenever a status is in effect is what keeps the index in its array.

Of `MidiStream` it holds for any set of frames, any noise and any number of packets in a
transfer: `WholeFrame` (`WholeFrameDelivered`).  The bytes of a frame are counted as
`EncodeMIDI` sends them, three to a message.  `Trail` says of a stream that it takes the
frame from one of these places to another: a byte takes one place, a realtime byte none,
and a status that is in effect may be left out.  The encoded frame is such a trail from end
to end (`EncodedIsWhole`), and so it is with a realtime byte put in (`TickedIsWhole`).
`Follows` is what the decoder holds at each place, and `StepFollowed` takes it along: what
it emits is the frame, at the last place, and nothing before.  Over event packets,
`SplitFollows` takes `splitMessages` along the same trail, so that the messages it yields,
one after the other, are again a trail of the frame (`SplitIsWhole`); and what `WriteMIDI`
makes of any such messages, padded or not, `UnpackPackets` turns back into their bytes
(`WrittenIsRead`).  The invariant, `Coming`, is that what is left of the frame is a trail
from where the decoder is to the end.  `FlattenSeq` and `Split` are recursive functions;
that they are what each step makes of the step before is proved from the least place where
they would not be (`JoiningUnique`, `SplitByExists`).

Of `Framer` and `Monitor`, it holds for any capacity of the channel, any number of frames and of
callers of `Close`, with a reader that may stick or not.  Its invariant says who may close
which channel (`Ownership`: the reader alone, and once), where every frame is
(`Account`: shown, in the channel, in the batch, on the wire), and what the one
error can be at each point (`Cause`).

`BootloaderProofs` holds, of `Update`, for an image of any size, any calls, and any number of faults and
of packets of noise.  What has to be excluded is an answer that is not about this flash
standing for one that is, and each part of the invariant does so at one place.
`Asking`: while the serial number is awaited its answer, or the question, is behind
everything an earlier run left, so that the endpoints are clean when it has come.
`Passing`: a pass over the image has no verification before it, and the answer an
acknowledged frame gets is behind what is left of the pass.  `Verifying`: a CRC on its way
is that of what the flash holds, since no image frame is behind the request it answers.
`Licence`: the host goes on to the jump only with that comparison made or waived.
`OnlyTheImageStarted` (`StartsOnlyTheImage`) needs `CleanStart`, as stated above;
`JumpTold` (`JumpReported`) needs nothing.

Of `Opening` it holds for any number of units and addresses, any descriptors that tell the
truth, and any number of events on the bus.  The difficulty is that the command knows
only what it last saw, and each part of the invariant says, of the units to which
nothing has happened since, how what it knows relates to what is: `Seen` and
`Remaining` for the enumeration being walked, `Behind` for the unit behind the open
descriptor, `Configured` and `Chosen` for the configuration it read and the interface it
picked from it, `Found` and `Picked` for the list of ALSA ports, whose fields were read at
different times; `Holding` says what is open and claimed at each point, so that
no failure leaves anything behind.  `ClaimsABootloader`, `OpensTheOnlyOne`,
`NoneReadyIsGivenUp` and `NothingLeftOpen` follow.  What a blob of descriptors says is a
walk along it, which is reasoned about by its first wrong step: an induction over
data, done without the induction theorems by taking the smallest counterexample.

`UsbfsProofs` holds for any number of goroutines, interventions and failing calls.
`DriverAccountedFor` (`DriverBackOrReported`) and `AlarmJustified`
(`AlarmMeansLoss`) follow from what is known at each point of the release:
who owns the interface, what sysfs told, and which goroutines were under way
when the flag was set.  `OnlyInFlightStrays` and `RefusedAsClosed` state two facts
no run lists: a stray claim comes only from a transfer that was under way when
the release began, and a goroutine turned away after `Close` is told
`ErrClosed`.  `MishapSurvived` (`OneMishapCostsNothing`) follows `Course`, who has the
interface at each point of a run in which at most one thing goes wrong: whatever made
the first question busy, a stray transfer or a release that failed, is spent by the
second, since `Once` keeps out a goroutine that has had its stray transfer; the one
mishap that has no second question is a reattachment that fails, and it is reported.

`FlashProofs` holds for any number of units and any image version.  Its
invariant relates three identities - the unit insisted on, the unit connected,
the unit flashed - at each phase (`Identities`, `Landing`), what has been written
to the last (`Started`), why its window is rewritten (`Widening`), and what the
replay has brought back so far (`Restoring`).  The four properties of the run
`Flash` follow, and `WideningTold`.  `StrandedTold` goes by the error each phase ends with; the
search that ends on another unit's application is the exception it names.

`FetchProofs` holds for any length of the reply, ceiling, header limit and number of
control frames, and for any documents.  `Pieces` says where each piece of the reply
is: in the message, in the frame whose payload is awaited, on the wire in
order, or unsent.  `Protocol` relates what may come next on the wire to whether a
message has begun, so that an error of the protocol implies that the server broke it;
`Stage` counts header lines read and on the wire, so that the limit is hit only by a
server that sent too many.  `RepliesWhole` and `MemoryBounded` follow, `SavedWhole` from
`Placed`, which says at each step of the save what the directory and the disk have.
The image is a function of the document, so that its two properties rest on lemmas about
the operators of `Image`: pages joined are the bytes they were cut from, sorting
by the page's number puts each where it says if every number is there once, and what
`marshalFirmware` writes is read back as what it was given.  Base64 comes out as the bytes that
went in because as many characters as n bytes take hold n bytes (`DigitsHold`); a version
that was cleaned is printable, trimmed and no longer than is kept but for the dots
(`Clean`), and of such a one a second cleaning keeps everything, except where
`ShortOfTheCut` (`CleanStays`).  `Read` and `Kept` carry
this from the reply to the image and from the image to the file.  `ImageIsAsStated`,
`ImagesAreValid` and `SavedReadsBack` follow for every document: any number of
pages, any chunks, any encoding.

`SettingsProofs` holds for any envelope, default, field limits and window, anything a user
types, and any number of commands.  The invariant turns on the order in which
frames take effect: a window that was read is the unit's because nothing is
pending when an answer comes (`Fresh`), so a frame that rests on it can only be the
first on its way, and every later one carries its own licence - the envelope and
`--ignore-device-limits`, or the user's word (`Sent`).  `Told` relates the fields that a
command's own frames may have changed to what has been said of them.

`ScanProofs` holds for any number of units, of moves, of chunks and of attempts, and any
sources.  `Link` says that a unit carried off takes its link with it, `Expected` carries
the identity from the erasure through the handover to the second session, `Trip` that a
port which disappears while it is watched is the unit's own, and `Copy` that the chunks
read so far are the beginning of one log: a log changes only away from the host, and the
link that reads it does not survive that.  `Told` keeps the count of what has been said of
an erasure.  Two theorems are about `Evaluate` alone, for any log whose objects' fields are
naturals, which those of every parsed log are.  `BestIs`: what is looked up in a log supplies the
most there of all that may be looked up.  `SPRSettled`, `EPRSettled` and `OrEPRSettled` follow
the order of the classes: the pick that is kept is short of the request only where none of
the classes looked at after it is better.  `VerdictEarned` says of what is reported, and
`RefusalEarned` of a no, which object or lack of one stands behind it.
`NeverMoreThanSupplied` and `NothingMissed` take this to what the source really has.
A field that a word carries is the field that is decoded from its four bytes, for
each of the six layouts (`FixedDecoded` and its like), so that every object
`Parse` keeps is one the source announced (`SuppliedIsOffered`), at a current no higher
than it supplies (`BudgetBounded`: the inferred budget is at most the power the source
claims), and every one it announced is kept (`OfferedIsSupplied`).  `Answered` says of
each phase of the command which source, request and log the verdict is about.

Proved and not listed in a run, because a run would add nothing: `AckMeansDone`,
`PipelineQuiet`, `MarkJustified`, `NeverOutOfBounds`, `FramesWellFormed`, `OnlyInFlightStrays`,
`RefusedAsClosed`, `AlarmJustified`, `WideningTold`, `NothingSkipped`, `ImagesAreValid`,
`NothingLeftOpen`, `VerdictEarned`, `RefusalEarned`.

Only model-checked: the liveness properties `CallsReturn`, `CloseEndsCalls`,
`CloseCompletes`, `UpdateReturns`, `CalledOffReturns` and `OpeningEnds`, since the prover does
not reason about fairness.  Every other property of a run is a theorem.

## Not modelled, and the plan

In this order; each module is written with parameters as `CONSTANTS` and without
recursive operators, so that it can be proved about:

1. `info`: the nine optional reads (`session/info.go:37-226`), and the count that
   tells a dead link from a firmware that declines them; the version rules.
2. `CheckFlash` and `CheckRawFrame`; the payload codecs of `internal/proto`, with the theorems that go with them.

Of what is modelled partly: on the usb route `--port` matches over every bus, where `Opening`
has one; which of several errors the bootloader's search ends with, and its
wording, are left out; reads of USB-MIDI end at a packet.

Left out for good: the fake transport (a test double), and everything that only
prints.
