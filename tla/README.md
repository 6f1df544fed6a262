# Verification of FPGA-Retro

FPGA-Retro puts MiSTer console cores on PCIe accelerator cards. The cards have
no ARM processor beside the fabric and no video output, so the repository adds
two paths between a core and its host: words from the MiSTer main program
(`Main`) to the core's `hps_io`, over PCIe registers, and the core's picture to
a window on the host, over PCIe DMA. These two paths are the program's own
logic and are what this project models, checks with TLC and proves with TLAPS:
every safety property the runs check is also a theorem, liveness is checked only. Everything else in the repository is console cores of other
authors, pin tables, build scripts and documents.

Paths below are relative to the repository.

## 1. The system

```
        Main (x86)                                        retroview (x86)
  fpga_io_pcie.cpp   csrw.py                     viewer <- Frm1Parser <- transport
        |  registers   |                                                    ^
========|==============|==================== PCIe ==========================|======
        v              v                                               DMA ring
   hps_control   hps_din / din2 / dout / status (sys)                       ^
        |              |                                              async FIFO (sys)
        | MultiRegs    | req/ack toggles                                    ^
        v              v                                                    |
   HPS_BUS -> hps_io_wrap -> hps_io.sv -> core (core) --- VGA_* ---> VideoSink (vid)
```

| part | source | state it keeps | operations | module |
|---|---|---|---|---|
| HPS bridge, word path | `overlay/rtl/hps_pcie/hps_pcie.py` | queue of two words, word in flight, request/acknowledge toggles and their synchronisers, the core-side transaction | register writes, hand-over of a word, capture / strobe / acknowledge | `HpsBridge` |
| Main's backend, words and levels | `host/main_mistex_pcie/fpga_io_pcie.cpp` | program counter, polls, block length, enable levels | `fpga_spi`, `fpga_spi_fast`, six block procedures, `fpga_spi_en`, end and start of the process | `HpsHost` |
| `hps_io_wrap.sv`, `hps_io.sv` | `overlay/rtl/hps_pcie/hps_io_wrap.sv`; `hps_io.sv` is not in the repository | selection, answer | takes a strobed word, answers it | `HpsHost` (`HpsIo`, `Answer` external) |
| `hps_control` and its writers | `fpga_io_pcie.cpp`, `hps_pcie.py`, `tools/csrw.py` | the register, Main's shadow of it, a tool's copy | open, reset, levels, buttons, restart, crash; read-modify-write of the tool; load of a bitstream | `HpsControl` |
| Video sink | `overlay/rtl/video_sink/video_sink.py` | position, measured size, pending beat, drop state, three counters, FIFO | one clock of the video domain; a read; a write of `enable` | `VideoSink` |
| FRM1 stream | comments and code of the sink and of `stream.py` | the last beat | a beat | `Frm1Stream` (abstract) |
| FRM1 parser | `host/viewer/retroview/stream.py` | buffer, synchronised or not, statistics | `feed`, and every way out of `_next` | `Frm1Parser` |
| DMA ring and litepcie transport | `host/viewer/retroview/transport/litepcie.py`; the card's writer and the driver are not in the repository | ring, counts of the driver and of the transport, lock, buffers handed out, the half copied so far | open with its lock, map and start; refresh, poll, hand back, copy; close | `DmaRing` |
| test frames and their check | `TestFrameSource` in `overlay/mistex_boards/c1100_pcie_video.py`, `tools/frametest/frametest.c` | frame number and index; last word, verdict | a beat; a buffer | `DmaRing` |
| viewer, other transports, recorder | `viewer.py`, `cli.py`, `transport/base.py`, `file.py`, `windows.py` | newest frame, reads of a pass, time-out, what is recorded | one action for each outside call of a pass and of the cleanup | `Viewer` |
| capture sinks | `capture.py` | kept shots, the AVI's pieces and index | `add`, `close`, `read_avi_index` | `Capture` |
| hard-IP status and its tool | `HardIPStatus` in `overlay/mistex_boards/c1100_pcie_diag.py`, `tools/pcie-hardip.py` | latched flags, message counter, synchronisers; what the tool has read | an edge of either clock; clear, read | `HardIPStatus` |
| `dcfifo`, `scfifo` | `overlay/rtl/altera_compat` | pointers and their Gray copies | write, read, clear | planned: `DcFifo` |
| boards, platforms, other tools, stubs, vendored cores, documents | see `PROJECT.json` | none at run time | | not modelled |

How they interact. Main and the tools reach the card only through single
register accesses. The bridge turns a word written to `hps_din` into one strobe
on the core's `HPS_BUS`; the answer travels back with the next word. Enable
levels cross beside the words, each through a synchroniser of its own. The sink
watches the core's video signals and pushes beats into an asynchronous FIFO; it
can never make the core wait, so it must be able to lose frames without
spoiling the stream. The DMA writer empties the FIFO into a ring in host memory
and never waits for the host either. The transport learns from the driver's
counts which buffers are full, hands them back and only then copies them. The
viewer reads chunks in passes, gives each frame the parser finds to every
capture sink and draws the newest; the parser finds frames in whatever arrives,
in chunks of any size. Beside the two paths, the diagnostic image latches events
of the PCIe hard block, which a tool clears and reads over a UART.

What is hard: unrelated clocks on both paths; levels and words taking different
ways; a host that may be slower than a queue of two words, or be killed between
two register accesses; a poll limit that gives up, and reads that fail; two
writers of one register without a lock; registers assigned several times on one
clock, the last assignment winning; flushes requested on one clock and performed
on the next, when the state they belong to has moved on; headers that announce
the size of the frame before; chunks that split headers; buffers given back
before they are copied; cleanup code any step of which may fail; counters read
bit by bit across clocks. `PROJECT.json` lists each hazard at its line with the
properties that cover it, or why none does.

What correct means, part by part:

- bridge: every accepted word is strobed once, in order, for one clock;
  registers that cross the clock domains do not move while they are sampled;
  `busy = 0` can be believed; no accepted word waits for ever.
- backend: `fpga_spi` loses nothing and returns the right answer; unpolled
  procedures may lose words but not duplicate or reorder them; every call
  returns; a new process is not confused by the words of an old one.
- control: Main's shadow is true; a core is in reset only when somebody is
  answerable for it; the core always runs again.
- sink: the beats in the FIFO are a FRM1 stream whatever is lost; each frame is
  counted once; a frame counted as streamed was handed over whole; streaming
  resumes; a disabled sink falls silent.
- parser: no delivered frame mixes pixels of two; no complete frame is thrown
  away or held back; the statistics add up.
- ring: a buffer is the right one unless the card has gone round; torn or lost
  data is noticed; a program that does not get the writer leaves it alone; what
  the driver knows of is returned.
- viewer: every session that has a reason to end does; the transport is closed
  unless the cleanup itself fails; what a session showed is on its recording, and a
  replay shows the whole of it.
- sinks: a finished AVI reads back; what is kept for the contact sheet is bounded
  and reaches from the first saved frame to the newest, in order.
- hard-IP status: a report is consistent, and honest once no event is under way.

## 2. The modules

**`WordPipe`** is what the bridge promises, without clocks: a queue of at most
`Depth` words, at most one in flight, and an output on which each word appears
once.

**`HpsBridge`** is the word path of `HPSBridge`. A step is one rising edge of
one of the two clocks; which one ticks next is free, so every ratio and phase
is covered. A `MultiReg` is two registers of the destination clock; a first
register that samples a bit while it changes may take either value, and those
are the two orders of the two edges. `PushDin`, `PushDin2`, `Pop` and `SysWait`
are the branches of the sys process, `Capture`, `CoreWait`, `Strobe` and
`Acknowledge` those of the core-side state machine. Names are those of the
source (`q0`, `q1`, `count`, `req_s`, `ack_s`, ...). The refinement mapping
`Pipe` takes the queue as it is, the word in flight from a request that is not
yet strobed, and the output from `io_din` while `io_strobe` is high.

**`HpsHost`** extends `HpsBridge`: the backend as one thread, each register
access one edge of the sys clock with at least one edge without an access before
the next (`spaced`; over PCIe there are many), the procedures as values of `pc`, and
on the other side the core's answer. `Registers` is what a read may return.
`dout_was` and `en_was` remember what a multi-bit or multi-level crossing may
still show: a read of `hps_dout` while it changes returns any word, and the
levels of one write may arrive on different edges. `ReadFails` is a register
read that fails and returns 0. `Exit` may strike at any `pc`; `Restart` is
`fpga_io_init`. What the process does, and how often, is a *program*: a record
of the procedures it calls, block lengths, enable masks and bounds, chosen once
from `Uses`. `MCHpsHost` names six.

**`HpsControl`** is the register `hps_control` on its own: Main's shadow, the
calls that reset the core (`fpga_core_reset`, `reboot`, `app_restart` and
`fpga_load_rbf` are sequences of register accesses in `todo`), crashes, a tool
that reads the register, edits it and writes it back, and bitstream loads.

**`Frm1Stream`** says which beat may follow which: frames may be missing or cut
and headers may lie about sizes, but pixels come after the header of their own
frame, from the first one on, without a gap. It is the contract between the two
ends of the video path: the sink implements it, the parser relies on it.

**`VideoSink`** is one clock of the video domain as one action. `Sync`,
`Measure`, `Pack`, `Drop` and `Count` give each group of registers its next
value; where the source assigns a register more than once the expression lists
the cases from the last assignment to the first. The core is free within
`Timing`: VS changes only while DE is low and at least `Porch` clocks away from
DE, and every line DE shows has a pixel. A pixel is the place it was shown at,
so pixels lost, repeated or out of order are told apart. `unseen` are the reads
the writing side has not learnt of, so the FIFO may look fuller than it is.

**`Frm1Parser`** has `Emit` (the card adds any beat `Frm1Stream` allows), `Feed`
(a chunk of any size) and one action for each return or tail call of `_next`:
`Search`, `NeedMore`, `BadHeader`, `CutShort`, `Deliver`. Words stand for bytes:
chunks split beats but not words. `Leftovers` start the parser in the middle of
a stream.

**`DmaRing`** has every ioctl, poll and half copy of `LitePCIeTransport` as a
step. A buffer is two beats, so that the card can overwrite one half while the
other is copied; the driver learns of filled buffers by `Interrupt`, at any later
time; another program may take the writer whenever it is free. The data is that
of the card's test pattern, and the check that of `frametest`, whose calls are the
transport's: `gap` records whether beats really were missing or repeated, and
`errors` is what the check reports. Counts start when the writer is started.

**`Viewer`** (with **`Capture`**) is `Viewer.run`, from `transport.open()` to the
end of the `finally` clause. A chunk is the sequence of the frames the parser
completes with it, a recording the sequence of the frames in it. The transports
differ in what `read` may return: the card anything, the generator frames of two
chunks with skipped ones, a replay the recording cut anew at any places and then its
end; the placeholder for Windows refuses to open. A
session follows another as a new process that finds the recording of the one
before. Any call on the outside world may fail, drawing and the closing of the
recording included, and what Python then does, leaving the loop for
the `finally` clause and that for the caller, is in the values of `pc`. `Capture`
has the two sinks: a file is the sequence of its RIFF pieces with the sizes they
state, and `ReadBack` walks it by byte positions as `read_avi_index` does.

**`HardIPStatus`** has an action for an edge of the pcie clock and, for sys, one
per access of the tool or none. A bit that changed on the last edge may be
sampled before or after it, each bit of the counter for itself.

The theorems about a module `M` and their proofs are in `M_proofs` (section 4).
So that they can be stated there, recursion is written as recursive functions
(`Tell`, `Weight`).

Each module also holds *slips*, definitions that differ from the one below them
as a plausible mistake would. Nothing in the specifications uses them; they are
there to show, by putting one in the place of the real definition, that each
property can fail.

## 3. The runs

| run | distinct states | what it asks |
|---|---|---|
| `bridge` | 5 292 | all writes against all interleavings of the clocks, three words |
| `host` | 1 030 743 | six programs: one level or two, a process replaced with and without polling, calls that give up, failing reads, all procedures, blocks of 0 to 3 words, fairness |
| `video` | 819 026 | frames up to 2x2 with 3 lanes, FIFO of 2, `enable` written at any time, fairness |
| `parser` | 275 474 | frames up to 2x2 with 2 lanes, 3 frame numbers across the wrap, wrong sizes, skipped frames, every chunking |
| `control` | 198 471 | two crashes, one load, two presses of a button, fairness |
| `dma` | 48 108 | a ring of three buffers, lapped, with a second program, opening that fails, fairness |
| `viewer` | 287 108 | a session of up to 10 frames or a recording of up to 3, then a replay or another recording, one failing call, all transports, fairness |
| `status` | 1 801 371 | up to 9 messages on a counter of 3 bits, two clock ratios |
| `host_overrun`, `video_loss`, `parser_resize`, `control_button` | - | statements in comments or documents that do not hold, see section 5 |

What each shows:

- `bridge`: `HandshakeInv` (one change at a time travels round the ring of
  synchronisers), `BusyHonest`, `WordQuasiStatic` and `DoutHeld` (the two
  "quasi-static" comments), `PipeSpec` (refinement), `PipeFairSpec` (no word waits
  for ever).
- `host`: `Lossless` (polled words are taken once, in order, under the levels they
  were written for; three calls may go on without an answer before one is lost),
  `AnswerIsPrevious`, `OneWordLeftBehind` (a process that polls every word and is
  replaced leaves a word only if it was inside a call, and then that call's one),
  `SpiIsBarrier` (an answered call finds the bridge at rest, whatever a process
  before it left there), `InOrder`, `CallsReturn` (also with a core clock that has
  stopped).
- `control`: `ShadowTrue`, `ResetExplained`, `CoreRuns`.
- `video`: `StreamSpec` (refinement of `Frm1Stream`), `CountedOnce`,
  `CompleteWhenCounted`, `StreamsAgain` (a sink that is left enabled, with room in the
  FIFO from some time on, streams frame after frame again), `FallsSilent`.
- `parser`: `NoMix`, `NoneLost`, `Prompt`, `StatsAddUp`.
- `dma`: `ChunkRight` (also after a lap, which spoils only what it ran over),
  `VerdictHonest` (frametest errs in neither direction), `BlankThenData`,
  `OthersUndisturbed`, `NothingLeftBehind`, `EverythingReturned`.
- `viewer`: `ReplayComplete`, `AviReadsBack`, `SheetCovers` (what is kept reaches from
  the first saved frame to the newest and is never denser early than late),
  `Released`, `Ends`, `TimesOut`.
- `status`: `FlagCountAgree`, `CountHonest`, `SeenHonest`.

### Bounds, and why they are enough

- Words: the bridge copies words and never looks at them. Three values tell the
  two halves of a double write from the word in flight. In `host`, two suffice:
  every sequence of them is tried, so a lost, repeated or swapped word shows where
  its neighbours differ.
- `MaxPolls = 2` reaches both ends of `wait_not_busy`: an answer in time and
  giving up; the real 1000 changes how often, not what happens.
- Programs: four written words fill the queue, the word register and lose one. A
  restart needs only one call before it and one after; a failed read needs a
  second call that meets what the first left. One
  program has both, a read that fails before or after the restart.
- `Lanes`: the sink needs at least three for a beat that is neither first nor
  last pixel; the lines of a frame may differ in length, so frames of one to four
  pixels occur, on one line and on two: partial, exactly full and two beats, some
  across the end of a line. `CePix` is high on every clock. The proofs of
  `StreamSpec`, `CountedOnce` and `CompleteWhenCounted` are for every size, depth,
  number of lanes above two and behaviour of `ce_pix`.
- `Depth = 2`: empty, partly full and full; a header and a pixel beat compete
  for the last place. `CountMod = 2`: every counter wraps at once.
- Parser: `MaxWire` of two beats, because what has been fed is out of the
  card's hands; three numbered frames with one skipped reach a gap across the
  wrap of the number. `MaxDim = 2` equals the largest size shown, so all headers
  the card makes are plausible (see section 6).
- Ring: three buffers are the least for which oldest, middle and newest differ;
  13 beats are six buffers and a half, two rounds and the start of a third. The
  pattern has 5 pixels and 2 frame numbers, a period of ten beats against a ring of
  six, so no lap within these bounds looks like the next word; when laps do add up
  to whole periods, no check of the pattern can notice.
- Viewer: `DrainMax = 2` ends passes both by the bound and by an empty read. A sheet
  of at most three tiles keeps up to six frames: ten frames, all of them saved,
  thin what is kept twice, and sheets of three tiles are cut from three to six kept
  frames. `VideoEvery = 2` with encoded sizes 1 and 4 gives odd and even chunks in
  every order up to five; `SizeLimit = 180` is below the longest AVI the sessions
  make, so its overflow occurs. A recording of three frames is cut in every way,
  inside frames and behind any number of them. Two sessions are a recording and its
  replay, or a second recording over the first.
- Status: three bits make every mix of a carry; `MaxMsgs = 9` wraps the counter.
  `Ratio = 2` are up to two pcie edges in a sys cycle. `Gap = 5` is the least
  number of sys cycles between two accesses for which the properties hold (with
  4 a clear can still be under way at the next read), and what `SlowUart` assumes; at 115200 baud an access
  takes about a millisecond.
- Deadlock is checked everywhere except in the parser, which stops when the
  bounded number of frames has been sent and parsed, and in the viewer, which
  stops after its last session.

### Fairness, and why the code justifies it

- `bridge`: both clocks run, and a sys edge without a register write comes
  again and again. A write strobe is one cycle of the sys clock and a PCIe
  write takes many.
- `host`: the backend's own steps, and the edges of the sys clock between its
  accesses. Nothing is assumed of the core clock.
- `video`: the video clock runs, the core goes on showing frames
  (`[]<>` a change of VS), and the DMA reads what is there.
- `control`: a process that ended is started again and opens the card, a call
  that was begun is finished, and Main goes on lowering its levels after an
  exchange, which is its main loop. Strong fairness, because an end of the
  process disables these steps for a while.
- `dma`: the viewer calls `read` again and again, which is its loop, and an
  interrupt that is due arrives. Nothing is assumed of the card.
- `viewer`: `run` goes on (weak fairness of its steps). When a time-out is given
  and passes without a frame go on for ever, time passes: the step that finds the
  time-out over is strongly fair, being possible again in each such pass.

## 4. What is proved

The theorems about a component are in its `_proofs` module: `HpsBridge_proofs`,
`HpsHost_proofs`, `HpsControl_proofs`, `Frm1Parser_proofs`, `VideoSink_proofs`,
`DmaRing_proofs`, `Viewer_proofs` (with `Capture`) and `HardIPStatus_proofs`.
Between them they state every safety and every action property that a passing
run checks, both refinements of an abstract specification among them, for every
value of the constants. The assumptions are those the modules name:
`BridgeAssumption`, `HostAssumption`, `ControlAssumption`, `ParserAssumption`,
`SinkAssumption`, `RingAssumption`, `CaptureAssumption`, `ViewerAssumption` and
`StatusAssumption`, which say of what kind the constants are and bound them from
below where the code does, and `SlowUart`, five sys clocks between two accesses
of the status tool. Three theorems have a hypothesis besides; each is stated with
the theorem below.

**`HpsBridge_proofs`.** The inductive invariant is `TypeOK /\ HandshakeInv`. Neither
`BusyHonest` nor the quasi-static properties is inductive alone: to know that
`word` is not being sampled one has to know where on the ring the change of
`req` is. `RingInv` says that the six bits `req, req1, req_s, ack, ack1, ack_s`
differ in at most one place, and `TransactionInv` ties the core-side state to
the open request. From it follow `TypeCorrect`, `HandshakeCorrect`,
`BusyIsHonest`, `WordIsQuasiStatic`, `DoutIsHeld`, `StrobeIsOneClock` and
`BridgeImplementsPipe`: each edge of the bridge is a step of `WordPipe` or
leaves it alone.

**`HpsHost_proofs`.** Each step of the backend is one clock edge of the bridge
(`HostImplementsPipe`), so what is proved of the bridge holds with its software.
`SpiCallIsBarrier` and `OneWordIsLeftBehind` need `HostInv` and `RoomInv`: a call
that has been answered leaves the bridge at rest, and otherwise the words on their
way are no more than the calls that gave up since it last was. A process that polled
and is replaced leaves a word only at the place of `fpga_spi` between its write and
its answer, and that word is the last one it sent; the first answered call of the new
process finds it gone.
`TakenInOrder` and `NothingIsLost` rest on `KeptInv`, that what was taken followed
by what is still on its way is exactly what was written, and `LevelsInv`, that
each of these words is under the levels it was written for.
`AnswerIsOfPrevious` rests on `AnswerInv`: what `io_dout` shows, or will
show once the open transaction is captured, is the answer to the word before.

**`HpsControl_proofs`.** `ShadowIsTrue` and `ResetIsExplained`. The accesses a call
has still to make are a sequence, and the invariant is about that sequence: every
access that asserts the reset has the one that releases it right behind it
(`Pending`), so Main's shadow has the reset in it only between the two halves of
`fpga_core_reset` (`ShadowInv`).

**`Frm1Parser_proofs`.** `FramesAreNotMixed`, `CompleteFramesAreKept` and
`DeliveredAtOnce`, under `PlausibleSizes` (the card's headers announce sizes the
parser accepts, see section 6), and `CountsAddUp`, which needs in addition that
a session shows at most half as many frames as there are numbers
(`NumbersApart`): `_next` takes a larger gap for numbers that run backwards. The
card's number has 32 bits, half of which last a year at 60 frames a second. All four rest on `StreamInv`, a statement about the whole unparsed
stream, `buf` followed by `wire`, across which `Feed` moves nothing: the card only
adds to its end and the parser only drops from its front, headers stand
whole beats apart, and the pixels between two of them are those of one frame.

**`VideoSink_proofs`.** `SinkImplementsStream`: whatever the core shows and however
slow the host is, the beats written into the FIFO are a FRM1 stream. Looking at
the last beat written is not enough, because a beat is requested on one clock
and written or lost on the next. The invariant follows the *tip* of the stream,
the beat being written or else the last one that was: while a frame is
streamed the pending pixels go on from the tip and the pixel shown next goes on
from them (`PathInv`); a beat is requested only when none is pending behind it,
so a loss has nothing under way that would follow it (`FrameInv`).
`FramesCountedOnce`: `frame_no`, `frames` and `drops` agree at every moment, up
to their wrap; it needs in addition that a frame which overflows is neither
starting nor ending on that clock. `CountedFramesAreComplete`: on the clock
on which a frame is counted as streamed, the last pixel the core showed is the
last of the pending beat or of the tip (`ShownInv`), so nothing of it is missing
but what that one clock may still lose (`video_loss` in section 5). The proofs
rest on `Porch > 0`, more than two lanes, and on lines that are not empty.

**`DmaRing_proofs`.** `ClosingReleases` and `OthersKeepTheWriter`, for every ring and
pattern and against another program that may take the writer at any moment. The
invariant `OwnerInv` says that the transport holds the lock exactly at the places
of the program where it thinks so, a failed open told apart by the file
descriptor, and that the writer runs only under a lock and always under that of
the other program. Neither property is inductive without the first part: the
driver starts and stops the writer for whoever asks. `DataFollowsBlank`: a read that the
poll woke and that found nothing, because its counts are older than the poll, is not
followed by another one; the next read that is woken has data. It and
`ChunksAreRight` need `TransferInv`, which orders the counts of the card, the driver
and the transport, and `PlacesInv`, which says which beat each slot of the ring
holds. The check of the pattern never errs on whole data
(`NoFalseAlarm`, without a hypothesis), and it sees whatever is missing
(`VerdictIsHonest`) as long as the card stays less than a period of the pattern
ahead of what was copied (`WithinPeriod`): a jump of exactly a period shows in no
word, and then no check of the pattern can notice. In the run the card goes
further ahead than that bound and the property holds there too.

**`Viewer_proofs`.** `SheetIsFair` is about the places that the kept frames have
among the saved ones (`Covers`): the next frame comes one place behind the newest, so
no gap is smaller, and thinning happens at an odd number, so it keeps the first and
the last and joins two gaps at a time, each pair at least as wide as the next. That
the sheet is then in order rests on `OrderInv`, about the saved frames, the queue and
all that a read may still return, in one sequence.
`TransportIsReleased`: of all ways to the end of `run`, only an exception in the
cleanup leaves anything open. `AviIsReadable`
is about byte positions: in a started file every frame has a piece and an entry of
the index that points at it (`AviInv`); closing fills in sizes without changing the
length of anything, so no position moves, and the walk over the pieces stops at
the index. `ReplayIsComplete`: what the sinks were given followed by what is
queued is what has been put on the recording, in a session that records, and what has
been read of it, in a replay, wherever it was cut (`SinksInv`, `PlayInv`).

**`HardIPStatus_proofs`.** `FlagAndCountAgree`, `CountIsHonest` and `SeenIsHonest`. A
clear is a pulse of one sys clock that crosses to the other domain: `ClearInv` says
where it may be in each of the clocks after the access, `LatchInv` what the flag
and the counter hold once it has arrived, and `StageInv` what each stage of the way
back holds three, four and five sys clocks after a clear: nothing older, and
the value itself when no event has come for as many clocks as the stage is deep. A counter that stands still is sampled as it is
although each of its bits crosses for itself (`MixOfOne`, by `BitsDetermine`: the bits
determine the number). `SlowUart` is what makes the tool's next access meet the last stage in order.

What stays with TLC is liveness: `PipeFairSpec`, `CallsReturn`, `StreamsAgain`,
`FallsSilent`, `CoreRuns`, `EverythingReturned`, `Ends` and `TimesOut` depend on
fairness, and so on `ENABLED`, which the prover cannot reason about.

Some of the lemmas would be inductions over data in a textbook: that the position of
a piece is the sum of the pieces before it, that the bits determine a number. The induction theorems of the library
cannot be used here, as they take an operator as a parameter. `Viewer_proofs` and
`HardIPStatus_proofs` argue by the set of counterexamples and its least element
instead (`LeastNat`, `Induct`) and show first that the recursive function in question
exists and is the only one (`TellStep`, `WeightFacts`).

## 5. Where the code and what is said of it differ

- `host_overrun`: "software waits for busy = 0 between transactions, so at most
  two words are ever queued" (`hps_pcie.py:95`). `fpga_spi_fast` and the block
  procedures do not wait; on a core clock that is slow against the register writes a
  pair of a block overwrites the pair before it. What remains true is `InOrder`.
- `video_loss`: "drops the rest of the current frame ... and counts the drops"
  (`video_sink.py:26`). A partial last beat is flushed on the clock on which
  `in_frame` falls; if the FIFO is full on the next clock the beat is lost, no
  drop is counted, and the frame is counted as streamed.
- `parser_resize`: the wrong size after a mode change is something "the viewer
  detects and drops" (`video_sink.py:24`). The viewer notices only a header
  inside the announced payload; a frame with at least as many pixels as
  announced is delivered with its rows sheared.
- `control_button`: "A host-side tool may set the btn_* bits in hps_control"
  (`fpga_io_pcie.cpp:185`). Main's next write of its shadow releases the button
  before `fpga_get_buttons` sees it.

Seen while modelling and not the subject of a run:

- Block reads take `hps_dout` without waiting for their transaction; a level
  lowered and raised again faster than the core clock is not seen by the core,
  although "the two can be any ratio" (`hps_pcie.py:23`). `Lossless` is stated for
  levels that were sampled (`LowWasSampled`).
- The contact sheet is said to be "thinned evenly" (`host/viewer/README.md:57`);
  each halving thins only what was kept so far, and later frames come in at the
  full rate (`capture.py:49`), so a long session is sampled the more coarsely the
  earlier. What holds is `SheetCovers`.
- "The viewer drains everything available each loop" (`host/viewer/README.md:126`):
  a pass reads at most 64 chunks (`viewer.py:78`), without which `Ends` would fail.
- The recorder "appends every chunk to a file" (`transport/base.py:41`,
  `cli.py:25`: "append the raw stream to this file"); the file is opened with "wb"
  (`base.py:48`), so every session replaces what the one before recorded.
  `ReplayComplete` does not depend on it: it says that a recording *ends* with what
  its session showed, which holds of a file that is started anew and of one that is
  appended to, and that a replay shows whatever the file holds.
- The sink's counters are called "quasi-static" (`video_sink.py:163`) and cross
  through plain synchronisers while they count; the message counter of
  `HardIPStatus`, which crosses in the same way, shows what a read may then be:
  a mix of the bits of two values. `CountHonest` is stated of reads with no event
  under way.
- A screenshot or sheet that cannot be written leaves the AVI without its index
  and the transport open (`viewer.py:122`-`129`): the exception ends the cleanup. So
  does a recording that cannot be closed (`base.py:64`-`66`), and then the
  transport behind the recorder stays open. `Released` says nothing of these sessions:
  it exempts every failure of the cleanup and no other.

## 6. What is not modelled

- The bytes inside a word, colours, the field flag, the fourth byte of a
  pixel: no control depends on them. The magic cannot occur in pixels because
  their top byte is zero.
- Register accesses of Main that fail are reads. A write that fails is ignored by
  the code and no different from a word lost on the way in. `fpga_spi` without a
  `csr.csv` (`csr_ok` false) returns 0xFFFF and touches nothing.
- Headers the sink may make but the parser refuses (wider or higher than 2048):
  inside a cut frame such a header is taken for pixels and `NoMix` fails; the
  runs use sizes the parser accepts.
- A ring that was lapped breaks the contract of `Frm1Stream`: beats of later
  frames stand in for earlier ones, in any place. `NoMix` presumes that it was
  not, as does the parser's own argument.
- The parser's check of the flags of a header, which only makes fewer pixels look like
  one, and the bytes below a word that it keeps when it searches.
- Ioctls of the transport that fail after the open (`litepcie.py:82`, `107`-`113`; in
  `close` they would leave the lock to the end of the process), and frametest's
  check of the padding of a word.
- What a read of the sink's counters returns while they count, see section 5.
- `csr_lookup` finds all of its registers or none, and the addresses are those
  of the loaded bitstream; a `csr.csv` of another one sends every access astray.
- The read side of the sink's FIFO sees its writes late; a late read is one of the
  reads `ReadBeat` need not make yet.
- Viewer: what is drawn, scaling, screenshots on a key, the statistics, `--loop`
  and the generator's changes of mode. An AVI chunk is written whole or not at
  all. The sheet's tiles are at `int(i * len(keep) / max)` with a fraction in
  floating point; for the 36 tiles of the code and up to 73 kept frames this is the
  exact quotient of the model.
- The diagnostic image's level signals and `cq_beats`, which only cross, and the
  logic analyzers with their tool `pcie-scope.py`.
- The fitting scripts (`core-fit.py`, `patch-top.py`, `patch-regs.py`) rewrite text
  from the errors of a log, one process at a time; they keep no state but the
  files.
- Board targets and platforms are pin tables and clock settings; console cores are
  the code of others; `lib/` holds stubs.

## 7. Plan

Done: `WordPipe`, `HpsBridge`, `HpsHost` with failing reads and restarts,
`HpsControl`; `Frm1Stream`, `VideoSink`, `Frm1Parser`; `DmaRing`, `Viewer` with
`Capture`, `HardIPStatus`; the proofs of all of them.

Left, in order of importance:

1. That the parser's whole buffer handling implements an abstract stream of
   frames, as the sink implements one of beats: `FramesAreNotMixed`,
   `CompleteFramesAreKept` and `DeliveredAtOnce` are its parts.
2. `Released` with the reasons told apart for which a cleanup may fail.
3. `DcFifo`: the Gray-pointer FIFO with asynchronous clear, shown to implement a
   bounded queue between two clears. No module of the repository instantiates it
   outside third-party cores, which is why it comes last.
