# Verification of open-mimic

TLA+ models of the programs that run on the drum module (`src/software/mimicd`,
`src/software/common`, the touchscreen application `src/software/mimic`) and of the
capture receiver on the Mac (`src/scripts/receive_pad_measurements.py`), the TLC
configurations that check them on small instances, and proofs of their central properties
for every value of the constants. `PROJECT.json` maps every definition to the lines it
models, lists the runs, the hazards and the theorems, and gives for every property a
*mutant*: a plausible bug of the code, written as an operator in the module, under which
the property fails.

    tlc -config MCMidi.cfg MCMidiService.tla           # one run
    tlapm MidiServiceProofs.tla                        # one proof module

## The system

`mimicd` is one binary with several services, each a process with one loop; the
touchscreen application `mimic` and the receiver on the Mac talk to them through FIFOs,
status files and (the receiver) ssh.

| Component | State it keeps | Operations | What makes it correct |
|---|---|---|---|
| **Window writer** (`PadService.cpp:344-583`, `ExclusiveOutputFile.cpp`) | queue of 8 windows, results, worker thread, files of a session | enqueue, takeResults, save, shutdown | every window answered once, in order; a manifest names a whole raw file; answers tell the truth; an existing trial is never damaged |
| **Pad service** (`PadService.cpp`) | selected pad, zones, session, phase, state, wizard, stage counters, window or take being collected | commands of a FIFO, `tick()` every 2 ms | a calibration has one take per step; nothing is recorded into a sealed session; review only when the trials are stored; a stage counts every window once |
| **Archive and receiver** (`archiveSession`, `receive_pad_measurements.py`) | session directories, `ready.json`, receipts; `measurements/`, reports | archive-seal, archive-ack; a pass of the receiver | no recording is lost; archives are whole; receipts are true; every sealed session ends on the Mac and leaves the card |
| **Profiles and models of a pad** (`receiveProfile`, `receiveModel`, `configureLive`, receiver's `calibrate`, `adapt_model`) | profile, model and trigger settings in memory, on disk, in the engine; staged files | load, replace, reset; stage, send, poll | the three places agree, also after a crash; the receiver's verdict is about its own transfer |
| **Live triggering** (`TriggerEngine.cpp`) | per pad: baseline, quiet stretch, trace, window, mask | configure, reset, process a frame | one hit per strike; a bad start is recovered from |
| **ADC ring** (`Adc.cpp`, `PadCapture.cpp`) | DMA ring of 4096 bytes, a reader's cursor | completed frames, whole-ring snapshot | no frame read that the DMA engine has overwritten, none lost unnoticed |
| **MIDI service** (`MidiService.cpp`) | ports, a byte queue of 4096 per port, owed note-offs, selected output | config, test, hit, panic, tick, port refresh, shutdown | a note-off always has room; no note sticks; the service stops |
| **MIDI stream parser** (`MidiStream.cpp`) | running status, message or SysEx in progress | push, reset | messages recognised, dropped ones counted |
| **Command FIFOs** (loops of both services, `MidiEndpoint`, `sendCommand`) | bytes in the pipe, a line in progress | write, read, dispatch | a line is answered once, whole or refused |
| **Audio device and test** (`PearlAudioDevice.cpp`, `AudioTest.cpp`, `AudioDebugPanel.cpp`) | worker thread, device lock, control socket | open, start, stop | the outputs end in silence; a stop request reaches who plays |
| **Aux control** (`AuxControl.cpp`, `AuxInputPanel.cpp`) | two settings files, last attenuation written | follow the files | the attenuator follows what the screen shows |
| **Touchscreen application** (`software/mimic`) | page, command in progress, status it has read | touch, timer | offers and sends what the user means; stays in step with the service; can always stop |
| ADC recorder, response profiles, classifier, sample selection and decoder, monitors, command line, offline tools, platform | files, tables, floating point | | not modelled, see below |

How they interact. The pad service hands windows to the writer thread over a mutex and a
condition variable and asks `pendingJobs()` before it lets a session be sealed. It reads
the ADC ring, runs the trigger engine over the frames and sends `hit` and `panic` lines
into the FIFO of the MIDI service. The receiver reads the status file and the session
directories over ssh, copies, and writes commands into the FIFO of the pad service. The
touchscreen application starts short-lived `mimicd ...-command` processes that write to
the same FIFOs and polls the status files, so commands of several clients interleave at
will and every client acts on old news.

What is hard: the writer works while the service changes session, stage and state; every
step of a save may fail; a session changes hands between card and Mac while either
side may die; the DMA engine does not wait for its readers; a MIDI device vanishes with
note-offs queued; a status is older than the command sent after it; an exception outside
command handling ends a service.

## Modules

| Module | Models | |
|---|---|---|
| `TrialStore` | what the writer promises: a trial is there whole or not at all, windows are answered in order and truthfully | abstract |
| `WindowWriter` | the writer thread, one action per step of `save()` that may fail or be interrupted, and its undo | implements `TrialStore` |
| `PadService` | commands and `tick()`, with the writer by the contract of `TrialStore` | instantiates `TrialStore` |
| `ArchiveTransfer` | `archiveSession` and the receiver, one action per remote command or file operation | |
| `PadModels` | profile, model and trigger settings of one pad in memory, on disk and in the engine, and the receiver's transfer of them | |
| `TriggerEngine` | the live trigger of one pad, frame by frame | |
| `AdcRing` | the ring, its DMA, and its three readers | |
| `MidiService` | the MIDI service and the devices at its ports | |
| `MidiStream` | the parser of incoming bytes, with a definition of what a sequence of bytes means | |
| `CommandFifo` | a FIFO, its writers and the loop that reads it | |
| `AudioTest` | audio tests, their worker thread, lock and socket, and the panel that starts and stops one | |
| `AuxControl` | the panel and the slider that publish, the daemon that follows | |
| `MidiPanel`, `TriggerPanel`, `CalibrationPanel` | pages of the touchscreen with the command process, the FIFO, the service as far as the page can tell, and its status | |
| `MCParts` | the smaller parts in one state space: the first state picks one, which alone takes steps; the fairness is that of the MIDI page (`PageSpec`) or of the others (`PartsSpec`) | |
| other `MC...` | instances of the larger modules for TLC | |
| `...Proofs` | theorems and proofs | |

**WindowWriter.** `pc` is the position of the worker in `run()` and `save()`; `made` holds
the flags `createdRaw`, `createdMetadata`, `publishedMetadata`; `raw`, `pending` and
`final` are the three files of a trial, a file's contents being the number of the window
written. `Check .. Account` are the steps in the order of the code, each failing where
`Faults` allows, `DropRaw`, `DropPending`, `DropFinal` the catch block, `Push` the
result. `Restart` is a death of the process between any two steps.

**PadService.** One action per command and, for `tick()`, one per place where the writer
can act in between: its results are taken at once and worked off one by one
(`FailedResult`, `ForeignResult`, `OwnResult`), then the wizard advances (`Advance`,
`Complete`), then the capture is served (`TakeEnds`, `WindowBegins`, `WindowEnds`,
`CollectFails`, `CollectNothing`). Time and the signal are free choices. `log` keeps
every window ever handed over, so that properties can speak of a session's history.
`start` of a varied take (`Varied`, 20 MiB) may pass its own space check (3 MiB) and fail
the next one; that of `ambient` (2 MiB) cannot. `ArchiveAck` releases a session whole;
`ArchiveAckFails` is one whose removals, directories or receipt fail on the way, and
`torn` remembers the session.

**ArchiveTransfer.** `dir`, `files`, `ready`, `receipt` are the card, `commands` is the
FIFO, `serving` the session `archiveSession` is removing file by file; `rpc`, `phase`,
`todo`, `current`, `expected`, `staged` are the position and the variables of the
receiver's pass, `published`, `copy`, `removed` what is durable on the Mac. A file stands
for its checksum. `Pause` is the handler of the receiver's main loop: whatever goes wrong
restarts the pass. Deaths are bounded by `MaxFaults`.

**PadModels.** `pmDisk` holds the five files of a pad, `pmPad` its definition in memory,
`pmEngine` what `configureLive` passed on. A version stands for the contents of a file.
Receiving a model is two steps, since weights and description are two renames
(`PmReceiveModel`, `PmDescribeModel`), and so is resetting one. The receiver stages under
a fresh token, queues the command, and `PmPoll` is `response_result` on the status of the
moment. `pmSpoiled` remembers the two ways in which memory and disk come apart by design
or by accident: `settings` replaces the pad by a candidate that has learnt nothing, and a
model whose weights were renamed but whose description was not.

**TriggerEngine.** `trigPad` is `PadState`; `TrigFrame` is `processFrame` with its four
outcomes: clipping, warm-up, a warm-up to be repeated, and an ordinary frame
(`TrigListen`, `TrigTrace`, `TrigFill`, `TrigEnd` in the order of the code). The ages of
the last hit and of the last clipping are history. `TrigConfigure` and `TrigReset` come
between batches. Hits the engine reported before its service died may still be in the
FIFO of the MIDI service, and are played.

**AdcRing.** Frames are numbered; slot `k % RingFrames` holds frame `k` until the DMA
comes round. The clock counts frames too, so an 8 ms bound is `RingGap` frames. A reader
looks at the cursor, copies slot by slot while the DMA goes on, looks again
(`RingOpen`, `RingCopySlot`, `RingAfter`), and its caller judges (`RingClose`,
`RingAnalyse`).

**MidiService.** `outgoing` and `cut` are the byte queue of a port: three-byte messages
and how much of the first is written. `notes` is the list of owed note-offs, with the
strike that owes them. A turn of the loop is cut at every note and every port, since a
device may vanish in between. `sounding` is what the instrument at a port plays after
the bytes it got.

**MidiStream.** One action per branch of `push`, over classes of bytes (a status of one,
two or three bytes, the brackets of a system exclusive, data, real time). `Meant` and
`Lost` define, without any state, which messages an input holds and which it breaks off;
the machine is compared with them after every byte.

**CommandFifo.** Bytes carry the number of their line. Writers open, write a line whole
or not at all and close; `MidiEndpoint` keeps the FIFO open, so that lines survive the
reader. `FifoRead` takes a piece, `FifoByte` is the loop over it.

**AudioTest.** `audPc` runs through `runAudioTest`: lock, bind, start, loop, join,
unlink, release. When `stopRequested()` throws, the control is destroyed before the
device is stopped (`AudioThrow`, `AudioDrain`). The worker thread writes blocks of sound
until it is done, told to exit or fails, and flushes two portions of silence, which the
converter goes on repeating. A process may be killed anywhere and leaves its socket path
behind (`"stale"`); a stop request that comes before the socket is bound is lost, and the
test then ends by itself.

**AuxControl.** The files of the panel and of the headphone slider, and the daemon's
turn: one file read, then the other, then the three channels one at a time.

**The pages.** Each page is a user, a page, at most one command on its way (`PcRun` and
its like: a command started while another runs is dropped, as `commandBusy` has it), a
service that serves its FIFO and now and then publishes a status, and restarts. Pages are
modelled while shown. `CalibrationPanel` has the three pages of the pads, whose buttons
depend on the last status: a *complete* or *uploaded* that is out of date may enable
*Next*, which the service then refuses. `MidiPanel` keeps the ports in the order of the
service: `refreshPorts` drops what is gone and adds what is new at the end, and only a
service that starts (`MpStart`) finds them sorted; it starts with the selection it saved.
A choice is a tap in the popup of a `TouchChoice` (`MpOpen`, `MpTap`), which changes what
is shown at once, and an asynchronous `onChange` (`MpChanged`), which marks it as pending
in a later turn of the message loop; the timer (`MpTimer`) may come in between. `mpChosen`
is history: what the user is about to send, or `"nothing"` once Apply took it, its port
is listed no more, or the timer overtook the mark.

## Runs

| Run | Instance | Shows |
|---|---|---|
| `writer` | 2 identifiers, 4 windows, queue of 2, all steps failing but the size check, crashes | whole manifests, truthful answers, refinement of `TrialStore` (order, untouched older trials); every window is answered, the destructor returns |
| `pad_touch` | 2 pads, 1 or 2 zones, 3 sessions, touchscreen commands, zones, archive-ack, restart; space, save, config, seal and release fail | `OneTakePerStep`, `SealedFrozen`, `ReviewBacked`, `LastOnDisk`, `TakeBegun`; takes and calibrations end |
| `pad_stages` | single stages of 2 hits, writer queue of 1, failing saves, archive-seal | the counters of a stage agree with the windows on their way; a sealed directory takes no further window |
| `midi` | 2 ports, queue of 4 messages, 3 strikes, writes of up to 3 bytes, a USB port pulled once | `NoteOffsFit`, `OneTimer`, `NoStuckNote`, `StoppedSilent` |
| `midi_live` | a note, queue of 3 messages, writes of up to 2 bytes, failing reads and writes as well | `PanicSilences`, `StrikesEnd`, `ServiceStops` |
| `archive` | 2 sessions of 2 recordings, 2 faults of any kind, corrupted copies | `NothingLost`, `ArchiveComplete`, `ReceiptTruthful`; acknowledgments retried, archived and released in the end |
| `parts` | a ring of 4 frames and 9 frames of time; 3 command lines of up to 4 bytes where 2 fit, read 3 at a time; 2 transfers to a pad; the MIDI page with 3 ports, of which USB ports come or go twice | `RingExact`, `FifoExact`, `PmConsistent`, `PmVerdicts`, `MpFaithful` |
| `parts_live` | 5 bytes of MIDI input, exclusives of 3; a trigger with windows, warm-up and blind time of 2 frames, masks of 1 and 7; 2 audio tests; the Aux daemon; the trigger page and the pages of the pads | `StreamFaithful`, `TrigSpaced`, `TrigRecovers`, `AudioSilenced`, `AudioOwned`, `AudioPanelEnds`, `AuxFollows`, `TpFaithful`, `PcStoppable` |
| four `..._find_...` | | the disagreements below |

The bounds are small because the code treats pads, sessions, recordings, notes and ports
alike: two of each let one interfere with another, and three strikes let a note be struck
again while an earlier note-off of it is still owed and a second one queued. Queues hold
at least one message more than a step needs, so that both "fits" and "full" happen. Two
faults let a recovery be interrupted itself. A release that fails part way removes the
trials before the pad's last one together or not at all, since nothing tells them apart.
In `parts`, nine frames let the DMA come round a ring of four twice while a reader
copies; a line of four bytes is too long by two, so that there is a rest of it after the
buffer was emptied; two transfers let the second read what the first left in a status;
three MIDI ports, one of them built in and all there at first, let a port move in the
list when another goes, and two changes let one go and return at another place, or both
go. In `parts_live`, five bytes hold every message with one interruption and an exclusive
that is one byte too long; a mask of one is shorter than the window and one of seven is
longer than window and blind time together; three levels above rest are a hit, a louder
one above its trace, and clipping. Two audio tests contend for lock and socket.

`RingExact` speaks of records for which the cursor moved by less than a whole ring
between two looks at it. The code assumes the same: its bounds of 8 ms are shorter than
the ring's 11.35 ms. But a caller checks two spans, from the last poll to this one and
from this one to the end of the copy, and a reader that uses up both lets almost 16 ms
pass between two looks. A turn of the DMA in that time cannot be seen from the cursor.

### Disagreements

Four runs end in a violation; `PROJECT.json` quotes the lines they disagree with.

- `pad_find_seal`: `archive-seal` is accepted during the countdown of a calibration, and
  the calibration goes on recording into the sealed session. The receiver asks for it
  only when the status file shows no calibration, which may start after that look.
- `pad_find_take`: the `start` of a varied take that finds 3 MiB but not 20 MiB leaves the
  service capturing and stores a take that was never begun.
- `archive_find_ack`: a death between the removal of `ready.json` and of the directory
  leaves a session whose acknowledgment is refused for ever, and other sessions wait
  behind it.
- `trig_find_mask`: a clipped sample replaces what is left of a mask by 11.4 ms, so with
  a longer mask time (the kick's is 20 ms) the next hit may come sooner than the mask
  time after the last. `TrigSpaced` therefore excepts hits with clipping between them.

So `TakeBegun` and `SealedFrozen` are checked in `pad_touch` for what the touchscreen and
the acknowledgment send, `SealedFrozen` in `pad_stages` for single stages beside
`archive-seal`, and `archive` leaves out the death in that one gap (`"gap"` in `Faults`).

More things the models show have no run of their own, since they only happen when
commands of the command line meet a calibration or the receiver; add the verbs named to a
configuration of `MCPadService` to see them.

- `start` during a calibration replaces the wizard's take (`OneTakePerStep` with `wizard`,
  `start`), although `research/calibration-wizard.md:44` has the service own the
  progression.
- `start` after a calibration that was archived records into the session that was sealed
  and released, since only the removed `ready.json` made it refuse (`SealedFrozen` with
  `wizard`, `archive-ack`, `start`).
- `zones` changes a session's number of zones without a new session, which
  `research/pad-calibration.md:53` says a changed configuration starts.
- `archive-seal` and `archive-ack` between the end of a save and the tick that takes its
  result release a session of which the service then shows the last trial (`LastOnDisk`
  with `start`, `archive-seal`, `archive-ack`), and counts a trial that is gone towards
  its review (`ReviewBacked` with the same).
- `archive-ack` whose removals fail part way reports an error and leaves `last` and
  `lastByPad` at trials that are gone (1633-1641 are not reached). When the directory went
  but not the receipt, a retry writes the receipt and returns (1573-1581) without clearing
  them either; `discard` is then refused, since a trial that is gone has no size.
  `LastOnDisk` excepts such a session (`torn`).
- `discard` takes the last trial out of a session that is sealed: it does not look for
  `ready.json`. `SealedFrozen` is about windows that are handed over or appear.
- a `wizard` command that is refused changes the selected pad all the same. `discard` then
  takes the last trial for one of another stage and leaves `captured` as it is; refused
  back to the first pad, the service shows the stopped stage for review with one trial
  less than its target once the last result arrives (`ReviewBacked` with `start`, `wizard`,
  `stop`, `discard`).

And four that other modules show: `settings` forgets
profile, model and trigger settings until the next start; a model received half pairs new
weights with the old description after a restart (`pmSpoiled`); the first command
after a restart may be the tail of a line whose beginning the dead reader had taken
(`fifoFresh`); and the MIDI page loses a choice when its timer comes between the tap and
the `onChange` that marks it. "Keep a pending selection while a different USB device is
added or removed" (`MidiPanel.cpp:264`) holds for choices that are marked. Of one that is
not, a status with the same ports puts the service's port back in its place (274-278),
and the late `onChange` marks *that* one as pending, for Apply to send; a status with
other ports clears the list, which cancels the update (`TouchChoice.cpp:169`). `MpFaithful`
excepts both (`MpOvertakes`); without that TLC finds them in a few steps. No document says
otherwise of the first three.

### Fairness

`WindowWriter`: the worker is a running thread. `PadService`: ticks follow each other,
the writer works, a countdown and a take that run again and again run out (strong
fairness, as time is not modelled); no command is ever promised. `MidiService`: the loop
never blocks longer than the 2 ms of `poll` (descriptors are non-blocking); `StrikesEnd`
also needs the clock to pass deadlines and a present device to accept a byte now and then
(`DevicesWork`: strong fairness, `EAGAIN` may answer many times); `ServiceStops` needs
neither. A write that fails throws the port's queue away, so `StrikesEnd` speaks of notes
whose note-off is owed or queued, until the port fails. `CalibrationEnds` lets an error
end a calibration: the code leaves `wizardActive` set then.
`ArchiveTransfer`: the service serves its FIFO, the receiver goes on with its passes and
one of its fifty polls sees a receipt that is there (strong fairness: a poll may time
out first). The number of faults is bounded, since a receiver interrupted for ever
archives nothing.

`TriggerEngine`: the converter delivers and the service polls; that the drummer stops
(`TrigCalmDown`) is a premise of `TrigRecovers`, not promised. `AudioTest`: the panel's
process, the worker and the panel's timer run; the helper that carries a stop request is
not promised to run, nor a failing socket. `AuxControl`: a daemon that runs polls; nobody
restarts it. The pages: their timer, an update pending in the message loop, the service's
loop and a started process run; a user who wants the calibration stopped (`PcWant`) keeps
pressing.

## Proofs

`WindowWriterProofs`. For any identifiers, capacity and choice of failing steps, `IInv` is
inductive: with the type invariant it says which files exist at each position of the
worker (`SaveConsistent`: the flags of `save()` agree with what is on the card), that the
serial numbers of results, job and queue follow one another (`InOrder`), and that no
manifest names a window still to be saved (`ManifestsOld`). From it: `WriterTypes`,
`WindowsInOrder`, `ExitDrains`, `IdleIsQuiet`, `TrialsAreKept`, `PublishesAfterClose`,
which need no run since they hold for every instance. `ManifestsAreComplete` assumes that
sizes can be read back, `ResultsAreTruthful` and `Refines` that not both the size check
and the removals fail; without these assumptions TLC finds counterexamples, so the
assumptions are the code's own.

`PadServiceProofs`. For any pads, phases, queue, target, commands and failures. `IInv`
types the control, the wizard (while active it is at one of its steps), the stage (a hit
in hand still has a place among the target), the archive, the log and the writer's
queues: `PadTypes`. `TakesAreBegun` adds that the buffer of a take in hand is of its own
stage; it assumes that `start` and a full card do not come together, which is the
disagreement `pad_find_take`. `StagesAreAccountedFor` needs that answers and waiting jobs
are in the order of the log (`Order`), that no window is of a later stage than the
present one (`StagesSoFar`), that windows of a stage are of one kind (`OneKind`), and
that what was submitted is what was accepted, plus this stage's windows in batch, answers
and queue (`Counted`): only with the order can a result be matched with the one window it
leaves.

The other theorems about it are for what clients send: each names the commands that must
not come together, and with those that it excludes TLC finds the counterexamples told
above. The first four assume that neither `start` nor `archive-seal` is sent, which is what
the touchscreen and the acknowledgment leave.
`SealedStaysFrozen`: only the wizard captures, in a session
nobody has sealed, and nothing is left to the writer when it seals (`WizardOnly`).
`LastTrialsExist`: a reply of the present session may be on its way while trials are
removed, so it has to be about a window no removal touches. The wizard has at most one
reply of the session on its way, none while it waits for the player or shows a review,
and none of a session it has sealed (`InHand`); what is on its way is not yet shown
(`Apart`), and a reply without an error is about a trial that is there (`StoredOk`).
`ReviewsAreBacked` follows, since only continuous takes are recorded then (`TakesOnly`).
`TakesFollowSteps` assumes that `discard` is not sent either, which removes what a review
is about. The session's takes are the end of the log, up to the step before the present
one while the wizard waits or captures and up to the present one from the hand-over on;
a take is on disk, on its way, or its loss left an error that no result lifts any more
(`UnderWay`); after completion takes leave the disk only with their session's release
(`Settled`).

Three more are about the command line, with `start`, `discard` and all failures, but
without the release of a session (`archive-ack`). `StagesStayFrozen`: what captures, the
window in hand and what waits for the writer are of sessions not sealed (`StagesOnly`);
`start` refuses a sealed one, and sealing waits for the rest, except for the countdown of
a calibration, so `archive-seal` and `wizard` must not come together. `LastTrialsStay`
needs no more than `LastKept`, the part of the argument above that is not about the
wizard. `StageReviewsAreBacked`: `captured` is at most the number of usable trials of the
stage that are on disk and whose reply is worked off (`StageBacked`), so a full stage is
on disk. `discard` lowers both when the windows of a stage are of the selected pad and
phase (`KindKept`), which only the `wizard` command can undo, so those two must not come
together. TLC checked `StagesOnly`, `KindKept` and `StageBacked` on the instance of
`pad_stages` and on one with `wizard` in the place of `discard`.

`MidiServiceProofs`. For any ports, channels, keys, queue length and number of notes,
`NoteOffsFit /\ OneTimer` with the types and the reservation of a running panic is
inductive: a strike is accepted when its messages and three bytes for every owed note-off
of *all* ports fit; afterwards the queue of a port only grows by what was reserved for
it. Hence `NoteOffsAlwaysFit` (no `enqueue` outside command handling throws) and
`OneTimerEach`. The proof uses lemmas about cardinalities of the owed notes and about
queues cut by partial writes. `NothingStuck` and `StopsSilent` follow a note to the
device: what an instrument will play once its queue is written (`After`) is covered by
the note-offs owed, through every message put, cut or thrown away; a port that is not
open plays nothing and has nothing queued (`Powered`). They assume that no port fails
under an instrument that keeps its power (`"io"` not in `Faults`), since `disconnect()`
throws queued note-offs away. `StopsSilent` adds that the loop of a stopping service has
visited every owed note (`Finished`); `PanicsSilence` needs no assumption.

`ArchiveTransferProofs`. For any sessions and recordings, any number of deaths and
corrupted copies: acknowledgments, from the line in the FIFO to the last file removed,
are about published sessions (`AcksPublished`), and what the receiver has verified is
everything the session was given (`TransferInHand`), because a session is sealed only
when it records no more. Hence `RecordingsKept`, `ArchivesAreComplete`,
`ReceiptsAreTruthful`.

`SignalProofs`. `TriggerEngine`, for any lengths of window, mask and blind time, any
signal, settings and gaps: a pending hit is as old as its window is full (`TrigWindows`),
and what is left of the mask covers what is left of the mask time and of the blind time
(`TrigMaskCovers`). Since a hit begins only when the mask is down, `HitsAreSpaced`.
`AdcRing`, for any ring and gap: the cursors of the reader are those of the frames its
history names (`RingPlaces`: what `last_cursor` and the modulo of the length say is the
position modulo the ring), and every slot of a record being copied holds all the frames
that lie in it, unless the DMA came round since the cursor was read (`RingCopies`). The
argument is about remainders: two frames less than a ring apart that fall into one slot
are the same frame (`SameRemainder`). Hence `RecordsAreExact`.

`TouchscreenProofs`. `AudioTest`, for any number of processes and blocks: a process
between lock and release holds the lock, between bind and unlink the control path unless
its socket failed
(`AudioLocked`), the worker belongs to it (`AudioWorks`, `AudioIdle`), and silence follows
silence (`AudioFlushing`). Hence `AudioOwnership` and `AudioSilence`. `MidiPanel`, for any
ports in any order: a port that is in a list is found in it again (`MpFound`), so a choice
that is marked keeps its port through every new list (`ChoicesAreKept`), and Apply sends
that port (`ChoicesAreSent`), also while the mark of a later choice is on its way
(`MpMeant`). Both are the safety half of `MpFaithful`. `TriggerPanel`, for any
settings: there is one command process at most, the one started last
(`SettingsStayOrdered`, the safety half of `TpFaithful`). `AuxControl`, for gains of any
resolution: the daemon has written what it remembers to all three channels in this run,
and the panel complains whenever it shows what it has not published (`AuxIsWrittenWhole`);
that is what `AuxFollows` rests on.

`PadModelsProofs`. For any versions and transfers: the engine is told in the step in which
the pad changes (`PmTold`), and memory is what a restart would load, with one account for
each step between the two files of a model (`PmKept`). Hence `PmConsistency`. For
`PmVerdictsTrue`, transfers are dealt with in the order of their tokens, so the last one
after all others and once (`PmInOrder`), and an attempt that carries the last token tells
what became of it, in memory as in the status published from there, however old that is
(`PmTells`).

`ByteStreamProofs`. `CommandFifo`, for any writers, lines, reads and limits. The unread
bytes, those in the service's hand and those in the pipe together, are whole lines one
after the other but for the first, of which the beginning may be gone (`FifoLinesOf`,
`FifoRun`); the line in hand holds what was read of it, or it is too long (`FifoInHand`);
and the line answered last is the one before the first unread (`FifoBehind`). Every
action either appends a whole line at the end or takes a byte from the front. Hence
`CommandsAreExact`. `MidiStream`, for any bytes and any bound of an exclusive: every byte
behind a status has an owner, and every status but the last a next one (`StreamOwners`);
the parser has in hand what the last status and its bytes leave open (`StreamHand`: all
of an exclusive until it is too long, a status alone or with one data byte, or nothing).
`Meant` reads the whole input at once, so the argument goes position by position: the
bytes before a new one mean what they meant (`OldSays`), so only the message that ends
with the new byte can be new (`MeantGrows`); a status that has a next one keeps its bytes
and its fate, so only the last status can become lost (`LostGrows`). With the branches of
`push` this gives `MessagesAreMeant`, for messages of any place in the input and not just
the five bytes of the run.

The assumptions are those named `...Assumption` in the modules: sizes are naturals,
`None` is not an identifier, the selected first pad exists, the phases of separate hits
are not those of continuous takes, a mask and a window are shorter than the history
counts.

Only model-checked: every liveness property, with the liveness halves of `MpFaithful` and
`TpFaithful`: liveness under fairness and ENABLED are out of the prover's reach. Every
safety property of a passing run is stated by a theorem whose assumptions the constants of
that run satisfy.

## Not modelled

Time (deadlines are free choices, but for the ring, whose clock is the converter), the
signal and all arithmetic on it, the contents of files and status messages, the loss of
written but unsynced data at a power failure, the parsing of a command's words, and:

- zone rules, velocity, retrigger suppression and classification of a hit in
  `TriggerEngine`, the response profiles and the classifier: floating point over a
  window, without state that another component shares;
- sample selection, hi-hat control, the sample decoder: tables and arithmetic; no program
  of the repository but the tests selects samples yet;
- the event monitor and the counters of the MIDI service, and its settings file but for the
  selection a service starts with in `MidiPanel`; removals that fail in `discard`;
- the steps of opening the audio device, the board's registers, sample conversion;
- layout and drawing of the touchscreen application, the wheel; of a page's controls of
  one kind the model has one (input or output, one slider, one pad's settings);
- the computations of `calibrate()`, `adapt_model()` and `calibrate_existing()`, the
  training, inspection and replay scripts;
- the ADC recorder (its file steps are those of the writer, its snapshots those of the
  ring), the monitors, the command line, the image, its drivers and start scripts.

`PROJECT.json` gives the reason for each.

## What is left

1. The pages composed with `PadService` itself instead of their view of it, and the hits
   of `TriggerEngine` with the strikes of `MidiService`.
2. `InstrumentSelection` and `HatControl` as operators against definitions, once a
   program uses them.
