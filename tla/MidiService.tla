---------------------------- MODULE MidiService ----------------------------
(***************************************************************************)
(* The MIDI service of mimicd: one thread that takes commands from a FIFO, *)
(* keeps a bounded byte queue per port and a list of the note-offs it owes *)
(* for the notes it has struck, and turns its loop until it is signalled.  *)
(* A port fails, vanishes and comes back under it, and a note-off that     *)
(* cannot be queued would throw out of the loop and end the service.       *)
(*                                                                         *)
(* Every message the service sends is three bytes long; a write may end    *)
(* anywhere in one.  Input affects no output and is left out, except for   *)
(* the error a read may return.  A byte counts as heard once written.      *)
(***************************************************************************)
EXTENDS Integers, Sequences, FiniteSets

CONSTANTS
    Ports,           \* port identifiers
    Din,             \* the serial port: always found, never opened for input only
    None,            \* "none": no port is selected
    Keys,            \* drum notes within a channel
    Channels,        \* number of MIDI channels (16)
    MaxBytes,        \* maximumQueueBytes, the queue of one port (4096)
    MaxNotes,        \* note-offs that may be owed at once (128)
    Chunk,           \* bytes offered by one write (256)
    DrainPasses,     \* passes of the loop after the signal (750)
    MaxStrikes,      \* bound of the model: notes struck in a behaviour
    MaxUnplugs,      \* bound of the model: devices pulled in a behaviour
    Faults           \* "unplug": USB devices come and go; "io": a write or
                     \* a read fails while the instrument stays powered;
                     \* "status": the status file cannot be replaced

ASSUME ConstantsAssumption ==
    /\ Din \in Ports /\ None \notin Ports
    /\ Channels \in Nat \ {0} /\ MaxBytes \in Nat /\ MaxNotes \in Nat
    /\ Chunk \in Nat \ {0} /\ DrainPasses \in Nat \ {0}
    /\ MaxStrikes \in Nat /\ MaxUnplugs \in Nat

VARIABLES
    port,            \* what the service holds: absent, closed, open, or
                     \* open for input only
    outgoing,        \* messages queued for each port
    cut,             \* bytes of the first of them that are already written
    notes,           \* the note-offs owed
    selectedOutput,
    pc,              \* command, finish, timers, ports, refresh, stopped or dead
    left,            \* notes the running loop over them has yet to visit
    visit,           \* ports this tick has yet to visit
    then,            \* the command that runs finishTestNotes
    stopping,        \* the signal was seen
    passes,          \* ticks since then
    failed,          \* an enqueue threw
    strikes,         \* notes struck so far
    plugged,         \* ports whose device is there
    stale,           \* ports held open on a device that was pulled since
    pulls,           \* devices pulled so far
    sounding         \* what the instrument at each port is playing

queues  == <<outgoing, cut>>
control == <<pc, left, visit, then, stopping, passes>>
devices == <<plugged, stale, pulls>>
vars == <<port, queues, notes, selectedOutput, control, failed, strikes,
          devices, sounding>>

----------------------------------------------------------------------------
Tones == (0 .. Channels - 1) \X Keys
Message == [kind : {"on", "off"}, tone : Tones]
             \cup [kind : {"alloff"}, channel : 0 .. Channels - 1]
Note == [port : Ports, tone : Tones, strike : 1 .. MaxStrikes]

NoteOn(t)  == [kind |-> "on", tone |-> t]
NoteOff(t) == [kind |-> "off", tone |-> t]

TypeOK ==
    /\ port \in [Ports -> {"absent", "closed", "open", "input"}]
    /\ outgoing \in [Ports -> Seq(Message)]
    /\ cut \in [Ports -> 0 .. 2]
    /\ \A p \in Ports : outgoing[p] = <<>> => cut[p] = 0
    /\ notes \subseteq Note /\ Cardinality(notes) <= MaxNotes
    /\ left \subseteq notes
    /\ selectedOutput \in Ports \cup {None}
    /\ pc \in {"command", "finish", "timers", "ports", "refresh", "stopped", "dead"}
    /\ visit \subseteq Ports
    /\ then \in [kind : {"config"}, out : Ports \cup {None}]
                  \cup [kind : {"panic", "stop"}]
    /\ stopping \in BOOLEAN /\ failed \in BOOLEAN
    /\ passes \in 0 .. DrainPasses /\ strikes \in 0 .. MaxStrikes
    /\ plugged \subseteq Ports /\ stale \subseteq Ports /\ pulls \in 0 .. MaxUnplugs
    /\ sounding \in [Ports -> SUBSET Tones]

(* A descriptor is held: the code's descriptor.get() >= 0.                 *)
Connected(p) == port[p] \in {"open", "input"}

Bytes(p) == 3 * Len(outgoing[p]) - cut[p]

(* requireQueueSpace: room for the message and every note-off still owed.  *)
FitsWithoutReserve(p, bytes) == Bytes(p) + bytes <= MaxBytes
QueueSpace(p, bytes) == Bytes(p) + bytes + 3 * Cardinality(notes) <= MaxBytes

(* enqueue, for each of a sequence of messages: it throws when one of them *)
(* does not fit.  What happens after such a throw is not modelled.         *)
Put(p, messages) ==
    IF Bytes(p) + 3 * Len(messages) > MaxBytes
    THEN failed' = TRUE /\ UNCHANGED outgoing
    ELSE outgoing' = [outgoing EXCEPT ![p] = @ \o messages] /\ UNCHANGED failed

(* What an instrument that plays S plays after the messages q.             *)
Silences(message, t) ==
    \/ message.kind = "off" /\ message.tone = t
    \/ message.kind = "alloff" /\ message.channel = t[1]

After(q, S) ==
    LET Stays(i, t) == \A j \in i + 1 .. Len(q) : ~Silences(q[j], t)
    IN  {t \in Tones : \/ t \in S /\ Stays(0, t)
                       \/ \E i \in 1 .. Len(q) : q[i] = NoteOn(t) /\ Stays(i, t)}

----------------------------------------------------------------------------
(* Start: the saved selection is read, refreshPorts opens what it finds.   *)
Init ==
    /\ plugged \in SUBSET Ports /\ Din \in plugged
    /\ port \in [Ports -> {"absent", "closed", "open", "input"}]
    /\ port[Din] \in {"closed", "open"}
    /\ \A p \in Ports : port[p] = "absent" <=> p \notin plugged
    /\ outgoing = [p \in Ports |-> <<>>] /\ cut = [p \in Ports |-> 0]
    /\ notes = {} /\ left = {} /\ visit = {}
    /\ selectedOutput \in Ports \cup {None}
    /\ pc = "command" /\ then = [kind |-> "stop"]
    /\ stopping = FALSE /\ passes = 0 /\ failed = FALSE
    /\ strikes = 0 /\ stale = {} /\ pulls = 0
    /\ sounding = [p \in Ports |-> {}]

(* outputPort: the selected port, when it can be written to.               *)
HasOutput == selectedOutput \in Ports /\ port[selectedOutput] = "open"

(* The pending note-offs a new strike replaces.                            *)
NoReplaced(p, t) == {}
Replaced(p, t) == {n \in notes : n.port = p /\ n.tone = t}

(* The owed note-offs once t is struck and those of old are replaced.      *)
OwedByStrike(t) == [port |-> selectedOutput, tone |-> t, strike |-> strikes + 1]
NotesAfter(old, t) == (notes \ old) \cup {OwedByStrike(t)}

(* Command test or hit: strike a note on the selected output.              *)
Hit(t) ==
    /\ pc = "command" /\ ~stopping /\ HasOutput
    /\ Cardinality(notes) < MaxNotes
    /\ strikes < MaxStrikes
    /\ QueueSpace(selectedOutput, 6)
    /\ LET old == Replaced(selectedOutput, t)
       IN  /\ Put(selectedOutput,
                  [i \in 1 .. Cardinality(old) |-> NoteOff(t)] \o <<NoteOn(t)>>)
           /\ notes' = NotesAfter(old, t)
    /\ strikes' = strikes + 1
    /\ UNCHANGED <<port, cut, selectedOutput, control, devices, sounding>>

(* Command config, once the settings are saved: the owed notes are         *)
(* finished before the output is switched.                                 *)
Config(out) ==
    /\ pc = "command" /\ ~stopping
    /\ pc' = "finish" /\ left' = notes
    /\ then' = [kind |-> "config", out |-> out]
    /\ UNCHANGED <<port, queues, notes, selectedOutput, visit, stopping, passes,
                   failed, strikes, devices, sounding>>

(* Command panic: two messages on every channel of the selected output.    *)
AllButLast == [i \in 1 .. 2 * (Channels - 1) |->
                 [kind |-> "alloff", channel |-> (i - 1) \div 2]]
PanicMessages == [i \in 1 .. 2 * Channels |->
                    [kind |-> "alloff", channel |-> (i - 1) \div 2]]

Panic ==
    /\ pc = "command" /\ ~stopping /\ HasOutput
    /\ QueueSpace(selectedOutput, 6 * Channels + 3 * Cardinality(notes))
    /\ pc' = "finish" /\ left' = notes /\ then' = [kind |-> "panic"]
    /\ UNCHANGED <<port, queues, notes, selectedOutput, visit, stopping, passes,
                   failed, strikes, devices, sounding>>

(* SIGINT or SIGTERM, seen at the head of the loop.                        *)
NotesToFinish == notes
Stop ==
    /\ pc = "command" /\ ~stopping
    /\ stopping' = TRUE /\ passes' = 0
    /\ pc' = "finish" /\ left' = NotesToFinish /\ then' = [kind |-> "stop"]
    /\ UNCHANGED <<port, queues, notes, selectedOutput, visit, failed, strikes,
                   devices, sounding>>

----------------------------------------------------------------------------
(* The ports a tick reads and writes.                                      *)
SelectedOnly == {selectedOutput} \cap Ports
PortsToService == Ports

(* One turn of a loop over the notes: the note-off is queued when its port *)
(* is connected, and forgotten either way.                                 *)
QueueNoteOff(n) ==
    /\ IF Connected(n.port)
       THEN Put(n.port, <<NoteOff(n.tone)>>)
       ELSE UNCHANGED <<outgoing, failed>>
    /\ notes' = notes \ {n} /\ left' = left \ {n}
    /\ UNCHANGED <<port, cut, selectedOutput, visit, then, stopping, passes,
                   strikes, devices, sounding>>

(* finishTestNotes.                                                        *)
FinishNote ==
    /\ pc = "finish"
    /\ \E n \in left : QueueNoteOff(n)
    /\ UNCHANGED pc

(* The rest of config, of panic and of the shutdown, after the last note.  *)
FinishConfig ==
    /\ pc = "finish" /\ left = {} /\ then.kind = "config"
    /\ selectedOutput' = then.out
    /\ pc' = "command"
    /\ UNCHANGED <<port, queues, notes, left, visit, then, stopping, passes,
                   failed, strikes, devices, sounding>>

FinishPanic ==
    /\ pc = "finish" /\ left = {} /\ then.kind = "panic"
    /\ Put(selectedOutput, PanicMessages)
    /\ pc' = "command"
    /\ UNCHANGED <<port, cut, notes, selectedOutput, left, visit, then, stopping,
                   passes, strikes, devices, sounding>>

FinishStop ==
    /\ pc = "finish" /\ left = {} /\ then.kind = "stop"
    /\ pc' = "timers" /\ visit' = PortsToService
    /\ UNCHANGED <<port, queues, notes, selectedOutput, left, then, stopping,
                   passes, failed, strikes, devices, sounding>>

(* No command is left to read: tick begins.  Which notes are due is up to  *)
(* the clock.                                                              *)
Tick(due) ==
    /\ pc = "command" /\ ~stopping
    /\ pc' = "timers" /\ left' = due /\ visit' = PortsToService
    /\ UNCHANGED <<port, queues, notes, selectedOutput, then, stopping, passes,
                   failed, strikes, devices, sounding>>

Expire ==
    /\ pc = "timers"
    /\ \E n \in left : QueueNoteOff(n)
    /\ UNCHANGED pc

EndTimers ==
    /\ pc = "timers" /\ left = {}
    /\ pc' = "ports"
    /\ UNCHANGED <<port, queues, notes, selectedOutput, left, visit, then,
                   stopping, passes, failed, strikes, devices, sounding>>

----------------------------------------------------------------------------
Visiting(p) == pc = "ports" /\ p \in visit /\ visit' = visit \ {p}

Untouched == UNCHANGED <<notes, selectedOutput, pc, left, then, stopping, passes,
                         failed, strikes, plugged, pulls>>

(* disconnect: what was queued is thrown away.                             *)
KeepQueue(p) == outgoing[p]
Cleared(p) == <<>>
Disconnect(p) ==
    /\ Visiting(p) /\ Connected(p)
    /\ \/ p \in stale                                       \* ENODEV
       \/ port[p] = "input" /\ outgoing[p] # <<>>           \* EBADF
       \/ "io" \in Faults
    /\ port' = [port EXCEPT ![p] = "closed"]
    /\ outgoing' = [outgoing EXCEPT ![p] = Cleared(p)]
    /\ cut' = [cut EXCEPT ![p] = 0]
    /\ stale' = stale \ {p}
    /\ UNCHANGED sounding /\ Untouched

(* Nothing to write, or the device takes nothing now (EAGAIN).             *)
Skip(p) ==
    /\ Visiting(p)
    /\ Connected(p) /\ outgoing[p] # <<>> => p \notin stale /\ port[p] = "open"
    /\ UNCHANGED <<port, queues, stale, sounding>> /\ Untouched

(* flush: some bytes of the queue are written, perhaps part of a message.  *)
WholeMessages(p, n) == (cut[p] + n) \div 3
Flush(p, n) ==
    /\ Visiting(p) /\ port[p] = "open" /\ p \notin stale
    /\ n \in 1 .. Chunk /\ n <= Bytes(p)
    /\ LET sent == WholeMessages(p, n)
       IN  /\ sounding' = [sounding EXCEPT
                             ![p] = After(SubSeq(outgoing[p], 1, sent), @)]
           /\ outgoing' = [outgoing EXCEPT
                             ![p] = SubSeq(@, sent + 1, Len(@))]
    /\ cut' = [cut EXCEPT ![p] = (@ + n) % 3]
    /\ UNCHANGED <<port, stale>> /\ Untouched

Service == \E p \in Ports : Disconnect(p) \/ Skip(p) \/ \E n \in 1 .. Chunk : Flush(p, n)

EndTick ==
    /\ pc = "ports" /\ visit = {} /\ ~stopping
    /\ pc' = "refresh"
    /\ UNCHANGED <<port, queues, notes, selectedOutput, left, visit, then,
                   stopping, passes, failed, strikes, devices, sounding>>

(* The drain after the signal: hasPendingOutput looks at every port.       *)
SelectedIsPending == selectedOutput \in Ports /\ outgoing[selectedOutput] # <<>>
HasPendingOutput == \E p \in Ports : outgoing[p] # <<>>
AlwaysAnother == TRUE
AnotherPass == passes + 1 < DrainPasses
Drain ==
    /\ pc = "ports" /\ visit = {} /\ stopping
    /\ passes' = IF passes < DrainPasses THEN passes + 1 ELSE passes
    /\ IF HasPendingOutput /\ AnotherPass
       THEN pc' = "timers" /\ left' = {} /\ visit' = PortsToService
       ELSE pc' = "stopped" /\ UNCHANGED <<left, visit>>
    /\ UNCHANGED <<port, queues, notes, selectedOutput, then, stopping, failed,
                   strikes, devices, sounding>>

(* refreshPorts: ports whose device is gone are erased with their queue,   *)
(* ports without a descriptor are opened.                                  *)
Opened(p) == IF p = Din THEN {"closed", "open"} ELSE {"closed", "open", "input"}
Refreshed(p) ==
    IF p \notin plugged THEN {"absent"}
    ELSE IF Connected(p) THEN {port[p]} ELSE Opened(p)

Refresh ==
    /\ pc = "refresh"
    /\ pc' = "command"
    /\ port' \in [Ports -> {"absent", "closed", "open", "input"}]
    /\ \A p \in Ports : port'[p] \in Refreshed(p)
    /\ outgoing' = [p \in Ports |-> IF p \in plugged THEN outgoing[p] ELSE <<>>]
    /\ cut' = [p \in Ports |-> IF p \in plugged THEN cut[p] ELSE 0]
    /\ stale' = stale \cap plugged
    /\ UNCHANGED <<notes, selectedOutput, left, visit, then, stopping, passes,
                   failed, strikes, plugged, pulls, sounding>>

(* Not a second since the last refresh.                                    *)
NoRefresh ==
    /\ pc = "refresh"
    /\ pc' = "command"
    /\ UNCHANGED <<port, queues, notes, selectedOutput, left, visit, then,
                   stopping, passes, failed, strikes, devices, sounding>>

(* writeStatus throws, and nothing catches it.                             *)
StatusFails ==
    /\ "status" \in Faults /\ pc = "refresh"
    /\ pc' = "dead"
    /\ UNCHANGED <<port, queues, notes, selectedOutput, left, visit, then,
                   stopping, passes, failed, strikes, devices, sounding>>

----------------------------------------------------------------------------
(* The world: a USB instrument is pulled and falls silent; it comes back.  *)
Unplug(p) ==
    /\ "unplug" \in Faults /\ p \in plugged \ {Din} /\ pulls < MaxUnplugs
    /\ plugged' = plugged \ {p} /\ pulls' = pulls + 1
    /\ stale' = IF Connected(p) THEN stale \cup {p} ELSE stale
    /\ sounding' = [sounding EXCEPT ![p] = {}]
    /\ UNCHANGED <<port, queues, notes, selectedOutput, control, failed, strikes>>

Plug(p) ==
    /\ p \notin plugged
    /\ plugged' = plugged \cup {p}
    /\ UNCHANGED <<port, queues, notes, selectedOutput, control, failed, strikes,
                   stale, pulls, sounding>>

Ended == (pc \in {"stopped", "dead"} \/ failed) /\ UNCHANGED vars

Finish == FinishNote \/ FinishConfig \/ FinishPanic \/ FinishStop
Turn == Expire \/ EndTimers \/ Service \/ EndTick \/ Drain \/ Refresh \/ NoRefresh
Commands == \/ \E t \in Tones : Hit(t)
            \/ \E out \in Ports \cup {None} : Config(out)
            \/ Panic
World == \E p \in Ports : Unplug(p) \/ Plug(p)

Next ==
    \/ ~failed /\ (Commands \/ Stop \/ Finish \/ Turn \/ StatusFails)
    \/ ~failed /\ \E due \in SUBSET notes : Tick(due)
    \/ World
    \/ Ended

Spec == Init /\ [][Next]_vars

(* The loop turns: nothing in it waits for a device.                       *)
FairSpec == Spec /\ WF_vars(~failed /\ (Finish \/ Turn))

(* The clock passes every deadline (at most 5 s away), and a device that   *)
(* is there takes a byte now and then.                                     *)
DevicesWork ==
    /\ SF_vars(~failed /\ Tick(notes))
    /\ \A p \in Ports : SF_vars(~failed /\ \E n \in 1 .. Chunk : Flush(p, n))

----------------------------------------------------------------------------
Owed(p) == {n \in notes : n.port = p}

(* What a running panic still has to queue on the selected output.         *)
Reserved(p) ==
    IF pc = "finish" /\ then.kind = "panic" /\ p = selectedOutput
    THEN 6 * Channels ELSE 0

(* The queue of a port always has room for every note-off owed to it, so   *)
(* the enqueue calls of tick and finishTestNotes, which have no handler of *)
(* their own (loop of runMidiService), never throw.                        *)
NoteOffsFit ==
    /\ ~failed
    /\ \A p \in Ports : Bytes(p) + 3 * Cardinality(Owed(p)) + Reserved(p) <= MaxBytes

(* A note that is struck again has one timer, that of the last strike: "an *)
(* older timer must not cut off the new strike later".                     *)
OneTimer ==
    \A m, n \in notes : m.port = n.port /\ m.tone = n.tone => m = n

(* The inductive invariant behind the two: a panic reserves its messages   *)
(* on the port it was accepted for, beyond the note-offs owed.             *)
IInv ==
    /\ TypeOK /\ IsFiniteSet(notes)
    /\ pc = "finish" /\ then.kind = "panic" => selectedOutput \in Ports
    /\ pc \notin {"finish", "timers"} => left = {}
    /\ NoteOffsFit /\ OneTimer

(* Whatever an instrument will be playing once its queue is written has a  *)
(* note-off owed to that very port, however the output was switched, the   *)
(* port pulled and replaced, or the note struck again.                     *)
NoStuckNote ==
    \A p \in Ports \ stale : \A t \in After(outgoing[p], sounding[p]) :
        \E n \in Owed(p) : n.tone = t

(* A service that drained its queues within the passes it allows itself    *)
(* leaves no instrument playing.                                           *)
StoppedSilent ==
    pc = "stopped" /\ passes < DrainPasses =>
        \A p \in Ports \ stale : sounding[p] = {}

(* An accepted panic leaves nothing to be played by the selected output,   *)
(* whatever was lost before, and no timer that could disturb it.           *)
PanicSilences ==
    [][FinishPanic => /\ After(outgoing'[selectedOutput], sounding[selectedOutput]) = {}
                      /\ notes' = {}]_vars

(* The note-off of a sounding note is owed, or queued after its last strike. *)
Releasing(p, t) ==
    /\ t \in sounding[p]
    /\ \/ t \notin After(outgoing[p], sounding[p])
       \/ \E n \in Owed(p) : n.tone = t

(* A sounding note with a timer, or with its note-off in a queue, really   *)
(* falls silent, whatever is selected by then, unless its port fails or    *)
(* the service ends first.                                                 *)
StrikesEnd ==
    DevicesWork => \A p \in Ports, t \in Tones :
        Releasing(p, t) ~> \/ t \notin sounding[p] \/ port[p] = "closed"
                           \/ pc \in {"stopped", "dead"}

(* A signalled service ends, even when a device takes no bytes.            *)
ServiceStops == stopping ~> pc = "stopped"
=============================================================================
