----------------------------- MODULE PadService -----------------------------
(***************************************************************************)
(* The pad service (class PadService): one thread that alternates commands *)
(* read from a FIFO with tick(), and the window writer it hands captures   *)
(* to, here by the contract of TrialStore.  The module follows the capture *)
(* side of the service: the guided wizard, single stages, the results of   *)
(* the writer, discarding, sealing and releasing recording sessions.       *)
(*                                                                         *)
(* Time and the signal are not modelled: whether a countdown or a take has *)
(* run out, whether a hit is seen and whether a window is usable are free  *)
(* choices.  A tick is cut where the writer may act: its results are taken *)
(* at its start and worked off one by one, then the wizard advances, then  *)
(* the capture in progress is served.                                      *)
(***************************************************************************)
EXTENDS Naturals, Sequences, FiniteSets

CONSTANTS
  Pads,         (* pad identifiers                                         *)
  FirstPad,     (* the pad selected when the service starts                *)
  Routed,       (* the pads with measured ADC channels                     *)
  Isolated,     (* the phases of separate hits that start may ask for      *)
  StageTarget,  (* windows of a stage; 12 in the code                      *)
  Capacity,     (* slots of the writer's queue; 8 in the code              *)
  Verbs,        (* the commands the clients send                           *)
  Faults,       (* may fail: "space", "save", "config", "seal", "release"  *)
  MaxSessions,  (* bounds of the model: sessions, *)
  MaxStages,    (* stages begun by start,         *)
  MaxWindows    (* and windows ever recorded      *)

Continuous == {"ambient", "head-varied", "rim-varied", "rimshot-varied"}
Phases == Continuous \cup Isolated
\* The takes that ask for more space than start makes sure of.
Varied == Continuous \ {"ambient"}
RimPhases == {"rim-soft", "rim-medium", "rim-hard", "rimshot-soft", "rimshot-medium",
              "rimshot-hard", "rim-varied", "rimshot-varied"}

ASSUME PadAssumption ==
  /\ FirstPad \in Pads /\ Routed \subseteq Pads
  /\ Isolated \cap (Continuous \cup {"none"}) = {}
  /\ StageTarget \in Nat \ {0} /\ Capacity \in Nat \ {0}
  /\ MaxSessions \in Nat \ {0} /\ MaxStages \in Nat /\ MaxWindows \in Nat

VARIABLES
  pc,           (* "loop", or where tick() is: "results" or "collect"      *)
  batch,        (* results taken and not yet worked off                    *)
  selected, zones,
  session,      (* the newest session identifier                           *)
  phase, state,
  wizardActive, wizardPhases, wizardStep,
  stage,        (* stageSequence                                           *)
  captured, submitted, rejected,
  window,       (* the window being collected ("pending" in the code)      *)
  buffer,       (* the stage for which sequenceBytes was begun, 0 if none  *)
  last, lastByPad,              (* most recent trials, 0 if none           *)
  sealed, dirs, receipts,       (* <<pad, session>>: ready.json, directory, receipt *)
  log,          (* every window handed to the writer, by serial number     *)
  waiting, answers, trials,     (* the writer: see TrialStore              *)
  everSealed,                   (* history: pairs ever sealed,             *)
  torn                          (* and those whose release failed part way *)

writerVars == <<waiting, answers, trials, log>>
wizardVars == <<wizardActive, wizardPhases, wizardStep>>
stageVars == <<stage, captured, submitted, rejected>>
lastVars == <<last, lastByPad>>
archiveVars == <<sealed, dirs, receipts, everSealed, torn>>
setupVars == <<selected, zones, session>>
vars == <<pc, batch, selected, zones, session, phase, state, wizardActive,
          wizardPhases, wizardStep, stage, captured, submitted, rejected, window,
          buffer, last, lastByPad, sealed, dirs, receipts, log, waiting, answers,
          trials, everSealed, torn>>

Writer == INSTANCE TrialStore WITH Trials <- 1..MaxWindows, accepted <- Len(log)

NoWindow == [phase |-> "none"]
PendingJobs == Len(waiting)
Pair(w) == <<w.pad, w.session>>
Recorded(d) == {n \in DOMAIN log : Pair(log[n]) = d}
OnDisk(n) == trials[n] = n
Remaining(gone) == [n \in DOMAIN trials |-> IF n \in gone THEN 0 ELSE trials[n]]

\* The phases of a calibration, by the pad's number of zones.
PhasesFor(n) == IF n = 2 THEN <<"ambient", "head-varied", "rim-varied", "rimshot-varied">>
                         ELSE <<"ambient", "head-varied">>
-----------------------------------------------------------------------------
(* Fragments of the handlers: each fixes the variables it names.           *)

\* stopStage(), with the state its caller leaves behind.
StopStage(next) == window' = NoWindow /\ state' = next

\* failCapture(), called by the loop when tick() throws.
FailCapture == wizardActive' = FALSE /\ StopStage("error") /\ pc' = "loop"

\* A fresh identifier; the mutant goes on with the present one.
SameSession == session
NextSession == session + 1

\* newSession(): nothing recorded in it yet. Its caller states wizardActive and
\* the state.
NewSession ==
  /\ session < MaxSessions
  /\ session' = NextSession
  /\ window' = NoWindow
  /\ captured' = 0 /\ submitted' = 0 /\ rejected' = 0
  /\ last' = 0 /\ lastByPad' = [p \in Pads |-> 0]

\* The writer accepts w, or its queue is full and enqueue() throws.
Enqueue(w) ==
  /\ log' = Append(log, w)
  /\ Writer!Accept(Len(log) + 1)
QueueMayBeFull == PendingJobs >= Capacity

\* What archiveSession() demands of the service's own state; the mutant forgets
\* the windows in the writer.
BusyWithoutJobs(s, acknowledge) ==
  \/ ~acknowledge /\ window # NoWindow
  \/ state \in {"capturing", "sequence-writing"} /\ s = session
ArchiveBusy(s, acknowledge) ==
  \/ ~acknowledge /\ (PendingJobs # 0 \/ window # NoWindow)
  \/ state \in {"capturing", "sequence-writing"} /\ s = session

\* What archiveSession() makes of a trial the service remembers as the last one,
\* when it removes the session d; the mutant still remembers it.
ForgetNothing(d, n) == n
Forget(d, n) == IF n # 0 /\ Pair(log[n]) = d THEN 0 ELSE n

\* beginWizardStep() begins the buffer of a continuous take anew; the mutant
\* does not.
BufferKept(ph, n) == buffer
Begun(ph, n) == IF ph \in Continuous THEN n ELSE buffer

\* Whether collect() may begin another window.
MoreHits == submitted < StageTarget

\* A window rejected is not submitted any more; the mutant counts it on.
StillSubmitted == submitted
SubmittedLess == IF submitted > 0 THEN submitted - 1 ELSE 0

\* A stage is full when the windows submitted are answered.
StageFull(n) == n >= StageTarget /\ submitted >= StageTarget

\* The state after a take is handed over; the mutant goes on recording.
GoesOn == "capturing"
AfterTake == "sequence-writing"

\* discard forgets the pad's last trial.
WithoutLast(p) == [lastByPad EXCEPT ![p] = 0]

Seal(d) == sealed' = sealed \cup {d} /\ everSealed' = everSealed \cup {d}
-----------------------------------------------------------------------------
Init ==
  /\ pc = "loop" /\ batch = <<>>
  /\ selected = FirstPad
  /\ zones = [p \in Pads |-> 1]
  /\ session = 1
  /\ phase = "none" /\ state = "idle"
  /\ wizardActive = FALSE /\ wizardPhases = <<>> /\ wizardStep = 0
  /\ stage = 0 /\ captured = 0 /\ submitted = 0 /\ rejected = 0
  /\ window = NoWindow /\ buffer = 0
  /\ last = 0 /\ lastByPad = [p \in Pads |-> 0]
  /\ sealed = {} /\ dirs = {} /\ receipts = {} /\ everSealed = {}
  /\ torn = {}
  /\ log = <<>>
  /\ Writer!Init
-----------------------------------------------------------------------------
(* Commands. A refused command that changes nothing is a stutter. *)

Ready(verb) == verb \in Verbs /\ pc = "loop"

Select(p) ==
  /\ Ready("select")
  /\ ~wizardActive /\ state # "capturing"
  /\ StopStage("idle")
  /\ selected' = p
  /\ last' = lastByPad[p]
  /\ captured' = 0
  /\ phase' = "none"
  /\ UNCHANGED <<pc, batch, zones, session, wizardVars, stage, submitted, rejected,
                 buffer, lastByPad, archiveVars, writerVars>>

\* settings: only the zone count matters here; a changed one starts a session.
Settings(p, z) ==
  /\ Ready("settings")
  /\ ~wizardActive /\ state # "capturing"
  /\ zones[p] # z
  /\ zones' = [zones EXCEPT ![p] = z]
  /\ NewSession
  /\ wizardActive' = FALSE /\ state' = "idle" /\ phase' = "none"
  /\ UNCHANGED <<pc, batch, selected, wizardPhases, wizardStep, stage, buffer,
                 archiveVars, writerVars>>

Zones(p, z) ==
  /\ Ready("zones")
  /\ ~wizardActive /\ state # "capturing"
  /\ zones[p] # z
  /\ zones' = [zones EXCEPT ![p] = z]
  /\ UNCHANGED <<pc, batch, selected, session, phase, state, wizardVars, stageVars,
                 window, buffer, lastVars, archiveVars, writerVars>>

\* prepareWizardStep() for the step given.
PrepareWizardStep(steps, step) ==
  /\ StopStage("countdown")
  /\ phase' = steps[step + 1]
  /\ captured' = 0 /\ submitted' = 0 /\ rejected' = 0

StartWizard(p, z) ==
  /\ Ready("wizard")
  /\ ~wizardActive /\ state # "capturing"
  /\ p \in Routed /\ PendingJobs = 0
  /\ selected' = p
  /\ zones' = [zones EXCEPT ![p] = z]
  /\ NewSession
  /\ wizardActive' = TRUE
  /\ wizardPhases' = PhasesFor(z)
  /\ wizardStep' = 0
  /\ PrepareWizardStep(wizardPhases', 0)
  /\ UNCHANGED <<pc, batch, stage, buffer, archiveVars, writerVars>>

\* The selection is made before the refusals; the zone count is put back only
\* when the configuration cannot be written.
RefuseWizard(p, z) ==
  /\ Ready("wizard")
  /\ ~wizardActive /\ state # "capturing"
  /\ selected' = p
  /\ \/ "config" \in Faults /\ UNCHANGED zones
     \/ /\ p \notin Routed \/ PendingJobs # 0
        /\ zones' = [zones EXCEPT ![p] = z]
  /\ UNCHANGED <<pc, batch, session, phase, state, wizardVars, stageVars,
                 window, buffer, lastVars, archiveVars, writerVars>>

\* start: a continuous phase goes on into beginWizardStep(). Its check of the
\* space asks for more than start's own when the take is a varied one, and then
\* throws after the state has changed.
Start(ph) ==
  /\ Ready("start")
  /\ stage < MaxStages
  /\ selected \in Routed
  /\ ph \in RimPhases => zones[selected] = 2
  /\ <<selected, session>> \notin sealed
  /\ window' = NoWindow
  /\ phase' = ph
  /\ state' = "capturing"
  /\ captured' = 0 /\ submitted' = 0 /\ rejected' = 0
  /\ \/ ph \in Isolated /\ stage' = stage + 1 /\ UNCHANGED buffer
     \/ ph \in Continuous /\ stage' = stage + 2 /\ buffer' = Begun(ph, stage')
     \/ ph \in Varied /\ "space" \in Faults /\ stage' = stage + 1 /\ UNCHANGED buffer
  /\ UNCHANGED <<pc, batch, setupVars, wizardVars, lastVars, archiveVars, writerVars>>

Stop ==
  /\ Ready("stop")
  /\ wizardActive' = FALSE
  /\ StopStage("stopped")
  /\ UNCHANGED <<pc, batch, setupVars, phase, wizardPhases, wizardStep, stageVars, buffer,
                 lastVars, archiveVars, writerVars>>

StartSession ==
  /\ Ready("new-session")
  /\ NewSession
  /\ wizardActive' = FALSE /\ state' = "idle" /\ phase' = "none"
  /\ UNCHANGED <<pc, batch, selected, zones, wizardPhases, wizardStep, stage, buffer,
                 archiveVars, writerVars>>

\* discard: a trial that is gone has no size, which refuses the command.
Discard ==
  /\ Ready("discard")
  /\ state # "capturing"
  /\ last # 0 /\ OnDisk(last)
  /\ LET w == log[last] IN
       /\ trials' = [trials EXCEPT ![last] = 0]
       /\ lastByPad' = WithoutLast(w.pad)
       /\ captured' = IF /\ w.usable /\ w.pad = selected /\ w.phase = phase
                         /\ w.stage = stage /\ captured > 0
                      THEN captured - 1 ELSE captured
  /\ last' = 0
  /\ UNCHANGED <<pc, batch, setupVars, phase, state, wizardVars, stage, submitted, rejected,
                 window, buffer, archiveVars, log, waiting, answers>>

ArchiveSeal(p, s) ==
  /\ Ready("archive-seal")
  /\ ~ArchiveBusy(s, FALSE)
  /\ <<p, s>> \in dirs
  /\ Seal(<<p, s>>)
  /\ UNCHANGED <<pc, batch, setupVars, phase, state, wizardVars, stageVars, window, buffer,
                 lastVars, dirs, receipts, torn, writerVars>>

\* archive-ack: the files of a sealed session are removed; without a directory
\* only the receipt is written.
ArchiveAck(p, s) ==
  /\ Ready("archive-ack")
  /\ ~ArchiveBusy(s, TRUE)
  /\ <<p, s>> \in dirs => <<p, s>> \in sealed
  /\ receipts' = receipts \cup {<<p, s>>}
  /\ IF <<p, s>> \in dirs
     THEN /\ trials' = Remaining(Recorded(<<p, s>>))
          /\ last' = Forget(<<p, s>>, last)
          /\ lastByPad' = [lastByPad EXCEPT ![p] = Forget(<<p, s>>, @)]
     ELSE UNCHANGED <<trials, last, lastByPad>>
  /\ sealed' = sealed \ {<<p, s>>}
  /\ dirs' = dirs \ {<<p, s>>}
  /\ UNCHANGED <<pc, batch, setupVars, phase, state, wizardVars, stageVars, window, buffer,
                 everSealed, torn, log, waiting, answers>>

\* Its removals fail on the way: trials are gone, or all of them and ready.json,
\* or the directory as well, and the service still remembers them. A bound: the
\* trials before the pad's last one are gone together or not at all.
ArchiveAckFails(p, s) ==
  /\ Ready("archive-ack") /\ "release" \in Faults
  /\ ~ArchiveBusy(s, TRUE)
  /\ <<p, s>> \in dirs \cap sealed
  /\ \E gone \in SUBSET Recorded(<<p, s>>) :
       /\ gone \ {lastByPad[p]} \in {{}, Recorded(<<p, s>>) \ {lastByPad[p]}}
       /\ trials' = Remaining(gone)
       /\ \/ UNCHANGED <<sealed, dirs>>
          \/ /\ gone = Recorded(<<p, s>>)
             /\ sealed' = sealed \ {<<p, s>>}
             /\ dirs' \in {dirs, dirs \ {<<p, s>>}}
  /\ torn' = torn \cup {<<p, s>>}
  /\ UNCHANGED <<pc, batch, setupVars, phase, state, wizardVars, stageVars, window, buffer,
                 lastVars, receipts, everSealed, log, waiting, answers>>

\* The process dies and is started again; the disk and the configuration stay.
Restart ==
  /\ "restart" \in Verbs
  /\ session < MaxSessions
  /\ session' = NextSession
  /\ pc' = "loop" /\ batch' = <<>>
  /\ selected' = FirstPad
  /\ phase' = "none" /\ state' = "idle"
  /\ wizardActive' = FALSE /\ wizardPhases' = <<>> /\ wizardStep' = 0
  /\ stage' = 0 /\ captured' = 0 /\ submitted' = 0 /\ rejected' = 0
  /\ window' = NoWindow /\ buffer' = 0
  /\ last' = 0 /\ lastByPad' = [p \in Pads |-> 0]
  /\ UNCHANGED <<zones, archiveVars, log>>
  /\ Writer!Stop
-----------------------------------------------------------------------------
(* tick() *)

\* A countdown that has run out begins its step: beginWizardStep() with enough
\* space. Then the results are taken.
TakeResults == UNCHANGED log /\ batch' = answers /\ Writer!Take /\ pc' = "results"

TickBeginsStep ==
  /\ pc = "loop"
  /\ wizardActive /\ state = "countdown"
  /\ state' = "capturing"
  /\ stage' = stage + 1
  /\ buffer' = Begun(phase, stage')
  /\ TakeResults
  /\ UNCHANGED <<setupVars, phase, wizardVars, captured, submitted, rejected, window,
                 lastVars, archiveVars>>

TickFindsNoSpace ==
  /\ pc = "loop"
  /\ wizardActive /\ state = "countdown"
  /\ "space" \in Faults
  /\ FailCapture
  /\ UNCHANGED <<batch, setupVars, phase, wizardPhases, wizardStep, stageVars, buffer,
                 lastVars, archiveVars, writerVars>>

Tick ==
  /\ pc = "loop"
  /\ TakeResults
  /\ UNCHANGED <<setupVars, phase, state, wizardVars, stageVars, window, buffer, lastVars,
                 archiveVars>>

\* The window a result is about, while there are results.
Result == log[Head(batch).n]
Working == pc = "results" /\ batch # <<>>

\* An answer that reports an error; the mutant does not look.
FailedNever == FALSE
Failed == ~Head(batch).ok

\* Whether a window is one of the stage in progress; the mutant compares with
\* the stage before.
MatchesEarlier(w) == w.pad = selected /\ w.phase = phase /\ w.stage + 1 = stage
Matches(w) == w.pad = selected /\ w.phase = phase /\ w.stage = stage

\* The first result reports an error, whatever it was about.
FailedResult ==
  /\ Working /\ Failed
  /\ batch' = Tail(batch)
  /\ StopStage("error")
  /\ UNCHANGED <<pc, setupVars, phase, wizardVars, stageVars, buffer, lastVars, archiveVars,
                 writerVars>>

\* It is about an earlier session.
ForeignResult ==
  /\ Working /\ ~Failed /\ Result.session # session
  /\ batch' = Tail(batch)
  /\ UNCHANGED <<pc, setupVars, phase, state, wizardVars, stageVars, window, buffer, lastVars,
                 archiveVars, writerVars>>

\* It is about this session: it becomes the pad's last trial, and if it belongs
\* to the current stage it is counted.
OwnResult ==
  /\ Working /\ ~Failed /\ Result.session = session
  /\ batch' = Tail(batch)
  /\ lastByPad' = [lastByPad EXCEPT ![Result.pad] = Head(batch).n]
  /\ last' = IF Result.pad = selected THEN Head(batch).n ELSE last
  /\ \/ ~Matches(Result) /\ UNCHANGED <<state, window, captured, submitted, rejected>>
     \/ /\ Matches(Result) /\ phase \in Continuous
        /\ state' = "review"
        /\ UNCHANGED <<window, captured, submitted, rejected>>
     \/ /\ Matches(Result) /\ phase \in Isolated /\ Result.usable
        /\ captured' = captured + 1
        /\ state' = IF StageFull(captured') THEN "review" ELSE state
        /\ UNCHANGED <<window, submitted, rejected>>
     \/ /\ Matches(Result) /\ phase \in Isolated /\ ~Result.usable
        /\ submitted' = SubmittedLess
        /\ rejected' = rejected + 1
        /\ IF rejected' >= StageTarget /\ state = "capturing"
           THEN StopStage("error") ELSE UNCHANGED <<state, window>>
        /\ UNCHANGED captured
  /\ UNCHANGED <<pc, setupVars, phase, wizardVars, stage, buffer, archiveVars, writerVars>>

\* The wizard moves on once its take is reviewed and the writer is idle; the
\* mutant waits for a window to be pending.
DoneWhilePending == wizardActive /\ state = "review" /\ PendingJobs # 0
StepDone == wizardActive /\ state = "review" /\ PendingJobs = 0

Advance ==
  /\ pc = "results" /\ batch = <<>>
  /\ \/ ~StepDone /\ UNCHANGED <<phase, state, captured, submitted, rejected, window, wizardStep>>
     \/ /\ StepDone /\ wizardStep + 1 < Len(wizardPhases)
        /\ wizardStep' = wizardStep + 1
        /\ PrepareWizardStep(wizardPhases, wizardStep')
  /\ pc' = "collect"
  /\ UNCHANGED <<batch, setupVars, wizardActive, wizardPhases, stage, buffer, lastVars,
                 archiveVars, writerVars>>

\* The last step: the session is sealed. archiveSession() throws when the
\* directory is gone or cannot be written.
Complete ==
  /\ pc = "results" /\ batch = <<>>
  /\ StepDone /\ wizardStep + 1 >= Len(wizardPhases)
  /\ wizardStep' = wizardStep + 1
  /\ \/ /\ window = NoWindow /\ <<selected, session>> \in dirs
        /\ wizardActive' = FALSE
        /\ state' = "complete"
        /\ Seal(<<selected, session>>)
        /\ pc' = "collect"
        /\ UNCHANGED window
     \/ /\ window # NoWindow \/ <<selected, session>> \notin dirs \/ "seal" \in Faults
        /\ FailCapture
        /\ UNCHANGED <<sealed, everSealed>>
  /\ UNCHANGED <<batch, setupVars, phase, wizardPhases, stageVars, buffer, lastVars, dirs,
                 receipts, torn, writerVars>>

\* The end of tick(): nothing to record, or nothing happened worth recording.
CollectNothing ==
  /\ pc = "collect"
  /\ pc' = "loop"
  /\ UNCHANGED <<batch, setupVars, phase, state, wizardVars, stageVars, window, buffer,
                 lastVars, archiveVars, writerVars>>

\* collectSequence() with the phase's time over. Nothing depends on the quality
\* of a take, which is kept with its flags.
TakeEnds ==
  /\ pc = "collect"
  /\ state = "capturing" /\ phase \in Continuous
  /\ Len(log) < MaxWindows
  /\ Enqueue([pad |-> selected, session |-> session, phase |-> phase, stage |-> stage,
              begun |-> buffer, usable |-> TRUE])
  /\ state' = AfterTake
  /\ buffer' = 0
  /\ pc' = "loop"
  /\ UNCHANGED <<batch, setupVars, phase, wizardVars, stageVars, window, lastVars, archiveVars>>

\* collect() sees a hit: the window is begun.
WindowBegins ==
  /\ pc = "collect"
  /\ state = "capturing" /\ phase \in Isolated
  /\ window = NoWindow
  /\ MoreHits
  /\ window' = [pad |-> selected, session |-> session, phase |-> phase, stage |-> stage]
  /\ pc' = "loop"
  /\ UNCHANGED <<batch, setupVars, phase, state, wizardVars, stageVars, buffer, lastVars,
                 archiveVars, writerVars>>

\* collect() with the last snapshot of the window.
WindowEnds ==
  /\ pc = "collect"
  /\ state = "capturing" /\ phase \in Isolated
  /\ window # NoWindow
  /\ Len(log) < MaxWindows
  /\ \E usable \in BOOLEAN :
       Enqueue([pad |-> window.pad, session |-> window.session, phase |-> window.phase,
                stage |-> window.stage, begun |-> window.stage, usable |-> usable])
  /\ submitted' = submitted + 1
  /\ window' = NoWindow
  /\ pc' = "loop"
  /\ UNCHANGED <<batch, setupVars, phase, state, wizardVars, stage, captured, rejected, buffer,
                 lastVars, archiveVars>>

\* The queue is full, or the take outgrew its buffer: tick() throws.
CollectFails ==
  /\ pc = "collect"
  /\ state = "capturing"
  /\ \/ QueueMayBeFull /\ (window # NoWindow \/ phase \in Continuous)
     \/ "space" \in Faults /\ phase \in Continuous
  /\ FailCapture
  /\ UNCHANGED <<batch, setupVars, phase, wizardPhases, wizardStep, stageVars, buffer, lastVars,
                 archiveVars, writerVars>>
-----------------------------------------------------------------------------
(* The writer thread, by its contract. Saving creates the session directory,
   also when it fails later; a trial released before its answer is missing.  *)

Saves ==
  /\ UNCHANGED log
  /\ Writer!Appear
  /\ dirs' = dirs \cup {Pair(log[Head(waiting).n])}

Answers ==
  /\ UNCHANGED log
  /\ Writer!Answer
  /\ LET d == Pair(log[Head(waiting).n])
     IN \/ (OnDisk(Head(waiting).n) \/ d \in everSealed) /\ UNCHANGED dirs
        \/ "save" \in Faults /\ dirs' \in {dirs, dirs \cup {d}}

WriterStep ==
  /\ Saves \/ Answers
  /\ UNCHANGED <<pc, batch, setupVars, phase, state, wizardVars, stageVars, window, buffer,
                 lastVars, sealed, receipts, everSealed, torn>>
-----------------------------------------------------------------------------
Command ==
  \/ \E p \in Pads : Select(p)
  \/ \E p \in Pads, z \in 1..2 : Settings(p, z) \/ Zones(p, z) \/ StartWizard(p, z) \/ RefuseWizard(p, z)
  \/ \E ph \in Phases : Start(ph)
  \/ \E p \in Pads, s \in 1..session : ArchiveSeal(p, s)
  \/ \E d \in everSealed : ArchiveAck(d[1], d[2]) \/ ArchiveAckFails(d[1], d[2])
  \/ Stop \/ StartSession \/ Discard

TickStep ==
  \/ TickBeginsStep \/ TickFindsNoSpace \/ Tick
  \/ FailedResult \/ ForeignResult \/ OwnResult
  \/ Advance \/ Complete
  \/ CollectNothing \/ TakeEnds \/ WindowBegins \/ WindowEnds \/ CollectFails

Next == Command \/ Restart \/ TickStep \/ WriterStep

Spec == Init /\ [][Next]_vars
\* The service keeps running: ticks follow each other, countdowns and takes run
\* out, and the writer works through its queue. Commands are never promised.
Fairness ==
  /\ WF_vars(TickStep) /\ WF_vars(WriterStep)
  /\ SF_vars(TickBeginsStep) /\ SF_vars(TakeEnds)

FairSpec == Spec /\ Fairness
-----------------------------------------------------------------------------
TypeOK ==
  /\ pc \in {"loop", "results", "collect"}
  /\ batch \in Seq([id : 1..MaxWindows, n : 1..MaxWindows, ok : BOOLEAN])
  /\ selected \in Pads
  /\ zones \in [Pads -> 1..2]
  /\ session \in 1..MaxSessions
  /\ phase \in Phases \cup {"none"}
  /\ state \in {"idle", "capturing", "countdown", "sequence-writing", "review", "complete",
                 "stopped", "error"}
  /\ wizardActive \in BOOLEAN
  /\ wizardPhases \in {<<>>, PhasesFor(1), PhasesFor(2)}
  /\ wizardStep \in 0..Len(wizardPhases)
  /\ stage \in Nat /\ buffer \in 0..stage
  /\ captured \in Nat /\ submitted \in 0..StageTarget /\ rejected \in Nat
  /\ last \in 0..Len(log) /\ lastByPad \in [Pads -> 0..Len(log)]
  /\ {sealed, dirs, receipts, everSealed, torn} \subseteq SUBSET (Pads \X (1..session))
  /\ trials \in [1..MaxWindows -> 0..Len(log)]

Takes == {n \in DOMAIN log : log[n].session = session}
Released(n) == Pair(log[n]) \in (everSealed \ dirs) \cup torn
StageWindows == {n \in DOMAIN log : log[n].session = session /\ log[n].stage = stage}
Unanswered == {n \in DOMAIN log :
  \E s \in {waiting, answers, batch} : \E i \in DOMAIN s : s[i].n = n}

\* The takes of the session are the latest k of the log, one for each of the
\* first k steps, in order, and all of one pad.
StepsTaken(k) ==
  /\ Takes = (Len(log) - k + 1)..Len(log)
  /\ \A i \in 1..k : log[Len(log) - k + i].phase = wizardPhases[i]
  /\ \A n, m \in Takes : log[n].pad = log[m].pad

\* The takes of a calibration are those of its steps, in order, one each, and a
\* complete calibration has every one of them stored or handed to the archive
\* (wizard command, tick, collectSequence; holds for what the touchscreen sends).
OneTakePerStep ==
  /\ wizardActive => StepsTaken(wizardStep) \/ StepsTaken(wizardStep + 1)
  /\ state = "complete" => /\ StepsTaken(Len(wizardPhases))
                           /\ \A n \in Takes : OnDisk(n) \/ Released(n)

\* No window is handed to the writer for a session directory that was sealed,
\* and none appears in it (archiveSession, start).
SealedFrozen ==
  [][/\ \A n \in DOMAIN log' \ DOMAIN log : Pair(log'[n]) \notin everSealed
     /\ \A n \in DOMAIN log : ~OnDisk(n) /\ OnDisk(n)' => Pair(log[n]) \notin everSealed]_vars

\* While separate hits are collected, every window submitted is either accepted
\* or still on its way through the writer: stages neither lose nor count twice
\* (collect, tick's results).
StageAccounting ==
  state = "capturing" /\ phase \in Isolated =>
    submitted = captured + Cardinality(StageWindows \cap Unanswered)

\* The service shows a stage for review only when the trials for it are stored:
\* the take, or the full number of usable windows (tick).
ReviewBacked ==
  [][state # "review" /\ state' = "review" =>
       LET kept == {n \in StageWindows : OnDisk(n)}
       IN IF phase \in Continuous THEN kept # {}
          ELSE Cardinality({n \in kept : log[n].usable}) >= StageTarget]_vars

\* The last trials the service shows, and discard would remove, exist, but for a
\* session whose release failed part way (archiveSession clearing last and
\* lastByPad, discard, newSession).
Kept(n) == OnDisk(n) \/ Pair(log[n]) \in torn
LastOnDisk ==
  /\ last # 0 => Kept(last)
  /\ \A p \in Pads : lastByPad[p] # 0 => Kept(lastByPad[p]) /\ log[lastByPad[p]].pad = p

\* A take is written from a buffer that was begun for its own stage, with the
\* header of the format (beginWizardStep, collectSequence).
TakeBegun ==
  \A n \in DOMAIN log : log[n].phase \in Continuous => log[n].begun = log[n].stage

\* A take being written is shown as written, failed or stopped in the end.
WritingEnds == state = "sequence-writing" ~> state # "sequence-writing"

\* A calibration comes to an end: complete, stopped, or in an error, whatever
\* windows its saves lose (tick).
CalibrationEnds == wizardActive ~> ~wizardActive \/ state = "error"
=============================================================================
