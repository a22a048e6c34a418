------------------------- MODULE PadServiceProofs -------------------------
(* Proofs about PadService, for any pads, phases, queue and bounds.        *)
EXTENDS PadService, SequenceTheorems, FiniteSetTheorems, TLAPS

USE PadAssumption

---------------------------------------------------------------------------
(* The invariant, in parts. A window handed to the writer:                 *)
Window == [pad : Pads, session : Nat, phase : Phases, stage : Nat, begun : Nat,
           usable : BOOLEAN]
Hit == [pad : Pads, session : 1..session, phase : Isolated, stage : Nat]
Job(k) == [id : 1..k, n : 1..k]
Reply(k) == [id : 1..k, n : 1..k, ok : BOOLEAN]

Control ==
  /\ pc \in {"loop", "results", "collect"}
  /\ selected \in Pads
  /\ zones \in [Pads -> 1..2]
  /\ session \in 1..MaxSessions
  /\ phase \in Phases \cup {"none"}
  /\ state \in {"idle", "capturing", "countdown", "sequence-writing", "review", "complete",
                 "stopped", "error"}
  /\ state = "capturing" => phase \in Phases
  /\ state = "countdown" => phase \in Continuous

\* While the wizard is active it is at one of its steps.
Wizard ==
  /\ wizardActive \in BOOLEAN
  /\ wizardPhases \in {<<>>, PhasesFor(1), PhasesFor(2)}
  /\ wizardStep \in 0..Len(wizardPhases)
  /\ wizardActive => wizardStep < Len(wizardPhases)

\* A hit being collected will still be counted within the stage's target, and
\* a continuous take that is being recorded has its buffer begun.
Stage ==
  /\ stage \in Nat /\ buffer \in 0..stage
  /\ captured \in Nat /\ submitted \in 0..StageTarget /\ rejected \in Nat
  /\ window # NoWindow => window \in Hit /\ submitted < StageTarget

Archive ==
  /\ sealed \in SUBSET (Pads \X (1..session))
  /\ dirs \in SUBSET (Pads \X (1..session))
  /\ receipts \in SUBSET (Pads \X (1..session))
  /\ everSealed \in SUBSET (Pads \X (1..session))
  /\ torn \in SUBSET (Pads \X (1..session))

Log ==
  /\ log \in Seq(Window)
  /\ Len(log) \in 0..MaxWindows
  /\ \A n \in DOMAIN log : log[n].session \in 1..session
  /\ last \in 0..Len(log)
  /\ lastByPad \in [Pads -> 0..Len(log)]

Writers ==
  /\ waiting \in Seq(Job(Len(log)))
  /\ answers \in Seq(Reply(Len(log)))
  /\ batch \in Seq(Reply(Len(log)))
  /\ trials \in [1..MaxWindows -> 0..Len(log)]

IInv == Control /\ Wizard /\ Stage /\ Archive /\ Log /\ Writers
---------------------------------------------------------------------------
(* Facts about the data.                                                   *)
LEMMA PhasesOf ==
    ASSUME NEW z \in 1..2
    PROVE  /\ PhasesFor(z) \in {PhasesFor(1), PhasesFor(2)}
           /\ 0 < Len(PhasesFor(z))
  BY DEF PhasesFor

LEMMA StepPhases ==
    ASSUME NEW steps \in {<<>>, PhasesFor(1), PhasesFor(2)}
    PROVE  /\ Len(steps) \in Nat
           /\ \A i \in 1..Len(steps) : steps[i] \in Continuous
<1>1. CASE steps = <<>>
  BY <1>1
<1>2. CASE steps = PhasesFor(1)
  BY <1>2 DEF PhasesFor, Continuous
<1>3. CASE steps = PhasesFor(2)
  BY <1>3 DEF PhasesFor, Continuous
<1> QED
  BY <1>1, <1>2, <1>3

(* A set of sessions is one of later bounds as well.                       *)
LEMMA LaterSessions ==
    ASSUME NEW k \in Nat, NEW D \in SUBSET (Pads \X (1..k))
    PROVE  D \in SUBSET (Pads \X (1..(k + 1)))
<1>1. 1..k \subseteq 1..(k + 1)
  OBVIOUS
<1> QED
  BY <1>1

LEMMA WiderSeq ==
    ASSUME NEW S, NEW T, S \subseteq T, NEW s \in Seq(S)
    PROVE  s \in Seq(T)
<1>1. Len(s) \in Nat /\ s \in [1..Len(s) -> S]
  BY LenProperties
<1>2. s \in [1..Len(s) -> T]
  BY <1>1
<1> QED
  BY <1>1, <1>2, SeqDef

(* The jobs and replies of a shorter log are those of a longer one.        *)
LEMMA LongerLog ==
    ASSUME NEW k \in Nat
    PROVE  /\ \A s \in Seq(Job(k)) : s \in Seq(Job(k + 1))
           /\ \A s \in Seq(Reply(k)) : s \in Seq(Reply(k + 1))
<1>1. 1..k \subseteq 1..(k + 1)
  OBVIOUS
<1>2. Job(k) \subseteq Job(k + 1) /\ Reply(k) \subseteq Reply(k + 1)
  BY <1>1 DEF Job, Reply
<1> QED
  BY <1>2, WiderSeq

(* What stays of a queue whose first element is taken.                     *)
LEMMA Taken ==
    ASSUME NEW S, NEW s \in Seq(S), s # <<>>
    PROVE  Head(s) \in S /\ Tail(s) \in Seq(S)
  BY HeadTailProperties

LEMMA ClearedAt ==
    ASSUME NEW D, NEW k \in Nat, NEW f \in [D -> 0..k], NEW x
    PROVE  [f EXCEPT ![x] = 0] \in [D -> 0..k]
<1>1. 0 \in 0..k
  OBVIOUS
<1>2. \A y \in D : [f EXCEPT ![x] = 0][y] \in 0..k
  BY <1>1
<1> QED
  BY <1>2

(* A window that joins the log.                                            *)
LEMMA LogGrows ==
    ASSUME Log, Writers, Control, NEW w \in Window, w.session \in 1..session,
           Len(log) < MaxWindows, Enqueue(w), UNCHANGED <<session, last, lastByPad, batch>>
    PROVE  Log' /\ Writers' /\ Len(log') = Len(log) + 1
<1> USE DEF Log, Writers, Enqueue, Writer!Accept
<1>1. Len(log) \in Nat /\ log \in Seq(Window)
  OBVIOUS
<1>2. /\ log' \in Seq(Window) /\ Len(log') = Len(log) + 1
      /\ \A n \in 1..Len(log) : log'[n] = log[n]
      /\ log'[Len(log) + 1] = w
  BY <1>1, AppendProperties
<1>3. DOMAIN log = 1..Len(log) /\ DOMAIN log' = 1..Len(log')
  BY <1>1, <1>2, LenProperties
<1>4. \A n \in DOMAIN log' : log'[n].session \in 1..session
  BY <1>1, <1>2, <1>3
<1>5. /\ 0..Len(log) \subseteq 0..Len(log')
      /\ Len(log') \in 0..MaxWindows
  <2>1. \A k \in Nat : k < MaxWindows => 0..k \subseteq 0..(k + 1) /\ k + 1 \in 0..MaxWindows
    BY PadAssumption
  <2>2. QED
    BY <1>1, <1>2, <2>1
<1>6. Log'
  BY <1>2, <1>4, <1>5
<1>7. [id |-> Len(log) + 1, n |-> Len(log')] \in Job(Len(log'))
  BY <1>1, <1>2 DEF Job
<1>8. waiting' \in Seq(Job(Len(log')))
  BY <1>1, <1>2, <1>7, LongerLog, AppendProperties
<1>9. answers' \in Seq(Reply(Len(log'))) /\ batch' \in Seq(Reply(Len(log')))
  BY <1>1, <1>2, LongerLog
<1>10. trials' \in [1..MaxWindows -> 0..Len(log')]
  BY <1>5
<1> QED
  BY <1>2, <1>6, <1>8, <1>9, <1>10

(* The parts that a command or a tick leaves alone.                        *)
LEMMA WritersKept ==
    ASSUME Log, Writers, UNCHANGED <<writerVars, batch>>
    PROVE  Writers'
  BY DEF Writers, writerVars

LEMMA ArchiveKept ==
    ASSUME Control, Archive, UNCHANGED archiveVars,
           session' = session \/ session' = session + 1
    PROVE  Archive'
<1>1. session \in Nat
  BY DEF Control
<1>2. CASE session' = session
  BY <1>2 DEF Archive, archiveVars
<1>3. CASE session' = session + 1
  BY <1>1, <1>3, LaterSessions DEF Archive, archiveVars
<1> QED
  BY <1>2, <1>3

(* A new session remembers no trial.                                       *)
LEMMA LogForgets ==
    ASSUME Control, Log, UNCHANGED log, session' = session + 1,
           last' = 0, lastByPad' = [p \in Pads |-> 0]
    PROVE  Log'
<1>1. Len(log) \in Nat /\ session \in Nat
  BY DEF Control, Log
<1>2. \A n \in DOMAIN log' : log'[n].session \in 1..session'
  BY <1>1 DEF Log
<1>3. lastByPad' \in [Pads -> 0..Len(log')] /\ last' \in 0..Len(log')
  BY <1>1
<1> QED
  BY <1>2, <1>3 DEF Log

---------------------------------------------------------------------------
LEMMA InitIInv == Init => IInv
<1> SUFFICES ASSUME Init PROVE IInv
  OBVIOUS
<1>1. log \in Seq(Window) /\ Len(log) = 0 /\ DOMAIN log = {}
  BY DEF Init
<1>2. Log /\ Writers
  BY <1>1 DEF Init, Log, Writers, Writer!Init
<1>3. Control /\ Archive
  BY DEF Init, Control, Archive
<1>4. Wizard
  <2>1. wizardPhases = <<>> /\ Len(wizardPhases) = 0 /\ wizardStep = 0 /\ wizardActive = FALSE
    BY DEF Init
  <2>2. wizardStep \in 0..Len(wizardPhases)
    BY <2>1
  <2> QED
    BY <2>1, <2>2 DEF Wizard
<1>5. Stage
  BY DEF Init, Stage, NoWindow
<1> QED
  BY <1>2, <1>3, <1>4, <1>5 DEF IInv

(* The commands, and the start of the process.                             *)
LEMMA Commands ==
    ASSUME IInv, Command \/ Restart
    PROVE  IInv'
<1> USE DEF IInv, Ready, wizardVars, stageVars, lastVars, archiveVars, setupVars, writerVars,
            Hit, NoWindow
<1>0. Len(log) \in Nat /\ session \in Nat
  BY DEF Log, Control
<1>1. ASSUME NEW p \in Pads, Select(p) PROVE IInv'
  BY <1>1 DEF Select, StopStage, Control, Wizard, Stage, Archive, Log, Writers
<1>2. ASSUME NEW p \in Pads, NEW z \in 1..2, Settings(p, z) PROVE IInv'
  <2>1. Control'
    BY <1>2 DEF Settings, NewSession, NextSession, Control
  <2>2. Wizard'
    BY <1>2 DEF Settings, Wizard
  <2>3. Stage'
    BY <1>2 DEF Settings, NewSession, NextSession, Stage
  <2>4. Archive' /\ Log' /\ Writers'
    BY <1>2, ArchiveKept, LogForgets, WritersKept DEF Settings, NewSession, NextSession
  <2> QED
    BY <2>1, <2>2, <2>3, <2>4
<1>3. ASSUME NEW p \in Pads, NEW z \in 1..2, Zones(p, z) PROVE IInv'
  BY <1>3 DEF Zones, Control, Wizard, Stage, Archive, Log, Writers
<1>4. ASSUME NEW p \in Pads, NEW z \in 1..2, StartWizard(p, z) PROVE IInv'
  <2>1. wizardPhases' = PhasesFor(z) /\ wizardStep' = 0 /\ phase' = PhasesFor(z)[1]
    BY <1>4 DEF StartWizard, PrepareWizardStep
  <2>2. PhasesFor(z)[1] \in Continuous
    BY PhasesOf, StepPhases
  <2>3. Control'
    BY <1>4, <2>1, <2>2 DEF StartWizard, NewSession, NextSession, PrepareWizardStep,
                            StopStage, Control, Phases
  <2>4. Wizard'
    BY <1>4, <2>1, PhasesOf, StepPhases DEF StartWizard, Wizard
  <2>5. Stage'
    BY <1>4 DEF StartWizard, PrepareWizardStep, StopStage, Stage
  <2>6. Archive' /\ Log' /\ Writers'
    BY <1>4, ArchiveKept, LogForgets, WritersKept DEF StartWizard, NewSession, NextSession
  <2> QED
    BY <2>3, <2>4, <2>5, <2>6
<1>5. ASSUME NEW p \in Pads, NEW z \in 1..2, RefuseWizard(p, z) PROVE IInv'
  <2>1. Control' /\ Wizard' /\ Stage'
    BY <1>5 DEF RefuseWizard, Control, Wizard, Stage
  <2>2. Archive' /\ Log' /\ Writers'
    BY <1>5 DEF RefuseWizard, Archive, Log, Writers
  <2> QED
    BY <2>1, <2>2
<1>6. ASSUME NEW ph \in Phases, Start(ph) PROVE IInv'
  <2>1. Control' /\ Wizard'
    BY <1>6 DEF Start, Control, Wizard
  <2>2. Stage'
    BY <1>6 DEF Start, Begun, Stage
  <2>3. Archive' /\ Log' /\ Writers'
    BY <1>6, ArchiveKept, WritersKept DEF Start, Log
  <2> QED
    BY <2>1, <2>2, <2>3
<1>7. ASSUME NEW p \in Pads, NEW s \in 1..session, ArchiveSeal(p, s) PROVE IInv'
  BY <1>7 DEF ArchiveSeal, Seal, Control, Wizard, Stage, Archive, Log, Writers
<1>8. ASSUME NEW d \in everSealed, ArchiveAck(d[1], d[2]) PROVE IInv'
  <2>1. d \in Pads \X (1..session)
    BY DEF Archive
  <2>2. d[1] \in Pads /\ <<d[1], d[2]>> \in Pads \X (1..session)
    BY <2>1
  <2>3. Archive'
    BY <1>8, <2>2 DEF ArchiveAck, Archive
  <2>4. trials' \in [1..MaxWindows -> 0..Len(log)]
    <3>1. trials \in [1..MaxWindows -> 0..Len(log)]
      BY DEF Writers
    <3> QED
      BY <1>8, <1>0, <3>1 DEF ArchiveAck, Remaining
  <2>5. last' \in 0..Len(log) /\ lastByPad' \in [Pads -> 0..Len(log)]
    <3>1. last \in 0..Len(log) /\ lastByPad \in [Pads -> 0..Len(log)]
      BY DEF Log
    <3>2. \A e, n : Forget(e, n) \in {0, n}
      BY DEF Forget
    <3>3. \/ UNCHANGED <<last, lastByPad>>
          \/ /\ last' = Forget(<<d[1], d[2]>>, last)
             /\ lastByPad' = [lastByPad EXCEPT ![d[1]] = Forget(<<d[1], d[2]>>, @)]
      BY <1>8 DEF ArchiveAck
    <3> QED
      BY <1>0, <2>2, <3>1, <3>2, <3>3
  <2>6. Log' /\ Writers'
    BY <1>8, <2>4, <2>5 DEF ArchiveAck, Log, Writers
  <2>7. Control' /\ Wizard' /\ Stage'
    BY <1>8 DEF ArchiveAck, Control, Wizard, Stage
  <2> QED
    BY <2>3, <2>6, <2>7
<1>8f. ASSUME NEW d \in everSealed, ArchiveAckFails(d[1], d[2]) PROVE IInv'
  <2>1. d \in Pads \X (1..session) /\ <<d[1], d[2]>> \in Pads \X (1..session)
    BY DEF Archive
  <2>2. PICK gone : trials' = Remaining(gone)
    BY <1>8f DEF ArchiveAckFails
  <2>3. Archive'
    BY <1>8f, <2>1 DEF ArchiveAckFails, Archive
  <2>4. trials' \in [1..MaxWindows -> 0..Len(log)]
    BY <1>0, <2>2 DEF Remaining, Writers
  <2>5. Log' /\ Writers'
    BY <1>8f, <2>4 DEF ArchiveAckFails, Log, Writers
  <2>6. Control' /\ Wizard' /\ Stage'
    BY <1>8f DEF ArchiveAckFails, Control, Wizard, Stage
  <2> QED
    BY <2>3, <2>5, <2>6
<1>9. ASSUME Stop PROVE IInv'
  BY <1>9 DEF Stop, StopStage, Control, Wizard, Stage, Archive, Log, Writers
<1>10. ASSUME StartSession PROVE IInv'
  <2>1. Control'
    BY <1>10 DEF StartSession, NewSession, NextSession, Control
  <2>2. Wizard'
    BY <1>10 DEF StartSession, Wizard
  <2>3. Stage'
    BY <1>10 DEF StartSession, NewSession, NextSession, Stage
  <2>4. Archive' /\ Log' /\ Writers'
    BY <1>10, ArchiveKept, LogForgets, WritersKept DEF StartSession, NewSession, NextSession
  <2> QED
    BY <2>1, <2>2, <2>3, <2>4
<1>11. ASSUME Discard PROVE IInv'
  <2>1. last' = 0 /\ lastByPad' \in [Pads -> 0..Len(log)]
    <3>1. last \in 0..Len(log) /\ lastByPad \in [Pads -> 0..Len(log)]
      BY DEF Log
    <3>2. last' = 0 /\ lastByPad' = [lastByPad EXCEPT ![log[last].pad] = 0]
      BY <1>11 DEF Discard, WithoutLast
    <3> QED
      BY <1>0, <3>1, <3>2, ClearedAt
  <2>2. trials' \in [1..MaxWindows -> 0..Len(log)]
    <3>1. trials \in [1..MaxWindows -> 0..Len(log)]
      BY DEF Writers
    <3>2. trials' = [trials EXCEPT ![last] = 0]
      BY <1>11 DEF Discard
    <3> QED
      BY <1>0, <3>1, <3>2, ClearedAt
  <2>3. Log' /\ Writers'
    <3>1. UNCHANGED <<log, waiting, answers, batch, session>>
      BY <1>11 DEF Discard
    <3>2. Log'
      BY <2>1, <3>1 DEF Log
    <3>3. Writers'
      BY <2>2, <3>1 DEF Writers
    <3> QED
      BY <3>2, <3>3
  <2>4. Stage'
    BY <1>11 DEF Discard, Stage
  <2>5. Control' /\ Wizard' /\ Archive'
    BY <1>11 DEF Discard, Control, Wizard, Archive
  <2> QED
    BY <2>3, <2>4, <2>5
<1>12. ASSUME Restart PROVE IInv'
  <2>1. Control'
    BY <1>12 DEF Restart, NextSession, Control
  <2>2. Wizard'
    <3>1. wizardPhases' = <<>> /\ Len(wizardPhases') = 0 /\ wizardStep' = 0 /\ wizardActive' = FALSE
      BY <1>12 DEF Restart
    <3>2. (wizardStep \in 0..Len(wizardPhases))'
      BY <3>1
    <3> QED
      BY <3>1, <3>2 DEF Wizard
  <2>3. Stage'
    BY <1>12 DEF Restart, Stage
  <2>4. Archive' /\ Log'
    BY <1>12, ArchiveKept, LogForgets DEF Restart, NextSession
  <2>5. Writers'
    BY <1>12 DEF Restart, Writer!Stop, Writers
  <2> QED
    BY <2>1, <2>2, <2>3, <2>4, <2>5
<1> QED
  BY <1>1, <1>2, <1>3, <1>4, <1>5, <1>6, <1>7, <1>8, <1>8f, <1>9, <1>10, <1>11, <1>12
     DEF Command

(* The first of the replies taken is about a window of the log.            *)
LEMMA ReplyInHand ==
    ASSUME IInv, Working
    PROVE  /\ Head(batch) \in Reply(Len(log)) /\ Tail(batch) \in Seq(Reply(Len(log)))
           /\ Head(batch).n \in DOMAIN log /\ Head(batch).n \in 1..Len(log)
           /\ Result \in Window
<1>1. batch \in Seq(Reply(Len(log))) /\ batch # <<>> /\ log \in Seq(Window)
  BY DEF IInv, Log, Writers, Working
<1>2. Head(batch) \in Reply(Len(log)) /\ Tail(batch) \in Seq(Reply(Len(log)))
  BY <1>1, Taken
<1>3. Head(batch).n \in 1..Len(log) /\ DOMAIN log = 1..Len(log)
  BY <1>1, <1>2, LenProperties DEF Reply
<1> QED
  BY <1>1, <1>2, <1>3 DEF Result

(* The window that collectSequence() or collect() hands over.              *)
LEMMA WindowTyped ==
    ASSUME IInv, state = "capturing"
    PROVE  /\ phase \in Continuous =>
                [pad |-> selected, session |-> session, phase |-> phase, stage |-> stage,
                 begun |-> buffer, usable |-> TRUE] \in Window
           /\ window # NoWindow => \A usable \in BOOLEAN :
                [pad |-> window.pad, session |-> window.session, phase |-> window.phase,
                 stage |-> window.stage, begun |-> window.stage, usable |-> usable] \in Window
  BY DEF IInv, Control, Stage, Hit, Window, Phases

(* The steps of tick().                                                    *)
LEMMA Ticks ==
    ASSUME IInv, TickStep
    PROVE  IInv'
<1> USE DEF IInv, wizardVars, stageVars, lastVars, archiveVars, setupVars, writerVars,
            Hit, NoWindow
<1>0. /\ Len(log) \in Nat /\ session \in Nat /\ stage \in Nat
      /\ wizardPhases \in {<<>>, PhasesFor(1), PhasesFor(2)}
  BY DEF Log, Control, Stage, Wizard
<1>1. ASSUME TickBeginsStep PROVE IInv'
  <2>1. Control' /\ Wizard'
    BY <1>1 DEF TickBeginsStep, TakeResults, Control, Wizard, Phases
  <2>2. Stage' /\ Archive'
    BY <1>1 DEF TickBeginsStep, Begun, Stage, Archive
  <2>3. Log' /\ Writers'
    BY <1>1 DEF TickBeginsStep, TakeResults, Writer!Take, Log, Writers
  <2> QED
    BY <2>1, <2>2, <2>3
<1>2. ASSUME TickFindsNoSpace PROVE IInv'
  BY <1>2 DEF TickFindsNoSpace, FailCapture, StopStage, Control, Wizard, Stage, Archive, Log,
              Writers
<1>3. ASSUME Tick PROVE IInv'
  <2>1. Control' /\ Wizard' /\ Stage' /\ Archive' /\ Log'
    BY <1>3 DEF Tick, TakeResults, Writer!Take, Control, Wizard, Stage, Archive, Log
  <2>2. Writers'
    BY <1>3 DEF Tick, TakeResults, Writer!Take, Writers
  <2> QED
    BY <2>1, <2>2
<1>4. ASSUME FailedResult PROVE IInv'
  <2>1. Control' /\ Wizard' /\ Stage' /\ Archive' /\ Log'
    BY <1>4 DEF FailedResult, StopStage, Control, Wizard, Stage, Archive, Log
  <2>2. Writers'
    BY <1>4, ReplyInHand DEF FailedResult, Writers
  <2> QED
    BY <2>1, <2>2
<1>5. ASSUME ForeignResult PROVE IInv'
  <2>1. Control' /\ Wizard' /\ Stage' /\ Archive' /\ Log'
    BY <1>5 DEF ForeignResult, Control, Wizard, Stage, Archive, Log
  <2>2. Writers'
    BY <1>5, ReplyInHand DEF ForeignResult, Writers
  <2> QED
    BY <2>1, <2>2
<1>6. ASSUME OwnResult PROVE IInv'
  <2>1. Control' /\ Wizard' /\ Archive'
    BY <1>6 DEF OwnResult, StopStage, Control, Wizard, Archive
  <2>2. Stage'
    <3>1. UNCHANGED <<stage, buffer, session>>
      BY <1>6 DEF OwnResult
    <3>2. /\ captured' \in {captured, captured + 1} /\ rejected' \in {rejected, rejected + 1}
          /\ window' \in {window, NoWindow} /\ submitted' \in {submitted, SubmittedLess}
      BY <1>6 DEF OwnResult, StopStage
    <3>3. Stage /\ SubmittedLess \in {submitted, submitted - 1} /\ SubmittedLess \in 0..submitted
      BY DEF Stage, SubmittedLess
    <3> QED
      BY <3>1, <3>2, <3>3 DEF Stage
  <2>3. last' \in 0..Len(log) /\ lastByPad' \in [Pads -> 0..Len(log)]
    <3>1. /\ last' \in {last, Head(batch).n}
          /\ lastByPad' = [lastByPad EXCEPT ![Result.pad] = Head(batch).n]
      BY <1>6 DEF OwnResult
    <3>2. last \in 0..Len(log) /\ lastByPad \in [Pads -> 0..Len(log)]
      BY DEF Log
    <3>3. Head(batch).n \in 0..Len(log)
      BY <1>0, <1>6, ReplyInHand DEF OwnResult
    <3> QED
      BY <3>1, <3>2, <3>3
  <2>4. Log'
    BY <1>6, <2>3 DEF OwnResult, Log
  <2>5. Writers'
    BY <1>6, ReplyInHand DEF OwnResult, Writers
  <2> QED
    BY <2>1, <2>2, <2>4, <2>5
<1>7. ASSUME Advance PROVE IInv'
  <2>1. Archive' /\ Log' /\ Writers'
    BY <1>7 DEF Advance, Archive, Log, Writers
  <2>2. CASE ~StepDone
    BY <1>7, <2>1, <2>2 DEF Advance, Control, Wizard, Stage
  <2>3. CASE StepDone
    <3>1. /\ wizardStep + 1 < Len(wizardPhases) /\ wizardStep' = wizardStep + 1
          /\ phase' = wizardPhases[wizardStep + 2] /\ state' = "countdown" /\ window' = NoWindow
          /\ captured' = 0 /\ submitted' = 0 /\ rejected' = 0 /\ pc' = "collect"
          /\ UNCHANGED <<setupVars, wizardActive, wizardPhases, stage, buffer>>
      BY <1>7, <2>3 DEF Advance, PrepareWizardStep, StopStage, Wizard
    <3>2. wizardStep \in Nat /\ Len(wizardPhases) \in Nat
      BY <1>0, StepPhases DEF Wizard
    <3>3. wizardStep + 2 \in 1..Len(wizardPhases)
      BY <3>1, <3>2
    <3>4. phase' \in Continuous
      BY <1>0, <3>1, <3>3, StepPhases
    <3>5. Control'
      BY <3>1, <3>4 DEF Control, Phases
    <3>6. Wizard'
      BY <3>1, <3>2 DEF Wizard
    <3>7. Stage'
      BY <3>1 DEF Stage
    <3> QED
      BY <2>1, <3>5, <3>6, <3>7
  <2> QED
    BY <2>2, <2>3
<1>8. ASSUME Complete PROVE IInv'
  <2>1. Control' /\ Stage' /\ Log' /\ Writers'
    BY <1>8 DEF Complete, FailCapture, StopStage, Control, Stage, Log, Writers
  <2>2. Archive'
    BY <1>8 DEF Complete, Seal, Archive
  <2>3. Wizard'
    <3>1. /\ wizardActive /\ wizardStep' = wizardStep + 1 /\ wizardActive' = FALSE
          /\ UNCHANGED wizardPhases
      BY <1>8 DEF Complete, StepDone, FailCapture
    <3>2. wizardStep \in Nat /\ Len(wizardPhases) \in Nat /\ wizardStep < Len(wizardPhases)
      BY <1>0, <3>1, StepPhases DEF Wizard
    <3>3. wizardStep' \in 0..Len(wizardPhases') /\ wizardActive' = FALSE
      BY <3>1, <3>2
    <3> QED
      BY <1>0, <3>1, <3>3 DEF Wizard
  <2> QED
    BY <2>1, <2>2, <2>3
<1>9. ASSUME CollectNothing PROVE IInv'
  BY <1>9 DEF CollectNothing, Control, Wizard, Stage, Archive, Log, Writers
<1>10. ASSUME TakeEnds PROVE IInv'
  <2>1. Control' /\ Wizard' /\ Archive'
    BY <1>10 DEF TakeEnds, AfterTake, Control, Wizard, Archive
  <2>2. Stage'
    BY <1>10 DEF TakeEnds, Stage
  <2>3. Log' /\ Writers'
    <3> DEFINE w == [pad |-> selected, session |-> session, phase |-> phase, stage |-> stage,
                     begun |-> buffer, usable |-> TRUE]
    <3>1. /\ Len(log) < MaxWindows /\ Enqueue(w)
          /\ UNCHANGED <<session, last, lastByPad, batch>>
      BY <1>10 DEF TakeEnds
    <3>2. w \in Window
      BY <1>10, WindowTyped DEF TakeEnds
    <3>3. w.session \in 1..session
      BY DEF Control
    <3> QED
      BY <3>1, <3>2, <3>3, LogGrows
  <2> QED
    BY <2>1, <2>2, <2>3
<1>11. ASSUME WindowBegins PROVE IInv'
  <2>1. Control' /\ Wizard' /\ Archive' /\ Log' /\ Writers'
    BY <1>11 DEF WindowBegins, Control, Wizard, Archive, Log, Writers
  <2>2. Stage'
    BY <1>11 DEF WindowBegins, MoreHits, Stage, Control
  <2> QED
    BY <2>1, <2>2
<1>12. ASSUME WindowEnds PROVE IInv'
  <2>1. Control' /\ Wizard' /\ Archive'
    BY <1>12 DEF WindowEnds, Control, Wizard, Archive
  <2>2. Stage'
    <3>1. /\ window # NoWindow /\ window' = NoWindow /\ submitted' = submitted + 1
          /\ UNCHANGED <<stage, buffer, captured, rejected>>
      BY <1>12 DEF WindowEnds
    <3>2. Stage /\ submitted < StageTarget
      BY <3>1 DEF Stage
    <3>3. submitted' \in 0..StageTarget
      BY <3>1, <3>2 DEF Stage
    <3>4. stage' \in Nat /\ buffer' \in 0..stage' /\ captured' \in Nat /\ rejected' \in Nat
      BY <3>1, <3>2 DEF Stage
    <3> HIDE DEF NoWindow
    <3> QED
      BY <3>1, <3>3, <3>4 DEF Stage
  <2>3. Log' /\ Writers'
    <3>1. PICK usable \in BOOLEAN :
            Enqueue([pad |-> window.pad, session |-> window.session, phase |-> window.phase,
                     stage |-> window.stage, begun |-> window.stage, usable |-> usable])
      BY <1>12 DEF WindowEnds
    <3> DEFINE w == [pad |-> window.pad, session |-> window.session, phase |-> window.phase,
                     stage |-> window.stage, begun |-> window.stage, usable |-> usable]
    <3>2. /\ Len(log) < MaxWindows /\ window # NoWindow /\ state = "capturing"
          /\ UNCHANGED <<session, last, lastByPad, batch>>
      BY <1>12 DEF WindowEnds
    <3>3. w \in Window
      BY <3>2, WindowTyped
    <3>4. w.session \in 1..session
      BY <3>2 DEF Stage
    <3> QED
      BY <3>1, <3>2, <3>3, <3>4, LogGrows
  <2> QED
    BY <2>1, <2>2, <2>3
<1>13. ASSUME CollectFails PROVE IInv'
  BY <1>13 DEF CollectFails, FailCapture, StopStage, Control, Wizard, Stage, Archive, Log,
               Writers
<1> QED
  BY <1>1, <1>2, <1>3, <1>4, <1>5, <1>6, <1>7, <1>8, <1>9, <1>10, <1>11, <1>12, <1>13
  DEF TickStep

(* The writer thread.                                                      *)
LEMMA WriterSteps ==
    ASSUME IInv, WriterStep
    PROVE  IInv'
<1> USE DEF IInv, wizardVars, stageVars, lastVars, setupVars, Hit, NoWindow
<1>1. waiting \in Seq(Job(Len(log))) /\ waiting # <<>> /\ Len(log) \in Nat /\ log \in Seq(Window)
  BY DEF WriterStep, Saves, Answers, Writer!Appear, Writer!Answer, Writers, Log
<1>2. Head(waiting) \in Job(Len(log)) /\ Tail(waiting) \in Seq(Job(Len(log)))
  BY <1>1, Taken
<1>3. Head(waiting).n \in DOMAIN log /\ Head(waiting).n \in 1..Len(log)
      /\ Head(waiting).id \in 1..Len(log)
  BY <1>1, <1>2, LenProperties DEF Job
<1>4. Pair(log[Head(waiting).n]) \in Pads \X (1..session)
  <2>1. log[Head(waiting).n] \in Window
    BY <1>1, <1>3, ElementOfSeq, LenProperties
  <2>2. log[Head(waiting).n].session \in 1..session
    BY <1>3 DEF Log
  <2> QED
    BY <2>1, <2>2 DEF Window, Pair
<1>5. UNCHANGED log /\ dirs' \in {dirs, dirs \cup {Pair(log[Head(waiting).n])}}
  BY DEF WriterStep, Saves, Answers
<1>6. Control' /\ Wizard' /\ Stage' /\ Log'
  BY <1>5 DEF WriterStep, Control, Wizard, Stage, Log
<1>7. Archive'
  BY <1>4, <1>5 DEF WriterStep, Archive
<1>8. Writers'
  <2>1. CASE Saves
    <3>1. trials' = [trials EXCEPT ![Head(waiting).id] = Head(waiting).n]
          /\ UNCHANGED <<log, waiting, answers, batch>>
      BY <2>1 DEF WriterStep, Saves, Writer!Appear
    <3>2. trials \in [1..MaxWindows -> 0..Len(log)] /\ Head(waiting).n \in 0..Len(log)
      BY <1>1, <1>3 DEF Writers
    <3>3. trials' \in [1..MaxWindows -> 0..Len(log)]
      BY <3>1, <3>2
    <3> QED
      BY <3>1, <3>3 DEF Writers
  <2>2. CASE Answers
    <3>1. [id |-> Head(waiting).id, n |-> Head(waiting).n,
           ok |-> trials[Head(waiting).id] = Head(waiting).n] \in Reply(Len(log))
      BY <1>3 DEF Reply
    <3>2. answers' \in Seq(Reply(Len(log)))
      BY <2>2, <3>1, AppendProperties DEF Answers, Writer!Answer, Writers
    <3> QED
      BY <1>2, <2>2, <3>2 DEF WriterStep, Answers, Writer!Answer, Writers
  <2> QED
    BY <2>1, <2>2 DEF WriterStep
<1> QED
  BY <1>6, <1>7, <1>8

THEOREM Inductive == Spec => []IInv
<1>1. IInv /\ [Next]_vars => IInv'
  <2> SUFFICES ASSUME IInv, [Next]_vars PROVE IInv'
    OBVIOUS
  <2>1. CASE Next
    BY <2>1, Commands, Ticks, WriterSteps DEF Next
  <2>2. CASE UNCHANGED vars
    <3>1. Control' /\ Wizard' /\ Stage'
      BY <2>2 DEF vars, IInv, Control, Wizard, Stage, Hit
    <3>2. Archive' /\ Log' /\ Writers'
      BY <2>2 DEF vars, IInv, Archive, Log, Writers
    <3> QED
      BY <3>1, <3>2 DEF IInv
  <2> QED
    BY <2>1, <2>2
<1> QED
  BY <1>1, InitIInv, PTL DEF Spec

(* Every variable of the service keeps its type; in particular no stage     *)
(* submits more windows than its target, the wizard stays within its steps  *)
(* and the last trials are windows that exist (collect, tick, command).     *)
THEOREM PadTypes == Spec => []TypeOK
<1>1. IInv => TypeOK
  <2> SUFFICES ASSUME IInv PROVE TypeOK
    OBVIOUS
  <2> USE DEF IInv
  <2>1. Reply(Len(log)) \subseteq [id : 1..MaxWindows, n : 1..MaxWindows, ok : BOOLEAN]
    BY DEF Reply, Log
  <2>2. batch \in Seq([id : 1..MaxWindows, n : 1..MaxWindows, ok : BOOLEAN])
    BY <2>1, WiderSeq DEF Writers
  <2>3. {sealed, dirs, receipts, everSealed, torn} \subseteq SUBSET (Pads \X (1..session))
    BY DEF Archive
  <2>4. /\ last \in 0..Len(log) /\ lastByPad \in [Pads -> 0..Len(log)]
        /\ trials \in [1..MaxWindows -> 0..Len(log)]
    BY DEF Log, Writers
  <2> QED
    BY <2>2, <2>3, <2>4 DEF TypeOK, Control, Wizard, Stage
<1> QED
  BY <1>1, Inductive, PTL

---------------------------------------------------------------------------
(* The buffer of a continuous take that is being recorded was begun for it, *)
(* and so were those of the takes handed over.                              *)
BufferBegun == state = "capturing" /\ phase \in Continuous => buffer = stage

LEMMA Begins ==
    ASSUME IInv, BufferBegun, TakeBegun, [Next]_vars,
           "space" \notin Faults \/ "start" \notin Verbs
    PROVE  BufferBegun' /\ TakeBegun'
<1> USE DEF IInv, wizardVars, stageVars, lastVars, archiveVars, setupVars, writerVars
<1>1. CASE UNCHANGED log /\ BufferBegun'
  BY <1>1 DEF TakeBegun
<1>2. ASSUME UNCHANGED log,
             \/ state' # "capturing"
             \/ UNCHANGED <<state, phase, buffer, stage>>
      PROVE  BufferBegun' /\ TakeBegun'
  BY <1>2 DEF BufferBegun, TakeBegun
<1>3. ASSUME Command \/ Restart PROVE BufferBegun' /\ TakeBegun'
  <2>1. ASSUME NEW ph \in Phases, Start(ph) PROVE BufferBegun' /\ TakeBegun'
    <3>1. UNCHANGED log /\ phase' = ph
      BY <2>1 DEF Start
    <3>2. ph \in Continuous => buffer' = stage'
      BY <2>1 DEF Start, Ready, Begun
    <3> QED
      BY <3>1, <3>2, <1>1 DEF BufferBegun
  <2>2. CASE \/ \E p \in Pads : Select(p)
             \/ \E p \in Pads, z \in 1..2 : Settings(p, z) \/ Zones(p, z)
             \/ Stop \/ StartSession \/ Restart
    BY <1>2, <2>2 DEF Select, StopStage, Settings, Zones, Stop, StartSession, Restart
  <2>3. CASE \/ \E p \in Pads, z \in 1..2 : StartWizard(p, z) \/ RefuseWizard(p, z)
             \/ \E p \in Pads, s \in 1..session : ArchiveSeal(p, s)
             \/ \E d \in everSealed : ArchiveAck(d[1], d[2]) \/ ArchiveAckFails(d[1], d[2])
             \/ Discard
    BY <1>2, <2>3 DEF StartWizard, PrepareWizardStep, StopStage, RefuseWizard, ArchiveSeal,
                      ArchiveAck, ArchiveAckFails, Discard
  <2> QED
    BY <1>3, <2>1, <2>2, <2>3 DEF Command
<1>4. ASSUME TickStep PROVE BufferBegun' /\ TakeBegun'
  <2>1. CASE TickBeginsStep
    <3>1. UNCHANGED log /\ BufferBegun'
      BY <2>1 DEF TickBeginsStep, TakeResults, Begun, BufferBegun
    <3> QED
      BY <3>1, <1>1
  <2>2. CASE TakeEnds
    <3> DEFINE w == [pad |-> selected, session |-> session, phase |-> phase, stage |-> stage,
                     begun |-> buffer, usable |-> TRUE]
    <3>1. log' = Append(log, w) /\ state' # "capturing" /\ w.begun = w.stage
      BY <2>2 DEF TakeEnds, Enqueue, AfterTake, BufferBegun
    <3>2. log \in Seq(Window)
      BY DEF Log
    <3>3. w \in Window
      BY <2>2, WindowTyped DEF TakeEnds
    <3>4. \A n \in DOMAIN log' : (n \in DOMAIN log /\ log'[n] = log[n]) \/ log'[n] = w
      BY <3>1, <3>2, <3>3, AppendProperties
    <3> QED
      BY <3>1, <3>4 DEF BufferBegun, TakeBegun
  <2>3. CASE WindowEnds
    <3>1. PICK usable \in BOOLEAN :
            Enqueue([pad |-> window.pad, session |-> window.session, phase |-> window.phase,
                     stage |-> window.stage, begun |-> window.stage, usable |-> usable])
      BY <2>3 DEF WindowEnds
    <3> DEFINE w == [pad |-> window.pad, session |-> window.session, phase |-> window.phase,
                     stage |-> window.stage, begun |-> window.stage, usable |-> usable]
    <3>2. log' = Append(log, w) /\ UNCHANGED <<state, phase, buffer, stage>>
      BY <2>3, <3>1 DEF WindowEnds, Enqueue
    <3>3. w \in Window /\ log \in Seq(Window)
      BY <2>3, WindowTyped DEF WindowEnds, Log
    <3>4. \A n \in DOMAIN log' : (n \in DOMAIN log /\ log'[n] = log[n]) \/ log'[n] = w
      BY <3>2, <3>3, AppendProperties
    <3> QED
      BY <3>2, <3>4 DEF BufferBegun, TakeBegun
  <2>4. CASE TickFindsNoSpace \/ FailedResult \/ Complete \/ CollectFails \/ Advance
    BY <1>2, <2>4 DEF TickFindsNoSpace, FailedResult, Complete, CollectFails, FailCapture,
                      StopStage, Advance, PrepareWizardStep
  <2>5. CASE Tick \/ ForeignResult \/ CollectNothing \/ WindowBegins
    BY <1>2, <2>5 DEF Tick, TakeResults, ForeignResult, CollectNothing, WindowBegins
  <2>6. CASE OwnResult
    <3>1. /\ UNCHANGED <<log, phase, buffer, stage>>
          /\ state' \in {state, "review", "error"}
      BY <2>6 DEF OwnResult, StopStage
    <3> QED
      BY <1>2, <3>1
  <2> QED
    BY <1>4, <2>1, <2>2, <2>3, <2>4, <2>5, <2>6 DEF TickStep
<1>5. CASE WriterStep
  BY <1>2, <1>5 DEF WriterStep, Saves, Answers
<1>6. CASE UNCHANGED vars
  BY <1>2, <1>6 DEF vars
<1> QED
  BY <1>3, <1>4, <1>5, <1>6 DEF Next

(* Unless a continuous start runs out of space between its two checks, every*)
(* continuous take handed to the writer was begun for its own stage         *)
(* (beginWizardStep, collectSequence).                                      *)
THEOREM TakesAreBegun ==
    ASSUME "space" \notin Faults \/ "start" \notin Verbs
    PROVE  Spec => []TakeBegun
<1>1. Init => BufferBegun /\ TakeBegun
  BY DEF Init, BufferBegun, TakeBegun
<1>2. IInv /\ BufferBegun /\ TakeBegun /\ [Next]_vars => BufferBegun' /\ TakeBegun'
  BY Begins
<1> QED
  BY <1>1, <1>2, Inductive, PTL DEF Spec

---------------------------------------------------------------------------
(* The accounting of a stage. Windows handed over and not yet worked off,  *)
(* by serial number: none is at two places of the writer's queues.         *)
Serials(s) == {s[i].n : i \in 1..Len(s)}
Distinct(s) == \A i, j \in 1..Len(s) : s[i].n = s[j].n => i = j

Order ==
  /\ pc # "results" => batch = <<>>
  /\ Distinct(waiting) /\ Distinct(answers) /\ Distinct(batch)
  /\ Serials(waiting) \cap Serials(answers) = {}
  /\ Serials(waiting) \cap Serials(batch) = {}
  /\ Serials(answers) \cap Serials(batch) = {}

Outstanding == Serials(waiting) \cup Serials(answers) \cup Serials(batch)

\* No window is of a later stage than the present one, and while separate hits
\* are collected those of the stage are of its phase and pad.
StagesSoFar == \A n \in DOMAIN log : log[n].session = session => log[n].stage <= stage
OfStage(w) == w.pad = selected /\ w.session = session /\ w.phase = phase /\ w.stage = stage
OneKind ==
  state = "capturing" /\ phase \in Isolated =>
    /\ \A n \in StageWindows : OfStage(log[n])
    /\ window # NoWindow => OfStage(window)

Counted ==
  state = "capturing" /\ phase \in Isolated =>
    submitted = captured + Cardinality(StageWindows \cap Outstanding)

LEMMA WithoutHead ==
    ASSUME NEW S, NEW s \in Seq(S), s # <<>>
    PROVE  /\ Serials(s) = Serials(Tail(s)) \cup {Head(s).n}
           /\ Distinct(s) => Distinct(Tail(s)) /\ Head(s).n \notin Serials(Tail(s))
<1>1. /\ Len(s) \in Nat /\ Len(s) # 0 /\ Head(s) = s[1]
      /\ Len(Tail(s)) = Len(s) - 1
      /\ \A i \in 1..Len(Tail(s)) : Tail(s)[i] = s[i + 1]
  BY HeadTailProperties, EmptySeq, LenProperties
<1>2. Serials(Tail(s)) = {s[i].n : i \in 2..Len(s)}
  <2>1. \A i \in 1..Len(Tail(s)) : i + 1 \in 2..Len(s) /\ Tail(s)[i].n = s[i + 1].n
    BY <1>1
  <2>2. \A i \in 2..Len(s) : i - 1 \in 1..Len(Tail(s)) /\ Tail(s)[i - 1].n = s[i].n
    BY <1>1
  <2>3. Serials(Tail(s)) \subseteq {s[i].n : i \in 2..Len(s)}
    BY <2>1 DEF Serials
  <2>4. {s[i].n : i \in 2..Len(s)} \subseteq Serials(Tail(s))
    BY <2>2 DEF Serials
  <2> QED
    BY <2>3, <2>4
<1>3. \A i \in 1..Len(s) : i = 1 \/ i \in 2..Len(s)
  BY <1>1
<1>4. 1 \in 1..Len(s) /\ 2..Len(s) \subseteq 1..Len(s)
  BY <1>1
<1>5. Serials(s) = Serials(Tail(s)) \cup {Head(s).n}
  <2>1. \A x \in Serials(s) : x \in Serials(Tail(s)) \cup {Head(s).n}
    BY <1>1, <1>2, <1>3 DEF Serials
  <2>2. Serials(Tail(s)) \subseteq Serials(s) /\ Head(s).n \in Serials(s)
    BY <1>1, <1>2, <1>4 DEF Serials
  <2> QED
    BY <2>1, <2>2
<1>6. ASSUME Distinct(s) PROVE Distinct(Tail(s)) /\ Head(s).n \notin Serials(Tail(s))
  <2>1. ASSUME NEW i \in 1..Len(Tail(s)), NEW j \in 1..Len(Tail(s)),
               Tail(s)[i].n = Tail(s)[j].n
        PROVE  i = j
    <3>1. i + 1 \in 1..Len(s) /\ j + 1 \in 1..Len(s) /\ s[i + 1].n = s[j + 1].n
      BY <1>1, <2>1
    <3>2. i + 1 = j + 1
      BY <1>6, <3>1 DEF Distinct
    <3> QED
      BY <3>2
  <2>2. \A i \in 2..Len(s) : s[i].n # s[1].n
    BY <1>4, <1>6 DEF Distinct
  <2> QED
    BY <1>1, <1>2, <2>1, <2>2 DEF Distinct
<1> QED
  BY <1>5, <1>6

LEMMA WithOneMore ==
    ASSUME NEW S, NEW s \in Seq(S), NEW e \in S
    PROVE  /\ Serials(Append(s, e)) = Serials(s) \cup {e.n}
           /\ Distinct(s) /\ e.n \notin Serials(s) => Distinct(Append(s, e))
<1>1. /\ Len(s) \in Nat /\ Len(Append(s, e)) = Len(s) + 1
      /\ \A i \in 1..Len(s) : Append(s, e)[i] = s[i]
      /\ Append(s, e)[Len(s) + 1] = e
  BY AppendProperties, LenProperties
<1>2. \A i : i \in 1..(Len(s) + 1) <=> i \in 1..Len(s) \/ i = Len(s) + 1
  BY <1>1
<1>3. Serials(Append(s, e)) = Serials(s) \cup {e.n}
  BY <1>1, <1>2 DEF Serials
<1>4. ASSUME Distinct(s), e.n \notin Serials(s) PROVE Distinct(Append(s, e))
  BY <1>1, <1>2, <1>4 DEF Serials, Distinct
<1> QED
  BY <1>3, <1>4

LEMMA NoneLeft == Serials(<<>>) = {} /\ Distinct(<<>>)
  BY DEF Serials, Distinct

(* What is outstanding are windows of the log.                             *)
LEMMA OutstandingWindows ==
    ASSUME IInv
    PROVE  /\ Outstanding \subseteq 1..Len(log)
           /\ DOMAIN log = 1..Len(log) /\ Len(log) \in Nat
           /\ Unanswered = Outstanding
<1>1. DOMAIN log = 1..Len(log) /\ Len(log) \in Nat
  BY LenProperties DEF IInv, Log
<1>2. /\ waiting \in Seq(Job(Len(log))) /\ answers \in Seq(Reply(Len(log)))
      /\ batch \in Seq(Reply(Len(log)))
  BY DEF IInv, Writers
<1>3. /\ \A i \in 1..Len(waiting) : waiting[i].n \in 1..Len(log)
      /\ \A i \in 1..Len(answers) : answers[i].n \in 1..Len(log)
      /\ \A i \in 1..Len(batch) : batch[i].n \in 1..Len(log)
  <2>1. /\ \A i \in 1..Len(waiting) : waiting[i] \in Job(Len(log))
        /\ \A i \in 1..Len(answers) : answers[i] \in Reply(Len(log))
        /\ \A i \in 1..Len(batch) : batch[i] \in Reply(Len(log))
    BY <1>2, ElementOfSeq
  <2> QED
    BY <2>1 DEF Job, Reply
<1>4. DOMAIN waiting = 1..Len(waiting) /\ DOMAIN answers = 1..Len(answers)
      /\ DOMAIN batch = 1..Len(batch)
  BY <1>2, LenProperties
<1>5. Outstanding \subseteq 1..Len(log)
  BY <1>3 DEF Outstanding, Serials
<1>6. \A n \in DOMAIN log : n \in Unanswered <=> n \in Outstanding
  BY <1>4 DEF Unanswered, Outstanding, Serials
<1>7. Unanswered = Outstanding
  BY <1>1, <1>5, <1>6 DEF Unanswered
<1> QED
  BY <1>1, <1>5, <1>7

(* The replies taken, from the first one on.                               *)
LEMMA QueuesKept ==
    ASSUME Order, UNCHANGED <<waiting, answers, batch>>, pc' = pc \/ batch = <<>>
    PROVE  Order' /\ Outstanding' = Outstanding
  BY DEF Order, Outstanding

LEMMA QueuesTaken ==
    ASSUME Order, pc = "loop", pc' = "results", batch' = answers, answers' = <<>>,
           UNCHANGED waiting
    PROVE  Order' /\ Outstanding' = Outstanding
  BY NoneLeft DEF Order, Outstanding

LEMMA QueuesWorkedOff ==
    ASSUME IInv, Order, Working, batch' = Tail(batch), UNCHANGED <<pc, waiting, answers>>
    PROVE  /\ Order'
           /\ Head(batch).n \in Outstanding
           /\ Outstanding' = Outstanding \ {Head(batch).n}
<1>1. batch \in Seq(Reply(Len(log))) /\ batch # <<>> /\ pc = "results"
  BY DEF IInv, Writers, Working
<1>2. /\ Serials(batch) = Serials(batch') \cup {Head(batch).n}
      /\ Distinct(batch') /\ Head(batch).n \notin Serials(batch')
  BY <1>1, WithoutHead DEF Order
<1> QED
  BY <1>1, <1>2 DEF Order, Outstanding

LEMMA QueuesAnswered ==
    ASSUME IInv, Order, Answers, UNCHANGED <<pc, batch>>
    PROVE  Order' /\ Outstanding' = Outstanding
<1> DEFINE w == Head(waiting)
           r == [id |-> w.id, n |-> w.n, ok |-> trials[w.id] = w.n]
<1>1. /\ waiting \in Seq(Job(Len(log))) /\ waiting # <<>> /\ answers \in Seq(Reply(Len(log)))
      /\ waiting' = Tail(waiting) /\ answers' = Append(answers, r)
  BY DEF IInv, Writers, Answers, Writer!Answer
<1>2. w \in Job(Len(log))
  BY <1>1, Taken
<1>3. r \in Reply(Len(log)) /\ r.n = w.n
  BY <1>2 DEF Job, Reply
<1>4. /\ Serials(waiting) = Serials(waiting') \cup {w.n}
      /\ Distinct(waiting') /\ w.n \notin Serials(waiting')
  BY <1>1, WithoutHead DEF Order
<1>5. w.n \notin Serials(answers)
  BY <1>4 DEF Order
<1>6. /\ Serials(answers') = Serials(answers) \cup {w.n}
      /\ Distinct(answers')
  BY <1>1, <1>3, <1>5, WithOneMore DEF Order
<1> QED
  BY <1>4, <1>6 DEF Order, Outstanding

LEMMA QueuesGrow ==
    ASSUME IInv, Order, NEW w \in Window, Enqueue(w), UNCHANGED batch, pc' = pc \/ batch = <<>>
    PROVE  /\ Order'
           /\ Outstanding' = Outstanding \cup {Len(log) + 1}
           /\ Len(log') = Len(log) + 1 /\ log'[Len(log) + 1] = w
           /\ DOMAIN log' = DOMAIN log \cup {Len(log) + 1}
           /\ \A n \in DOMAIN log : log'[n] = log[n]
           /\ Serials(waiting') = Serials(waiting) \cup {Len(log) + 1}
<1> DEFINE job == [id |-> Len(log) + 1, n |-> Len(log')]
<1>1. log \in Seq(Window) /\ Len(log) \in Nat /\ waiting \in Seq(Job(Len(log)))
  BY DEF IInv, Log, Writers
<1>2. /\ log' = Append(log, w) /\ waiting' = Append(waiting, job) /\ UNCHANGED answers
  BY DEF Enqueue, Writer!Accept
<1>3. /\ Len(log') = Len(log) + 1 /\ log'[Len(log) + 1] = w
      /\ \A n \in 1..Len(log) : log'[n] = log[n]
      /\ DOMAIN log = 1..Len(log) /\ DOMAIN log' = 1..(Len(log) + 1)
  BY <1>1, <1>2, AppendProperties, LenProperties
<1>4. 1..(Len(log) + 1) = 1..Len(log) \cup {Len(log) + 1}
  BY <1>1
<1>5. job \in Job(Len(log) + 1) /\ waiting \in Seq(Job(Len(log) + 1)) /\ job.n = Len(log) + 1
  <2>1. waiting \in Seq(Job(Len(log) + 1))
    BY <1>1, LongerLog
  <2>2. job \in Job(Len(log) + 1) /\ job.n = Len(log) + 1
    BY <1>1, <1>3 DEF Job
  <2> QED
    BY <2>1, <2>2
<1>6. Len(log) + 1 \notin Outstanding
  BY <1>1, OutstandingWindows
<1>7. Serials(waiting') = Serials(waiting) \cup {Len(log) + 1} /\ Distinct(waiting')
  BY <1>2, <1>5, <1>6, WithOneMore DEF Order, Outstanding
<1>8. Order' /\ Outstanding' = Outstanding \cup {Len(log) + 1}
  BY <1>2, <1>6, <1>7 DEF Order, Outstanding
<1> QED
  BY <1>3, <1>4, <1>7, <1>8

(* A step that leaves the stage and the outstanding windows of it alone.   *)
LEMMA StageKept ==
    ASSUME StagesSoFar, OneKind, Counted,
           UNCHANGED <<log, session, stage, state, phase, selected, window, submitted, captured>>,
           StageWindows \cap Outstanding' = StageWindows \cap Outstanding
    PROVE  StagesSoFar' /\ OneKind' /\ Counted'
  BY DEF StagesSoFar, OneKind, Counted, StageWindows, OfStage

(* One that ends, or is not in, a stage of separate hits.                  *)
LEMMA StageOver ==
    ASSUME IInv, StagesSoFar, UNCHANGED <<log, stage>>,
           session' = session \/ session' = session + 1,
           state' # "capturing" \/ phase' \in Continuous
    PROVE  StagesSoFar' /\ OneKind' /\ Counted'
<1>1. CASE session' = session
  BY <1>1 DEF StagesSoFar, OneKind, Counted
<1>2. CASE session' = session + 1
  <2>1. \A n \in DOMAIN log : log[n].session # session'
    BY <1>2 DEF IInv, Log, Control
  <2> QED
    BY <2>1 DEF StagesSoFar, OneKind, Counted
<1> QED
  BY <1>1, <1>2

Accounting == Order /\ StagesSoFar /\ OneKind /\ Counted

LEMMA CommandsCount ==
    ASSUME IInv, Accounting, Command \/ Restart
    PROVE  Accounting'
<1> USE DEF Accounting, wizardVars, stageVars, lastVars, archiveVars, setupVars, writerVars
<1>1. ASSUME NEW ph \in Phases, Start(ph) PROVE Accounting'
  <2>1. Order'
    BY <1>1, QueuesKept DEF Start
  <2>2. /\ stage' > stage /\ stage \in Nat /\ stage' \in Nat /\ window' = NoWindow
        /\ submitted' = 0 /\ captured' = 0 /\ UNCHANGED <<log, session>>
    BY <1>1 DEF Start, Begun, IInv, Stage
  <2>3. \A n \in DOMAIN log : log[n].session = session => log[n].stage < stage'
    <3>1. \A n \in DOMAIN log : log[n] \in Window
      BY ElementOfSeq, LenProperties DEF IInv, Log
    <3>2. \A n \in DOMAIN log : log[n].stage \in Nat
      BY <3>1 DEF Window
    <3> QED
      BY <2>2, <3>2 DEF StagesSoFar
  <2>4. StagesSoFar'
    <3>1. \A n \in DOMAIN log : log[n] \in Window
      BY ElementOfSeq, LenProperties DEF IInv, Log
    <3>2. \A n \in DOMAIN log : log[n].stage \in Nat
      BY <3>1 DEF Window
    <3> QED
      BY <2>2, <2>3, <3>2 DEF StagesSoFar
  <2>5. StageWindows' = {}
    BY <2>2, <2>3 DEF StageWindows
  <2>6. (StageWindows \cap Outstanding)' = {}
    BY <2>5
  <2>7. Counted'
    BY <2>2, <2>6, FS_EmptySet DEF Counted
  <2>8. OneKind'
    BY <2>2, <2>5 DEF OneKind
  <2> QED
    BY <2>1, <2>4, <2>7, <2>8
<1>2. CASE \/ \E p \in Pads : Select(p)
           \/ \E p \in Pads, z \in 1..2 : Settings(p, z) \/ Zones(p, z)
           \/ Stop \/ StartSession \/ Discard
  BY <1>2, QueuesKept, StageOver DEF Select, StopStage, Settings, Zones, Stop, StartSession,
                                     NewSession, NextSession, Discard
<1>3. CASE \E p \in Pads, z \in 1..2 : StartWizard(p, z) \/ RefuseWizard(p, z)
  BY <1>3, QueuesKept, StageOver DEF StartWizard, PrepareWizardStep, StopStage, NewSession,
                                     NextSession, RefuseWizard
<1>4. CASE \/ \E p \in Pads, s \in 1..session : ArchiveSeal(p, s)
           \/ \E d \in everSealed : ArchiveAck(d[1], d[2]) \/ ArchiveAckFails(d[1], d[2])
  BY <1>4, QueuesKept, StageKept DEF ArchiveSeal, ArchiveAck, ArchiveAckFails
<1>5. CASE Restart
  <2>1. Order'
    BY <1>5, NoneLeft DEF Restart, Writer!Stop, Order
  <2>2. \A n \in DOMAIN log : log[n].session # session'
    BY <1>5 DEF Restart, NextSession, IInv, Log, Control
  <2>3. StagesSoFar' /\ OneKind' /\ Counted'
    BY <1>5, <2>2 DEF Restart, StagesSoFar, OneKind, Counted
  <2> QED
    BY <2>1, <2>3
<1> QED
  BY <1>1, <1>2, <1>3, <1>4, <1>5 DEF Command

LEMMA TicksCount ==
    ASSUME IInv, Accounting, TickStep
    PROVE  Accounting'
<1> USE DEF Accounting, wizardVars, stageVars, lastVars, archiveVars, setupVars, writerVars
<1>0. /\ stage \in Nat /\ submitted \in Nat /\ captured \in Nat
      /\ \A n \in DOMAIN log : log[n] \in Window
  BY ElementOfSeq, LenProperties DEF IInv, Stage, Log
<1>1. CASE TickBeginsStep
  <2>1. Order'
    BY <1>1, QueuesTaken DEF TickBeginsStep, TakeResults, Writer!Take
  <2>2. /\ stage' = stage + 1 /\ UNCHANGED <<log, session>> /\ phase' \in Continuous
    BY <1>1 DEF TickBeginsStep, TakeResults, IInv, Control
  <2>3. \A n \in DOMAIN log : log[n].stage \in Nat
    BY <1>0 DEF Window
  <2>4. StagesSoFar'
    BY <1>0, <2>2, <2>3 DEF StagesSoFar
  <2> QED
    BY <2>1, <2>2, <2>4 DEF OneKind, Counted
<1>2. CASE TickFindsNoSpace
  BY <1>2, QueuesKept, StageOver DEF TickFindsNoSpace, FailCapture, StopStage, Order
<1>3. CASE Tick
  BY <1>3, QueuesTaken, StageKept DEF Tick, TakeResults, Writer!Take
<1>4. CASE FailedResult
  BY <1>4, QueuesWorkedOff, StageOver DEF FailedResult, StopStage
<1>5. CASE ForeignResult
  <2>1. Order' /\ Outstanding' = Outstanding \ {Head(batch).n}
    BY <1>5, QueuesWorkedOff DEF ForeignResult
  <2>2. Head(batch).n \notin StageWindows
    BY <1>5 DEF ForeignResult, Result, StageWindows
  <2> QED
    BY <1>5, <2>1, <2>2, StageKept DEF ForeignResult
<1>6. CASE OwnResult
  <2> DEFINE n == Head(batch).n
             W == StageWindows \cap Outstanding
  <2>1. Order' /\ n \in Outstanding /\ Outstanding' = Outstanding \ {n}
    BY <1>6, QueuesWorkedOff DEF OwnResult
  <2>2. /\ UNCHANGED <<log, session, stage, phase, selected>>
        /\ Result = log[n] /\ Result.session = session /\ n \in DOMAIN log
    BY <1>6, ReplyInHand DEF OwnResult, Result
  <2>3. StageWindows' = StageWindows
    BY <2>2 DEF StageWindows
  <2>4. CASE state' # "capturing" \/ phase \in Continuous
    BY <2>1, <2>2, <2>4, StageOver
  <2>5. CASE state' = "capturing" /\ phase \notin Continuous /\ ~Matches(Result)
    <3>1. UNCHANGED <<state, window, captured, submitted>>
      BY <1>6, <2>5 DEF OwnResult
    <3>2. phase \in Isolated
      BY <2>5, <3>1 DEF IInv, Control, Phases
    <3>3. n \notin StageWindows
      BY <2>2, <2>5, <3>1, <3>2 DEF OneKind, OfStage, Matches, StageWindows
    <3> QED
      BY <2>1, <2>2, <3>1, <3>3, StageKept
  <2>6. CASE state' = "capturing" /\ phase \notin Continuous /\ Matches(Result)
    <3>1. state = "capturing"
      BY <1>6, <2>6 DEF OwnResult, StopStage
    <3>2. phase \in Isolated
      BY <2>6, <3>1 DEF IInv, Control, Phases
    <3>3. n \in W
      BY <2>1, <2>2, <2>6 DEF Matches, StageWindows
    <3>4. IsFiniteSet(W)
      <4>1. W \subseteq 1..Len(log) /\ Len(log) \in Nat
        BY OutstandingWindows
      <4>2. IsFiniteSet(1..Len(log))
        BY <4>1, FS_Interval
      <4> QED
        BY <4>1, <4>2, FS_Subset
    <3>5. (StageWindows \cap Outstanding)' = W \ {n}
      BY <2>1, <2>3
    <3>6. /\ Cardinality(W \ {n}) = Cardinality(W) - 1
          /\ Cardinality(W) \in Nat /\ Cardinality(W \ {n}) \in Nat
      <4>1. IsFiniteSet(W \ {n}) /\ Cardinality(W \ {n}) = Cardinality(W) - 1
        BY <3>3, <3>4, FS_RemoveElement
      <4> QED
        BY <3>4, <4>1, FS_CardinalityType
    <3>7. submitted = captured + Cardinality(W)
      BY <3>1, <3>2 DEF Counted
    <3>8. \/ captured' = captured + 1 /\ UNCHANGED submitted
          \/ submitted' = SubmittedLess /\ UNCHANGED captured
      BY <1>6, <2>6, <3>2 DEF OwnResult
    <3>9. SubmittedLess = submitted - 1
      BY <1>0, <3>6, <3>7 DEF SubmittedLess
    <3>10. submitted' = captured' + Cardinality(W \ {n})
      BY <1>0, <3>6, <3>7, <3>8, <3>9
    <3>11. window' \in {window, NoWindow}
      BY <1>6 DEF OwnResult, StopStage
    <3>12. OneKind' /\ StagesSoFar'
      BY <2>2, <2>3, <3>1, <3>11 DEF OneKind, StagesSoFar, OfStage
    <3> QED
      BY <2>1, <3>5, <3>10, <3>12 DEF Counted
  <2> QED
    BY <2>4, <2>5, <2>6
<1>7. CASE Advance
  <2>1. Order' /\ Outstanding' = Outstanding
    BY <1>7, QueuesKept DEF Advance
  <2>2. CASE StepDone
    BY <1>7, <2>1, <2>2, StageOver DEF Advance, PrepareWizardStep, StopStage
  <2>3. CASE ~StepDone
    BY <1>7, <2>1, <2>3, StageKept DEF Advance
  <2> QED
    BY <2>2, <2>3
<1>8. CASE Complete
  BY <1>8, QueuesKept, StageOver DEF Complete, FailCapture, StopStage
<1>9. CASE CollectNothing
  BY <1>9, QueuesKept, StageKept DEF CollectNothing, Order
<1>10. CASE TakeEnds
  <2> DEFINE w == [pad |-> selected, session |-> session, phase |-> phase, stage |-> stage,
                   begun |-> buffer, usable |-> TRUE]
  <2>1. Enqueue(w) /\ state' # "capturing" /\ UNCHANGED <<session, stage, batch>> /\ w.stage = stage
    BY <1>10 DEF TakeEnds, AfterTake
  <2>2. w \in Window /\ batch = <<>>
    BY <1>10, WindowTyped DEF TakeEnds, Order
  <2>3. /\ Order'
        /\ \A n \in DOMAIN log' : (n \in DOMAIN log /\ log'[n] = log[n]) \/ log'[n] = w
    <3> HIDE DEF w
    <3> QED
      BY <2>1, <2>2, QueuesGrow
  <2>4. StagesSoFar'
    BY <1>0, <2>1, <2>3 DEF StagesSoFar
  <2> QED
    BY <2>1, <2>3, <2>4 DEF OneKind, Counted
<1>11. CASE WindowBegins
  <2>1. Order' /\ Outstanding' = Outstanding
    BY <1>11, QueuesKept DEF WindowBegins, Order
  <2>2. /\ UNCHANGED <<log, session, stage, state, phase, selected, submitted, captured>>
        /\ OfStage(window')
    BY <1>11 DEF WindowBegins, OfStage
  <2>3. StagesSoFar' /\ OneKind' /\ Counted'
    BY <2>1, <2>2 DEF StagesSoFar, OneKind, Counted, StageWindows, OfStage
  <2> QED
    BY <2>1, <2>3
<1>12. CASE WindowEnds
  <2>1. PICK usable \in BOOLEAN :
          Enqueue([pad |-> window.pad, session |-> window.session, phase |-> window.phase,
                   stage |-> window.stage, begun |-> window.stage, usable |-> usable])
    BY <1>12 DEF WindowEnds
  <2> DEFINE w == [pad |-> window.pad, session |-> window.session, phase |-> window.phase,
                   stage |-> window.stage, begun |-> window.stage, usable |-> usable]
             k == Len(log) + 1
             W == StageWindows \cap Outstanding
  <2>2. /\ state = "capturing" /\ phase \in Isolated /\ window # NoWindow /\ window' = NoWindow
        /\ submitted' = submitted + 1
        /\ UNCHANGED <<session, stage, state, phase, selected, captured, batch>>
    BY <1>12 DEF WindowEnds
  <2>3. w \in Window /\ batch = <<>> /\ OfStage(w)
    BY <1>12, <2>2, WindowTyped DEF WindowEnds, Order, OneKind, OfStage
  <2>4. /\ Order' /\ Outstanding' = Outstanding \cup {k}
        /\ DOMAIN log' = DOMAIN log \cup {k} /\ log'[k] = w
        /\ \A n \in DOMAIN log : log'[n] = log[n]
    <3> HIDE DEF w
    <3> QED
      BY <2>1, <2>2, <2>3, QueuesGrow DEF w
  <2>5. /\ k \notin DOMAIN log /\ IsFiniteSet(W) /\ k \notin W
    <3>1. W \subseteq 1..Len(log) /\ DOMAIN log = 1..Len(log) /\ Len(log) \in Nat
      BY OutstandingWindows
    <3>2. IsFiniteSet(1..Len(log))
      BY <3>1, FS_Interval
    <3> QED
      BY <3>1, <3>2, FS_Subset
  <2>6. StageWindows' = StageWindows \cup {k}
    <3> HIDE DEF w, k
    <3> QED
      BY <2>2, <2>3, <2>4, <2>5 DEF StageWindows, OfStage
  <2>7. (StageWindows \cap Outstanding)' = W \cup {k}
    <3>1. Outstanding \subseteq DOMAIN log
      BY OutstandingWindows
    <3> QED
      BY <2>4, <2>5, <2>6, <3>1
  <2>8. Cardinality(W \cup {k}) = Cardinality(W) + 1 /\ Cardinality(W) \in Nat
    BY <2>5, FS_AddElement, FS_CardinalityType
  <2>9. submitted = captured + Cardinality(W)
    BY <2>2 DEF Counted
  <2>10. Counted'
    <3>1. submitted' = captured' + Cardinality(W \cup {k})
      BY <1>0, <2>2, <2>8, <2>9
    <3> QED
      BY <2>7, <3>1 DEF Counted
  <2>11. OneKind'
    <3>1. \A n \in StageWindows' : OfStage(log'[n])
      <4> HIDE DEF w, k
      <4>1. \A n \in StageWindows : n \in DOMAIN log /\ OfStage(log[n])
        BY <2>2 DEF OneKind, StageWindows
      <4> QED
        BY <2>3, <2>4, <2>6, <4>1
    <3> QED
      BY <2>2, <3>1 DEF OneKind, OfStage
  <2>12. StagesSoFar'
    <3> HIDE DEF w, k
    <3>1. w.stage <= stage
      BY <1>0, <2>3 DEF OfStage
    <3> QED
      BY <2>2, <2>4, <3>1 DEF StagesSoFar
  <2> QED
    BY <2>4, <2>10, <2>11, <2>12
<1>13. CASE CollectFails
  BY <1>13, QueuesKept, StageOver DEF CollectFails, FailCapture, StopStage, Order
<1> QED
  BY <1>1, <1>2, <1>3, <1>4, <1>5, <1>6, <1>7, <1>8, <1>9, <1>10, <1>11, <1>12, <1>13
  DEF TickStep

LEMMA WriterCounts ==
    ASSUME IInv, Accounting, WriterStep
    PROVE  Accounting'
<1> USE DEF Accounting, setupVars, stageVars
<1>1. /\ UNCHANGED <<pc, batch, session, stage, state, phase, selected, window, submitted,
                     captured, log>>
  BY DEF WriterStep, Saves, Answers
<1>2. Order' /\ Outstanding' = Outstanding
  <2>1. CASE Saves
    BY <1>1, <2>1, QueuesKept DEF Saves, Writer!Appear
  <2>2. CASE Answers
    BY <1>1, <2>2, QueuesAnswered
  <2> QED
    BY <2>1, <2>2 DEF WriterStep
<1> QED
  BY <1>1, <1>2, StageKept

LEMMA StagesCounted == Spec => []Accounting
<1>1. Init => Accounting
  <2> SUFFICES ASSUME Init PROVE Accounting
    OBVIOUS
  <2>1. Order
    BY NoneLeft DEF Init, Writer!Init, Order
  <2>2. StagesSoFar /\ OneKind /\ Counted
    BY DEF Init, StagesSoFar, OneKind, Counted
  <2> QED
    BY <2>1, <2>2 DEF Accounting
<1>2. IInv /\ Accounting /\ [Next]_vars => Accounting'
  <2> SUFFICES ASSUME IInv, Accounting, [Next]_vars PROVE Accounting'
    OBVIOUS
  <2>1. CASE UNCHANGED vars
    BY <2>1, QueuesKept, StageKept DEF vars, Accounting
  <2> QED
    BY <2>1, CommandsCount, TicksCount, WriterCounts DEF Next
<1> QED
  BY <1>1, <1>2, Inductive, PTL DEF Spec

(* While separate hits are collected, every window submitted is accepted or *)
(* still on its way through the writer, whatever the commands, failures and *)
(* restarts before (collect, tick's results).                               *)
THEOREM StagesAreAccountedFor == Spec => []StageAccounting
<1>1. IInv /\ Accounting => StageAccounting
  BY OutstandingWindows DEF Accounting, Counted, StageAccounting
<1> QED
  BY <1>1, Inductive, StagesCounted, PTL

---------------------------------------------------------------------------
(* What the touchscreen sends leaves continuous takes to the wizard alone.  *)
(* It records into a session that nobody has sealed, and seals it when the  *)
(* writer has nothing left of it.                                           *)
Unsealed(s) == \A p \in Pads : <<p, s>> \notin everSealed

WizardOnly ==
  /\ window = NoWindow
  /\ state = "capturing" => wizardActive /\ phase \in Continuous
  /\ wizardActive => Unsealed(session)
  /\ \A n \in Serials(waiting) : Pair(log[n]) \notin everSealed

Frozen ==
  /\ \A n \in DOMAIN log' \ DOMAIN log : Pair(log'[n]) \notin everSealed
  /\ \A n \in DOMAIN log : ~OnDisk(n) /\ OnDisk(n)' => Pair(log[n]) \notin everSealed

LEMMA SessionsSealed ==
    ASSUME IInv
    PROVE  /\ session \in Nat /\ Unsealed(session + 1)
           /\ selected \in Pads
           /\ \A n \in DOMAIN log : log[n].session # session + 1
  BY DEF IInv, Control, Archive, Log, Unsealed

(* Nothing joins the log or the disk but through the wizard's take and the  *)
(* writer.                                                                  *)
LEMMA FrozenAtRest ==
    ASSUME UNCHANGED log, \A n \in DOMAIN log : OnDisk(n)' => OnDisk(n)
    PROVE  Frozen
  BY DEF Frozen

LEMMA CommandsFreeze ==
    ASSUME IInv, WizardOnly, Command \/ Restart,
           "start" \notin Verbs, "archive-seal" \notin Verbs
    PROVE  WizardOnly' /\ Frozen
<1> USE DEF Ready, Unsealed, wizardVars, stageVars, lastVars, archiveVars, setupVars, writerVars
<1>1. ASSUME UNCHANGED <<log, waiting, trials, everSealed>>,
             window' = NoWindow,
             \/ UNCHANGED <<session, wizardActive, state, phase>>
             \/ state' # "capturing" /\ (wizardActive' => session' = session + 1)
      PROVE  WizardOnly' /\ Frozen
  <2>1. Frozen
    BY <1>1, FrozenAtRest DEF OnDisk
  <2>2. WizardOnly'
    BY <1>1, SessionsSealed DEF WizardOnly
  <2> QED
    BY <2>1, <2>2
<1>2. CASE \/ \E p \in Pads : Select(p)
           \/ \E p \in Pads, z \in 1..2 : Settings(p, z) \/ Zones(p, z) \/ RefuseWizard(p, z)
           \/ Stop \/ StartSession
  BY <1>1, <1>2 DEF Select, StopStage, Settings, Zones, RefuseWizard, Stop, StartSession,
                    NewSession, NextSession, WizardOnly
<1>3. ASSUME NEW p \in Pads, NEW z \in 1..2, StartWizard(p, z) PROVE WizardOnly' /\ Frozen
  <2>1. /\ state' = "countdown" /\ window' = NoWindow
        /\ session' = session + 1 /\ UNCHANGED <<log, waiting, trials, everSealed>>
    BY <1>3 DEF StartWizard, PrepareWizardStep, StopStage, NewSession, NextSession
  <2> QED
    BY <1>1, <2>1
<1>4. ASSUME NEW d \in everSealed, ArchiveAck(d[1], d[2]) \/ ArchiveAckFails(d[1], d[2])
      PROVE  WizardOnly' /\ Frozen
  <2>1. /\ UNCHANGED <<log, waiting, everSealed, window, phase, session, wizardActive, state>>
        /\ UNCHANGED trials \/ \E gone : trials' = Remaining(gone)
    BY <1>4 DEF ArchiveAck, ArchiveAckFails
  <2>2. \A n \in DOMAIN log : n # 0 /\ n \in 1..MaxWindows
    BY LenProperties DEF IInv, Log
  <2>3. Frozen
    BY <2>1, <2>2, FrozenAtRest DEF OnDisk, Remaining, IInv, Writers
  <2> QED
    BY <2>1, <2>3 DEF WizardOnly
<1>5. ASSUME Discard PROVE WizardOnly' /\ Frozen
  <2>1. /\ UNCHANGED <<log, waiting, everSealed, window, phase, session, wizardActive, state>>
        /\ trials' = [trials EXCEPT ![last] = 0]
    BY <1>5 DEF Discard
  <2>2. \A n \in DOMAIN log : n # 0 /\ n \in 1..MaxWindows
    BY LenProperties DEF IInv, Log
  <2>3. Frozen
    BY <2>1, <2>2, FrozenAtRest DEF OnDisk, IInv, Writers
  <2> QED
    BY <2>1, <2>3 DEF WizardOnly
<1>6. ASSUME Restart PROVE WizardOnly' /\ Frozen
  <2>1. /\ UNCHANGED <<log, trials>> /\ waiting' = <<>> /\ window' = NoWindow
        /\ state' = "idle" /\ wizardActive' = FALSE
    BY <1>6 DEF Restart, Writer!Stop
  <2>2. Frozen
    BY <2>1, FrozenAtRest DEF OnDisk
  <2> QED
    BY <2>1, <2>2, NoneLeft DEF WizardOnly
<1> QED
  BY <1>2, <1>3, <1>4, <1>5, <1>6 DEF Command, Start, ArchiveSeal

LEMMA TicksFreeze ==
    ASSUME IInv, Order, WizardOnly, TickStep
    PROVE  WizardOnly' /\ Frozen
<1> USE DEF Unsealed, wizardVars, stageVars, lastVars, archiveVars, setupVars, writerVars
<1>1. ASSUME UNCHANGED <<log, waiting, trials, everSealed, session>>,
             window' = NoWindow, wizardActive' => wizardActive,
             state' = "capturing" => wizardActive' /\ phase' \in Continuous
      PROVE  WizardOnly' /\ Frozen
  <2>1. Frozen
    BY <1>1, FrozenAtRest DEF OnDisk
  <2>2. WizardOnly'
    BY <1>1 DEF WizardOnly
  <2> QED
    BY <2>1, <2>2
<1>2. CASE TickBeginsStep \/ Tick
  BY <1>1, <1>2 DEF TickBeginsStep, Tick, TakeResults, Writer!Take, WizardOnly, IInv, Control
<1>3. CASE TickFindsNoSpace \/ CollectFails \/ FailedResult
  BY <1>1, <1>3 DEF TickFindsNoSpace, CollectFails, FailedResult, FailCapture, StopStage,
                    WizardOnly
<1>4. CASE ForeignResult \/ CollectNothing
  BY <1>1, <1>4 DEF ForeignResult, CollectNothing, WizardOnly
<1>5. CASE OwnResult
  <2>1. /\ UNCHANGED <<log, waiting, trials, everSealed, session, phase, wizardActive>>
        /\ window' \in {window, NoWindow} /\ state' \in {state, "review", "error"}
    BY <1>5 DEF OwnResult, StopStage
  <2> QED
    BY <1>1, <2>1 DEF WizardOnly
<1>6. CASE Advance
  <2>1. /\ UNCHANGED <<log, waiting, trials, everSealed, session, wizardActive>>
        /\ \/ UNCHANGED <<window, state, phase>>
           \/ window' = NoWindow /\ state' = "countdown"
    BY <1>6 DEF Advance, PrepareWizardStep, StopStage
  <2> QED
    BY <1>1, <2>1 DEF WizardOnly
<1>7. CASE Complete
  <2>1. /\ UNCHANGED <<log, waiting, trials, session, phase>>
        /\ window' = NoWindow /\ state' # "capturing" /\ wizardActive' = FALSE
    BY <1>7 DEF Complete, FailCapture, StopStage
  <2>2. Serials(waiting) = {}
    <3>1. waiting \in Seq(Job(Len(log)))
      BY DEF IInv, Writers
    <3>2. Len(waiting) = 0
      BY <1>7 DEF Complete, StepDone, PendingJobs
    <3> QED
      BY <3>2 DEF Serials
  <2>3. Frozen
    BY <2>1, FrozenAtRest DEF OnDisk
  <2> QED
    BY <2>1, <2>2, <2>3 DEF WizardOnly
<1>8. CASE TakeEnds
  <2> DEFINE w == [pad |-> selected, session |-> session, phase |-> phase, stage |-> stage,
                   begun |-> buffer, usable |-> TRUE]
  <2>1. /\ w \in Window /\ Enqueue(w) /\ UNCHANGED batch
        /\ batch = <<>>
        /\ UNCHANGED <<everSealed, session, phase, window, wizardActive>>
        /\ state = "capturing" /\ state' # "capturing"
    BY <1>8, WindowTyped DEF TakeEnds, AfterTake, Order
  <2>2. Pair(w) \notin everSealed
    BY <2>1, SessionsSealed DEF WizardOnly, Pair
  <2>3. /\ DOMAIN log' = DOMAIN log \cup {Len(log) + 1} /\ log'[Len(log) + 1] = w
        /\ \A n \in DOMAIN log : log'[n] = log[n]
        /\ Serials(waiting') = Serials(waiting) \cup {Len(log) + 1}
    BY <2>1, QueuesGrow
  <2>4. Serials(waiting) \subseteq DOMAIN log
    BY OutstandingWindows DEF Outstanding
  <2>5. UNCHANGED trials
    BY <2>1 DEF Enqueue, Writer!Accept
  <2>6. Frozen
    BY <2>2, <2>3, <2>5 DEF Frozen, OnDisk
  <2> QED
    BY <2>1, <2>2, <2>3, <2>4, <2>6 DEF WizardOnly, Pair
<1>9. CASE WindowBegins \/ WindowEnds
  BY <1>9 DEF WindowBegins, WindowEnds, WizardOnly
<1> QED
  BY <1>2, <1>3, <1>4, <1>5, <1>6, <1>7, <1>8, <1>9 DEF TickStep

LEMMA WriterFreezes ==
    ASSUME IInv, Order, WizardOnly, WriterStep
    PROVE  WizardOnly' /\ Frozen
<1> USE DEF Unsealed, setupVars, wizardVars
<1>1. /\ UNCHANGED <<log, everSealed, session, phase, state, window, wizardActive>>
      /\ waiting \in Seq(Job(Len(log))) /\ waiting # <<>>
  BY DEF WriterStep, Saves, Answers, Writer!Appear, Writer!Answer, IInv, Writers
<1>2. Serials(waiting) = Serials(Tail(waiting)) \cup {Head(waiting).n}
  BY <1>1, WithoutHead DEF Order
<1>3. CASE Saves
  <2>1. UNCHANGED waiting /\ trials' = [trials EXCEPT ![Head(waiting).id] = Head(waiting).n]
    BY <1>3 DEF Saves, Writer!Appear
  <2>2. \A n \in DOMAIN log : ~OnDisk(n) /\ OnDisk(n)' => n = Head(waiting).n
    BY <2>1 DEF OnDisk, IInv, Writers
  <2>3. Frozen
    BY <1>1, <1>2, <2>2 DEF Frozen, WizardOnly
  <2> QED
    BY <1>1, <2>1, <2>3 DEF WizardOnly
<1>4. CASE Answers
  <2>1. waiting' = Tail(waiting) /\ UNCHANGED trials
    BY <1>4 DEF Answers, Writer!Answer
  <2>2. Frozen
    BY <1>1, <2>1, FrozenAtRest DEF OnDisk
  <2> QED
    BY <1>1, <1>2, <2>1, <2>2 DEF WizardOnly
<1> QED
  BY <1>3, <1>4 DEF WriterStep

LEMMA FrozenSteps ==
    ASSUME IInv, Accounting, WizardOnly, [Next]_vars,
           "start" \notin Verbs, "archive-seal" \notin Verbs
    PROVE  WizardOnly' /\ (Frozen \/ UNCHANGED vars)
<1>1. CASE UNCHANGED vars
  BY <1>1 DEF vars, WizardOnly, Unsealed
<1> QED
  BY <1>1, CommandsFreeze, TicksFreeze, WriterFreezes DEF Next, Accounting

LEMMA WizardAlone ==
    ASSUME "start" \notin Verbs, "archive-seal" \notin Verbs
    PROVE  Spec => []WizardOnly
<1>1. Init => WizardOnly
  BY NoneLeft DEF Init, Writer!Init, WizardOnly
<1>2. IInv /\ Accounting /\ WizardOnly /\ [Next]_vars => WizardOnly'
  BY FrozenSteps
<1> QED
  BY <1>1, <1>2, Inductive, StagesCounted, PTL DEF Spec

(* No window is handed to the writer for a session that was sealed, and    *)
(* none appears in one, unless the command line starts a stage or seals a   *)
(* session beside the wizard (archiveSession, tick).                        *)
THEOREM SealedStaysFrozen ==
    ASSUME "start" \notin Verbs, "archive-seal" \notin Verbs
    PROVE  Spec => SealedFrozen
<1>1. IInv /\ Accounting /\ WizardOnly /\ [Next]_vars =>
        [/\ \A n \in DOMAIN log' \ DOMAIN log : Pair(log'[n]) \notin everSealed
         /\ \A n \in DOMAIN log : ~OnDisk(n) /\ OnDisk(n)' => Pair(log[n]) \notin everSealed]_vars
  BY FrozenSteps DEF Frozen
<1> QED
  BY <1>1, Inductive, StagesCounted, WizardAlone, PTL DEF Spec, SealedFrozen

---------------------------------------------------------------------------
(* Stages begun from the command line. Nothing is recorded into a session  *)
(* that is sealed, as start refuses one and archiveSession() waits for what  *)
(* is being recorded and for the writer; only the countdown of the wizard   *)
(* is not waited for.                                                       *)
StagesOnly ==
  /\ sealed = everSealed
  /\ wizardActive => "wizard" \in Verbs
  /\ wizardActive \/ state = "capturing" => <<selected, session>> \notin everSealed
  /\ window # NoWindow => Pair(window) \notin everSealed
  /\ \A n \in Serials(waiting) : Pair(log[n]) \notin everSealed

(* The session that begins is not sealed, and what is sealed has nothing in *)
(* the writer.                                                              *)
LEMMA NothingWaits ==
    ASSUME IInv, PendingJobs = 0
    PROVE  Serials(waiting) = {}
<1>1. waiting \in Seq(Job(Len(log))) /\ Len(waiting) = 0
  BY DEF IInv, Writers, PendingJobs
<1> QED
  BY <1>1 DEF Serials

LEMMA StagesAtRest ==
    ASSUME IInv, StagesOnly, UNCHANGED <<log, waiting, trials, sealed, everSealed>>,
           window' \in {window, NoWindow},
           wizardActive' => "wizard" \in Verbs,
           \/ /\ UNCHANGED <<selected, session>>
              /\ wizardActive' \/ state' = "capturing" => wizardActive \/ state = "capturing"
           \/ ~wizardActive' /\ state' # "capturing"
           \/ selected' \in Pads /\ session' = session + 1
    PROVE  StagesOnly' /\ Frozen
<1>1. Frozen
  BY FrozenAtRest DEF OnDisk
<1>2. wizardActive' \/ state' = "capturing" => <<selected', session'>> \notin everSealed
  BY SessionsSealed DEF StagesOnly, Unsealed
<1> QED
  BY <1>1, <1>2 DEF StagesOnly, Pair

LEMMA StageCommandsFreeze ==
    ASSUME IInv, StagesOnly, Command \/ Restart,
           "archive-ack" \notin Verbs, "wizard" \notin Verbs \/ "archive-seal" \notin Verbs
    PROVE  StagesOnly' /\ Frozen
<1> USE DEF Ready, wizardVars, stageVars, lastVars, archiveVars, setupVars, writerVars
<1>1. CASE \/ \E p \in Pads : Select(p)
           \/ \E p \in Pads, z \in 1..2 : Settings(p, z) \/ Zones(p, z) \/ RefuseWizard(p, z)
           \/ Stop \/ StartSession
  BY <1>1, StagesAtRest DEF Select, StopStage, Settings, Zones, RefuseWizard, Stop, StartSession,
                            NewSession, NextSession
<1>2. ASSUME NEW p \in Pads, NEW z \in 1..2, StartWizard(p, z) PROVE StagesOnly' /\ Frozen
  BY <1>2, StagesAtRest DEF StartWizard, PrepareWizardStep, StopStage, NewSession, NextSession
<1>3. ASSUME NEW ph \in Phases, Start(ph) PROVE StagesOnly' /\ Frozen
  <2>1. /\ UNCHANGED <<log, waiting, trials, sealed, everSealed, selected, session, wizardActive>>
        /\ window' = NoWindow /\ <<selected, session>> \notin everSealed
    BY <1>3 DEF Start, StagesOnly
  <2> QED
    BY <2>1, FrozenAtRest DEF StagesOnly, OnDisk
<1>4. ASSUME NEW p \in Pads, NEW s \in 1..session, ArchiveSeal(p, s) PROVE StagesOnly' /\ Frozen
  <2>1. /\ UNCHANGED <<log, waiting, trials, selected, session, wizardActive, state, window>>
        /\ sealed' = sealed \cup {<<p, s>>} /\ everSealed' = everSealed \cup {<<p, s>>}
        /\ window = NoWindow /\ PendingJobs = 0 /\ (state = "capturing" => s # session)
        /\ ~wizardActive
    BY <1>4 DEF ArchiveSeal, ArchiveBusy, Seal, StagesOnly
  <2>2. Serials(waiting) = {}
    BY <2>1, NothingWaits
  <2> QED
    BY <2>1, <2>2, FrozenAtRest DEF StagesOnly, OnDisk
<1>5. CASE Discard
  <2>1. /\ UNCHANGED <<log, waiting, sealed, everSealed, window, selected, session, wizardActive,
                       state>>
        /\ trials' = [trials EXCEPT ![last] = 0]
    BY <1>5 DEF Discard
  <2>2. \A n \in DOMAIN log : n # 0 /\ n \in 1..MaxWindows
    BY LenProperties DEF IInv, Log
  <2>3. Frozen
    BY <2>1, <2>2, FrozenAtRest DEF OnDisk, IInv, Writers
  <2> QED
    BY <2>1, <2>3 DEF StagesOnly
<1>6. CASE Restart
  <2>1. /\ UNCHANGED <<log, trials, sealed, everSealed>> /\ waiting' = <<>> /\ window' = NoWindow
        /\ state' = "idle" /\ wizardActive' = FALSE
    BY <1>6 DEF Restart, Writer!Stop
  <2>2. Frozen
    BY <2>1, FrozenAtRest DEF OnDisk
  <2> QED
    BY <2>1, <2>2, NoneLeft DEF StagesOnly
<1> QED
  BY <1>1, <1>2, <1>3, <1>4, <1>5, <1>6 DEF Command, ArchiveAck, ArchiveAckFails

(* A window of a session not sealed is handed over.                         *)
LEMMA HandOverFreezes ==
    ASSUME IInv, Order, StagesOnly, NEW w \in Window, Enqueue(w), Pair(w) \notin everSealed,
           batch = <<>>, UNCHANGED <<batch, sealed, everSealed, selected, session, wizardActive>>,
           window' \in {window, NoWindow}, state' = "capturing" => state = "capturing"
    PROVE  StagesOnly' /\ Frozen
<1>1. /\ DOMAIN log' = DOMAIN log \cup {Len(log) + 1} /\ log'[Len(log) + 1] = w
      /\ \A n \in DOMAIN log : log'[n] = log[n]
      /\ Serials(waiting') = Serials(waiting) \cup {Len(log) + 1}
  BY QueuesGrow
<1>2. Serials(waiting) \subseteq DOMAIN log
  BY OutstandingWindows DEF Outstanding
<1>3. UNCHANGED trials
  BY DEF Enqueue, Writer!Accept
<1>4. Frozen
  BY <1>1, <1>3 DEF Frozen, OnDisk
<1>5. \A n \in Serials(waiting') : Pair(log'[n]) \notin everSealed'
  BY <1>1, <1>2 DEF StagesOnly, Pair
<1> QED
  BY <1>4, <1>5 DEF StagesOnly, Pair

LEMMA StageTicksFreeze ==
    ASSUME IInv, Order, StagesOnly, TickStep
    PROVE  StagesOnly' /\ Frozen
<1> USE DEF wizardVars, stageVars, lastVars, archiveVars, setupVars, writerVars
<1>1. CASE TickBeginsStep \/ Tick
  BY <1>1, StagesAtRest DEF TickBeginsStep, Tick, TakeResults, Writer!Take, StagesOnly
<1>2. CASE TickFindsNoSpace \/ CollectFails \/ FailedResult
  BY <1>2, StagesAtRest DEF TickFindsNoSpace, CollectFails, FailedResult, FailCapture, StopStage,
                            StagesOnly
<1>3. CASE ForeignResult \/ CollectNothing
  BY <1>3, StagesAtRest DEF ForeignResult, CollectNothing, StagesOnly
<1>4. CASE OwnResult
  <2>1. /\ UNCHANGED <<log, waiting, trials, sealed, everSealed, selected, session, wizardActive>>
        /\ window' \in {window, NoWindow} /\ state' \in {state, "review", "error"}
    BY <1>4 DEF OwnResult, StopStage
  <2> QED
    BY <2>1, StagesAtRest DEF StagesOnly
<1>5. CASE Advance
  <2>1. /\ UNCHANGED <<log, waiting, trials, sealed, everSealed, selected, session, wizardActive>>
        /\ window' \in {window, NoWindow} /\ state' \in {state, "countdown"}
    BY <1>5 DEF Advance, PrepareWizardStep, StopStage
  <2> QED
    BY <2>1, StagesAtRest DEF StagesOnly
<1>6. CASE Complete
  <2>1. /\ UNCHANGED <<log, waiting, trials, selected, session>>
        /\ window' = NoWindow /\ state' # "capturing" /\ wizardActive' = FALSE
        /\ \/ UNCHANGED <<sealed, everSealed>>
           \/ Seal(<<selected, session>>)
    BY <1>6 DEF Complete, FailCapture, StopStage
  <2>2. Serials(waiting) = {}
    BY <1>6, NothingWaits DEF Complete, StepDone
  <2>3. Frozen
    BY <2>1, FrozenAtRest DEF OnDisk
  <2> QED
    BY <2>1, <2>2, <2>3 DEF StagesOnly, Seal
<1>7. CASE TakeEnds
  <2> DEFINE w == [pad |-> selected, session |-> session, phase |-> phase, stage |-> stage,
                   begun |-> buffer, usable |-> TRUE]
  <2>1. /\ w \in Window /\ Enqueue(w) /\ UNCHANGED batch
        /\ batch = <<>> /\ state' # "capturing"
        /\ UNCHANGED <<sealed, everSealed, selected, session, window, wizardActive>>
        /\ Pair(w) \notin everSealed
    BY <1>7, WindowTyped DEF TakeEnds, AfterTake, Order, StagesOnly, Pair
  <2> HIDE DEF w
  <2> QED
    BY <2>1, HandOverFreezes
<1>8. CASE WindowBegins
  <2>1. /\ UNCHANGED <<log, waiting, trials, sealed, everSealed, selected, session, wizardActive,
                       state>>
        /\ state = "capturing" /\ Pair(window') = <<selected, session>>
    BY <1>8 DEF WindowBegins, Pair
  <2> QED
    BY <2>1, FrozenAtRest DEF StagesOnly, OnDisk
<1>9. CASE WindowEnds
  <2>1. PICK usable \in BOOLEAN :
          Enqueue([pad |-> window.pad, session |-> window.session, phase |-> window.phase,
                   stage |-> window.stage, begun |-> window.stage, usable |-> usable])
    BY <1>9 DEF WindowEnds
  <2> DEFINE w == [pad |-> window.pad, session |-> window.session, phase |-> window.phase,
                   stage |-> window.stage, begun |-> window.stage, usable |-> usable]
  <2>2. /\ w \in Window /\ Enqueue(w) /\ UNCHANGED batch /\ batch = <<>> /\ window' = NoWindow
        /\ UNCHANGED <<sealed, everSealed, selected, session, state, wizardActive>>
        /\ Pair(w) \notin everSealed
    BY <1>9, <2>1, WindowTyped DEF WindowEnds, Order, StagesOnly, Pair
  <2> HIDE DEF w
  <2> QED
    BY <2>2, HandOverFreezes
<1> QED
  BY <1>1, <1>2, <1>3, <1>4, <1>5, <1>6, <1>7, <1>8, <1>9 DEF TickStep

LEMMA StageWriterFreezes ==
    ASSUME IInv, Order, StagesOnly, WriterStep
    PROVE  StagesOnly' /\ Frozen
<1> USE DEF setupVars, wizardVars
<1>1. /\ UNCHANGED <<log, sealed, everSealed, selected, session, state, window, wizardActive>>
      /\ waiting \in Seq(Job(Len(log))) /\ waiting # <<>>
  BY DEF WriterStep, Saves, Answers, Writer!Appear, Writer!Answer, IInv, Writers
<1>2. Serials(waiting) = Serials(Tail(waiting)) \cup {Head(waiting).n}
  BY <1>1, WithoutHead DEF Order
<1>3. CASE Saves
  <2>1. UNCHANGED waiting /\ trials' = [trials EXCEPT ![Head(waiting).id] = Head(waiting).n]
    BY <1>3 DEF Saves, Writer!Appear
  <2>2. \A n \in DOMAIN log : ~OnDisk(n) /\ OnDisk(n)' => n = Head(waiting).n
    BY <2>1 DEF OnDisk, IInv, Writers
  <2>3. Frozen
    BY <1>1, <1>2, <2>2 DEF Frozen, StagesOnly
  <2> QED
    BY <1>1, <2>1, <2>3 DEF StagesOnly
<1>4. CASE Answers
  <2>1. waiting' = Tail(waiting) /\ UNCHANGED trials
    BY <1>4 DEF Answers, Writer!Answer
  <2>2. Frozen
    BY <1>1, <2>1, FrozenAtRest DEF OnDisk
  <2> QED
    BY <1>1, <1>2, <2>1, <2>2 DEF StagesOnly
<1> QED
  BY <1>3, <1>4 DEF WriterStep

(* A sealed session takes no further window with stages begun from the     *)
(* command line either, as long as the command line does not seal a session *)
(* beside a calibration (start, collect, archiveSession).                   *)
THEOREM StagesStayFrozen ==
    ASSUME "archive-ack" \notin Verbs, "wizard" \notin Verbs \/ "archive-seal" \notin Verbs
    PROVE  Spec => SealedFrozen
<1>1. Init => StagesOnly
  BY NoneLeft DEF Init, Writer!Init, StagesOnly
<1>2. IInv /\ Accounting /\ StagesOnly /\ [Next]_vars => StagesOnly' /\ (Frozen \/ UNCHANGED vars)
  <2> SUFFICES ASSUME IInv, Accounting, StagesOnly, [Next]_vars
               PROVE  StagesOnly' /\ (Frozen \/ UNCHANGED vars)
    OBVIOUS
  <2>1. CASE UNCHANGED vars
    BY <2>1 DEF vars, StagesOnly
  <2> QED
    BY <2>1, StageCommandsFreeze, StageTicksFreeze, StageWriterFreezes DEF Next, Accounting
<1>3. IInv /\ Accounting /\ StagesOnly /\ [Next]_vars =>
        [/\ \A n \in DOMAIN log' \ DOMAIN log : Pair(log'[n]) \notin everSealed
         /\ \A n \in DOMAIN log : ~OnDisk(n) /\ OnDisk(n)' => Pair(log[n]) \notin everSealed]_vars
  BY <1>2 DEF Frozen
<1> QED
  BY <1>1, <1>2, <1>3, Inductive, StagesCounted, PTL DEF Spec, SealedFrozen

---------------------------------------------------------------------------
(* The trials shown as the last ones are on disk: a reply reports a trial   *)
(* that was stored, and no trial of a reply still on its way is removed.    *)
(* discard removes the last trial, which is not one of those.               *)
Numbered == \A i \in 1..Len(waiting) : waiting[i].id = waiting[i].n

StoredOk(s) ==
  \A i \in 1..Len(s) : s[i].ok /\ log[s[i].n].session = session => OnDisk(s[i].n)

Apart == \A n \in Outstanding : last # n /\ \A p \in Pads : lastByPad[p] # n

LastKept == LastOnDisk /\ Numbered /\ StoredOk(answers) /\ StoredOk(batch) /\ Apart

\* An acknowledgment removes whole sessions, among them the current one, so a
\* reply must not be on its way for a session that is sealed: the wizard has at
\* most one of the session on its way, and none while it waits for the player
\* or reviews.
OnItsWay == {n \in Outstanding : log[n].session = session}
InHand ==
  /\ \A n, m \in OnItsWay : n = m
  /\ wizardActive /\ state \in {"countdown", "capturing", "review"} => OnItsWay = {}
  /\ \A n \in OnItsWay : Pair(log[n]) \notin everSealed

TrialsKept == LastKept /\ InHand

LEMMA FewerInHand ==
    ASSUME InHand, Outstanding' \subseteq Outstanding, UNCHANGED <<log, session, everSealed>>,
           wizardActive' /\ state' \in {"countdown", "capturing", "review"} =>
             wizardActive /\ state \in {"countdown", "capturing", "review"}
    PROVE  InHand'
<1>1. OnItsWay' \subseteq OnItsWay
  BY DEF OnItsWay
<1> QED
  BY <1>1 DEF InHand

(* Nothing outstanding is of a session that begins.                         *)
LEMMA NewSessionOnItsWay ==
    ASSUME IInv, Outstanding' = Outstanding, UNCHANGED log, session' = session + 1
    PROVE  InHand' /\ \A n \in Outstanding : log'[n].session # session'
<1>1. \A n \in DOMAIN log : log'[n].session # session'
  BY SessionsSealed
<1>2. Outstanding \subseteq DOMAIN log
  BY OutstandingWindows
<1>3. OnItsWay' = {}
  BY <1>1, <1>2 DEF OnItsWay
<1> QED
  BY <1>1, <1>2, <1>3 DEF InHand

(* A step that leaves the trials, and what is remembered of them, alone.    *)
LEMMA LastAtRest ==
    ASSUME LastKept, Outstanding' \subseteq Outstanding,
           UNCHANGED <<log, session, trials, last, lastByPad, waiting, torn>>,
           StoredOk(answers)', StoredOk(batch)'
    PROVE  LastKept'
  BY DEF LastKept, LastOnDisk, Kept, Pair, OnDisk, Numbered, Apart

LEMMA CommandsKeepLast ==
    ASSUME IInv, LastKept, Command \/ Restart, "archive-ack" \notin Verbs \/ InHand
    PROVE  LastKept'
<1> USE DEF Ready, wizardVars, stageVars, lastVars, archiveVars, setupVars, writerVars
<1>0. /\ Outstanding \subseteq 1..Len(log) /\ DOMAIN log = 1..Len(log) /\ Len(log) \in 0..MaxWindows
      /\ last \in 0..Len(log) /\ lastByPad \in [Pads -> 0..Len(log)]
      /\ trials \in [1..MaxWindows -> 0..Len(log)]
      /\ MaxWindows \in Nat
  BY OutstandingWindows DEF IInv, Log, Writers
<1>1. ASSUME UNCHANGED <<log, trials, waiting, answers, batch>>, last' = 0,
             lastByPad' = [p \in Pads |-> 0], session' = session + 1
      PROVE  LastKept'
  <2>1. Outstanding' = Outstanding
    BY <1>1 DEF Outstanding
  <2>2. /\ \A i \in 1..Len(answers) : answers[i].n \in Outstanding
        /\ \A i \in 1..Len(batch) : batch[i].n \in Outstanding
    BY DEF Outstanding, Serials
  <2>3. StoredOk(answers)' /\ StoredOk(batch)'
    BY <1>1, <2>1, <2>2, NewSessionOnItsWay DEF StoredOk
  <2>4. Apart'
    BY <1>0, <1>1, <2>1 DEF Apart
  <2>5. LastOnDisk' /\ Numbered'
    BY <1>1 DEF LastOnDisk, LastKept, Numbered
  <2> QED
    BY <2>3, <2>4, <2>5 DEF LastKept
<1>2. CASE \/ \E p \in Pads, z \in 1..2 : Settings(p, z) \/ StartWizard(p, z)
           \/ StartSession
  BY <1>1, <1>2 DEF Settings, StartWizard, StartSession, NewSession, NextSession
<1>3. CASE \/ \E p \in Pads, z \in 1..2 : Zones(p, z) \/ RefuseWizard(p, z)
           \/ \E ph \in Phases : Start(ph)
           \/ \E p \in Pads, s \in 1..session : ArchiveSeal(p, s)
           \/ Stop
  <2>1. UNCHANGED <<log, session, trials, last, lastByPad, waiting, answers, batch, torn>>
    BY <1>3 DEF Zones, RefuseWizard, Start, ArchiveSeal, Stop
  <2>2. Outstanding' = Outstanding
    BY <2>1 DEF Outstanding
  <2> QED
    BY <2>1, <2>2, LastAtRest DEF LastKept, StoredOk, OnDisk
<1>4. ASSUME NEW p \in Pads, Select(p) PROVE LastKept'
  <2>1. /\ UNCHANGED <<log, session, trials, lastByPad, waiting, answers, batch, torn>>
        /\ last' = lastByPad[p]
    BY <1>4 DEF Select
  <2>2. Outstanding' = Outstanding
    BY <2>1 DEF Outstanding
  <2> QED
    BY <2>1, <2>2 DEF LastKept, LastOnDisk, Kept, Pair, OnDisk, Numbered, Apart, StoredOk
<1>5. CASE Discard
  <2> DEFINE q == log[last].pad
  <2>1. /\ UNCHANGED <<log, session, waiting, answers, batch, torn>>
        /\ last # 0 /\ last' = 0 /\ lastByPad' = [lastByPad EXCEPT ![q] = 0]
        /\ trials' = [trials EXCEPT ![last] = 0]
    BY <1>5 DEF Discard, WithoutLast
  <2>2. Outstanding' = Outstanding
    BY <2>1 DEF Outstanding
  <2>3. \A n \in 1..Len(log) : n # last /\ OnDisk(n) => OnDisk(n)'
    BY <1>0, <2>1 DEF OnDisk
  <2>4. \A r \in Pads : lastByPad'[r] # 0 => r # q /\ lastByPad'[r] = lastByPad[r]
    BY <1>0, <2>1
  <2>5. LastOnDisk'
    <3>1. ASSUME NEW r \in Pads, lastByPad'[r] # 0
          PROVE  Kept(lastByPad[r])' /\ log'[lastByPad'[r]].pad = r
      <4> DEFINE m == lastByPad[r]
      <4>1. r # q /\ lastByPad'[r] = m /\ m \in 1..Len(log)
        BY <1>0, <2>4, <3>1
      <4>2. Kept(m) /\ log[m].pad = r
        BY <4>1 DEF LastKept, LastOnDisk
      <4>3. m # last
        BY <4>1, <4>2
      <4>4. \A k \in 1..Len(log) : k # last /\ Kept(k) => Kept(k)'
        BY <2>1, <2>3 DEF Kept, Pair
      <4> QED
        BY <2>1, <4>1, <4>2, <4>3, <4>4
    <3> QED
      BY <2>1, <3>1 DEF LastOnDisk
  <2>6. Apart'
    BY <1>0, <2>1, <2>2, <2>4 DEF LastKept, Apart
  <2>7. \A n \in Outstanding : n # last
    BY DEF LastKept, Apart
  <2>8. StoredOk(answers)' /\ StoredOk(batch)'
    BY <1>0, <2>1, <2>3, <2>7 DEF LastKept, StoredOk, Outstanding, Serials
  <2> QED
    BY <2>1, <2>5, <2>6, <2>8 DEF LastKept, Numbered
<1>6. ASSUME NEW e \in everSealed, ArchiveAck(e[1], e[2]) PROVE LastKept'
  <2> DEFINE d == <<e[1], e[2]>>
  <2>1. d \in everSealed /\ e[1] \in Pads
    BY DEF IInv, Archive
  <2>2. /\ UNCHANGED <<log, session, waiting, answers, batch, torn>>
        /\ \/ UNCHANGED <<trials, last, lastByPad>>
           \/ /\ trials' = Remaining(Recorded(d))
              /\ last' = Forget(d, last)
              /\ lastByPad' = [lastByPad EXCEPT ![e[1]] = Forget(d, @)]
    BY <1>6 DEF ArchiveAck
  <2>3. Outstanding' = Outstanding
    BY <2>2 DEF Outstanding
  <2>4. \A n \in 1..Len(log) : Pair(log[n]) # d =>
            (OnDisk(n) => OnDisk(n)') /\ (Kept(n) => Kept(n)')
    BY <1>0, <2>2 DEF Kept, Pair, OnDisk, Recorded, Remaining
  <2>5. last' # 0 => last' = last /\ Kept(last)'
    <3>1. CASE UNCHANGED <<trials, last, lastByPad>>
      BY <2>2, <3>1 DEF LastKept, LastOnDisk, Kept, Pair, OnDisk
    <3>2. CASE last' = Forget(d, last) /\ last' # 0
      <4>1. last' = last /\ last \in 1..Len(log) /\ Pair(log[last]) # d
        BY <1>0, <3>2 DEF Forget
      <4>2. Kept(last)
        BY <4>1 DEF LastKept, LastOnDisk
      <4> QED
        BY <2>4, <4>1, <4>2
    <3> QED
      BY <2>2, <3>1, <3>2
  <2>6. ASSUME NEW r \in Pads, lastByPad'[r] # 0
        PROVE  lastByPad'[r] = lastByPad[r] /\ Kept(lastByPad[r])' /\ log'[lastByPad[r]].pad = r
    <3>1. CASE UNCHANGED <<trials, last, lastByPad>>
      BY <2>2, <2>6, <3>1 DEF LastKept, LastOnDisk, Kept, Pair, OnDisk
    <3>2. CASE lastByPad' = [lastByPad EXCEPT ![e[1]] = Forget(d, @)]
      <4>1. lastByPad'[r] = lastByPad[r]
        BY <1>0, <2>6, <3>2 DEF Forget
      <4>2. r = e[1] => Pair(log[lastByPad[r]]) # d
        BY <1>0, <2>1, <2>6, <3>2 DEF Forget
      <4>3. lastByPad[r] \in 1..Len(log) /\ Kept(lastByPad[r]) /\ log[lastByPad[r]].pad = r
        BY <1>0, <2>6, <4>1 DEF LastKept, LastOnDisk
      <4>4. Pair(log[lastByPad[r]]) # d
        BY <4>2, <4>3 DEF Pair
      <4> QED
        BY <2>2, <2>4, <4>1, <4>3, <4>4
    <3> QED
      BY <2>2, <3>1, <3>2
  <2>7. LastOnDisk' /\ Apart'
    BY <1>0, <2>3, <2>5, <2>6 DEF LastOnDisk, Apart, LastKept
  <2>8. InHand
    BY <1>6 DEF ArchiveAck
  <2>9. \A n \in Outstanding : log[n].session = session /\ OnDisk(n) => OnDisk(n)'
    BY <1>0, <2>1, <2>4, <2>8 DEF InHand, OnItsWay
  <2>10. StoredOk(answers)' /\ StoredOk(batch)'
    BY <2>2, <2>9 DEF LastKept, StoredOk, Outstanding, Serials
  <2> QED
    BY <2>2, <2>7, <2>10 DEF LastKept, Numbered
<1>6f. ASSUME NEW e \in everSealed, ArchiveAckFails(e[1], e[2]) PROVE LastKept'
  <2> DEFINE d == <<e[1], e[2]>>
  <2>1. d \in everSealed /\ e[1] \in Pads
    BY DEF IInv, Archive
  <2>2. /\ UNCHANGED <<log, session, last, lastByPad, waiting, answers, batch>>
        /\ torn' = torn \cup {d} /\ InHand
    BY <1>6f DEF ArchiveAckFails
  <2>3. PICK gone \in SUBSET Recorded(d) : trials' = Remaining(gone)
    BY <1>6f DEF ArchiveAckFails
  <2>4. Outstanding' = Outstanding
    BY <2>2 DEF Outstanding
  <2>5. \A n \in 1..Len(log) : Pair(log[n]) # d /\ OnDisk(n) => OnDisk(n)'
    BY <1>0, <2>3 DEF OnDisk, Recorded, Remaining
  <2>6. \A n \in 1..Len(log) : Kept(n) => Kept(n)'
    BY <2>2, <2>5 DEF Kept, Pair
  <2>7. LastOnDisk'
    BY <1>0, <2>2, <2>6 DEF LastKept, LastOnDisk
  <2>8. \A n \in Outstanding : log[n].session = session /\ OnDisk(n) => OnDisk(n)'
    BY <1>0, <2>1, <2>2, <2>5 DEF InHand, OnItsWay
  <2>9. StoredOk(answers)' /\ StoredOk(batch)'
    BY <2>2, <2>8 DEF LastKept, StoredOk, Outstanding, Serials
  <2> QED
    BY <2>2, <2>4, <2>7, <2>9 DEF LastKept, Numbered, Apart
<1>7. CASE Restart
  <2>1. /\ waiting' = <<>> /\ answers' = <<>> /\ batch' = <<>>
        /\ last' = 0 /\ lastByPad' = [p \in Pads |-> 0]
    BY <1>7 DEF Restart, Writer!Stop
  <2>2. Outstanding' = {}
    BY <2>1, NoneLeft DEF Outstanding
  <2> QED
    BY <2>1, <2>2 DEF LastKept, LastOnDisk, Numbered, StoredOk, Apart
<1> QED
  BY <1>2, <1>3, <1>4, <1>5, <1>6, <1>6f, <1>7 DEF Command

LEMMA CommandsInHand ==
    ASSUME IInv, InHand, Command \/ Restart, "start" \notin Verbs, "archive-seal" \notin Verbs
    PROVE  InHand'
<1> USE DEF Ready, wizardVars, stageVars, lastVars, archiveVars, setupVars, writerVars
<1>1. CASE \/ \E p \in Pads, z \in 1..2 : Settings(p, z) \/ StartWizard(p, z)
           \/ StartSession
  <2>1. UNCHANGED <<log, waiting, answers, batch>> /\ session' = session + 1
    BY <1>1 DEF Settings, StartWizard, StartSession, NewSession, NextSession
  <2>2. Outstanding' = Outstanding
    BY <2>1 DEF Outstanding
  <2> QED
    BY <2>1, <2>2, NewSessionOnItsWay
<1>2. CASE \/ \E p \in Pads : Select(p)
           \/ \E p \in Pads, z \in 1..2 : Zones(p, z) \/ RefuseWizard(p, z)
           \/ \E d \in everSealed : ArchiveAck(d[1], d[2]) \/ ArchiveAckFails(d[1], d[2])
           \/ Stop \/ Discard
  <2>1. /\ UNCHANGED <<log, session, waiting, answers, batch, everSealed>>
        /\ UNCHANGED <<wizardActive, state>> \/ wizardActive' = FALSE
    BY <1>2 DEF Select, Zones, RefuseWizard, Stop, Discard, ArchiveAck, ArchiveAckFails, IInv,
              Wizard
  <2>2. Outstanding' = Outstanding
    BY <2>1 DEF Outstanding
  <2> QED
    BY <2>1, <2>2, FewerInHand
<1>3. CASE Restart
  <2>1. waiting' = <<>> /\ answers' = <<>> /\ batch' = <<>>
    BY <1>3 DEF Restart, Writer!Stop
  <2> QED
    BY <2>1, NoneLeft DEF Outstanding, InHand, OnItsWay
<1> QED
  BY <1>1, <1>2, <1>3 DEF Command, Start, ArchiveSeal

LEMMA ReplyWorkedOff ==
    ASSUME IInv, LastKept, Working, batch' = Tail(batch), UNCHANGED <<log, session, trials>>
    PROVE  /\ StoredOk(batch)'
           /\ Head(batch).ok /\ Result.session = session => OnDisk(Head(batch).n)
<1>1. batch \in Seq(Reply(Len(log))) /\ batch # <<>>
  BY DEF IInv, Writers, Working
<1>2. /\ Len(batch) \in Nat /\ Len(batch) >= 1 /\ Head(batch) = batch[1]
      /\ Len(batch') = Len(batch) - 1
      /\ \A i \in 1..Len(batch') : batch'[i] = batch[i + 1]
  BY <1>1, HeadTailProperties
<1>3. \A i \in 1..Len(batch') : i + 1 \in 1..Len(batch)
  BY <1>2
<1> QED
  BY <1>2, <1>3 DEF LastKept, StoredOk, OnDisk, Result

(* A window is handed over.                                                 *)
LEMMA HandOverKeepsLast ==
    ASSUME IInv, Order, LastKept, NEW w \in Window, Enqueue(w), batch = <<>>,
           UNCHANGED <<batch, session, last, lastByPad, torn>>
    PROVE  LastKept'
<1>0. /\ Outstanding \subseteq 1..Len(log) /\ DOMAIN log = 1..Len(log) /\ Len(log) \in 0..MaxWindows
      /\ last \in 0..Len(log) /\ lastByPad \in [Pads -> 0..Len(log)]
      /\ MaxWindows \in Nat
  BY OutstandingWindows DEF IInv, Log
<1>1. /\ Outstanding' = Outstanding \cup {Len(log) + 1} /\ log'[Len(log) + 1] = w
      /\ Len(log') = Len(log) + 1
      /\ \A n \in 1..Len(log) : log'[n] = log[n]
  BY <1>0, QueuesGrow
<1>2. UNCHANGED <<trials, answers>> /\ waiting' = Append(waiting, [id |-> Len(log) + 1, n |-> Len(log')])
  BY DEF Enqueue, Writer!Accept
<1>3. Numbered'
  <2>1. waiting \in Seq(Job(Len(log)))
    BY DEF IInv, Writers
  <2>2. /\ Len(waiting') = Len(waiting) + 1 /\ Len(waiting) \in Nat
        /\ \A i \in 1..Len(waiting) : waiting'[i] = waiting[i]
        /\ waiting'[Len(waiting) + 1] = [id |-> Len(log) + 1, n |-> Len(log')]
    <3>1. waiting \in Seq(Job(Len(log)) \cup {[id |-> Len(log) + 1, n |-> Len(log')]})
      BY <2>1, WiderSeq
    <3> QED
      BY <1>2, <3>1, AppendProperties
  <2> QED
    BY <1>1, <2>2 DEF LastKept, Numbered
<1>4. Apart' /\ LastOnDisk'
  <2>1. \A n \in 1..Len(log) : Kept(n) => Kept(n)'
    BY <1>1, <1>2 DEF Kept, Pair, OnDisk
  <2>2. LastOnDisk'
    BY <1>0, <1>1, <2>1 DEF LastKept, LastOnDisk
  <2> QED
    BY <1>0, <1>1, <2>2 DEF LastKept, Apart
<1>5. StoredOk(answers)' /\ StoredOk(batch)'
  <2>1. /\ \A i \in 1..Len(answers) : answers[i].n \in 1..Len(log)
        /\ \A i \in 1..Len(batch) : batch[i].n \in 1..Len(log)
    BY <1>0 DEF Outstanding, Serials
  <2> QED
    <3>1. \A n \in 1..Len(log) : log'[n] = log[n] /\ (OnDisk(n) => OnDisk(n)')
      BY <1>1, <1>2 DEF OnDisk
    <3>2. StoredOk(answers) /\ StoredOk(batch)
      BY DEF LastKept
    <3>3. StoredOk(answers)'
      BY <1>2, <2>1, <3>1, <3>2 DEF StoredOk
    <3>4. StoredOk(batch)'
      BY <2>1, <3>1, <3>2 DEF StoredOk
    <3> QED
      BY <3>3, <3>4
<1> QED
  BY <1>3, <1>4, <1>5 DEF LastKept

LEMMA TicksKeepLast ==
    ASSUME IInv, Order, LastKept, TickStep
    PROVE  LastKept'
<1> USE DEF wizardVars, stageVars, lastVars, archiveVars, setupVars, writerVars
<1>0. /\ Outstanding \subseteq 1..Len(log) /\ DOMAIN log = 1..Len(log) /\ Len(log) \in 0..MaxWindows
      /\ last \in 0..Len(log) /\ lastByPad \in [Pads -> 0..Len(log)]
      /\ MaxWindows \in Nat
  BY OutstandingWindows DEF IInv, Log
<1>1. CASE TickBeginsStep \/ Tick
  <2>1. /\ UNCHANGED <<log, session, trials, last, lastByPad, waiting, torn>>
        /\ batch' = answers /\ answers' = <<>> /\ pc = "loop" /\ pc' = "results"
    BY <1>1 DEF TickBeginsStep, Tick, TakeResults, Writer!Take
  <2>2. Outstanding' = Outstanding
    BY <2>1, QueuesTaken
  <2> QED
    BY <2>1, <2>2, LastAtRest DEF LastKept, StoredOk, OnDisk
<1>2. CASE \/ TickFindsNoSpace \/ CollectFails \/ Advance \/ Complete \/ CollectNothing
           \/ WindowBegins
  <2>1. UNCHANGED <<log, session, trials, last, lastByPad, waiting, answers, batch,
                  torn>>
    BY <1>2 DEF TickFindsNoSpace, CollectFails, Advance, Complete, CollectNothing, WindowBegins
  <2>2. Outstanding' = Outstanding
    BY <2>1 DEF Outstanding
  <2> QED
    BY <2>1, <2>2, LastAtRest DEF LastKept, StoredOk, OnDisk
<1>3. CASE FailedResult \/ ForeignResult
  <2>1. /\ UNCHANGED <<log, session, trials, last, lastByPad, waiting, answers, pc, torn>>
        /\ Working /\ batch' = Tail(batch)
    BY <1>3 DEF FailedResult, ForeignResult
  <2>2. Outstanding' \subseteq Outstanding
    BY <2>1, QueuesWorkedOff
  <2>3. StoredOk(answers)' /\ StoredOk(batch)'
    BY <2>1, ReplyWorkedOff DEF LastKept, StoredOk, OnDisk
  <2> QED
    BY <2>1, <2>2, <2>3, LastAtRest
<1>4. CASE OwnResult
  <2> DEFINE n == Head(batch).n
  <2>1. /\ UNCHANGED <<log, session, trials, waiting, answers, pc, torn>>
        /\ Working /\ Head(batch).ok /\ Result.session = session /\ batch' = Tail(batch)
        /\ lastByPad' = [lastByPad EXCEPT ![Result.pad] = n]
        /\ last' \in {n, last}
    BY <1>4 DEF OwnResult, Failed
  <2>2. Outstanding' = Outstanding \ {n}
    BY <2>1, QueuesWorkedOff
  <2>3. StoredOk(batch)' /\ StoredOk(answers)' /\ trials'[n] = n
    <3>1. StoredOk(batch)' /\ OnDisk(n)
      BY <2>1, ReplyWorkedOff
    <3> QED
      BY <2>1, <3>1 DEF LastKept, StoredOk, OnDisk
  <2>4. Apart'
    BY <1>0, <2>1, <2>2 DEF Apart, LastKept
  <2>5. LastOnDisk'
    <3>0. \A m : m = n \/ Kept(m) => Kept(m)'
      BY <2>1, <2>3 DEF Kept, Pair, OnDisk
    <3>1. last' # 0 => Kept(last)'
      BY <2>1, <3>0 DEF LastOnDisk, LastKept
    <3>2. ASSUME NEW p \in Pads, lastByPad'[p] # 0
          PROVE  Kept(lastByPad[p])' /\ log'[lastByPad'[p]].pad = p
      <4>1. CASE p = Result.pad
        <5>1. lastByPad'[p] = n
          BY <1>0, <2>1, <4>1
        <5> QED
          BY <2>1, <3>0, <4>1, <5>1 DEF Result
      <4>2. CASE p # Result.pad
        <5>1. lastByPad'[p] = lastByPad[p]
          BY <1>0, <2>1, <4>2
        <5> QED
          BY <2>1, <3>0, <3>2, <5>1 DEF LastOnDisk, LastKept
      <4> QED
        BY <4>1, <4>2
    <3> QED
      BY <3>1, <3>2 DEF LastOnDisk
  <2> QED
    BY <2>1, <2>3, <2>4, <2>5 DEF LastKept, Numbered
<1>5. CASE TakeEnds
  <2> DEFINE w == [pad |-> selected, session |-> session, phase |-> phase, stage |-> stage,
                   begun |-> buffer, usable |-> TRUE]
  <2>1. /\ w \in Window /\ Enqueue(w) /\ batch = <<>>
        /\ UNCHANGED <<batch, session, last, lastByPad, torn>>
    BY <1>5, WindowTyped DEF TakeEnds, Order
  <2> HIDE DEF w
  <2> QED
    BY <2>1, HandOverKeepsLast
<1>6. CASE WindowEnds
  <2>1. PICK usable \in BOOLEAN :
          Enqueue([pad |-> window.pad, session |-> window.session, phase |-> window.phase,
                   stage |-> window.stage, begun |-> window.stage, usable |-> usable])
    BY <1>6 DEF WindowEnds
  <2> DEFINE w == [pad |-> window.pad, session |-> window.session, phase |-> window.phase,
                   stage |-> window.stage, begun |-> window.stage, usable |-> usable]
  <2>2. /\ w \in Window /\ Enqueue(w) /\ batch = <<>>
        /\ UNCHANGED <<batch, session, last, lastByPad, torn>>
    BY <1>6, <2>1, WindowTyped DEF WindowEnds, Order
  <2> HIDE DEF w
  <2> QED
    BY <2>2, HandOverKeepsLast
<1> QED
  BY <1>1, <1>2, <1>3, <1>4, <1>5, <1>6 DEF TickStep

LEMMA TicksInHand ==
    ASSUME IInv, Order, WizardOnly, InHand, TickStep
    PROVE  InHand'
<1> USE DEF wizardVars, stageVars, lastVars, archiveVars, setupVars, writerVars
<1>0. Outstanding \subseteq 1..Len(log) /\ DOMAIN log = 1..Len(log) /\ Len(log) \in Nat
  BY OutstandingWindows
<1>1. CASE TickBeginsStep \/ Tick
  <2>1. /\ UNCHANGED <<log, session, waiting, everSealed, wizardActive>>
        /\ batch' = answers /\ answers' = <<>> /\ pc = "loop" /\ pc' = "results"
        /\ state' = state \/ (state = "countdown" /\ wizardActive)
    BY <1>1 DEF TickBeginsStep, Tick, TakeResults, Writer!Take
  <2>2. Outstanding' = Outstanding
    BY <2>1, QueuesTaken
  <2> QED
    BY <2>1, <2>2, FewerInHand
<1>2. CASE TickFindsNoSpace \/ CollectFails \/ Advance \/ CollectNothing
  <2>1. /\ UNCHANGED <<log, session, waiting, answers, batch, everSealed>>
        /\ wizardActive' /\ state' \in {"countdown", "capturing", "review"} =>
             wizardActive /\ state \in {"countdown", "capturing", "review"}
    BY <1>2 DEF TickFindsNoSpace, CollectFails, FailCapture, Advance, StepDone, PrepareWizardStep,
                StopStage, CollectNothing
  <2>2. Outstanding' = Outstanding
    BY <2>1 DEF Outstanding
  <2> QED
    BY <2>1, <2>2, FewerInHand
<1>3. CASE FailedResult \/ ForeignResult
  <2>1. /\ UNCHANGED <<log, session, waiting, answers, everSealed, pc, wizardActive>>
        /\ Working /\ batch' = Tail(batch) /\ state' \in {state, "error"}
    BY <1>3 DEF FailedResult, ForeignResult, StopStage
  <2> QED
    BY <2>1, QueuesWorkedOff, FewerInHand
<1>4. CASE OwnResult
  <2>1. /\ UNCHANGED <<log, session, waiting, answers, pc>>
        /\ Working /\ Result.session = session /\ batch' = Tail(batch)
    BY <1>4 DEF OwnResult
  <2>2. Outstanding' = Outstanding \ {Head(batch).n} /\ Head(batch).n \in OnItsWay
    BY <2>1, QueuesWorkedOff DEF OnItsWay, Result
  <2>3. OnItsWay' = {}
    BY <2>1, <2>2 DEF OnItsWay, InHand
  <2> QED
    BY <2>3 DEF InHand
<1>5. CASE Complete
  <2>1. /\ UNCHANGED <<log, session, waiting, answers, batch>>
        /\ wizardActive /\ state = "review"
    BY <1>5 DEF Complete, StepDone
  <2>2. OnItsWay' = {}
    BY <2>1 DEF InHand, OnItsWay, Outstanding
  <2> QED
    BY <2>2 DEF InHand
<1>6. CASE TakeEnds
  <2> DEFINE w == [pad |-> selected, session |-> session, phase |-> phase, stage |-> stage,
                   begun |-> buffer, usable |-> TRUE]
  <2>1. /\ w \in Window /\ Enqueue(w) /\ batch = <<>> /\ UNCHANGED batch
        /\ UNCHANGED <<everSealed, session, wizardActive>>
        /\ state = "capturing" /\ state' = "sequence-writing"
    BY <1>6, WindowTyped DEF TakeEnds, AfterTake, Order
  <2>2. /\ wizardActive /\ Pair(w) \notin everSealed /\ OnItsWay = {}
    BY <2>1, SessionsSealed DEF WizardOnly, Unsealed, Pair, InHand
  <2>3. /\ Outstanding' = Outstanding \cup {Len(log) + 1} /\ log'[Len(log) + 1] = w
        /\ \A n \in 1..Len(log) : log'[n] = log[n]
    BY <1>0, <2>1, QueuesGrow
  <2>4. OnItsWay' = {Len(log) + 1}
    <3>1. \A n \in Outstanding : log'[n].session # session
      BY <1>0, <2>2, <2>3 DEF OnItsWay
    <3>2. log'[Len(log) + 1].session = session
      BY <2>3
    <3> QED
      BY <2>1, <2>3, <3>1, <3>2 DEF OnItsWay
  <2> QED
    BY <2>1, <2>2, <2>3, <2>4 DEF InHand, Pair
<1>7. CASE WindowBegins \/ WindowEnds
  BY <1>7 DEF WindowBegins, WindowEnds, WizardOnly
<1> QED
  BY <1>1, <1>2, <1>3, <1>4, <1>5, <1>6, <1>7 DEF TickStep

LEMMA WriterKeepsLast ==
    ASSUME IInv, Order, LastKept, WriterStep
    PROVE  LastKept'
<1> USE DEF wizardVars, setupVars, lastVars
<1> DEFINE w == Head(waiting)
<1>0. /\ DOMAIN log = 1..Len(log) /\ Len(log) \in 0..MaxWindows /\ MaxWindows \in Nat
      /\ last \in 0..Len(log) /\ lastByPad \in [Pads -> 0..Len(log)]
      /\ trials \in [1..MaxWindows -> 0..Len(log)]
  BY OutstandingWindows DEF IInv, Log, Writers
<1>1. /\ UNCHANGED <<log, session, last, lastByPad, batch, pc, torn>>
      /\ waiting \in Seq(Job(Len(log))) /\ waiting # <<>>
  BY DEF WriterStep, Saves, Answers, Writer!Appear, Writer!Answer, IInv, Writers
<1>2. /\ Len(waiting) \in Nat /\ Len(waiting) >= 1 /\ w = waiting[1]
      /\ Len(Tail(waiting)) = Len(waiting) - 1
      /\ \A i \in 1..Len(Tail(waiting)) : Tail(waiting)[i] = waiting[i + 1]
  BY <1>1, HeadTailProperties
<1>3. w.id = w.n
  BY <1>2 DEF LastKept, Numbered
<1>4. CASE Saves
  <2>1. /\ UNCHANGED <<waiting, answers>> /\ trials[w.id] = 0
        /\ trials' = [trials EXCEPT ![w.id] = w.n]
    BY <1>4 DEF Saves, Writer!Appear
  <2>2. Outstanding' = Outstanding
    BY <1>1, <2>1 DEF Outstanding
  <2>3. \A n \in 1..Len(log) : OnDisk(n) => OnDisk(n)'
    BY <1>0, <2>1 DEF OnDisk
  <2>4. LastOnDisk' /\ Apart' /\ Numbered'
    <3>1. \A n \in 1..Len(log) : Kept(n) => Kept(n)'
      BY <1>1, <2>3 DEF Kept, Pair
    <3> QED
      BY <1>0, <1>1, <2>1, <2>2, <3>1 DEF LastKept, LastOnDisk, Apart, Numbered
  <2>5. StoredOk(answers)' /\ StoredOk(batch)'
    <3>1. /\ \A i \in 1..Len(answers) : answers[i].n \in 1..Len(log)
          /\ \A i \in 1..Len(batch) : batch[i].n \in 1..Len(log)
      BY OutstandingWindows DEF Outstanding, Serials
    <3> QED
      BY <1>1, <2>1, <2>3, <3>1 DEF LastKept, StoredOk
  <2> QED
    BY <2>4, <2>5 DEF LastKept
<1>5. CASE Answers
  <2> DEFINE r == [id |-> w.id, n |-> w.n, ok |-> trials[w.id] = w.n]
  <2>1. /\ waiting' = Tail(waiting) /\ UNCHANGED trials /\ answers' = Append(answers, r)
    BY <1>5 DEF Answers, Writer!Answer
  <2>2. Outstanding' = Outstanding
    BY <1>1, <1>5, QueuesAnswered
  <2>3. Numbered'
    BY <1>2, <2>1 DEF LastKept, Numbered
  <2>4. LastOnDisk' /\ Apart'
    BY <1>1, <2>1, <2>2 DEF LastKept, LastOnDisk, Kept, Pair, Apart, OnDisk
  <2>5. /\ Len(answers') = Len(answers) + 1 /\ Len(answers) \in Nat
        /\ \A i \in 1..Len(answers) : answers'[i] = answers[i]
        /\ answers'[Len(answers) + 1] = r
    <3>1. answers \in Seq(Reply(Len(log)) \cup {r})
      BY WiderSeq DEF IInv, Writers
    <3> QED
      BY <2>1, <3>1, AppendProperties
  <2>6. r.n = w.n /\ (r.ok => OnDisk(w.n))
    BY <1>3 DEF OnDisk
  <2>7. StoredOk(answers)' /\ StoredOk(batch)'
    BY <1>1, <2>1, <2>5, <2>6 DEF LastKept, StoredOk, OnDisk
  <2> QED
    BY <2>3, <2>4, <2>7 DEF LastKept
<1> QED
  BY <1>4, <1>5 DEF WriterStep

LEMMA WriterInHand ==
    ASSUME IInv, Order, InHand, WriterStep
    PROVE  InHand'
<1> USE DEF wizardVars, setupVars
<1>1. UNCHANGED <<log, session, batch, everSealed, pc, wizardActive, state>>
  BY DEF WriterStep, Saves, Answers
<1>2. Outstanding' = Outstanding
  <2>1. CASE Saves
    BY <1>1, <2>1 DEF Saves, Writer!Appear, Outstanding
  <2>2. CASE Answers
    BY <1>1, <2>2, QueuesAnswered
  <2> QED
    BY <2>1, <2>2 DEF WriterStep
<1> QED
  BY <1>1, <1>2, FewerInHand

LEMMA InitLastKept == Init => LastKept /\ InHand
<1> SUFFICES ASSUME Init PROVE LastKept /\ InHand
  OBVIOUS
<1>1. waiting = <<>> /\ answers = <<>> /\ batch = <<>> /\ Outstanding = {}
  BY NoneLeft DEF Init, Writer!Init, Outstanding
<1>2. InHand /\ Apart
  BY <1>1 DEF InHand, OnItsWay, Apart
<1>3. LastOnDisk /\ Numbered /\ StoredOk(answers) /\ StoredOk(batch)
  BY <1>1 DEF Init, LastOnDisk, Numbered, StoredOk
<1> QED
  BY <1>2, <1>3 DEF LastKept

LEMMA LastStutters == LastKept /\ UNCHANGED vars => LastKept'
  BY DEF vars, LastKept, LastOnDisk, Kept, Pair, OnDisk, Numbered, StoredOk, Apart, Outstanding

LEMMA TrialsStay ==
    ASSUME "start" \notin Verbs, "archive-seal" \notin Verbs
    PROVE  Spec => []TrialsKept
<1>1. Init => TrialsKept
  BY InitLastKept DEF TrialsKept
<1>2. IInv /\ Accounting /\ WizardOnly /\ TrialsKept /\ [Next]_vars => TrialsKept'
  <2> SUFFICES ASSUME IInv, Accounting, WizardOnly, TrialsKept, [Next]_vars PROVE TrialsKept'
    OBVIOUS
  <2>1. CASE UNCHANGED vars
    BY <2>1, LastStutters DEF vars, TrialsKept, InHand, OnItsWay, Outstanding
  <2>2. CASE Next
    <3>1. LastKept'
      BY <2>2, CommandsKeepLast, TicksKeepLast, WriterKeepsLast DEF Next, Accounting, TrialsKept
    <3>2. InHand'
      BY <2>2, CommandsInHand, TicksInHand, WriterInHand DEF Next, Accounting, TrialsKept
    <3> QED
      BY <3>1, <3>2 DEF TrialsKept
  <2> QED
    BY <2>1, <2>2
<1> QED
  BY <1>1, <1>2, Inductive, StagesCounted, WizardAlone, PTL DEF Spec

(* The trials shown as the last ones exist, whatever the wizard, its        *)
(* failures, acknowledgments and restarts removed, but for a session whose  *)
(* release failed part way (archiveSession clearing last and lastByPad,     *)
(* discard, newSession, tick's results).                                    *)
THEOREM LastTrialsExist ==
    ASSUME "start" \notin Verbs, "archive-seal" \notin Verbs
    PROVE  Spec => []LastOnDisk
<1>1. TrialsKept => LastOnDisk
  BY DEF TrialsKept, LastKept
<1> QED
  BY <1>1, TrialsStay, PTL

LEMMA LastStays ==
    ASSUME "archive-ack" \notin Verbs
    PROVE  Spec => []LastKept
<1>1. Init => LastKept
  BY InitLastKept
<1>2. IInv /\ Accounting /\ LastKept /\ [Next]_vars => LastKept'
  BY LastStutters, CommandsKeepLast, TicksKeepLast, WriterKeepsLast DEF Next, Accounting
<1> QED
  BY <1>1, <1>2, Inductive, StagesCounted, PTL DEF Spec

(* They exist as well when the command line records stages, discards trials *)
(* and seals sessions beside the wizard, as long as nothing is released     *)
(* (discard, select, newSession, tick's results).                           *)
THEOREM LastTrialsStay ==
    ASSUME "archive-ack" \notin Verbs
    PROVE  Spec => []LastOnDisk
<1>1. LastKept => LastOnDisk
  BY DEF LastKept
<1> QED
  BY <1>1, LastStays, PTL

(* Without start, only continuous takes are recorded.                      *)
TakesOnly == \A n \in DOMAIN log : log[n].phase \in Continuous

LEMMA TakesAlone ==
    ASSUME "start" \notin Verbs, "archive-seal" \notin Verbs
    PROVE  Spec => []TakesOnly
<1>1. Init => TakesOnly
  BY DEF Init, TakesOnly
<1>2. IInv /\ Accounting /\ WizardOnly /\ TakesOnly /\ [Next]_vars => TakesOnly'
  <2> SUFFICES ASSUME IInv, Accounting, WizardOnly, TakesOnly, [Next]_vars PROVE TakesOnly'
    OBVIOUS
  <2> USE DEF writerVars
  <2>1. CASE UNCHANGED log
    BY <2>1 DEF TakesOnly
  <2>2. CASE TakeEnds
    <3> DEFINE w == [pad |-> selected, session |-> session, phase |-> phase, stage |-> stage,
                     begun |-> buffer, usable |-> TRUE]
    <3>1. w \in Window /\ Enqueue(w) /\ batch = <<>> /\ UNCHANGED batch /\ w.phase \in Continuous
      BY <2>2, WindowTyped DEF TakeEnds, Accounting, Order
    <3>2. /\ DOMAIN log' = DOMAIN log \cup {Len(log) + 1} /\ log'[Len(log) + 1] = w
          /\ \A n \in DOMAIN log : log'[n] = log[n]
      BY <3>1, QueuesGrow DEF Accounting
    <3> QED
      BY <3>1, <3>2 DEF TakesOnly
  <2>3. CASE WindowEnds
    BY <2>3 DEF WindowEnds, WizardOnly
  <2>4. CASE Command \/ Restart
    BY <2>1, <2>4 DEF Command, Select, Settings, Zones, StartWizard, RefuseWizard, Start, Ready,
       ArchiveSeal, ArchiveAck, ArchiveAckFails, Stop, StartSession, Discard, Restart
  <2>5. CASE TickStep /\ ~TakeEnds /\ ~WindowEnds
    BY <2>1, <2>5 DEF TickStep, TickBeginsStep, TickFindsNoSpace, Tick, TakeResults, FailedResult,
       ForeignResult, OwnResult, Advance, Complete, CollectNothing, WindowBegins, CollectFails
  <2>6. CASE WriterStep
    BY <2>1, <2>6 DEF WriterStep, Saves, Answers
  <2> QED
    BY <2>1, <2>2, <2>3, <2>4, <2>5, <2>6 DEF Next, vars
<1> QED
  BY <1>1, <1>2, Inductive, StagesCounted, WizardAlone, PTL DEF Spec

(* Only a reply brings a review.                                            *)
LEMMA ReviewByReply ==
    ASSUME Next, state # "review", state' = "review"
    PROVE  /\ OwnResult /\ Working /\ Head(batch).ok /\ Matches(Result)
           /\ Result.session = session
           /\ batch' = Tail(batch) /\ UNCHANGED <<log, session, trials>>
<1> USE DEF wizardVars
<1>1. OwnResult
  <2>1. CASE Command \/ Restart
    BY <2>1 DEF Command, Select, Settings, Zones, StartWizard, RefuseWizard, Start, Ready,
       ArchiveSeal, ArchiveAck, ArchiveAckFails, Stop, StartSession, Discard, Restart, StopStage,
       PrepareWizardStep
  <2>2. CASE TickStep /\ ~OwnResult
    BY <2>2 DEF TickStep, TickBeginsStep, TickFindsNoSpace, Tick, FailedResult, ForeignResult,
       Advance, Complete, CollectNothing, TakeEnds, AfterTake, WindowBegins, WindowEnds,
       CollectFails, FailCapture, StopStage, PrepareWizardStep
  <2>3. CASE WriterStep
    BY <2>3 DEF WriterStep
  <2> QED
    BY <2>1, <2>2, <2>3 DEF Next
<1> QED
  BY <1>1 DEF OwnResult, Failed, StopStage, writerVars, setupVars

(* The wizard shows a take for review only when its trial is stored: the    *)
(* reply that brings the review is the writer's own, of this stage, and     *)
(* nothing removed the trial while the reply was on its way (tick).         *)
THEOREM ReviewsAreBacked ==
    ASSUME "start" \notin Verbs, "archive-seal" \notin Verbs
    PROVE  Spec => ReviewBacked
<1> DEFINE kept == {n \in StageWindows : OnDisk(n)}
           Reviewed == state # "review" /\ state' = "review" =>
                         IF phase \in Continuous THEN kept # {}
                         ELSE Cardinality({n \in kept : log[n].usable}) >= StageTarget
<1>1. IInv /\ TrialsKept /\ TakesOnly /\ [Next]_vars => [Reviewed]_vars
  <2> SUFFICES ASSUME IInv, TrialsKept, TakesOnly, Next, state # "review", state' = "review"
               PROVE  phase \in Continuous /\ kept # {}
    OBVIOUS
  <2>1. /\ Working /\ Head(batch).ok /\ Result.session = session /\ Matches(Result)
        /\ batch' = Tail(batch) /\ UNCHANGED <<log, session, trials>>
    BY ReviewByReply
  <2>2. Head(batch).n \in DOMAIN log /\ OnDisk(Head(batch).n)
    BY <2>1, ReplyInHand, ReplyWorkedOff DEF TrialsKept
  <2> QED
    BY <2>1, <2>2 DEF TakesOnly, Matches, Result, StageWindows
<1> QED
  BY <1>1, Inductive, TakesAlone, TrialsStay, PTL DEF Spec, ReviewBacked

---------------------------------------------------------------------------
(* The review of a stage. The windows counted are usable trials on disk    *)
(* whose reply was worked off; discard counts one less exactly when it      *)
(* removes one of the stage. Only the wizard command can change the pad in  *)
(* the middle of a stage, so that discard misses one of it.                 *)
Backed == {n \in StageWindows : OnDisk(n) /\ log[n].usable} \ Outstanding
StageBacked == phase \in Isolated => captured <= Cardinality(Backed)
KindKept ==
  phase \in Isolated /\ "wizard" \notin Verbs =>
    \A n \in StageWindows : log[n].pad = selected /\ log[n].phase = phase

LEMMA BackedWindows ==
    ASSUME IInv
    PROVE  IsFiniteSet(Backed) /\ Cardinality(Backed) \in Nat /\ captured \in Nat
<1>1. Backed \subseteq 1..Len(log) /\ Len(log) \in Nat
  BY OutstandingWindows DEF Backed, StageWindows
<1>2. IsFiniteSet(Backed)
  <2>1. IsFiniteSet(1..Len(log))
    BY <1>1, FS_Interval
  <2> QED
    BY <1>1, <2>1, FS_Subset
<1> QED
  BY <1>2, FS_CardinalityType DEF IInv, Stage

(* The log of the next state is finite as well.                             *)
LEMMA NextBackedWindows ==
    ASSUME IInv'
    PROVE  IsFiniteSet(Backed') /\ Cardinality(Backed') \in Nat /\ captured' \in Nat
<1>1. log' \in Seq(Window)
  BY DEF IInv, Log
<1>2. DOMAIN log' = 1..Len(log') /\ Len(log') \in Nat
  BY <1>1, LenProperties
<1>3. Backed' \subseteq 1..Len(log')
  BY <1>2 DEF Backed, StageWindows
<1>4. IsFiniteSet(Backed')
  <2>1. IsFiniteSet(1..Len(log'))
    BY <1>2, FS_Interval
  <2> QED
    BY <1>3, <2>1, FS_Subset
<1> QED
  BY <1>4, FS_CardinalityType DEF IInv, Stage

LEMMA BackedStays ==
    ASSUME IInv', StageBacked, phase' \in Isolated => phase \in Isolated,
           captured' = captured, Backed \subseteq Backed'
    PROVE  StageBacked'
<1>1. CASE phase' \in Isolated
  <2>1. IsFiniteSet(Backed') /\ Cardinality(Backed') \in Nat /\ captured' \in Nat
    BY NextBackedWindows
  <2>2. Cardinality(Backed) <= Cardinality(Backed') /\ Cardinality(Backed) \in Nat
    <3> DEFINE B == Backed
               C == Backed'
    <3>1. IsFiniteSet(C) /\ B \subseteq C
      BY <2>1
    <3> HIDE DEF B, C
    <3>2. IsFiniteSet(B) /\ Cardinality(B) <= Cardinality(C)
      BY <3>1, FS_Subset
    <3>3. Cardinality(B) \in Nat
      BY <3>2, FS_CardinalityType
    <3> QED
      BY <3>2, <3>3 DEF B, C
  <2> QED
    BY <1>1, <2>1, <2>2 DEF StageBacked
<1> QED
  BY <1>1 DEF StageBacked

LEMMA NoneCounted ==
    ASSUME IInv', captured' = 0 \/ phase' \notin Isolated
    PROVE  StageBacked'
  BY NextBackedWindows DEF StageBacked

LEMMA KindStays ==
    ASSUME IInv, Accounting, KindKept, Next
    PROVE  KindKept'
<1> USE DEF Ready, wizardVars, stageVars, lastVars, archiveVars, setupVars, writerVars
<1>1. CASE UNCHANGED <<log, session, stage, phase, selected>>
  BY <1>1 DEF KindKept, StageWindows
<1>2. CASE phase' \notin Isolated
  BY <1>2 DEF KindKept
<1>3. ASSUME NEW ph \in Phases, Start(ph) PROVE KindKept'
  <2>1. /\ UNCHANGED <<log, session>> /\ stage' > stage /\ stage \in Nat /\ stage' \in Nat
    BY <1>3 DEF Start, Begun, IInv, Stage
  <2>2. \A n \in DOMAIN log : log[n].stage \in Nat
    <3>1. \A n \in DOMAIN log : log[n] \in Window
      BY ElementOfSeq, LenProperties DEF IInv, Log
    <3> QED
      BY <3>1 DEF Window
  <2>3. \A n \in DOMAIN log : log[n].session = session => log[n].stage # stage'
    BY <2>1, <2>2 DEF Accounting, StagesSoFar
  <2> QED
    BY <2>1, <2>3 DEF KindKept, StageWindows
<1>4. CASE Command \/ Restart
  <2>1. CASE \/ \E p \in Pads : Select(p)
             \/ \E p \in Pads, z \in 1..2 : Settings(p, z)
             \/ StartSession \/ Restart
    <3>1. phase' = "none"
      BY <2>1 DEF Select, Settings, StartSession, Restart
    <3> QED
      BY <1>2, <3>1
  <2>2. ASSUME NEW p \in Pads, NEW z \in 1..2, StartWizard(p, z) \/ RefuseWizard(p, z)
        PROVE  KindKept'
    BY <2>2 DEF StartWizard, RefuseWizard, KindKept
  <2>3. CASE \/ \E p \in Pads, z \in 1..2 : Zones(p, z)
             \/ \E p \in Pads, s \in 1..session : ArchiveSeal(p, s)
             \/ \E d \in everSealed : ArchiveAck(d[1], d[2]) \/ ArchiveAckFails(d[1], d[2])
             \/ Stop \/ Discard
    BY <1>1, <2>3 DEF Zones, ArchiveSeal, ArchiveAck, ArchiveAckFails, Stop, Discard
  <2> QED
    BY <1>3, <1>4, <2>1, <2>2, <2>3 DEF Command
<1>5. CASE TickBeginsStep \/ TakeEnds
  <2>1. phase' \in Continuous
    BY <1>5 DEF TickBeginsStep, TakeResults, TakeEnds, IInv, Control
  <2> QED
    BY <1>2, <2>1
<1>6. CASE Advance
  <2>1. CASE ~StepDone
    BY <1>1, <1>6, <2>1 DEF Advance
  <2>2. CASE StepDone
    <3>1. phase' = wizardPhases[wizardStep + 2] /\ wizardStep + 1 < Len(wizardPhases)
      BY <1>6, <2>2 DEF Advance, PrepareWizardStep, IInv, Wizard
    <3>2. /\ wizardStep + 2 \in 1..Len(wizardPhases)
      BY <3>1, StepPhases DEF IInv, Wizard
    <3>3. phase' \in Continuous
      BY <3>1, <3>2, StepPhases DEF IInv, Wizard
    <3> QED
      BY <1>2, <3>3
  <2> QED
    BY <2>1, <2>2
<1>7. CASE WindowEnds
  <2>1. PICK usable \in BOOLEAN :
          Enqueue([pad |-> window.pad, session |-> window.session, phase |-> window.phase,
                   stage |-> window.stage, begun |-> window.stage, usable |-> usable])
    BY <1>7 DEF WindowEnds
  <2> DEFINE w == [pad |-> window.pad, session |-> window.session, phase |-> window.phase,
                   stage |-> window.stage, begun |-> window.stage, usable |-> usable]
  <2>2. /\ state = "capturing" /\ phase \in Isolated /\ window # NoWindow
        /\ UNCHANGED <<session, stage, phase, selected, batch>>
    BY <1>7 DEF WindowEnds
  <2>3. w \in Window /\ batch = <<>> /\ w.pad = selected /\ w.phase = phase
    BY <1>7, <2>2, WindowTyped DEF WindowEnds, Accounting, Order, OneKind, OfStage
  <2>4. /\ DOMAIN log' = DOMAIN log \cup {Len(log) + 1} /\ log'[Len(log) + 1] = w
        /\ \A n \in DOMAIN log : log'[n] = log[n]
    <3> HIDE DEF w
    <3> QED
      BY <2>1, <2>2, <2>3, QueuesGrow DEF w, Accounting
  <2> HIDE DEF w
  <2> QED
    BY <2>2, <2>3, <2>4 DEF KindKept, StageWindows
<1>8. CASE TickStep
  BY <1>1, <1>5, <1>6, <1>7, <1>8 DEF TickStep, TickFindsNoSpace, Tick, TakeResults, FailedResult,
     ForeignResult, OwnResult, Complete, CollectNothing, WindowBegins, CollectFails
<1>9. CASE WriterStep
  BY <1>1, <1>9 DEF WriterStep, Saves, Answers
<1> QED
  BY <1>4, <1>8, <1>9 DEF Next

LEMMA CommandsBacked ==
    ASSUME IInv, IInv', KindKept, StageBacked, Command \/ Restart,
           "archive-ack" \notin Verbs, "wizard" \notin Verbs \/ "discard" \notin Verbs
    PROVE  StageBacked'
<1> USE DEF Ready, wizardVars, stageVars, lastVars, archiveVars, setupVars, writerVars
<1>1. CASE \/ \E p \in Pads : Select(p)
           \/ \E p \in Pads, z \in 1..2 : Settings(p, z) \/ StartWizard(p, z)
           \/ \E ph \in Phases : Start(ph)
           \/ StartSession \/ Restart
  <2>1. captured' = 0
    BY <1>1 DEF Select, Settings, StartWizard, NewSession, Start, StartSession, Restart
  <2> QED
    BY <2>1, NoneCounted
<1>2. CASE \/ \E p \in Pads, z \in 1..2 : Zones(p, z) \/ RefuseWizard(p, z)
           \/ \E p \in Pads, s \in 1..session : ArchiveSeal(p, s)
           \/ Stop
  <2>1. UNCHANGED <<log, session, stage, phase, captured, trials, waiting, answers, batch>>
    BY <1>2 DEF Zones, RefuseWizard, ArchiveSeal, Stop
  <2>2. Backed' = Backed
    BY <2>1 DEF Backed, StageWindows, OnDisk, Outstanding
  <2> QED
    BY <2>1, <2>2, BackedStays
<1>3. CASE Discard
  <2>1. /\ UNCHANGED <<log, session, stage, phase, selected, waiting, answers, batch>>
        /\ last # 0 /\ trials' = [trials EXCEPT ![last] = 0]
        /\ captured' = IF /\ log[last].usable /\ log[last].pad = selected
                          /\ log[last].phase = phase /\ log[last].stage = stage /\ captured > 0
                       THEN captured - 1 ELSE captured
        /\ "wizard" \notin Verbs
    BY <1>3 DEF Discard
  <2>2. CASE phase' \notin Isolated
    BY <2>2, NoneCounted
  <2>3. CASE phase' \in Isolated
    <3>1. Backed \ {last} \subseteq Backed'
      <4>1. Outstanding' = Outstanding /\ StageWindows' = StageWindows
        BY <2>1 DEF Outstanding, StageWindows
      <4>2. \A n : n # last /\ OnDisk(n) => OnDisk(n)'
        BY <2>1 DEF OnDisk
      <4> QED
        BY <2>1, <4>1, <4>2 DEF Backed
    <3>2. last \in Backed => captured' = IF captured > 0 THEN captured - 1 ELSE captured
      BY <2>1, <2>3 DEF Backed, StageWindows, KindKept
    <3>3. captured' <= captured /\ captured \in Nat /\ captured' \in Nat
      BY <2>1, BackedWindows, NextBackedWindows
    <3>4. captured <= Cardinality(Backed)
      BY <2>1, <2>3 DEF StageBacked
    <3> DEFINE B == Backed
               C == Backed'
    <3>5. IsFiniteSet(B) /\ IsFiniteSet(C) /\ Cardinality(B) \in Nat /\ Cardinality(C) \in Nat
      BY BackedWindows, NextBackedWindows
    <3>6. Cardinality(B \ {last}) <= Cardinality(C) /\ Cardinality(B \ {last}) \in Nat
      <4>1. IsFiniteSet(C) /\ B \ {last} \subseteq C
        BY <3>1, <3>5
      <4> HIDE DEF B, C
      <4>2. IsFiniteSet(B \ {last}) /\ Cardinality(B \ {last}) <= Cardinality(C)
        BY <4>1, FS_Subset
      <4> QED
        BY <4>2, FS_CardinalityType
    <3>7. Cardinality(B \ {last}) = IF last \in B THEN Cardinality(B) - 1 ELSE Cardinality(B)
      <4>1. IsFiniteSet(B)
        BY <3>5
      <4> HIDE DEF B
      <4> QED
        BY <4>1, FS_RemoveElement
    <3>8. captured' <= Cardinality(B \ {last})
      <4>1. CASE last \in B
        BY <3>2, <3>3, <3>4, <3>5, <3>6, <3>7, <4>1
      <4>2. CASE last \notin B
        BY <3>3, <3>4, <3>5, <3>7, <4>2
      <4> QED
        BY <4>1, <4>2
    <3> QED
      BY <3>3, <3>5, <3>6, <3>8 DEF StageBacked
  <2> QED
    BY <2>2, <2>3
<1> QED
  BY <1>1, <1>2, <1>3 DEF Command, ArchiveAck, ArchiveAckFails

LEMMA StepsBacked ==
    ASSUME IInv, IInv', Order, LastKept, StageBacked, TickStep \/ WriterStep
    PROVE  StageBacked'
<1> USE DEF wizardVars, stageVars, lastVars, archiveVars, setupVars, writerVars
<1>1. CASE TickBeginsStep \/ TakeEnds
  <2>1. phase' \in Continuous
    BY <1>1 DEF TickBeginsStep, TakeResults, TakeEnds, IInv, Control
  <2> QED
    BY <2>1, NoneCounted
<1>2. CASE Tick
  <2>1. /\ UNCHANGED <<log, session, stage, phase, captured, trials, waiting>>
        /\ batch' = answers /\ answers' = <<>> /\ pc = "loop" /\ pc' = "results"
    BY <1>2 DEF Tick, TakeResults, Writer!Take
  <2>2. Backed' = Backed
    BY <2>1, QueuesTaken DEF Backed, StageWindows, OnDisk
  <2> QED
    BY <2>1, <2>2, BackedStays
<1>3. CASE FailedResult \/ ForeignResult
  <2>1. /\ UNCHANGED <<log, session, stage, phase, captured, trials, waiting, answers, pc>>
        /\ Working /\ batch' = Tail(batch)
    BY <1>3 DEF FailedResult, ForeignResult
  <2>2. Outstanding' \subseteq Outstanding
    BY <2>1, QueuesWorkedOff
  <2>3. Backed \subseteq Backed'
    BY <2>1, <2>2 DEF Backed, StageWindows, OnDisk
  <2> QED
    BY <2>1, <2>3, BackedStays
<1>4. CASE OwnResult
  <2> DEFINE n == Head(batch).n
  <2>1. /\ UNCHANGED <<log, session, stage, phase, trials, waiting, answers, pc>>
        /\ Working /\ Head(batch).ok /\ Result.session = session /\ batch' = Tail(batch)
        /\ \/ captured' = captured
           \/ captured' = captured + 1 /\ Matches(Result) /\ Result.usable
    BY <1>4 DEF OwnResult, Failed
  <2>2. n \in Outstanding /\ Outstanding' = Outstanding \ {n}
    BY <2>1, QueuesWorkedOff
  <2>3. Backed \subseteq Backed' /\ n \notin Backed
    BY <2>1, <2>2 DEF Backed, StageWindows, OnDisk
  <2>4. CASE captured' = captured
    BY <2>1, <2>3, <2>4, BackedStays
  <2>5. CASE captured' = captured + 1 /\ Matches(Result) /\ Result.usable
    <3>1. n \in DOMAIN log /\ OnDisk(n)
      BY <2>1, ReplyInHand, ReplyWorkedOff
    <3>2. n \in Backed'
      BY <2>1, <2>2, <2>5, <3>1 DEF Backed, StageWindows, OnDisk, Matches, Result
    <3> DEFINE B == Backed
               C == Backed'
    <3>3. /\ IsFiniteSet(B) /\ IsFiniteSet(C) /\ Cardinality(B) \in Nat /\ Cardinality(C) \in Nat
          /\ captured \in Nat
      BY BackedWindows, NextBackedWindows
    <3>4. n \notin B /\ B \cup {n} \subseteq C
      BY <2>3, <3>2
    <3>5. Cardinality(B) + 1 <= Cardinality(C)
      <4>1. IsFiniteSet(B) /\ IsFiniteSet(C)
        BY <3>3
      <4> HIDE DEF B, C, n
      <4>2. Cardinality(B \cup {n}) = Cardinality(B) + 1
        BY <3>4, <4>1, FS_AddElement
      <4> QED
        BY <3>4, <4>1, <4>2, FS_Subset
    <3>6. phase \in Isolated => captured' <= Cardinality(C)
      BY <2>5, <3>3, <3>5 DEF StageBacked
    <3> QED
      BY <2>1, <3>6 DEF StageBacked
  <2> QED
    BY <2>1, <2>4, <2>5
<1>5. CASE Advance
  <2>1. CASE ~StepDone
    <3>1. UNCHANGED <<log, session, stage, phase, captured, trials, waiting, answers, batch>>
      BY <1>5, <2>1 DEF Advance
    <3>2. Backed' = Backed
      BY <3>1 DEF Backed, StageWindows, OnDisk, Outstanding
    <3> QED
      BY <3>1, <3>2, BackedStays
  <2>2. CASE StepDone
    BY <1>5, <2>2, NoneCounted DEF Advance, PrepareWizardStep
  <2> QED
    BY <2>1, <2>2
<1>6. CASE TickFindsNoSpace \/ Complete \/ CollectNothing \/ WindowBegins \/ CollectFails
  <2>1. UNCHANGED <<log, session, stage, phase, captured, trials, waiting, answers, batch>>
    BY <1>6 DEF TickFindsNoSpace, Complete, CollectNothing, WindowBegins, CollectFails
  <2>2. Backed' = Backed
    BY <2>1 DEF Backed, StageWindows, OnDisk, Outstanding
  <2> QED
    BY <2>1, <2>2, BackedStays
<1>7. CASE WindowEnds
  <2>1. PICK usable \in BOOLEAN :
          Enqueue([pad |-> window.pad, session |-> window.session, phase |-> window.phase,
                   stage |-> window.stage, begun |-> window.stage, usable |-> usable])
    BY <1>7 DEF WindowEnds
  <2> DEFINE w == [pad |-> window.pad, session |-> window.session, phase |-> window.phase,
                   stage |-> window.stage, begun |-> window.stage, usable |-> usable]
  <2>2. /\ w \in Window /\ Enqueue(w) /\ batch = <<>>
        /\ UNCHANGED <<session, stage, phase, captured, batch>>
    BY <1>7, <2>1, WindowTyped DEF WindowEnds, Order
  <2> HIDE DEF w
  <2>3. /\ Outstanding' = Outstanding \cup {Len(log) + 1}
        /\ DOMAIN log' = DOMAIN log \cup {Len(log) + 1}
        /\ \A n \in DOMAIN log : log'[n] = log[n]
    BY <2>2, QueuesGrow
  <2>4. UNCHANGED trials /\ Len(log) + 1 \notin DOMAIN log
    BY <2>2, OutstandingWindows DEF Enqueue, Writer!Accept
  <2>5. Backed \subseteq Backed'
    BY <2>2, <2>3, <2>4 DEF Backed, StageWindows, OnDisk
  <2> QED
    BY <2>2, <2>5, BackedStays
<1>8. CASE WriterStep
  <2>1. UNCHANGED <<log, session, stage, phase, captured, batch, pc>>
    BY <1>8 DEF WriterStep, Saves, Answers
  <2>2. Outstanding' = Outstanding /\ \A n \in DOMAIN log : OnDisk(n) => OnDisk(n)'
    <3>1. CASE Saves
      <4>1. /\ UNCHANGED <<waiting, answers>> /\ trials[Head(waiting).id] = 0
            /\ trials' = [trials EXCEPT ![Head(waiting).id] = Head(waiting).n]
        BY <3>1 DEF Saves, Writer!Appear
      <4>2. \A n \in DOMAIN log : n # 0
        BY OutstandingWindows
      <4> QED
        BY <2>1, <4>1, <4>2 DEF Outstanding, OnDisk
    <3>2. CASE Answers
      <4>1. UNCHANGED trials
        BY <3>2 DEF Answers, Writer!Answer
      <4> QED
        BY <2>1, <3>2, <4>1, QueuesAnswered DEF OnDisk
    <3> QED
      BY <1>8, <3>1, <3>2 DEF WriterStep
  <2>3. Backed \subseteq Backed'
    BY <2>1, <2>2 DEF Backed, StageWindows
  <2> QED
    BY <2>1, <2>3, BackedStays
<1> QED
  BY <1>1, <1>2, <1>3, <1>4, <1>5, <1>6, <1>7, <1>8 DEF TickStep

LEMMA StagesBacked ==
    ASSUME "archive-ack" \notin Verbs, "wizard" \notin Verbs \/ "discard" \notin Verbs
    PROVE  Spec => [](KindKept /\ StageBacked)
<1>1. Init => KindKept /\ StageBacked
  <2> SUFFICES ASSUME Init PROVE KindKept /\ StageBacked
    OBVIOUS
  <2> QED
    BY DEF Init, KindKept, StageBacked
<1>2. IInv /\ IInv' /\ Accounting /\ LastKept /\ KindKept /\ StageBacked /\ [Next]_vars =>
        (KindKept /\ StageBacked)'
  <2> SUFFICES ASSUME IInv, IInv', Accounting, LastKept, KindKept, StageBacked, [Next]_vars
               PROVE  KindKept' /\ StageBacked'
    OBVIOUS
  <2>1. CASE UNCHANGED vars
    <3>1. Backed' = Backed /\ StageWindows' = StageWindows
      BY <2>1 DEF vars, Backed, StageWindows, OnDisk, Outstanding
    <3> QED
      BY <2>1, <3>1 DEF vars, KindKept, StageBacked
  <2> QED
    BY <2>1, KindStays, CommandsBacked, StepsBacked DEF Next, Accounting
<1> QED
  BY <1>1, <1>2, Inductive, StagesCounted, LastStays, PTL DEF Spec

(* A stage of separate hits is shown for review only with the full number   *)
(* of usable trials on disk, and a take only with its trial, whatever the   *)
(* command line stops, discards and seals meanwhile. Not with discard       *)
(* beside the wizard command, whose refusals change the selected pad (tick, *)
(* discard).                                                                *)
THEOREM StageReviewsAreBacked ==
    ASSUME "archive-ack" \notin Verbs, "wizard" \notin Verbs \/ "discard" \notin Verbs
    PROVE  Spec => ReviewBacked
<1> DEFINE kept == {n \in StageWindows : OnDisk(n)}
           Reviewed == state # "review" /\ state' = "review" =>
                         IF phase \in Continuous THEN kept # {}
                         ELSE Cardinality({n \in kept : log[n].usable}) >= StageTarget
<1>1. IInv /\ IInv' /\ LastKept /\ StageBacked /\ StageBacked' /\ Accounting /\ [Next]_vars =>
        [Reviewed]_vars
  <2> SUFFICES ASSUME IInv, IInv', LastKept, StageBacked', Next,
                      state # "review", state' = "review"
               PROVE  IF phase \in Continuous THEN kept # {}
                      ELSE Cardinality({n \in kept : log[n].usable}) >= StageTarget
    OBVIOUS
  <2>1. /\ OwnResult /\ Working /\ Head(batch).ok /\ Matches(Result) /\ Result.session = session
        /\ batch' = Tail(batch) /\ UNCHANGED <<log, session, trials>>
    BY ReviewByReply
  <2>2. CASE phase \in Continuous
    <3>1. Head(batch).n \in DOMAIN log /\ OnDisk(Head(batch).n)
      BY <2>1, ReplyInHand, ReplyWorkedOff
    <3> QED
      BY <2>1, <2>2, <3>1 DEF Matches, Result, StageWindows
  <2>3. CASE phase \notin Continuous
    <3>1. phase' \in Isolated /\ captured' >= StageTarget /\ UNCHANGED stage
      BY <2>1, <2>3 DEF OwnResult, StopStage, StageFull
    <3> DEFINE B == Backed'
               K == {n \in kept : log[n].usable}
    <3>2. IsFiniteSet(K)
      <4>1. K \subseteq 1..Len(log) /\ Len(log) \in Nat
        BY OutstandingWindows DEF StageWindows
      <4>2. IsFiniteSet(1..Len(log))
        BY <4>1, FS_Interval
      <4> HIDE DEF K
      <4> QED
        BY <4>1, <4>2, FS_Subset
    <3>3. B \subseteq K
      BY <2>1, <3>1 DEF Backed, StageWindows, OnDisk
    <3>4. captured' <= Cardinality(B) /\ captured' \in Nat
      BY <3>1, NextBackedWindows DEF StageBacked
    <3>5. Cardinality(B) <= Cardinality(K) /\ Cardinality(B) \in Nat /\ Cardinality(K) \in Nat
      <4> HIDE DEF B, K
      <4>1. IsFiniteSet(B) /\ Cardinality(B) <= Cardinality(K)
        BY <3>2, <3>3, FS_Subset
      <4> QED
        BY <3>2, <4>1, FS_CardinalityType
    <3>6. Cardinality(K) >= StageTarget
      BY <3>1, <3>4, <3>5
    <3> QED
      BY <2>3, <3>6
  <2> QED
    BY <2>2, <2>3
<1> QED
  BY <1>1, Inductive, LastStays, StagesCounted, StagesBacked, PTL DEF Spec, ReviewBacked

---------------------------------------------------------------------------
(* The takes of a calibration. While the wizard waits or captures, the     *)
(* session holds a take of every earlier step; from the hand-over on, one   *)
(* of the present step too. A take is on disk, on its way, or its loss has  *)
(* ended the calibration with an error that no result can lift any more.    *)
UnderWay ==
  /\ state \in {"countdown", "capturing", "sequence-writing", "review", "error"}
  /\ phase = wizardPhases[wizardStep + 1]
  /\ \A n \in Takes : log[n].pad = selected
  /\ state \in {"countdown", "capturing"} => StepsTaken(wizardStep)
  /\ state \in {"sequence-writing", "review"} \/ OnItsWay # {} => StepsTaken(wizardStep + 1)
  /\ StepsTaken(wizardStep) \/ StepsTaken(wizardStep + 1)
  /\ \A n \in Takes : OnDisk(n) \/ n \in OnItsWay \/ (state = "error" /\ OnItsWay = {})

Settled ==
  /\ ~wizardActive /\ OnItsWay = {}
  /\ StepsTaken(Len(wizardPhases))
  /\ \A n \in Takes : OnDisk(n) \/ Released(n)

InSteps == (wizardActive => UnderWay) /\ (state = "complete" => Settled)

LEMMA SameTakes ==
    ASSUME UNCHANGED <<log, session, wizardPhases>>
    PROVE  Takes' = Takes /\ \A k : StepsTaken(k)' <=> StepsTaken(k)
  BY DEF Takes, StepsTaken

(* A step that leaves the wizard alone, and trials but those it hands over. *)
LEMMA StepsAtRest ==
    ASSUME InSteps, UNCHANGED <<log, session, wizardActive, wizardPhases, wizardStep, state>>,
           wizardActive => UNCHANGED <<selected, phase>>,
           OnItsWay' = OnItsWay,
           \A n \in Takes : OnDisk(n) => OnDisk(n)' \/ (~wizardActive /\ Released(n)'),
           \A n \in Takes : ~wizardActive /\ Released(n) => Released(n)'
    PROVE  InSteps'
<1>1. Takes' = Takes /\ \A k : StepsTaken(k)' <=> StepsTaken(k)
  BY SameTakes
<1>2. StepsTaken(wizardStep)' <=> StepsTaken(wizardStep)
  BY <1>1 DEF StepsTaken, Takes
<1>3. StepsTaken(wizardStep + 1)' <=> StepsTaken(wizardStep + 1)
  BY <1>1 DEF StepsTaken, Takes
<1>4. StepsTaken(Len(wizardPhases))' <=> StepsTaken(Len(wizardPhases))
  BY <1>1 DEF StepsTaken, Takes
<1>5. ASSUME wizardActive PROVE UnderWay'
  BY <1>1, <1>2, <1>3, <1>5 DEF InSteps, UnderWay
<1>6. ASSUME state = "complete" PROVE Settled'
  BY <1>1, <1>4, <1>6 DEF InSteps, Settled
<1> QED
  BY <1>5, <1>6 DEF InSteps

(* A step of the wizard that removes no trial.                              *)
LEMMA StepsMove ==
    ASSUME wizardActive, UnderWay, state' # "complete",
           UNCHANGED <<log, session, wizardPhases, selected, trials>>,
           OnItsWay' \subseteq OnItsWay,
           state' \in {"countdown", "capturing", "sequence-writing", "review", "error"},
           phase' = wizardPhases[wizardStep' + 1],
           state' \in {"countdown", "capturing"} => StepsTaken(wizardStep'),
           state' \in {"sequence-writing", "review"} \/ OnItsWay' # {} =>
             StepsTaken(wizardStep' + 1),
           StepsTaken(wizardStep') \/ StepsTaken(wizardStep' + 1),
           \A n \in Takes : OnDisk(n) \/ n \in OnItsWay' \/ (state' = "error" /\ OnItsWay' = {})
    PROVE  InSteps'
<1>1. Takes' = Takes
  BY DEF Takes
<1>2. StepsTaken(wizardStep)' <=> StepsTaken(wizardStep')
  BY DEF StepsTaken, Takes
<1>3. StepsTaken(wizardStep + 1)' <=> StepsTaken(wizardStep' + 1)
  BY DEF StepsTaken, Takes
<1>4. UnderWay'
  BY <1>1, <1>2, <1>3 DEF UnderWay, OnDisk
<1> QED
  BY <1>4 DEF InSteps

LEMMA CommandsStep ==
    ASSUME IInv, WizardOnly, InSteps, Command \/ Restart,
           "start" \notin Verbs, "archive-seal" \notin Verbs, "discard" \notin Verbs
    PROVE  InSteps'
<1> USE DEF Ready, wizardVars, stageVars, lastVars, archiveVars, setupVars, writerVars
<1>1. CASE \/ \E p \in Pads : Select(p)
           \/ \E p \in Pads, z \in 1..2 : Settings(p, z)
           \/ Stop \/ StartSession \/ Restart
  <2>1. ~wizardActive' /\ state' # "complete"
    BY <1>1 DEF Select, StopStage, Settings, Stop, StartSession, Restart, IInv, Wizard
  <2> QED
    BY <2>1 DEF InSteps
<1>2. CASE \E p \in Pads, z \in 1..2 : Zones(p, z) \/ RefuseWizard(p, z)
  <2>1. /\ UNCHANGED <<log, session, wizardActive, wizardPhases, wizardStep, state, trials,
                       waiting, answers, batch, everSealed, dirs, torn>>
        /\ ~wizardActive
    BY <1>2 DEF Zones, RefuseWizard
  <2>2. OnItsWay' = OnItsWay
    BY <2>1 DEF OnItsWay, Outstanding
  <2> QED
    BY <2>1, <2>2, StepsAtRest DEF OnDisk, Released
<1>3. ASSUME NEW p \in Pads, NEW z \in 1..2, StartWizard(p, z) PROVE InSteps'
  <2>1. /\ UNCHANGED <<log, waiting, answers, batch>> /\ session' = session + 1
        /\ wizardStep' = 0 /\ state' = "countdown" /\ phase' = wizardPhases'[0 + 1]
    BY <1>3 DEF StartWizard, PrepareWizardStep, StopStage, NewSession, NextSession
  <2>2. Takes' = {} /\ OnItsWay' = {}
    <3>1. \A n \in DOMAIN log : log[n].session # session + 1
      BY SessionsSealed
    <3>2. Outstanding \subseteq DOMAIN log
      BY OutstandingWindows
    <3>3. Outstanding' = Outstanding
      BY <2>1 DEF Outstanding
    <3> QED
      BY <2>1, <3>1, <3>2, <3>3 DEF Takes, OnItsWay
  <2>3. StepsTaken(0)'
    <3>1. Len(log) \in Nat
      BY OutstandingWindows
    <3> QED
      BY <2>1, <2>2, <3>1 DEF StepsTaken
  <2>4. StepsTaken(wizardStep)'
    BY <2>1, <2>3 DEF StepsTaken
  <2>5. UnderWay'
    BY <2>1, <2>2, <2>4 DEF UnderWay
  <2> QED
    BY <2>1, <2>5 DEF InSteps
<1>4. ASSUME NEW d \in everSealed, ArchiveAck(d[1], d[2]) \/ ArchiveAckFails(d[1], d[2])
      PROVE  InSteps'
  <2>1. /\ UNCHANGED <<log, session, wizardActive, wizardPhases, wizardStep, state, selected,
                       phase, waiting, answers, batch, everSealed>>
        /\ dirs' \subseteq dirs /\ torn \subseteq torn'
        /\ <<d[1], d[2]>> \notin dirs' \/ <<d[1], d[2]>> \in torn'
        /\ \/ UNCHANGED trials
           \/ \E gone \in SUBSET Recorded(<<d[1], d[2]>>) : trials' = Remaining(gone)
    BY <1>4 DEF ArchiveAck, ArchiveAckFails
  <2>2. d = <<d[1], d[2]>>
    BY DEF IInv, Archive
  <2>3. /\ DOMAIN trials = 1..MaxWindows /\ Takes \subseteq 1..MaxWindows
        /\ \A n \in Takes : log[n].session = session /\ n \in DOMAIN log /\ log[n].pad \in Pads
    <3>1. \A n \in DOMAIN log : log[n] \in Window
      BY ElementOfSeq, LenProperties DEF IInv, Log
    <3>2. DOMAIN log \subseteq 1..MaxWindows
      BY OutstandingWindows DEF IInv, Log
    <3>3. DOMAIN trials = 1..MaxWindows
      BY DEF IInv, Writers
    <3>4. \A n \in DOMAIN log : log[n].pad \in Pads
      BY <3>1 DEF Window
    <3> QED
      BY <3>2, <3>3, <3>4 DEF Takes
  <2>4. OnItsWay' = OnItsWay
    BY <2>1 DEF OnItsWay, Outstanding
  <2>5. ASSUME NEW n \in Takes, OnDisk(n) PROVE OnDisk(n)' \/ (~wizardActive /\ Released(n)')
    <3>1. CASE n \notin Recorded(d)
      BY <2>1, <2>2, <2>3, <2>5, <3>1 DEF OnDisk, Remaining
    <3>2. CASE n \in Recorded(d)
      <4>1. Pair(log[n]) = d /\ Pair(log[n]) = <<log[n].pad, session>>
        BY <2>3, <3>2 DEF Recorded, Pair
      <4>2. ~wizardActive
        BY <2>3, <4>1 DEF WizardOnly, Unsealed
      <4>3. Released(n)'
        BY <2>1, <2>2, <4>1 DEF Released, Pair
      <4> QED
        BY <4>2, <4>3
    <3> QED
      BY <3>1, <3>2
  <2>6. \A n \in Takes : Released(n) => Released(n)'
    BY <2>1 DEF Released, Pair
  <2> QED
    BY <2>1, <2>4, <2>5, <2>6, StepsAtRest
<1> QED
  BY <1>1, <1>2, <1>3, <1>4 DEF Command, Start, ArchiveSeal, Discard

LEMMA TicksStep ==
    ASSUME IInv, Order, WizardOnly, TrialsKept, InSteps, TickStep
    PROVE  InSteps'
<1> USE DEF wizardVars, stageVars, lastVars, archiveVars, setupVars, writerVars
<1>0. /\ wizardActive => wizardStep + 1 \in 1..Len(wizardPhases)
      /\ wizardStep \in Nat /\ Len(wizardPhases) \in Nat
  BY StepPhases DEF IInv, Wizard
<1>1. ASSUME UNCHANGED <<log, session, wizardActive, wizardPhases, wizardStep, state, selected,
                         phase, trials, everSealed, dirs, torn>>,
             OnItsWay' = OnItsWay
      PROVE  InSteps'
  BY <1>1, StepsAtRest DEF OnDisk, Released
<1>2. CASE TickBeginsStep
  <2>1. /\ UNCHANGED <<log, session, wizardPhases, wizardStep, selected, phase, trials>>
        /\ wizardActive /\ state = "countdown" /\ state' = "capturing"
        /\ batch' = answers /\ answers' = <<>> /\ UNCHANGED waiting
        /\ pc = "loop" /\ pc' = "results"
    BY <1>2 DEF TickBeginsStep, TakeResults, Writer!Take
  <2>2. OnItsWay = {} /\ OnItsWay' = {}
    BY <2>1, QueuesTaken DEF TrialsKept, InHand, OnItsWay
  <2> QED
    BY <2>1, <2>2, StepsMove DEF InSteps, UnderWay
<1>3. CASE Tick
  <2>1. OnItsWay' = OnItsWay
    BY <1>3, QueuesTaken DEF Tick, TakeResults, Writer!Take, OnItsWay
  <2> QED
    BY <1>1, <1>3, <2>1 DEF Tick, TakeResults, Writer!Take
<1>4. CASE TickFindsNoSpace \/ CollectFails
  BY <1>4 DEF TickFindsNoSpace, CollectFails, FailCapture, StopStage, InSteps
<1>5. CASE ForeignResult
  <2>1. /\ UNCHANGED <<log, session, pc, waiting, answers>>
        /\ Working /\ Result.session # session /\ batch' = Tail(batch)
    BY <1>5 DEF ForeignResult
  <2>2. OnItsWay' = OnItsWay
    BY <2>1, QueuesWorkedOff DEF OnItsWay, Result
  <2> QED
    BY <1>1, <1>5, <2>2 DEF ForeignResult
<1>6. CASE FailedResult
  <2>1. /\ UNCHANGED <<log, session, wizardPhases, wizardStep, selected, phase, trials,
                       wizardActive, pc, waiting, answers>>
        /\ Working /\ batch' = Tail(batch) /\ state' = "error"
    BY <1>6 DEF FailedResult, StopStage
  <2>2. OnItsWay' \subseteq OnItsWay
    BY <2>1, QueuesWorkedOff DEF OnItsWay
  <2>3. CASE ~wizardActive
    BY <2>1, <2>3 DEF InSteps
  <2>4. CASE wizardActive
    <3>1. OnItsWay' = {} \/ OnItsWay' = OnItsWay
      BY <2>2 DEF TrialsKept, InHand
    <3>2. UnderWay
      BY <2>4 DEF InSteps
    <3>3. \A n \in Takes : OnDisk(n) \/ n \in OnItsWay' \/ (state' = "error" /\ OnItsWay' = {})
      BY <2>1, <3>1, <3>2 DEF UnderWay
    <3>4. OnItsWay' # {} => StepsTaken(wizardStep' + 1)
      BY <2>1, <3>1, <3>2 DEF UnderWay
    <3> QED
      BY <2>1, <2>2, <2>4, <3>2, <3>3, <3>4, StepsMove DEF UnderWay
  <2> QED
    BY <2>3, <2>4
<1>7. CASE OwnResult
  <2> DEFINE n == Head(batch).n
  <2>1. /\ UNCHANGED <<log, session, wizardPhases, wizardStep, selected, phase, trials,
                       wizardActive, pc, waiting, answers>>
        /\ Working /\ Head(batch).ok /\ Result.session = session /\ batch' = Tail(batch)
        /\ state' \in {state, "review", "error"}
    BY <1>7 DEF OwnResult, Failed, StopStage
  <2>2. n \in OnItsWay /\ OnItsWay' = OnItsWay \ {n}
    BY <2>1, QueuesWorkedOff DEF OnItsWay, Result
  <2>3. OnItsWay = {n} /\ OnItsWay' = {}
    BY <2>2 DEF TrialsKept, InHand
  <2>4. OnDisk(n)
    BY <2>1, ReplyWorkedOff DEF TrialsKept
  <2>5. CASE ~wizardActive
    BY <2>1, <2>3, <2>5 DEF InSteps, Settled
  <2>6. CASE wizardActive
    <3>1. UnderWay /\ state \in {"sequence-writing", "error"}
      BY <2>3, <2>6 DEF InSteps, UnderWay, TrialsKept, InHand
    <3>2. StepsTaken(wizardStep + 1) /\ \A m \in Takes : OnDisk(m)
      BY <2>3, <2>4, <3>1 DEF UnderWay
    <3>3. state' \in {"sequence-writing", "review", "error"} /\ phase' = wizardPhases[wizardStep' + 1]
      BY <2>1, <3>1 DEF UnderWay
    <3> QED
      BY <2>1, <2>3, <2>6, <3>1, <3>2, <3>3, StepsMove
  <2> QED
    BY <2>5, <2>6
<1>8. CASE Advance
  <2>1. OnItsWay' = OnItsWay
    BY <1>8 DEF Advance, OnItsWay, Outstanding
  <2>2. CASE ~StepDone
    BY <1>1, <1>8, <2>1, <2>2 DEF Advance
  <2>3. CASE StepDone
    <3>1. /\ UNCHANGED <<log, session, wizardPhases, selected, trials>>
          /\ wizardActive /\ state = "review" /\ state' = "countdown"
          /\ wizardStep' = wizardStep + 1 /\ phase' = wizardPhases[wizardStep' + 1]
      BY <1>8, <2>3 DEF Advance, StepDone, PrepareWizardStep, StopStage
    <3>2. OnItsWay = {} /\ UnderWay
      BY <3>1 DEF TrialsKept, InHand, InSteps
    <3> QED
      BY <2>1, <3>1, <3>2, StepsMove DEF UnderWay
  <2> QED
    BY <2>2, <2>3
<1>9. CASE Complete
  <2>1. CASE state' # "complete"
    BY <1>9, <2>1 DEF Complete, FailCapture, InSteps
  <2>2. CASE state' = "complete"
    <3>1. /\ UNCHANGED <<log, session, wizardPhases, trials, waiting, answers, batch>>
          /\ wizardActive /\ state = "review" /\ ~wizardActive'
          /\ wizardStep + 1 >= Len(wizardPhases)
      BY <1>9, <2>2 DEF Complete, StepDone, FailCapture, StopStage
    <3>2. wizardStep + 1 = Len(wizardPhases)
      BY <1>0, <3>1
    <3>3. OnItsWay = {} /\ OnItsWay' = {} /\ UnderWay
      BY <3>1 DEF TrialsKept, InHand, InSteps, OnItsWay, Outstanding
    <3>4. StepsTaken(Len(wizardPhases))
      BY <3>1, <3>2, <3>3 DEF UnderWay
    <3>5. StepsTaken(Len(wizardPhases))'
      BY <3>1, <3>4 DEF StepsTaken, Takes
    <3>6. \A n \in Takes' : OnDisk(n)'
      BY <3>1, <3>3 DEF UnderWay, Takes, OnDisk
    <3>7. Settled'
      BY <3>1, <3>3, <3>5, <3>6 DEF Settled
    <3> QED
      BY <3>1, <3>7 DEF InSteps
  <2> QED
    BY <2>1, <2>2
<1>10. CASE CollectNothing
  BY <1>1, <1>10 DEF CollectNothing, OnItsWay, Outstanding
<1>11. CASE TakeEnds
  <2> DEFINE w == [pad |-> selected, session |-> session, phase |-> phase, stage |-> stage,
                   begun |-> buffer, usable |-> TRUE]
             k == wizardStep
  <2>1. /\ w \in Window /\ Enqueue(w) /\ batch = <<>> /\ UNCHANGED batch
        /\ UNCHANGED <<session, selected, phase, wizardActive, wizardPhases, wizardStep, trials>>
        /\ state = "capturing" /\ state' = "sequence-writing"
    BY <1>11, WindowTyped DEF TakeEnds, AfterTake, Order, Enqueue, Writer!Accept
  <2>2. wizardActive /\ UnderWay /\ StepsTaken(k) /\ phase = wizardPhases[k + 1]
    BY <2>1 DEF WizardOnly, InSteps, UnderWay
  <2>3. OnItsWay = {}
    BY <2>1, <2>2 DEF TrialsKept, InHand
  <2>4. /\ Outstanding' = Outstanding \cup {Len(log) + 1}
        /\ Len(log') = Len(log) + 1 /\ log'[Len(log) + 1] = w
        /\ DOMAIN log = 1..Len(log) /\ Len(log) \in Nat
        /\ DOMAIN log' = DOMAIN log \cup {Len(log) + 1}
        /\ \A n \in DOMAIN log : log'[n] = log[n]
    <3>1. DOMAIN log = 1..Len(log) /\ Len(log) \in Nat
      BY OutstandingWindows
    <3> HIDE DEF w
    <3> QED
      BY <2>1, <3>1, QueuesGrow
  <2>5. w.session = session /\ w.pad = selected /\ w.phase = phase
    OBVIOUS
  <2> HIDE DEF w, k
  <2>6. Takes' = Takes \cup {Len(log) + 1}
    BY <2>1, <2>4, <2>5 DEF Takes
  <2>7. Takes' \subseteq DOMAIN log' /\ \A n \in Takes' : log'[n].pad = selected
    BY <2>2, <2>4, <2>5, <2>6 DEF UnderWay, Takes
  <2>8. StepsTaken(k + 1)'
    <3>1. k \in Nat /\ Takes = (Len(log) - k + 1)..Len(log)
      BY <1>0, <2>2 DEF k, StepsTaken
    <3>2. Takes' = (Len(log') - (k + 1) + 1)..Len(log')
      <4>1. Len(log') - (k + 1) + 1 = Len(log) - k + 1 /\ Len(log) - k + 1 <= Len(log) + 1
        BY <2>4, <3>1
      <4>2. (Len(log) - k + 1)..(Len(log) + 1) = ((Len(log) - k + 1)..Len(log)) \cup {Len(log) + 1}
        BY <2>4, <3>1
      <4> QED
        BY <2>4, <2>6, <3>1, <4>1, <4>2
    <3>3. ASSUME NEW i \in 1..(k + 1)
          PROVE  log'[Len(log') - (k + 1) + i].phase = wizardPhases[i]
      <4>1. Len(log') - (k + 1) + i = Len(log) - k + i
        BY <2>4, <3>1
      <4>2. CASE i = k + 1
        <5>1. Len(log) - k + i = Len(log) + 1
          BY <2>4, <3>1, <4>2
        <5> QED
          BY <2>2, <2>4, <2>5, <4>1, <4>2, <5>1
      <4>3. CASE i \in 1..k
        <5>1. Len(log) - k + i \in Takes
          BY <2>4, <3>1, <4>3
        <5>2. log[Len(log) - k + i].phase = wizardPhases[i]
          BY <2>2, <4>3 DEF StepsTaken
        <5> QED
          BY <2>4, <4>1, <5>1, <5>2 DEF Takes
      <4> QED
        BY <3>1, <4>2, <4>3
    <3>4. \A n, m \in Takes' : log'[n].pad = log'[m].pad
      BY <2>7
    <3> QED
      BY <2>1, <3>2, <3>3, <3>4 DEF StepsTaken, k
  <2>9. StepsTaken(wizardStep + 1)'
    BY <2>1, <2>8 DEF k, StepsTaken
  <2>10. Len(log) + 1 \in OnItsWay'
    BY <2>1, <2>4, <2>5 DEF OnItsWay
  <2>11. \A n \in Takes' : OnDisk(n)' \/ n \in OnItsWay'
    BY <2>1, <2>2, <2>3, <2>6, <2>10 DEF UnderWay, OnDisk
  <2>12. UnderWay'
    BY <2>1, <2>2, <2>7, <2>9, <2>11 DEF UnderWay, k
  <2> QED
    BY <2>1, <2>12 DEF InSteps
<1>12. CASE WindowBegins \/ WindowEnds
  BY <1>12 DEF WindowBegins, WindowEnds, WizardOnly
<1> QED
  BY <1>2, <1>3, <1>4, <1>5, <1>6, <1>7, <1>8, <1>9, <1>10, <1>11, <1>12 DEF TickStep

LEMMA WriterStepsOn ==
    ASSUME IInv, Order, WizardOnly, TrialsKept, InSteps, WriterStep
    PROVE  InSteps'
<1> USE DEF wizardVars, setupVars
<1> DEFINE w == Head(waiting)
<1>1. /\ UNCHANGED <<log, session, wizardActive, wizardPhases, wizardStep, state, selected,
                     phase, batch, everSealed, torn, pc>>
      /\ waiting \in Seq(Job(Len(log))) /\ waiting # <<>>
      /\ dirs' \in {dirs, dirs \cup {Pair(log[w.n])}}
  BY DEF WriterStep, Saves, Answers, Writer!Appear, Writer!Answer, IInv, Writers
<1>2. w.n \in Serials(waiting) /\ w.id = w.n
  <2>1. w = waiting[1] /\ 1 \in 1..Len(waiting)
    BY <1>1, HeadTailProperties
  <2> QED
    BY <2>1 DEF Serials, TrialsKept, LastKept, Numbered
<1>3. Pair(log[w.n]) \notin everSealed
  BY <1>2 DEF WizardOnly
<1>4. Outstanding' = Outstanding /\ \A n \in DOMAIN log : OnDisk(n) => OnDisk(n)'
  <2>1. CASE Saves
    <3>1. UNCHANGED <<waiting, answers>> /\ trials' = [trials EXCEPT ![w.id] = w.n]
      BY <2>1 DEF Saves, Writer!Appear
    <3>2. trials \in [1..MaxWindows -> 0..Len(log)]
      BY DEF IInv, Writers
    <3> QED
      BY <1>1, <1>2, <3>1, <3>2 DEF Outstanding, OnDisk
  <2>2. CASE Answers
    <3>1. UNCHANGED trials
      BY <2>2 DEF Answers, Writer!Answer
    <3> QED
      BY <1>1, <2>2, <3>1, QueuesAnswered DEF OnDisk
  <2> QED
    BY <2>1, <2>2 DEF WriterStep
<1>5. \A n \in DOMAIN log : Released(n) => Released(n)'
  BY <1>1, <1>3 DEF Released, Pair
<1>6. OnItsWay' = OnItsWay
  BY <1>1, <1>4 DEF OnItsWay
<1> QED
  BY <1>1, <1>4, <1>5, <1>6, StepsAtRest DEF Takes

(* The takes of a calibration are those of its steps, one each and in order,*)
(* and all of a complete one are stored or handed to the archive, whatever  *)
(* failed, was acknowledged or started again meanwhile (wizard, tick,       *)
(* collectSequence, the writer's replies).                                  *)
THEOREM TakesFollowSteps ==
    ASSUME "start" \notin Verbs, "archive-seal" \notin Verbs, "discard" \notin Verbs
    PROVE  Spec => []OneTakePerStep
<1>1. Init => InSteps
  BY DEF Init, InSteps
<1>2. IInv /\ Accounting /\ WizardOnly /\ TrialsKept /\ InSteps /\ [Next]_vars => InSteps'
  <2> SUFFICES ASSUME IInv, Accounting, WizardOnly, TrialsKept, InSteps, [Next]_vars
               PROVE  InSteps'
    OBVIOUS
  <2>1. CASE UNCHANGED vars
    <3>1. OnItsWay' = OnItsWay
      BY <2>1 DEF vars, OnItsWay, Outstanding
    <3> QED
      BY <2>1, <3>1, StepsAtRest DEF vars, OnDisk, Released
  <2> QED
    BY <2>1, CommandsStep, TicksStep, WriterStepsOn DEF Next, Accounting
<1>3. InSteps => OneTakePerStep
  BY DEF InSteps, UnderWay, Settled, OneTakePerStep
<1> QED
  BY <1>1, <1>2, <1>3, Inductive, StagesCounted, WizardAlone, TrialsStay, PTL DEF Spec

===========================================================================
