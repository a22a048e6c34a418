-------------------------- MODULE CalibrationPanel --------------------------
(* The pad pages of the touchscreen (calibration, monitor, MIDI map) and    *)
(* the pad service behind them. What the pages offer is decided by the last *)
(* status they read; a calibration may run that no page has heard of yet,   *)
(* and a page may offer to start one that the service refuses.              *)
EXTENDS Naturals, Sequences

CONSTANTS
    PcPads,     \* pads of the kit, in their order
    PcRouted,   \* those that have a converter input
    PcFifo      \* bound: commands in the FIFO

ASSUME PcAssumption ==
    /\ PcPads \in Nat \ {0} /\ PcRouted \subseteq 1..PcPads
    /\ PcFifo \in Nat \ {0}

VARIABLES
    pcWizard,   \* the service's calibration: "idle", "active", "complete", and
                \* "uploaded" once the receiver acknowledged its session
    pcPad,      \* its selected pad
    pcUp,       \* it runs
    pcQueue,    \* its FIFO
    pcStatus,   \* the status it published last
    pcMode,     \* the pages shown, or "hidden"
    pcPage,     \* page
    pcSelected, \* selectedId
    pcSeen,     \* the status of the last refresh
    pcBusy,     \* commandBusy
    pcProcesses,\* commands that were started and have not ended
    pcWants     \* the player only wants the calibration stopped
pcVars == <<pcWizard, pcPad, pcUp, pcQueue, pcStatus, pcMode, pcPage,
            pcSelected, pcSeen, pcBusy, pcProcesses, pcWants>>
pcService == <<pcWizard, pcPad, pcUp, pcQueue, pcStatus>>
pcCommand == <<pcBusy, pcProcesses>>

PcReport(running) ==
    [running |-> running, active |-> pcWizard = "active",
     done |-> pcWizard \in {"complete", "uploaded"}, pad |-> pcPad,
     uploaded |-> pcWizard = "uploaded"]

PcInit ==
    /\ pcWizard = "idle" /\ pcPad = 1
    /\ pcUp = TRUE /\ pcQueue = <<>> /\ pcStatus = PcReport(TRUE)
    /\ pcMode = "hidden" /\ pcPage = "selection" /\ pcSelected = 1
    /\ pcSeen = pcStatus
    /\ pcBusy = FALSE /\ pcProcesses = {}
    /\ pcWants = FALSE

(* run: nothing while a command is on its way, or when none can be started. *)
PcRun(command) ==
    \/ /\ ~pcBusy
       /\ pcBusy' = TRUE
       /\ pcProcesses' = pcProcesses \cup {command}
    \/ UNCHANGED pcCommand

-----------------------------------------------------------------------------
(* refresh: what the pages show is the status as it was last.               *)
PcRefresh == pcSeen' = pcStatus

(* The player. open reads the status anew, and returns to a calibration     *)
(* that runs or has ended.                                                  *)
PcReturnsNever(mode) == FALSE      \* mutant: it always opens with the pads
PcReturns(mode) == mode = "calibration" /\ (pcStatus.active \/ pcStatus.done)
PcOpen(mode) ==
    /\ pcMode = "hidden"
    /\ pcMode' = mode
    /\ PcRefresh
    /\ IF PcReturns(mode)
       THEN pcPage' = "wizard" /\ pcSelected' = pcStatus.pad
       ELSE pcPage' = "selection" /\ UNCHANGED pcSelected
    /\ UNCHANGED <<pcService, pcCommand, pcWants>>

PcShow(pad) ==
    /\ pcSelected' = pad
    /\ pcPage' = IF pcMode = "mapping" THEN "mapping" ELSE "setup"

PcChoose ==
    /\ ~pcWants
    /\ pcMode \in {"calibration", "mapping"} /\ pcPage = "selection"
    /\ pcSeen.running /\ ~pcSeen.active
    /\ \E pad \in 1..PcPads : (pcMode = "mapping" \/ pad \in PcRouted) /\ PcShow(pad)
    /\ UNCHANGED <<pcService, pcMode, pcSeen, pcCommand, pcWants>>

(* update: what the pages offer.                                            *)
PcReady == pcSeen.running /\ ~pcSeen.active /\ ~pcBusy

(* start: the page turns whether or not the command was sent.               *)
PcStart ==
    /\ ~pcWants
    /\ pcMode = "calibration" /\ pcPage = "setup"
    /\ PcReady /\ pcSelected \in PcRouted
    /\ PcRun([verb |-> "wizard", pad |-> pcSelected])
    /\ pcPage' = "wizard"
    /\ UNCHANGED <<pcService, pcMode, pcSelected, pcSeen, pcWants>>

PcSave ==
    /\ ~pcWants
    /\ pcMode = "mapping" /\ pcPage = "mapping"
    /\ PcReady
    /\ PcRun([verb |-> "settings", pad |-> pcSelected])
    /\ UNCHANGED <<pcService, pcMode, pcPage, pcSelected, pcSeen, pcWants>>

(* liveMidi: live triggering on or off, which no page waits for.            *)
PcEngine == [verb |-> "engine", pad |-> 1]
PcLiveMidi ==
    /\ ~pcWants
    /\ pcMode = "mapping" /\ pcSeen.running /\ ~pcBusy
    /\ PcRun(PcEngine)
    /\ UNCHANGED <<pcService, pcMode, pcPage, pcSelected, pcSeen, pcWants>>

(* next: the pad behind this one that can be calibrated, if there is one.   *)
PcNextPad ==
    /\ ~pcWants
    /\ pcMode = "calibration" /\ pcPage = "wizard" /\ pcSeen.done /\ pcSeen.pad = pcSelected
    /\ pcSeen.uploaded /\ ~pcBusy
    /\ LET following == {pad \in PcRouted : pad > pcSelected}
       IN  IF following = {} THEN pcPage' = "selection" /\ UNCHANGED pcSelected
           ELSE PcShow(CHOOSE pad \in following : \A other \in following : pad <= other)
    /\ UNCHANGED <<pcService, pcMode, pcSeen, pcCommand, pcWants>>

PcStop == [verb |-> "stop", pad |-> 1]      \* it names no pad
PcPressStop ==
    /\ ~pcWants
    /\ pcMode = "calibration" /\ pcPage = "wizard" /\ pcSeen.active /\ ~pcBusy
    /\ PcRun(PcStop)
    /\ UNCHANGED <<pcService, pcMode, pcPage, pcSelected, pcSeen, pcWants>>

(* back: it stops the calibration the page shows, returns to the pads, or   *)
(* closes.                                                                  *)
PcBack ==
    /\ pcMode # "hidden"
    /\ \/ /\ pcMode = "calibration" /\ pcPage = "wizard" /\ pcSeen.active
          /\ PcRun(PcStop)
          /\ UNCHANGED <<pcMode, pcPage>>
       \/ /\ ~(pcMode = "calibration" /\ pcPage = "wizard" /\ pcSeen.active)
          /\ IF pcPage # "selection" /\ pcMode # "monitor"
             THEN pcPage' = "selection" /\ UNCHANGED pcMode
             ELSE pcMode' = "hidden" /\ UNCHANGED pcPage
          /\ UNCHANGED pcCommand
    /\ UNCHANGED <<pcService, pcSelected, pcSeen, pcWants>>

(* External: from now on nothing else is pressed than Back, and nothing     *)
(* else opened than the calibration.                                        *)
PcWant ==
    /\ pcWants' = TRUE
    /\ UNCHANGED <<pcService, pcMode, pcPage, pcSelected, pcSeen, pcCommand>>

PcBrowse == \E mode \in {"calibration", "monitor", "mapping"} : ~pcWants /\ PcOpen(mode)
PcReopen == pcWants /\ PcOpen("calibration")
PcLeave == pcWants /\ PcBack

-----------------------------------------------------------------------------
(* "mimicd pad-command", and the timer of a page that is shown.             *)
PcCommand ==
    /\ \E command \in pcProcesses :
         /\ pcProcesses' = pcProcesses \ {command}
         /\ pcQueue' = IF pcUp /\ Len(pcQueue) < PcFifo THEN Append(pcQueue, command)
                       ELSE pcQueue
    /\ UNCHANGED <<pcWizard, pcPad, pcUp, pcStatus, pcMode, pcPage,
                   pcSelected, pcSeen, pcBusy, pcWants>>

PcTimer ==
    /\ pcMode # "hidden"
    /\ pcBusy' = (pcBusy /\ pcProcesses # {})
    /\ PcRefresh
    /\ UNCHANGED <<pcService, pcMode, pcPage, pcSelected, pcProcesses, pcWants>>

-----------------------------------------------------------------------------
(* The service, as far as the pages can tell.                               *)

(* wizard selects the pad even when it is then refused.                     *)
PcWizard(pad) ==
    \/ /\ pcWizard # "active"
       /\ pcPad' = pad
       /\ pcWizard' \in {pcWizard, "active"}
    \/ UNCHANGED <<pcWizard, pcPad>>

PcServe ==
    /\ pcUp /\ pcQueue # <<>>
    /\ pcQueue' = Tail(pcQueue)
    /\ LET command == Head(pcQueue)
       IN  \/ command.verb = "wizard" /\ PcWizard(command.pad)
           \/ /\ command.verb = "stop"
              /\ pcWizard' = "idle" /\ UNCHANGED pcPad
           \/ command.verb = "engine" /\ UNCHANGED <<pcWizard, pcPad>>
           \/ /\ command.verb = "settings"      \* maybe a new session
              /\ pcWizard' \in IF pcWizard = "active" THEN {"active"} ELSE {pcWizard, "idle"}
              /\ UNCHANGED pcPad
    /\ UNCHANGED <<pcUp, pcStatus, pcMode, pcPage, pcSelected, pcSeen, pcCommand, pcWants>>

(* Another process sends a command; the last step is recorded; the session  *)
(* arrives on the Mac.                                                      *)
PcElsewhere ==
    /\ pcUp
    /\ \/ \E pad \in PcRouted : PcWizard(pad)
       \/ pcWizard = "active" /\ pcWizard' = "complete" /\ UNCHANGED pcPad
       \/ pcWizard = "complete" /\ pcWizard' = "uploaded" /\ UNCHANGED pcPad
    /\ UNCHANGED <<pcUp, pcQueue, pcStatus, pcMode, pcPage, pcSelected, pcSeen, pcCommand,
                   pcWants>>

PcPublish ==
    /\ pcUp
    /\ pcStatus' = PcReport(TRUE)
    /\ UNCHANGED <<pcWizard, pcPad, pcUp, pcQueue, pcMode, pcPage, pcSelected,
                   pcSeen, pcCommand, pcWants>>

(* It ends, or dies and leaves its last status behind, or starts anew.      *)
PcRestart ==
    /\ pcUp' = ~pcUp
    /\ pcQueue' = <<>>
    /\ pcWizard' = "idle" /\ pcPad' = 1
    /\ pcStatus' \in IF pcUp THEN {pcStatus, PcReport(FALSE)} ELSE {pcStatus}
    /\ UNCHANGED <<pcMode, pcPage, pcSelected, pcSeen, pcCommand, pcWants>>

PcNext ==
    \/ PcBrowse \/ PcReopen \/ PcChoose \/ PcStart \/ PcSave \/ PcLiveMidi \/ PcNextPad
    \/ PcPressStop \/ (~pcWants /\ PcBack) \/ PcLeave \/ PcWant
    \/ PcCommand \/ PcTimer
    \/ PcServe \/ PcElsewhere \/ PcPublish \/ PcRestart

(* The page's timer and the service's loop keep running, a process that was *)
(* started ends, and a player who wants to stop keeps pressing.             *)
PcFairness ==
    /\ WF_pcVars(PcCommand) /\ WF_pcVars(PcTimer)
    /\ WF_pcVars(PcServe) /\ WF_pcVars(PcPublish)
    /\ WF_pcVars(PcReopen \/ PcLeave)
PcSpec == PcInit /\ [][PcNext]_pcVars /\ PcFairness

-----------------------------------------------------------------------------
(* A calibration can be stopped from the touchscreen, wherever in the pages *)
(* the player is, also when it began after its page was left, or was        *)
(* started by another process, and whatever command is still on its way.    *)
PcStoppable == []<>(pcWants => pcWizard # "active")
=============================================================================
