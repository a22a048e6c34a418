----------------------------- MODULE TriggerPanel -----------------------------
(* The trigger settings page and the pad service behind it, for one setting *)
(* of one pad. The page sends a setting when a drag ends, by a process that *)
(* writes to the service's FIFO and may be overtaken by anything; the       *)
(* service applies it and publishes it in its status, with which the page   *)
(* keeps the slider in step.                                                *)
EXTENDS Naturals, Sequences

CONSTANTS
    TpValues,   \* positions of the slider
    TpDefault,  \* that of a pad whose settings are reset
    TpFifo      \* bound: commands in the FIFO

ASSUME TpAssumption ==
    TpDefault \in TpValues /\ "done" \notin TpValues /\ TpFifo \in Nat \ {0}

VARIABLES
    tpSetting,  \* the setting of the service, also on disk
    tpUp,       \* the service runs
    tpQueue,    \* the settings in its FIFO
    tpStatus,   \* the status it published last: the setting, and that it runs
    tpRead,     \* the status of the last refresh
    tpPage,     \* a pad is selected: its sliders are shown
    tpSlider,   \* the slider
    tpDragging, \* isMouseButtonDown
    tpBusy,     \* commandBusy
    tpProcesses,\* the commands that were started and have not ended
    tpSent,     \* history: the last setting that reached the FIFO, and
    tpBegan     \* the last one a command was started for
tpVars == <<tpSetting, tpUp, tpQueue, tpStatus, tpRead, tpPage, tpSlider,
            tpDragging, tpBusy, tpProcesses, tpSent, tpBegan>>
tpService == <<tpSetting, tpUp, tpQueue, tpStatus>>

TpInit ==
    /\ tpSetting = TpDefault /\ tpUp = TRUE /\ tpQueue = <<>>
    /\ tpStatus = [setting |-> TpDefault, running |-> TRUE]
    /\ tpRead = tpStatus /\ tpPage = FALSE /\ tpSlider = TpDefault /\ tpDragging = FALSE
    /\ tpBusy = FALSE /\ tpProcesses = {}
    /\ tpSent = TpDefault /\ tpBegan = TpDefault

(* Mutant: a command is started while another one is on its way.            *)
TpRunAlways(value) ==
    /\ tpBusy' = TRUE
    /\ tpProcesses' = tpProcesses \cup {value}
    /\ tpBegan' = value

(* run: nothing as long as the last command has not ended, or when no       *)
(* process can be started.                                                  *)
TpRun(value) ==
    \/ /\ ~tpBusy
       /\ tpBusy' = TRUE
       /\ tpProcesses' = tpProcesses \cup {value}
       /\ tpBegan' = value
    \/ UNCHANGED <<tpBusy, tpProcesses, tpBegan>>

(* choose: the sliders take what the last refresh read. The page behind     *)
(* them needs no running service once it shows a pad.                       *)
TpChoose ==
    /\ ~tpPage /\ tpRead.running
    /\ tpPage' = TRUE
    /\ tpSlider' = tpRead.setting
    /\ UNCHANGED <<tpService, tpRead, tpDragging, tpBusy, tpProcesses, tpSent, tpBegan>>

TpClose ==
    /\ tpPage /\ ~tpDragging
    /\ tpPage' = FALSE
    /\ UNCHANGED <<tpService, tpRead, tpSlider, tpDragging, tpBusy, tpProcesses,
                   tpSent, tpBegan>>

(* update: what the page offers.                                            *)
TpEnabled == tpPage /\ tpRead.running

TpDrag ==
    /\ TpEnabled
    /\ tpDragging' = TRUE
    /\ tpSlider' \in TpValues
    /\ UNCHANGED <<tpService, tpRead, tpPage, tpBusy, tpProcesses, tpSent, tpBegan>>

(* onDragEnd: send.                                                         *)
TpDrop ==
    /\ tpDragging
    /\ tpDragging' = FALSE
    /\ TpRun(tpSlider)
    /\ UNCHANGED <<tpService, tpRead, tpPage, tpSlider, tpSent>>

TpReset ==
    /\ TpEnabled /\ ~tpBusy
    /\ TpRun(TpDefault)
    /\ UNCHANGED <<tpService, tpRead, tpPage, tpSlider, tpDragging, tpSent>>

(* "mimicd pad-command": it fails without the service, or when the FIFO is  *)
(* full.                                                                    *)
TpCommand ==
    /\ \E value \in tpProcesses :
         /\ tpProcesses' = tpProcesses \ {value}
         /\ IF tpUp /\ Len(tpQueue) < TpFifo
            THEN tpQueue' = Append(tpQueue, value) /\ tpSent' = value
            ELSE UNCHANGED <<tpQueue, tpSent>>
    /\ UNCHANGED <<tpSetting, tpUp, tpStatus, tpRead, tpPage, tpSlider, tpDragging,
                   tpBusy, tpBegan>>

(* refresh: a slider that is dragged, or whose command is on its way, is    *)
(* left alone, and so are all while the status of an error lists no pads.   *)
TpRefresh(busy) ==
    /\ tpRead' = tpStatus
    /\ \/ tpPage /\ ~tpDragging /\ ~busy /\ tpSlider' = tpStatus.setting
       \/ ~(tpPage /\ ~tpDragging /\ ~busy /\ tpStatus.running) /\ UNCHANGED tpSlider

(* timerCallback: has the command ended? Then refresh.                      *)
TpTimer ==
    /\ tpBusy' = (tpBusy /\ tpProcesses # {})
    /\ TpRefresh(tpBusy')
    /\ UNCHANGED <<tpService, tpPage, tpDragging, tpProcesses, tpSent, tpBegan>>

-----------------------------------------------------------------------------
(* The service.                                                             *)
TpServe ==
    /\ tpUp /\ tpQueue # <<>>
    /\ tpSetting' = Head(tpQueue) /\ tpQueue' = Tail(tpQueue)
    /\ UNCHANGED <<tpUp, tpStatus, tpRead, tpPage, tpSlider, tpDragging, tpBusy,
                   tpProcesses, tpSent, tpBegan>>
TpPublish ==
    /\ tpUp
    /\ tpStatus' = [setting |-> tpSetting, running |-> TRUE]
    /\ UNCHANGED <<tpSetting, tpUp, tpQueue, tpRead, tpPage, tpSlider, tpDragging,
                   tpBusy, tpProcesses, tpSent, tpBegan>>

(* It stops, or dies without another status, with what is in the FIFO, or   *)
(* starts with the setting on disk.                                         *)
TpRestart ==
    /\ tpUp' = ~tpUp
    /\ tpQueue' = <<>>
    /\ tpSent' = tpSetting
    /\ tpStatus' \in IF tpUp THEN {tpStatus, [setting |-> tpSetting, running |-> FALSE]}
                     ELSE {tpStatus}
    /\ UNCHANGED <<tpSetting, tpRead, tpPage, tpSlider, tpDragging, tpBusy,
                   tpProcesses, tpBegan>>

TpNext ==
    \/ TpChoose \/ TpClose \/ TpDrag \/ TpDrop \/ TpReset
    \/ TpCommand \/ TpTimer
    \/ TpServe \/ TpPublish \/ TpRestart

(* As for every page: its timer and the service's loop keep running, and a  *)
(* process that was started ends.                                           *)
TpFairness ==
    /\ WF_tpVars(TpCommand) /\ WF_tpVars(TpTimer)
    /\ WF_tpVars(TpServe) /\ WF_tpVars(TpPublish)
TpSpec == TpInit /\ [][TpNext]_tpVars /\ TpFairness

-----------------------------------------------------------------------------
(* Of two settings the later one stays: a command that reaches the FIFO is  *)
(* the last one that was started, so none is undone by an older one still   *)
(* on its way.                                                              *)
TpOrdered ==
    /\ tpQueue = <<>> => tpSetting = tpSent
    /\ tpQueue # <<>> => tpQueue[Len(tpQueue)] = tpSent
    /\ tpProcesses # {} => tpProcesses = {tpBegan}

(* "Keep sliders in step with the service": once the player lets go and the *)
(* service stays, the slider of the page shows the setting the service has, *)
(* also when a drag ended while a command was on its way and was not sent.  *)
TpInStep ==
    /\ <>[][FALSE]_<<tpUp, tpPage, tpDragging, tpBegan>>
    /\ <>[](tpUp /\ tpPage /\ ~tpDragging)
    => <>[](tpSlider = tpSetting)

TpFaithful == [][TpOrdered']_tpVars /\ TpInStep
=============================================================================
