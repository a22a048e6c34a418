------------------------------ MODULE MidiPanel ------------------------------
(* The MIDI page of the touchscreen and the MIDI service behind it. The     *)
(* page shows ports by their place in the list of the last status it read;  *)
(* the user picks one in a popup, and a later turn of the message loop marks *)
(* the choice as pending until Apply starts a command; the command reaches  *)
(* the service through a FIFO, and what the service selected comes back in  *)
(* a status the page polls. The input and the output are chosen and sent    *)
(* the same way; the model has one of them.                                 *)
EXTENDS Naturals, Sequences, SequencesExt, FiniteSets

CONSTANTS
    MpPorts,    \* the ports there may be, DIN first, in the order of their names
    MpFifo,     \* bound: commands in the FIFO
    MpPlugs     \* bound: times that a port comes or goes

ASSUME MpAssumption ==
    /\ MpPorts \in Seq(ToSet(MpPorts)) /\ MpPorts # <<>> /\ {"none", "nothing"} \cap ToSet(MpPorts) = {}
    /\ MpFifo \in Nat \ {0} /\ MpPlugs \in Nat

VARIABLES
    mpPresent,  \* the ports that are there
    mpPlugs,    \* how often one came or went
    mpListed,   \* those of the service, in its order: ports
    mpUp,       \* the service runs
    mpSelected, \* its selected port
    mpQueue,    \* the commands in its FIFO
    mpStatus,   \* the status it published last
    mpKnown,    \* knownPorts
    mpPlace,    \* the selected place of the list, 0 for "None": selectedId
    mpOpen,     \* the popup of the choice is shown
    mpUpdate,   \* its asynchronous update is pending
    mpDirty,    \* portsDirty
    mpRunning,  \* serviceRunning
    mpBusy,     \* commandRunning
    mpProcess,  \* the command: the port it carries, or "none" and finished
    mpChosen    \* history: the choice the user is about to send, or "nothing"
mpVars == <<mpPresent, mpPlugs, mpListed, mpUp, mpSelected, mpQueue, mpStatus, mpKnown,
            mpPlace, mpOpen, mpUpdate, mpDirty, mpRunning, mpBusy, mpProcess, mpChosen>>
mpService == <<mpPresent, mpPlugs, mpListed, mpUp, mpSelected, mpQueue, mpStatus>>
mpChoice == <<mpKnown, mpPlace, mpOpen, mpUpdate>>
mpPage == <<mpChoice, mpDirty, mpRunning, mpBusy>>

Din == MpPorts[1]
MpBefore(p, q) ==
    \E i, j \in 1..Len(MpPorts) : i < j /\ MpPorts[i] = p /\ MpPorts[j] = q

(* portId and selectPort: a port that is not in the list is "None".         *)
MpIdAt(list, place) == IF place \in 1..Len(list) THEN list[place] ELSE "none"
MpPlaceOf(list, id) ==
    IF \E i \in 1..Len(list) : list[i] = id
    THEN CHOOSE i \in 1..Len(list) : list[i] = id ELSE 0
MpShown == MpIdAt(mpKnown, mpPlace)

MpInit ==
    /\ mpPresent = ToSet(MpPorts) /\ mpPlugs = 0 /\ mpListed = MpPorts
    /\ mpUp = TRUE /\ mpSelected = Din
    /\ mpQueue = <<>>
    /\ mpStatus = [running |-> TRUE, selected |-> Din, ports |-> MpPorts]
    /\ mpKnown = MpPorts /\ mpPlace = 1 /\ mpOpen = FALSE /\ mpUpdate = FALSE
    /\ mpDirty = FALSE /\ mpRunning = TRUE
    /\ mpBusy = FALSE /\ mpProcess = "done"
    /\ mpChosen = "nothing"

-----------------------------------------------------------------------------
(* The user opens the popup, which covers the page, and closes it again or  *)
(* picks a row of it, also when the controls were disabled meanwhile.       *)
MpReady == mpRunning /\ ~mpBusy

MpOpen ==
    /\ MpReady /\ ~mpOpen
    /\ mpOpen' = TRUE
    /\ UNCHANGED <<mpService, mpKnown, mpPlace, mpUpdate, mpDirty, mpRunning, mpBusy, mpProcess,
                   mpChosen>>
MpCancel ==
    /\ mpOpen /\ mpOpen' = FALSE
    /\ UNCHANGED <<mpService, mpKnown, mpPlace, mpUpdate, mpDirty, mpRunning, mpBusy, mpProcess,
                   mpChosen>>
MpTap ==
    /\ mpOpen /\ mpOpen' = FALSE
    /\ mpPlace' \in 0..Len(mpKnown)
    /\ mpUpdate' = (mpUpdate \/ mpPlace' # mpPlace)
    /\ mpChosen' = IF mpDirty \/ mpUpdate' THEN MpIdAt(mpKnown, mpPlace') ELSE "nothing"
    /\ UNCHANGED <<mpService, mpKnown, mpDirty, mpRunning, mpBusy, mpProcess>>

(* handleAsyncUpdate, onChange: what is shown by now becomes pending.       *)
MpChanged ==
    /\ mpUpdate /\ mpUpdate' = FALSE
    /\ mpDirty' = TRUE
    /\ UNCHANGED <<mpService, mpKnown, mpPlace, mpOpen, mpRunning, mpBusy, mpProcess, mpChosen>>

(* Apply. A command that cannot be started leaves the choice pending, and   *)
(* so does an update that comes after it.                                   *)
MpApply ==
    /\ MpReady /\ mpDirty /\ ~mpOpen
    /\ mpBusy' = TRUE /\ mpProcess' = MpShown
    /\ mpDirty' = FALSE
    /\ mpChosen' = IF mpUpdate THEN mpChosen ELSE "nothing"
    /\ UNCHANGED <<mpService, mpChoice, mpRunning>>

(* "mimicd midi-config": fails when the service is gone or its FIFO full.   *)
MpCommand ==
    /\ mpProcess # "done"
    /\ mpProcess' = "done"
    /\ mpQueue' = IF mpUp /\ Len(mpQueue) < MpFifo THEN Append(mpQueue, mpProcess)
                  ELSE mpQueue
    /\ UNCHANGED <<mpPresent, mpPlugs, mpListed, mpUp, mpSelected, mpStatus, mpPage, mpChosen>>

(* Mutant: a pending choice keeps its place, not its port.                  *)
MpRebuiltInPlace(ports, selected) ==
    IF mpDirty THEN mpPlace ELSE MpPlaceOf(ports, selected)

(* rebuildPorts, then the pending choice again: its place is looked up in   *)
(* the old list before and in the new list after.                           *)
MpRebuilt(ports, selected) ==
    IF mpDirty THEN MpPlaceOf(ports, MpShown) ELSE MpPlaceOf(ports, selected)

(* The choice is gone: the port is no longer listed, or the timer came      *)
(* before the update that would have marked it as pending.                  *)
MpVanishes(ports) ==
    mpDirty /\ mpChosen # "none" /\ mpChosen \notin ToSet(ports)
MpOvertakes(ports, place, rebuilt) ==
    ~mpDirty /\ (rebuilt \/ MpIdAt(ports, place) # mpChosen)

(* refreshStatus: the status differs in a port, or in its name or whether   *)
(* it is connected, and the choice is cleared, its popup and update with    *)
(* it; or it does not, and what is not marked as pending follows it.        *)
MpRead(rebuilt) ==
    /\ mpRunning' = mpStatus.running
    /\ mpKnown' = mpStatus.ports
    /\ mpPlace' = IF rebuilt \/ ~mpDirty THEN MpRebuilt(mpStatus.ports, mpStatus.selected)
                  ELSE mpPlace
    /\ mpOpen' = (mpOpen /\ ~rebuilt) /\ mpUpdate' = (mpUpdate /\ ~rebuilt)
    /\ mpChosen' = IF MpVanishes(mpStatus.ports) \/ MpOvertakes(mpKnown', mpPlace', rebuilt)
                   THEN "nothing" ELSE mpChosen

(* timerCallback: the command has ended, and the status is read, or it is   *)
(* too old.                                                                 *)
MpTimer ==
    /\ mpBusy' = (mpBusy /\ mpProcess # "done")
    /\ \/ \E rebuilt \in BOOLEAN : (mpStatus.ports # mpKnown => rebuilt) /\ MpRead(rebuilt)
       \/ ~mpUp /\ mpRunning' = FALSE /\ UNCHANGED <<mpChoice, mpChosen>>
    /\ UNCHANGED <<mpService, mpDirty, mpProcess>>

-----------------------------------------------------------------------------
(* The service, as far as the page can tell. It saves the selection before  *)
(* it follows it, and refuses the command when that fails.                  *)
MpServe ==
    /\ mpUp /\ mpQueue # <<>>
    /\ mpSelected' \in {mpSelected, Head(mpQueue)} /\ mpQueue' = Tail(mpQueue)
    /\ UNCHANGED <<mpPresent, mpPlugs, mpListed, mpUp, mpStatus, mpPage, mpProcess, mpChosen>>

MpPublish ==
    /\ mpUp
    /\ mpStatus' = [running |-> TRUE, selected |-> mpSelected, ports |-> mpListed]
    /\ UNCHANGED <<mpPresent, mpPlugs, mpListed, mpUp, mpSelected, mpQueue, mpPage, mpProcess, mpChosen>>

(* refreshPorts: a port that is gone leaves the list, a new one is added at *)
(* its end; a service that starts finds them in the order of their names.   *)
MpRefreshed(port) ==
    IF port \in mpPresent
    THEN \E i \in 1..Len(mpListed) : mpListed[i] = port /\ mpListed' = RemoveAt(mpListed, i)
    ELSE mpListed' = Append(mpListed, port)
MpSorted ==
    {list \in [1..Cardinality(mpPresent) -> mpPresent] :
       \A i, j \in DOMAIN list : i < j => MpBefore(list[i], list[j])}

MpPlug ==
    /\ mpPlugs < MpPlugs /\ mpPlugs' = mpPlugs + 1
    /\ \E port \in ToSet(MpPorts) \ {Din} :
         /\ mpPresent' = IF port \in mpPresent THEN mpPresent \ {port} ELSE mpPresent \cup {port}
         /\ IF mpUp THEN MpRefreshed(port) ELSE UNCHANGED mpListed
    /\ UNCHANGED <<mpUp, mpSelected, mpQueue, mpStatus, mpPage, mpProcess, mpChosen>>

(* It ends and says so, with its ports or for an error without; or it dies  *)
(* and leaves its last status; or it starts again, with what it saved.      *)
MpStop ==
    /\ mpUp
    /\ mpUp' = FALSE /\ mpQueue' = <<>> /\ mpListed' = <<>>
    /\ mpStatus' \in {mpStatus,
                     [running |-> FALSE, selected |-> mpSelected, ports |-> mpListed],
                     [running |-> FALSE, selected |-> "none", ports |-> <<>>]}
    /\ UNCHANGED <<mpPresent, mpPlugs, mpSelected, mpPage, mpProcess, mpChosen>>
MpStart ==
    /\ ~mpUp
    /\ mpUp' = TRUE
    /\ mpListed' \in MpSorted
    /\ UNCHANGED <<mpPresent, mpPlugs, mpSelected, mpQueue, mpStatus, mpPage, mpProcess, mpChosen>>

MpNext ==
    \/ MpOpen \/ MpCancel \/ MpTap \/ MpChanged \/ MpApply \/ MpCommand \/ MpTimer
    \/ MpServe \/ MpPublish \/ MpPlug \/ MpStop \/ MpStart

(* The page's timer, its message loop and the service's loop keep running,  *)
(* and a process that was started ends.                                     *)
MpFairness ==
    /\ WF_mpVars(MpChanged)
    /\ WF_mpVars(MpCommand) /\ WF_mpVars(MpTimer)
    /\ WF_mpVars(MpServe) /\ WF_mpVars(MpPublish)
MpSpec == MpInit /\ [][MpNext]_mpVars /\ MpFairness

-----------------------------------------------------------------------------
(* "Keep a pending selection while a different USB device is added or       *)
(* removed": what is pending, and what Apply sends, is what the user chose  *)
(* last, as long as that port is listed, wherever in the list it moves, and *)
(* unless the timer came before the choice was marked.                      *)
MpPending == mpDirty /\ mpChosen # "nothing" => MpShown = mpChosen

(* Once ports, service and user leave it alone, the page shows the port the *)
(* service selected, whatever status was old when a command ended.          *)
MpSettles ==
    /\ <>[][FALSE]_<<mpPresent, mpUp, mpOpen, mpUpdate, mpDirty>>
    /\ <>[](mpUp /\ ~mpDirty)
    => <>[](MpShown = IF mpSelected \in mpPresent THEN mpSelected ELSE "none")

MpFaithful == [][MpPending']_mpVars /\ MpSettles
=============================================================================
