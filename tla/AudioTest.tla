------------------------------ MODULE AudioTest ------------------------------
(* The audio test: processes "mimicd audio-test" that contend for the       *)
(* analog device through a lock file and take a stop request through one    *)
(* socket path, the worker thread of the one that plays, and the panel of   *)
(* the touchscreen, which starts one of the processes and a helper to stop  *)
(* it. A block is written as sound or silence; the converter keeps playing  *)
(* the last two portions it was given.                                      *)
EXTENDS Naturals, Sequences

CONSTANTS
    AudioProcs,     \* runs of the command
    AudioPanelProc, \* the one the panel starts
    AudioBlocks     \* blocks of the tone

ASSUME AudioAssumption ==
    /\ AudioPanelProc \in AudioProcs /\ "none" \notin AudioProcs
    /\ "stale" \notin AudioProcs
    /\ AudioBlocks \in Nat \ {0}

VARIABLES
    audPc,          \* where each process is
    audResult,      \* its exit code, "none" before it is known
    audSignalled,   \* the processes that were interrupted
    audInbox,       \* the processes with a stop request in their socket
    audLock,        \* who holds /run/mimic-audio.lock
    audSock,        \* whose socket the control path names, or "stale"
    audWorker,      \* the worker thread of the lock's holder
    audExit,        \* threadShouldExit()
    audPlaying,     \* playing
    audError,       \* errorCode or controlError is set
    audLeft,        \* blocks of the tone still to be generated
    audFailed,      \* the callback's failure
    audPortions,    \* the last two portions written: "sound" or "silence"
    audPanel,       \* the panel: "idle", "playing" or "stopping"
    audHelper       \* its stop command is still to be carried out
audVars == <<audPc, audResult, audSignalled, audInbox, audLock, audSock, audWorker,
             audExit, audPlaying, audError, audLeft, audFailed, audPortions,
             audPanel, audHelper>>

audDevice == <<audWorker, audExit, audPlaying, audError, audLeft, audFailed, audPortions>>
audUser == <<audPanel, audHelper>>

Silent == <<"silence", "silence">>

AudioInit ==
    /\ audPc = [p \in AudioProcs |-> "off"]
    /\ audResult = [p \in AudioProcs |-> "none"]
    /\ audSignalled = {} /\ audInbox = {}
    /\ audLock = "none" /\ audSock = "none"
    /\ audWorker = "off" /\ audExit = FALSE /\ audPlaying = FALSE
    /\ audError = FALSE /\ audLeft = 0 /\ audFailed = FALSE
    /\ audPortions = Silent
    /\ audPanel = "idle" /\ audHelper = FALSE

AudioGo(p, pc) == audPc' = [audPc EXCEPT ![p] = pc]
AudioExits(p, code) == audResult' = [audResult EXCEPT ![p] = code]

-----------------------------------------------------------------------------
(* runAudioTest, with everything it calls on its own thread.                *)

(* The arguments are checked and the signal handlers set.                   *)
AudioLaunch(p) ==
    /\ audPc[p] = "off"
    /\ AudioGo(p, "open") /\ AudioExits(p, "none")
    /\ audSignalled' = audSignalled \ {p}
    /\ audInbox' = audInbox \ {p}

(* Mutant: the device is opened without the lock.                           *)
AudioOpenUnlocked(p) ==
    /\ audPc[p] = "open"
    /\ audLock' = p
    /\ audError' = FALSE
    /\ AudioGo(p, "bind")
    /\ UNCHANGED <<audResult, audSignalled, audInbox, audSock, audWorker, audExit,
                   audPlaying, audLeft, audFailed, audPortions, audUser>>

(* PearlAudioDevice::open: whoever finds the lock taken gives up; so does   *)
(* whoever cannot set up the clock, the device or the board's outputs.      *)
AudioOpen(p) ==
    /\ audPc[p] = "open"
    /\ \/ /\ audLock = "none"
          /\ audLock' = p
          /\ audError' = FALSE
          /\ AudioGo(p, "bind") /\ UNCHANGED audResult
       \/ /\ AudioGo(p, "off") /\ AudioExits(p, "failed")
          /\ UNCHANGED <<audLock, audError>>
    /\ UNCHANGED <<audSignalled, audInbox, audSock, audWorker, audExit, audPlaying,
                   audLeft, audFailed, audPortions, audUser>>

(* TestControl(): the holder of the lock takes any endpoint as stale. The   *)
(* path is gone as well when it cannot be bound.                            *)
AudioBind(p) ==
    /\ audPc[p] = "bind"
    /\ \/ audSock' = p /\ AudioGo(p, "start") /\ UNCHANGED audResult
       \/ audSock' = "none" /\ AudioGo(p, "release") /\ AudioExits(p, "failed")
       \/ UNCHANGED audSock /\ AudioGo(p, "release") /\ AudioExits(p, "failed")
    /\ UNCHANGED <<audSignalled, audInbox, audLock, audDevice, audUser>>

(* PearlAudioDevice::start; neither kind of thread may be available.        *)
AudioStart(p) ==
    /\ audPc[p] = "start"
    /\ AudioGo(p, "loop")
    /\ audLeft' = AudioBlocks /\ audFailed' = FALSE /\ audExit' = FALSE
    /\ \/ audPlaying' = TRUE /\ audWorker' = "run" /\ UNCHANGED audError
       \/ audPlaying' = FALSE /\ audError' = TRUE /\ UNCHANGED audWorker
    /\ UNCHANGED <<audResult, audSignalled, audInbox, audLock, audSock, audPortions,
                   audUser>>

(* Mutant: a worker that could not be started is waited for.                *)
AudioOverDeaf(p) == audLeft = 0 \/ audFailed \/ p \in audSignalled

(* The loop ends with the worker, the tone, a failure, an interrupt or a    *)
(* stop request, and tells the worker to exit.                              *)
AudioOver(p) == ~audPlaying \/ audLeft = 0 \/ audFailed \/ p \in audSignalled
AudioEndLoop(p) ==
    /\ audPc[p] = "loop"
    /\ AudioOver(p) \/ p \in audInbox
    /\ audInbox' = IF AudioOver(p) THEN audInbox ELSE audInbox \ {p}
    /\ audExit' = TRUE
    /\ AudioGo(p, "join")
    /\ UNCHANGED <<audResult, audSignalled, audLock, audSock, audWorker, audPlaying,
                   audError, audLeft, audFailed, audPortions, audUser>>

(* The socket fails while the loop looks for a request: the control is      *)
(* destroyed first, and then the device, which stops itself.                *)
AudioThrow(p) ==
    /\ audPc[p] = "loop" /\ ~AudioOver(p)
    /\ audSock' = "none" /\ audExit' = TRUE
    /\ AudioGo(p, "drain") /\ AudioExits(p, "failed")
    /\ UNCHANGED <<audSignalled, audInbox, audLock, audWorker, audPlaying, audError,
                   audLeft, audFailed, audPortions, audUser>>

(* stop() waits for the worker; then the outcome is read.                   *)
AudioJoined == audWorker \in {"off", "done"}
AudioJoin(p) ==
    /\ audPc[p] = "join"
    /\ AudioJoined
    /\ audWorker' = "off" /\ audPlaying' = FALSE
    /\ AudioExits(p, IF audError \/ audFailed THEN "failed"
                     ELSE IF p \in audSignalled THEN "interrupted" ELSE "done")
    /\ AudioGo(p, "unlink")
    /\ UNCHANGED <<audSignalled, audInbox, audLock, audSock, audExit, audError,
                   audLeft, audFailed, audPortions, audUser>>

AudioDrain(p) ==
    /\ audPc[p] = "drain"
    /\ AudioJoined
    /\ audWorker' = "off" /\ audPlaying' = FALSE
    /\ AudioGo(p, "release")
    /\ UNCHANGED <<audResult, audSignalled, audInbox, audLock, audSock, audExit, audError,
                   audLeft, audFailed, audPortions, audUser>>

(* The control is destroyed before the device it was made after ...         *)
AudioUnlink(p) ==
    /\ audPc[p] = "unlink"
    /\ audSock' = "none"
    /\ AudioGo(p, "release")
    /\ UNCHANGED <<audResult, audSignalled, audInbox, audLock, audDevice, audUser>>

(* ... and the lock goes with the device.                                   *)
AudioRelease(p) ==
    /\ audPc[p] = "release"
    /\ audLock' = "none"
    /\ AudioGo(p, "off")
    /\ UNCHANGED <<audResult, audSignalled, audInbox, audSock, audDevice, audUser>>

AudioProcess(p) ==
    \/ AudioOpen(p) \/ AudioBind(p) \/ AudioStart(p) \/ AudioEndLoop(p)
    \/ AudioJoin(p) \/ AudioDrain(p) \/ AudioUnlink(p) \/ AudioRelease(p)

-----------------------------------------------------------------------------
(* The worker of PearlAudioDevice.                                          *)

AudioWrite(portion) == audPortions' = <<audPortions[2], portion>>

(* A block is filled by the callback and written. A block the callback      *)
(* rejects is silent.                                                       *)
AudioBlock ==
    /\ audWorker = "run"
    /\ ~audExit
    /\ \E rejected, written \in BOOLEAN :
         /\ audFailed' = (audFailed \/ rejected)
         /\ audLeft' = IF audLeft > 0 /\ ~rejected THEN audLeft - 1 ELSE audLeft
         /\ IF written
            THEN /\ AudioWrite(IF audLeft > 0 /\ ~rejected THEN "sound" ELSE "silence")
                 /\ UNCHANGED <<audWorker, audError>>
            ELSE audWorker' = "flush" /\ audError' = TRUE /\ UNCHANGED audPortions
    /\ UNCHANGED <<audPc, audResult, audSignalled, audInbox, audLock, audSock, audExit,
                   audPlaying, audUser>>

AudioLeave ==
    /\ audWorker = "run"
    /\ audExit
    /\ audWorker' = "flush"
    /\ UNCHANGED <<audPc, audResult, audSignalled, audInbox, audLock, audSock, audExit,
                   audPlaying, audError, audLeft, audFailed, audPortions, audUser>>

(* Mutant: one of the two portions is enough.                               *)
AudioFlushOnce == "done"

(* flushSilence: two silent portions, unless the device refuses one.        *)
AudioAfterFlush == IF audWorker = "flush" THEN "flushed" ELSE "done"
AudioFlush ==
    /\ audWorker \in {"flush", "flushed"}
    /\ \/ /\ AudioWrite("silence") /\ UNCHANGED audError
          /\ audWorker' = AudioAfterFlush
       \/ audError' = TRUE /\ audWorker' = "done" /\ UNCHANGED audPortions
    /\ audPlaying' = (audWorker' # "done")
    /\ UNCHANGED <<audPc, audResult, audSignalled, audInbox, audLock, audSock, audExit,
                   audLeft, audFailed, audUser>>

AudioWorker == AudioBlock \/ AudioLeave \/ AudioFlush

-----------------------------------------------------------------------------
(* The world around: a shell, signals, and a process that is killed, as the *)
(* closing panel does after two seconds. Its lock and worker go with it,    *)
(* the path it bound stays.                                                 *)
AudioShell ==
    /\ \E p \in AudioProcs \ {AudioPanelProc} : AudioLaunch(p)
    /\ UNCHANGED <<audLock, audSock, audDevice, audUser>>

AudioSignal ==
    /\ \E p \in AudioProcs :
         /\ audPc[p] # "off"
         /\ audSignalled' = audSignalled \cup {p}
    /\ UNCHANGED <<audPc, audResult, audInbox, audLock, audSock, audDevice, audUser>>

AudioKill ==
    /\ \E p \in AudioProcs :
         /\ audPc[p] # "off"
         /\ AudioGo(p, "off") /\ AudioExits(p, "failed")
         /\ audSock' = IF audSock = p THEN "stale" ELSE audSock
         /\ IF audLock = p
            THEN /\ audLock' = "none"
                 /\ audWorker' = "off" /\ audPlaying' = FALSE
            ELSE UNCHANGED <<audLock, audWorker, audPlaying>>
    /\ UNCHANGED <<audSignalled, audInbox, audExit, audError, audLeft, audFailed,
                   audPortions, audUser>>

(* stopAudioTest: a request reaches whoever bound the path, if anyone       *)
(* listens there; "No audio test is running" otherwise.                     *)
AudioRequest == audInbox' = IF audSock \in AudioProcs THEN audInbox \cup {audSock} ELSE audInbox
AudioStopTest ==
    /\ AudioRequest
    /\ UNCHANGED <<audPc, audResult, audSignalled, audLock, audSock, audDevice, audUser>>

-----------------------------------------------------------------------------
(* AudioDebugPanel.                                                         *)
AudioPlay ==
    /\ audPanel = "idle"
    /\ AudioLaunch(AudioPanelProc)
    /\ audPanel' = "playing"
    /\ UNCHANGED <<audLock, audSock, audDevice, audHelper>>

AudioStop ==
    /\ audPanel = "playing"
    /\ audPanel' = "stopping" /\ audHelper' = TRUE
    /\ UNCHANGED <<audPc, audResult, audSignalled, audInbox, audLock, audSock, audDevice>>

(* The helper process runs whenever it is scheduled, maybe for a later test.*)
AudioHelp ==
    /\ audHelper
    /\ AudioRequest
    /\ audHelper' = FALSE
    /\ UNCHANGED <<audPc, audResult, audSignalled, audLock, audSock, audDevice, audPanel>>

(* timerCallback finds the process gone.                                    *)
AudioPoll ==
    /\ audPanel # "idle"
    /\ audPc[AudioPanelProc] = "off"
    /\ audPanel' = "idle"
    /\ UNCHANGED <<audPc, audResult, audSignalled, audInbox, audLock, audSock, audDevice,
                   audHelper>>

AudioNext ==
    \/ \E p \in AudioProcs : AudioProcess(p) \/ AudioThrow(p)
    \/ AudioWorker
    \/ AudioShell \/ AudioSignal \/ AudioKill \/ AudioStopTest
    \/ AudioPlay \/ AudioStop \/ AudioHelp \/ AudioPoll

(* The kernel schedules the panel's process, its worker and the message     *)
(* thread; the device takes a block at a time. A helper may never run.      *)
AudioFairness ==
    /\ WF_audVars(AudioProcess(AudioPanelProc))
    /\ WF_audVars(AudioWorker)
    /\ WF_audVars(AudioPoll)

AudioSpec == AudioInit /\ [][AudioNext]_audVars /\ AudioFairness

-----------------------------------------------------------------------------
AudioTypeOK ==
    /\ audPc \in [AudioProcs -> {"off", "open", "bind", "start", "loop", "join",
                                 "drain", "unlink", "release"}]
    /\ audResult \in [AudioProcs -> {"none", "done", "interrupted", "failed"}]
    /\ audSignalled \subseteq AudioProcs /\ audInbox \subseteq AudioProcs
    /\ audLock \in AudioProcs \cup {"none"}
    /\ audSock \in AudioProcs \cup {"none", "stale"}
    /\ audWorker \in {"off", "run", "flush", "flushed", "done"}
    /\ audExit \in BOOLEAN /\ audPlaying \in BOOLEAN /\ audError \in BOOLEAN
    /\ audFailed \in BOOLEAN /\ audHelper \in BOOLEAN
    /\ audLeft \in 0..AudioBlocks
    /\ audPortions \in {"sound", "silence"} \X {"sound", "silence"}
    /\ audPanel \in {"idle", "playing", "stopping"}

(* "Audio test complete; outputs silenced.": when a process says so, its    *)
(* worker is gone, and both portions the converter repeats are silent.      *)
AudioSilenced ==
    \A p \in AudioProcs :
      audPc[p] = "unlink" /\ audResult[p] # "failed"
        => audPortions = Silent /\ audWorker = "off"

(* A stop request reaches the test that plays: from before its tone until   *)
(* after it, unless it could not read the requests and gave up, the control *)
(* path names the socket of the process that holds the device, whatever     *)
(* others started, failed or died in between.                               *)
AudioOwned ==
    \A p \in AudioProcs :
      audPc[p] \in {"start", "loop", "join", "unlink"} => audSock = p /\ audLock = p

(* The panel can play again: it never stays with a test that is over,       *)
(* however that one ended and whether or not the stop request got through.  *)
AudioPanelEnds == []<>(audPanel = "idle")
=============================================================================
