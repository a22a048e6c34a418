------------------------- MODULE TouchscreenProofs -------------------------
(* Proofs about what the touchscreen shows and starts, and the programs it   *)
(* shares with the command line: the audio test, for every number of        *)
(* processes and every length of the tone - whoever plays holds the lock    *)
(* and the control path, and a test that says that it is complete has       *)
(* silenced the outputs; the MIDI page, for any ports; the trigger page,    *)
(* for any settings; and the Aux input, for gains of any resolution.        *)
EXTENDS AudioTest, MidiPanel, TriggerPanel, AuxControl, SequenceTheorems,
        FiniteSetTheorems, TLAPS

-----------------------------------------------------------------------------
(* AudioTest.                                                               *)

(* A process holds the lock from open() until the device is destroyed, and  *)
(* the control path from its bind until it unlinks it, or gives up.         *)
AudioHolding == {"bind", "start", "loop", "join", "drain", "unlink", "release"}
AudioBound == {"start", "loop", "join", "unlink"}
AudioLocked ==
    \A p \in AudioProcs :
      /\ audPc[p] \in AudioHolding => audLock = p
      /\ audPc[p] \in AudioBound => audSock = p

(* The worker belongs to a process in its loop, or waiting for it to end.   *)
AudioWorks ==
    \A p \in AudioProcs :
      audPc[p] \in {"loop", "join"} /\ audWorker = "off" => audError
AudioIdle ==
    audWorker # "off" => \E p \in AudioProcs : audPc[p] \in {"loop", "join", "drain"}

(* One silent portion is written, then the other.                           *)
AudioFlushing ==
    /\ audWorker = "flushed" => audPortions[2] = "silence"
    /\ audWorker = "done" /\ ~audError => audPortions = Silent

AudioInv ==
    /\ AudioTypeOK /\ AudioLocked /\ AudioWorks /\ AudioIdle /\ AudioFlushing
    /\ AudioSilenced

-----------------------------------------------------------------------------
(* The values of the variables: initially, and after every step.            *)
LEMMA AudioTypeInit == AudioInit => AudioTypeOK
<1> SUFFICES ASSUME AudioInit PROVE AudioTypeOK
  OBVIOUS
<1> USE DEF AudioInit
<1>1. audLeft \in 0..AudioBlocks
  BY AudioAssumption
<1>2. audPortions \in {"sound", "silence"} \X {"sound", "silence"}
  BY DEF Silent
<1>3. QED
  BY <1>1, <1>2 DEF AudioTypeOK

LEMMA AudioTypeNext == AudioInv /\ [AudioNext]_audVars => AudioTypeOK'
<1> SUFFICES ASSUME AudioInv, [AudioNext]_audVars PROVE AudioTypeOK'
  OBVIOUS
<1> USE AudioAssumption DEF AudioInv, AudioTypeOK, AudioGo, AudioExits, audDevice, audUser
<1>1. ASSUME NEW p \in AudioProcs, AudioOpen(p) PROVE AudioTypeOK'
  <2>1. /\ audExit' \in BOOLEAN /\ audPlaying' \in BOOLEAN /\ audError' \in BOOLEAN
         /\ audFailed' \in BOOLEAN /\ audHelper' \in BOOLEAN
    BY <1>1 DEF AudioOpen
  <2>2. audPortions' \in {"sound", "silence"} \X {"sound", "silence"}
    BY <1>1 DEF AudioOpen
  <2>3. audLeft' \in 0..AudioBlocks
    BY <1>1 DEF AudioOpen
  <2>4. QED
    BY <2>1, <2>2, <2>3, <1>1 DEF AudioOpen
<1>2. ASSUME NEW p \in AudioProcs, AudioBind(p) PROVE AudioTypeOK'
  BY <1>2 DEF AudioBind
<1>3. ASSUME NEW p \in AudioProcs, AudioStart(p) PROVE AudioTypeOK'
  <2>1. /\ audExit' \in BOOLEAN /\ audPlaying' \in BOOLEAN /\ audError' \in BOOLEAN
         /\ audFailed' \in BOOLEAN /\ audHelper' \in BOOLEAN
    BY <1>3 DEF AudioStart
  <2>2. audPortions' \in {"sound", "silence"} \X {"sound", "silence"}
    BY <1>3 DEF AudioStart
  <2>3. audLeft' \in 0..AudioBlocks
    BY <1>3 DEF AudioStart
  <2>4. QED
    BY <2>1, <2>2, <2>3, <1>3 DEF AudioStart
<1>4. ASSUME NEW p \in AudioProcs, AudioEndLoop(p) PROVE AudioTypeOK'
  BY <1>4 DEF AudioEndLoop, AudioOver
<1>5. ASSUME NEW p \in AudioProcs, AudioJoin(p) PROVE AudioTypeOK'
  BY <1>5 DEF AudioJoin, AudioJoined
<1>6. ASSUME NEW p \in AudioProcs, AudioUnlink(p) PROVE AudioTypeOK'
  BY <1>6 DEF AudioUnlink
<1>7. ASSUME NEW p \in AudioProcs, AudioRelease(p) PROVE AudioTypeOK'
  BY <1>7 DEF AudioRelease
<1>8. CASE AudioBlock
  <2>1. /\ audExit' \in BOOLEAN /\ audPlaying' \in BOOLEAN /\ audError' \in BOOLEAN
         /\ audFailed' \in BOOLEAN /\ audHelper' \in BOOLEAN
    BY <1>8 DEF AudioBlock, AudioWrite
  <2>2. audPortions' \in {"sound", "silence"} \X {"sound", "silence"}
    BY <1>8 DEF AudioBlock, AudioWrite
  <2>3. audLeft' \in 0..AudioBlocks
    BY <1>8 DEF AudioBlock, AudioWrite
  <2>4. QED
    BY <2>1, <2>2, <2>3, <1>8 DEF AudioBlock, AudioWrite
<1>9. CASE AudioLeave
  BY <1>9 DEF AudioLeave
<1>10. CASE AudioFlush
  <2>1. /\ audExit' \in BOOLEAN /\ audPlaying' \in BOOLEAN /\ audError' \in BOOLEAN
         /\ audFailed' \in BOOLEAN /\ audHelper' \in BOOLEAN
    BY <1>10 DEF AudioFlush, AudioWrite, AudioAfterFlush
  <2>2. audPortions' \in {"sound", "silence"} \X {"sound", "silence"}
    BY <1>10 DEF AudioFlush, AudioWrite, AudioAfterFlush
  <2>3. audLeft' \in 0..AudioBlocks
    BY <1>10 DEF AudioFlush, AudioWrite, AudioAfterFlush
  <2>4. QED
    BY <2>1, <2>2, <2>3, <1>10 DEF AudioFlush, AudioWrite, AudioAfterFlush
<1>11. CASE AudioShell
  BY <1>11 DEF AudioShell, AudioLaunch
<1>12. CASE AudioSignal
  BY <1>12 DEF AudioSignal
<1>13. CASE AudioKill
  <2>1. PICK p \in AudioProcs :
          /\ AudioGo(p, "off") /\ AudioExits(p, "failed")
          /\ audSock' = IF audSock = p THEN "stale" ELSE audSock
          /\ IF audLock = p
             THEN /\ audLock' = "none"
                  /\ audWorker' = "off" /\ audPlaying' = FALSE
             ELSE UNCHANGED <<audLock, audWorker, audPlaying>>
    BY <1>13 DEF AudioKill
  <2>2. audPlaying' \in BOOLEAN
    BY <2>1
  <2>3. /\ audExit' \in BOOLEAN /\ audError' \in BOOLEAN
        /\ audFailed' \in BOOLEAN /\ audHelper' \in BOOLEAN
    BY <1>13 DEF AudioKill
  <2>4. QED
    BY <1>13, <2>1, <2>2, <2>3 DEF AudioKill
<1>14. CASE AudioStopTest
  BY <1>14 DEF AudioStopTest, AudioRequest
<1>15. CASE AudioPlay
  BY <1>15 DEF AudioPlay, AudioLaunch
<1>16. CASE AudioStop
  BY <1>16 DEF AudioStop
<1>17. CASE AudioHelp
  BY <1>17 DEF AudioHelp, AudioRequest
<1>18. CASE AudioPoll
  BY <1>18 DEF AudioPoll
<1>19. CASE UNCHANGED audVars
  BY <1>19 DEF audVars
<1>20. ASSUME NEW p \in AudioProcs, AudioThrow(p) PROVE AudioTypeOK'
  BY <1>20 DEF AudioThrow, AudioOver
<1>21. ASSUME NEW p \in AudioProcs, AudioDrain(p) PROVE AudioTypeOK'
  BY <1>21 DEF AudioDrain, AudioJoined
<1>22. QED
  BY <1>1, <1>2, <1>3, <1>4, <1>5, <1>6, <1>7, <1>8, <1>9, <1>10,
     <1>11, <1>12, <1>13, <1>14, <1>15, <1>16, <1>17, <1>18, <1>19, <1>20,
     <1>21
     DEF AudioNext, AudioProcess, AudioWorker

(* Every step leaves lock and path with the process that plays.             *)
LEMMA AudioLockedNext == AudioInv /\ [AudioNext]_audVars => AudioLocked'
<1> SUFFICES ASSUME AudioInv, [AudioNext]_audVars PROVE AudioLocked'
  OBVIOUS
<1> USE AudioAssumption DEF AudioInv, AudioTypeOK, AudioLocked, AudioHolding, AudioBound,
        AudioGo, AudioExits, audDevice, audUser
<1>1. ASSUME NEW p \in AudioProcs, AudioOpen(p) PROVE AudioLocked'
  BY <1>1 DEF AudioOpen
<1>2. ASSUME NEW p \in AudioProcs, AudioBind(p) PROVE AudioLocked'
  BY <1>2 DEF AudioBind
<1>3. ASSUME NEW p \in AudioProcs, AudioStart(p) PROVE AudioLocked'
  BY <1>3 DEF AudioStart
<1>4. ASSUME NEW p \in AudioProcs, AudioEndLoop(p) PROVE AudioLocked'
  BY <1>4 DEF AudioEndLoop, AudioOver
<1>5. ASSUME NEW p \in AudioProcs, AudioJoin(p) PROVE AudioLocked'
  BY <1>5 DEF AudioJoin, AudioJoined
<1>6. ASSUME NEW p \in AudioProcs, AudioUnlink(p) PROVE AudioLocked'
  BY <1>6 DEF AudioUnlink
<1>7. ASSUME NEW p \in AudioProcs, AudioRelease(p) PROVE AudioLocked'
  BY <1>7 DEF AudioRelease
<1>8. CASE AudioBlock
  BY <1>8 DEF AudioBlock, AudioWrite
<1>9. CASE AudioLeave
  BY <1>9 DEF AudioLeave
<1>10. CASE AudioFlush
  BY <1>10 DEF AudioFlush, AudioWrite, AudioAfterFlush
<1>11. CASE AudioShell
  BY <1>11 DEF AudioShell, AudioLaunch
<1>12. CASE AudioSignal
  BY <1>12 DEF AudioSignal
<1>13. CASE AudioKill
  BY <1>13 DEF AudioKill
<1>14. CASE AudioStopTest
  BY <1>14 DEF AudioStopTest, AudioRequest
<1>15. CASE AudioPlay
  BY <1>15 DEF AudioPlay, AudioLaunch
<1>16. CASE AudioStop
  BY <1>16 DEF AudioStop
<1>17. CASE AudioHelp
  BY <1>17 DEF AudioHelp, AudioRequest
<1>18. CASE AudioPoll
  BY <1>18 DEF AudioPoll
<1>19. CASE UNCHANGED audVars
  BY <1>19 DEF audVars
<1>20. ASSUME NEW p \in AudioProcs, AudioThrow(p) PROVE AudioLocked'
  BY <1>20 DEF AudioThrow, AudioOver
<1>21. ASSUME NEW p \in AudioProcs, AudioDrain(p) PROVE AudioLocked'
  BY <1>21 DEF AudioDrain, AudioJoined
<1>22. QED
  BY <1>1, <1>2, <1>3, <1>4, <1>5, <1>6, <1>7, <1>8, <1>9, <1>10,
     <1>11, <1>12, <1>13, <1>14, <1>15, <1>16, <1>17, <1>18, <1>19, <1>20,
     <1>21
     DEF AudioNext, AudioProcess, AudioWorker

(* A process is not left without a worker unless the error was noted.       *)
LEMMA AudioWorksNext == AudioInv /\ [AudioNext]_audVars => AudioWorks'
<1> SUFFICES ASSUME AudioInv, [AudioNext]_audVars PROVE AudioWorks'
  OBVIOUS
<1> USE AudioAssumption DEF AudioInv, AudioTypeOK, AudioWorks, AudioIdle, AudioLocked,
        AudioHolding, AudioBound, AudioGo, AudioExits, audDevice, audUser
<1>1. ASSUME NEW p \in AudioProcs, AudioOpen(p) PROVE AudioWorks'
  BY <1>1 DEF AudioOpen
<1>2. ASSUME NEW p \in AudioProcs, AudioBind(p) PROVE AudioWorks'
  BY <1>2 DEF AudioBind
<1>3. ASSUME NEW p \in AudioProcs, AudioStart(p) PROVE AudioWorks'
  BY <1>3 DEF AudioStart
<1>4. ASSUME NEW p \in AudioProcs, AudioEndLoop(p) PROVE AudioWorks'
  BY <1>4 DEF AudioEndLoop, AudioOver
<1>5. ASSUME NEW p \in AudioProcs, AudioJoin(p) PROVE AudioWorks'
  BY <1>5 DEF AudioJoin, AudioJoined
<1>6. ASSUME NEW p \in AudioProcs, AudioUnlink(p) PROVE AudioWorks'
  BY <1>6 DEF AudioUnlink
<1>7. ASSUME NEW p \in AudioProcs, AudioRelease(p) PROVE AudioWorks'
  BY <1>7 DEF AudioRelease
<1>8. CASE AudioBlock
  BY <1>8 DEF AudioBlock, AudioWrite
<1>9. CASE AudioLeave
  BY <1>9 DEF AudioLeave
<1>10. CASE AudioFlush
  BY <1>10 DEF AudioFlush, AudioWrite, AudioAfterFlush
<1>11. CASE AudioShell
  BY <1>11 DEF AudioShell, AudioLaunch
<1>12. CASE AudioSignal
  BY <1>12 DEF AudioSignal
<1>13. CASE AudioKill
  BY <1>13 DEF AudioKill
<1>14. CASE AudioStopTest
  BY <1>14 DEF AudioStopTest, AudioRequest
<1>15. CASE AudioPlay
  BY <1>15 DEF AudioPlay, AudioLaunch
<1>16. CASE AudioStop
  BY <1>16 DEF AudioStop
<1>17. CASE AudioHelp
  BY <1>17 DEF AudioHelp, AudioRequest
<1>18. CASE AudioPoll
  BY <1>18 DEF AudioPoll
<1>19. CASE UNCHANGED audVars
  BY <1>19 DEF audVars
<1>20. ASSUME NEW p \in AudioProcs, AudioThrow(p) PROVE AudioWorks'
  BY <1>20 DEF AudioThrow, AudioOver
<1>21. ASSUME NEW p \in AudioProcs, AudioDrain(p) PROVE AudioWorks'
  BY <1>21 DEF AudioDrain, AudioJoined
<1>22. QED
  BY <1>1, <1>2, <1>3, <1>4, <1>5, <1>6, <1>7, <1>8, <1>9, <1>10,
     <1>11, <1>12, <1>13, <1>14, <1>15, <1>16, <1>17, <1>18, <1>19, <1>20,
     <1>21
     DEF AudioNext, AudioProcess, AudioWorker

(* A worker does not outlive the wait for it.                               *)
LEMMA AudioIdleNext == AudioInv /\ [AudioNext]_audVars => AudioIdle'
<1> SUFFICES ASSUME AudioInv, [AudioNext]_audVars PROVE AudioIdle'
  OBVIOUS
<1> USE AudioAssumption DEF AudioInv, AudioTypeOK, AudioIdle, AudioLocked,
        AudioHolding, AudioBound, AudioGo, AudioExits, audDevice, audUser
<1>1. ASSUME NEW p \in AudioProcs, AudioOpen(p) PROVE AudioIdle'
  BY <1>1 DEF AudioOpen
<1>2. ASSUME NEW p \in AudioProcs, AudioBind(p) PROVE AudioIdle'
  BY <1>2 DEF AudioBind
<1>3. ASSUME NEW p \in AudioProcs, AudioStart(p) PROVE AudioIdle'
  BY <1>3 DEF AudioStart
<1>4. ASSUME NEW p \in AudioProcs, AudioEndLoop(p) PROVE AudioIdle'
  BY <1>4 DEF AudioEndLoop, AudioOver
<1>5. ASSUME NEW p \in AudioProcs, AudioJoin(p) PROVE AudioIdle'
  BY <1>5 DEF AudioJoin, AudioJoined
<1>6. ASSUME NEW p \in AudioProcs, AudioUnlink(p) PROVE AudioIdle'
  BY <1>6 DEF AudioUnlink
<1>7. ASSUME NEW p \in AudioProcs, AudioRelease(p) PROVE AudioIdle'
  BY <1>7 DEF AudioRelease
<1>8. CASE AudioBlock
  BY <1>8 DEF AudioBlock, AudioWrite
<1>9. CASE AudioLeave
  BY <1>9 DEF AudioLeave
<1>10. CASE AudioFlush
  BY <1>10 DEF AudioFlush, AudioWrite, AudioAfterFlush
<1>11. CASE AudioShell
  BY <1>11 DEF AudioShell, AudioLaunch
<1>12. CASE AudioSignal
  BY <1>12 DEF AudioSignal
<1>13. CASE AudioKill
  BY <1>13 DEF AudioKill
<1>14. CASE AudioStopTest
  BY <1>14 DEF AudioStopTest, AudioRequest
<1>15. CASE AudioPlay
  BY <1>15 DEF AudioPlay, AudioLaunch
<1>16. CASE AudioStop
  BY <1>16 DEF AudioStop
<1>17. CASE AudioHelp
  BY <1>17 DEF AudioHelp, AudioRequest
<1>18. CASE AudioPoll
  BY <1>18 DEF AudioPoll
<1>19. CASE UNCHANGED audVars
  BY <1>19 DEF audVars
<1>20. ASSUME NEW p \in AudioProcs, AudioThrow(p) PROVE AudioIdle'
  BY <1>20 DEF AudioThrow, AudioOver
<1>21. ASSUME NEW p \in AudioProcs, AudioDrain(p) PROVE AudioIdle'
  BY <1>21 DEF AudioDrain, AudioJoined
<1>22. QED
  BY <1>1, <1>2, <1>3, <1>4, <1>5, <1>6, <1>7, <1>8, <1>9, <1>10,
     <1>11, <1>12, <1>13, <1>14, <1>15, <1>16, <1>17, <1>18, <1>19, <1>20,
     <1>21
     DEF AudioNext, AudioProcess, AudioWorker

(* What was silenced stays silent until another worker starts.              *)
LEMMA AudioFlushingNext == AudioInv /\ [AudioNext]_audVars => AudioFlushing'
<1> SUFFICES ASSUME AudioInv, [AudioNext]_audVars PROVE AudioFlushing'
  OBVIOUS
<1> USE AudioAssumption DEF AudioInv, AudioTypeOK, AudioFlushing, AudioIdle, AudioLocked,
        AudioHolding, AudioBound, Silent, AudioGo, AudioExits, audDevice, audUser
<1>1. ASSUME NEW p \in AudioProcs, AudioOpen(p) PROVE AudioFlushing'
  BY <1>1 DEF AudioOpen
<1>2. ASSUME NEW p \in AudioProcs, AudioBind(p) PROVE AudioFlushing'
  BY <1>2 DEF AudioBind
<1>3. ASSUME NEW p \in AudioProcs, AudioStart(p) PROVE AudioFlushing'
  BY <1>3 DEF AudioStart
<1>4. ASSUME NEW p \in AudioProcs, AudioEndLoop(p) PROVE AudioFlushing'
  BY <1>4 DEF AudioEndLoop, AudioOver
<1>5. ASSUME NEW p \in AudioProcs, AudioJoin(p) PROVE AudioFlushing'
  BY <1>5 DEF AudioJoin, AudioJoined
<1>6. ASSUME NEW p \in AudioProcs, AudioUnlink(p) PROVE AudioFlushing'
  BY <1>6 DEF AudioUnlink
<1>7. ASSUME NEW p \in AudioProcs, AudioRelease(p) PROVE AudioFlushing'
  BY <1>7 DEF AudioRelease
<1>8. CASE AudioBlock
  BY <1>8 DEF AudioBlock, AudioWrite
<1>9. CASE AudioLeave
  BY <1>9 DEF AudioLeave
<1>10. CASE AudioFlush
  BY <1>10 DEF AudioFlush, AudioWrite, AudioAfterFlush
<1>11. CASE AudioShell
  BY <1>11 DEF AudioShell, AudioLaunch
<1>12. CASE AudioSignal
  BY <1>12 DEF AudioSignal
<1>13. CASE AudioKill
  BY <1>13 DEF AudioKill
<1>14. CASE AudioStopTest
  BY <1>14 DEF AudioStopTest, AudioRequest
<1>15. CASE AudioPlay
  BY <1>15 DEF AudioPlay, AudioLaunch
<1>16. CASE AudioStop
  BY <1>16 DEF AudioStop
<1>17. CASE AudioHelp
  BY <1>17 DEF AudioHelp, AudioRequest
<1>18. CASE AudioPoll
  BY <1>18 DEF AudioPoll
<1>19. CASE UNCHANGED audVars
  BY <1>19 DEF audVars
<1>20. ASSUME NEW p \in AudioProcs, AudioThrow(p) PROVE AudioFlushing'
  BY <1>20 DEF AudioThrow, AudioOver
<1>21. ASSUME NEW p \in AudioProcs, AudioDrain(p) PROVE AudioFlushing'
  BY <1>21 DEF AudioDrain, AudioJoined
<1>22. QED
  BY <1>1, <1>2, <1>3, <1>4, <1>5, <1>6, <1>7, <1>8, <1>9, <1>10,
     <1>11, <1>12, <1>13, <1>14, <1>15, <1>16, <1>17, <1>18, <1>19, <1>20,
     <1>21
     DEF AudioNext, AudioProcess, AudioWorker

(* So the outcome a process reports is that of its own worker.              *)
LEMMA AudioSilencedNext == AudioInv /\ [AudioNext]_audVars => AudioSilenced'
<1> SUFFICES ASSUME AudioInv, [AudioNext]_audVars PROVE AudioSilenced'
  OBVIOUS
<1> USE AudioAssumption DEF AudioInv, AudioTypeOK, AudioSilenced, AudioWorks, AudioFlushing, AudioIdle,
        AudioLocked, AudioHolding, AudioBound, Silent, AudioGo, AudioExits, audDevice, audUser
<1>1. ASSUME NEW p \in AudioProcs, AudioOpen(p) PROVE AudioSilenced'
  BY <1>1 DEF AudioOpen
<1>2. ASSUME NEW p \in AudioProcs, AudioBind(p) PROVE AudioSilenced'
  BY <1>2 DEF AudioBind
<1>3. ASSUME NEW p \in AudioProcs, AudioStart(p) PROVE AudioSilenced'
  BY <1>3 DEF AudioStart
<1>4. ASSUME NEW p \in AudioProcs, AudioEndLoop(p) PROVE AudioSilenced'
  BY <1>4 DEF AudioEndLoop, AudioOver
<1>5. ASSUME NEW p \in AudioProcs, AudioJoin(p) PROVE AudioSilenced'
  BY <1>5 DEF AudioJoin, AudioJoined
<1>6. ASSUME NEW p \in AudioProcs, AudioUnlink(p) PROVE AudioSilenced'
  BY <1>6 DEF AudioUnlink
<1>7. ASSUME NEW p \in AudioProcs, AudioRelease(p) PROVE AudioSilenced'
  BY <1>7 DEF AudioRelease
<1>8. CASE AudioBlock
  BY <1>8 DEF AudioBlock, AudioWrite
<1>9. CASE AudioLeave
  BY <1>9 DEF AudioLeave
<1>10. CASE AudioFlush
  BY <1>10 DEF AudioFlush, AudioWrite, AudioAfterFlush
<1>11. CASE AudioShell
  BY <1>11 DEF AudioShell, AudioLaunch
<1>12. CASE AudioSignal
  BY <1>12 DEF AudioSignal
<1>13. CASE AudioKill
  BY <1>13 DEF AudioKill
<1>14. CASE AudioStopTest
  BY <1>14 DEF AudioStopTest, AudioRequest
<1>15. CASE AudioPlay
  BY <1>15 DEF AudioPlay, AudioLaunch
<1>16. CASE AudioStop
  BY <1>16 DEF AudioStop
<1>17. CASE AudioHelp
  BY <1>17 DEF AudioHelp, AudioRequest
<1>18. CASE AudioPoll
  BY <1>18 DEF AudioPoll
<1>19. CASE UNCHANGED audVars
  BY <1>19 DEF audVars
<1>20. ASSUME NEW p \in AudioProcs, AudioThrow(p) PROVE AudioSilenced'
  BY <1>20 DEF AudioThrow, AudioOver
<1>21. ASSUME NEW p \in AudioProcs, AudioDrain(p) PROVE AudioSilenced'
  BY <1>21 DEF AudioDrain, AudioJoined
<1>22. QED
  BY <1>1, <1>2, <1>3, <1>4, <1>5, <1>6, <1>7, <1>8, <1>9, <1>10,
     <1>11, <1>12, <1>13, <1>14, <1>15, <1>16, <1>17, <1>18, <1>19, <1>20,
     <1>21
     DEF AudioNext, AudioProcess, AudioWorker

(* The invariant that carries both properties.                              *)
LEMMA AudioInvNext == AudioInv /\ [AudioNext]_audVars => AudioInv'
  BY AudioTypeNext, AudioLockedNext, AudioWorksNext, AudioIdleNext, AudioFlushingNext,
     AudioSilencedNext DEF AudioInv

THEOREM AudioInvariant == AudioSpec => []AudioInv
<1>1. AudioInit => AudioInv
  BY AudioTypeInit DEF AudioInit, AudioInv, AudioLocked, AudioWorks, AudioIdle,
     AudioFlushing, AudioSilenced, AudioHolding, AudioBound, Silent
<1>2. QED
  BY <1>1, AudioInvNext, PTL DEF AudioSpec

(* The process that plays holds the device and is the one that a stop       *)
(* request reaches (PearlAudioDevice::open, TestControl).                   *)
THEOREM AudioOwnership == AudioSpec => []AudioOwned
<1>1. AudioInv => AudioOwned
  BY DEF AudioInv, AudioLocked, AudioOwned, AudioHolding, AudioBound
<1>2. QED
  BY <1>1, AudioInvariant, PTL

(* "Audio test complete; outputs silenced." (runAudioTest) is true.         *)
THEOREM AudioSilence == AudioSpec => []AudioSilenced
<1>1. AudioInv => AudioSilenced
  BY DEF AudioInv
<1>2. QED
  BY <1>1, AudioInvariant, PTL

-----------------------------------------------------------------------------
(* MidiPanel.                                                               *)

(* The choice is shown already while the update that marks it is pending.   *)
MpMeant == (mpDirty \/ mpUpdate) /\ mpChosen # "nothing" => MpShown = mpChosen

MpIds == ToSet(MpPorts)
MpInv ==
    /\ mpPresent \subseteq MpIds /\ IsFiniteSet(mpPresent)
    /\ mpListed \in Seq(MpIds) /\ mpStatus.ports \in Seq(MpIds) /\ mpKnown \in Seq(MpIds)
    /\ mpPlace \in Nat /\ mpDirty \in BOOLEAN /\ mpUpdate \in BOOLEAN
    /\ MpMeant

LEMMA MpIdsAre ==
    /\ "none" \notin MpIds /\ Din \in MpIds /\ MpPorts \in Seq(MpIds) /\ <<Din>> \in Seq(MpIds)
<1>1. MpPorts \in Seq(MpIds) /\ MpPorts # <<>> /\ "none" \notin MpIds
  BY MpAssumption DEF MpIds
<1>2. 1 \in 1..Len(MpPorts)
  BY <1>1, EmptySeq
<1>3. MpPorts[1] \in MpIds
  BY <1>1, <1>2
<1>4. QED
  BY <1>1, <1>3 DEF Din

(* A port is found where it is; any other, and None, shows as None.         *)
LEMMA MpFound ==
  ASSUME NEW list \in Seq(MpIds), NEW id
  PROVE  /\ MpPlaceOf(list, id) \in Nat
         /\ id = "none" \/ (\E i \in 1..Len(list) : list[i] = id)
              => MpIdAt(list, MpPlaceOf(list, id)) = id
<1>1. Len(list) \in Nat
  BY LenProperties
<1>2. CASE \E i \in 1..Len(list) : list[i] = id
  <2>1. PICK i \in 1..Len(list) : i = MpPlaceOf(list, id) /\ list[i] = id
    BY <1>2 DEF MpPlaceOf
  <2>2. QED
    BY <1>1, <2>1 DEF MpIdAt
<1>3. CASE ~\E i \in 1..Len(list) : list[i] = id
  BY <1>1, <1>3 DEF MpPlaceOf, MpIdAt
<1>4. QED
  BY <1>2, <1>3

LEMMA MpInitInv == MpInit => MpInv
<1> SUFFICES ASSUME MpInit PROVE MpInv
  OBVIOUS
<1>1. IsFiniteSet(MpIds)
  <2>1. PICK n \in Nat : n = Len(MpPorts) /\ DOMAIN MpPorts = 1..n
    BY MpIdsAre, LenProperties
  <2>2. MpPorts \in Surjection(1..n, MpIds)
    BY <2>1, MpIdsAre DEF MpIds, ToSet, Surjection
  <2>3. IsFiniteSet(1..n)
    BY <2>1, FS_Interval
  <2>4. QED
    BY <2>2, <2>3, FS_Surjection
<1>2. MpMeant
  BY DEF MpInit, MpMeant
<1>3. mpPresent = MpIds
  BY DEF MpInit, MpIds
<1>4. QED
  BY <1>1, <1>2, <1>3, MpIdsAre DEF MpInit, MpInv

(* A status that is read: what is marked keeps its port wherever that one   *)
(* moves to, and what is not yet marked is noted when it is overtaken.      *)
LEMMA MpReadInv ==
  ASSUME MpInv, NEW rebuilt \in BOOLEAN, mpStatus.ports # mpKnown => rebuilt,
         MpRead(rebuilt), UNCHANGED <<mpService, mpDirty>>
  PROVE  MpInv'
<1>1. mpStatus.ports \in Seq(MpIds) /\ mpStatus' = mpStatus /\ mpKnown' = mpStatus.ports
  BY DEF MpInv, MpRead, mpService
<1>2. mpPlace' \in Nat
  <2>1. \A id : MpPlaceOf(mpStatus.ports, id) \in Nat
    BY <1>1, MpFound
  <2>2. QED
    BY <2>1 DEF MpInv, MpRead, MpRebuilt
<1>3. ASSUME mpDirty' \/ mpUpdate', mpChosen' # "nothing" PROVE MpShown' = mpChosen'
  <2>1. /\ mpChosen' = mpChosen /\ ~MpVanishes(mpStatus.ports)
        /\ ~MpOvertakes(mpKnown', mpPlace', rebuilt)
    BY <1>3 DEF MpRead
  <2>2. CASE ~mpDirty
    BY <2>1, <2>2 DEF MpOvertakes, MpShown
  <2>3. CASE mpDirty
    <3>1. MpShown = mpChosen
      BY <1>3, <2>1, <2>3 DEF MpInv, MpMeant
    <3>2. CASE ~rebuilt
      <4>1. mpKnown' = mpKnown /\ mpPlace' = mpPlace
        BY <1>1, <2>3, <3>2 DEF MpRead
      <4>2. QED
        BY <2>1, <3>1, <4>1 DEF MpShown
    <3>3. CASE rebuilt
      <4>1. mpPlace' = MpPlaceOf(mpStatus.ports, mpChosen)
        BY <2>3, <3>1, <3>3 DEF MpRead, MpRebuilt
      <4>2. mpChosen = "none" \/ \E i \in 1..Len(mpStatus.ports) : mpStatus.ports[i] = mpChosen
        BY <1>1, <2>1, <2>3 DEF MpVanishes, ToSet
      <4>3. MpIdAt(mpStatus.ports, MpPlaceOf(mpStatus.ports, mpChosen)) = mpChosen
        BY <1>1, <4>2, MpFound
      <4>4. QED
        BY <1>1, <2>1, <4>1, <4>3 DEF MpShown
    <3>4. QED
      BY <3>2, <3>3
  <2>4. QED
    BY <2>2, <2>3
<1>4. mpUpdate' \in BOOLEAN
  BY DEF MpInv, MpRead
<1>5. QED
  BY <1>1, <1>2, <1>3, <1>4 DEF MpInv, MpMeant, mpService

(* The service's list.                                                      *)
LEMMA MpPlugTypes ==
  ASSUME MpInv, MpPlug
  PROVE  mpPresent' \subseteq MpIds /\ IsFiniteSet(mpPresent') /\ mpListed' \in Seq(MpIds)
<1>1. PICK port \in MpIds :
        /\ mpPresent' = IF port \in mpPresent THEN mpPresent \ {port} ELSE mpPresent \cup {port}
        /\ IF mpUp THEN MpRefreshed(port) ELSE UNCHANGED mpListed
  BY DEF MpPlug, MpIds
<1>2. mpPresent \subseteq MpIds /\ IsFiniteSet(mpPresent) /\ mpListed \in Seq(MpIds)
  BY DEF MpInv
<1>3. IsFiniteSet(mpPresent \ {port}) /\ IsFiniteSet(mpPresent \cup {port})
  BY <1>2, FS_AddElement, FS_RemoveElement
<1>4. ASSUME NEW i \in 1..Len(mpListed) PROVE RemoveAt(mpListed, i) \in Seq(MpIds)
  <2>1. PICK n \in Nat : n = Len(mpListed) /\ \A k \in 1..n : mpListed[k] \in MpIds
    BY <1>2
  <2>2. SubSeq(mpListed, 1, i - 1) \in Seq(MpIds)
    <3>1. \A k \in 1..(i - 1) : mpListed[k] \in MpIds
      BY <2>1
    <3>2. 1 \in Int /\ i - 1 \in Int
      BY <2>1
    <3>3. QED
      BY <3>1, <3>2, SubSeqProperties
  <2>3. SubSeq(mpListed, i + 1, n) \in Seq(MpIds)
    <3>1. \A k \in (i + 1)..n : mpListed[k] \in MpIds
      BY <2>1
    <3>2. i + 1 \in Int /\ n \in Int
      BY <2>1
    <3>3. QED
      BY <3>1, <3>2, SubSeqProperties
  <2>4. QED
    BY <2>1, <2>2, <2>3, ConcatProperties DEF RemoveAt
<1>5. Append(mpListed, port) \in Seq(MpIds)
  BY <1>2, AppendProperties
<1>6. QED
  BY <1>1, <1>2, <1>3, <1>4, <1>5 DEF MpRefreshed

LEMMA MpNextInv == MpInv /\ [MpNext]_mpVars => MpInv'
<1> SUFFICES ASSUME MpInv, [MpNext]_mpVars PROVE MpInv'
  OBVIOUS
<1> USE DEF mpChoice, mpPage, mpService
<1>1. ASSUME UNCHANGED <<mpKnown, mpPlace, mpDirty, mpUpdate, mpChosen>> PROVE MpMeant'
  BY <1>1 DEF MpInv, MpMeant, MpShown
<1>2. CASE MpOpen
  BY <1>1, <1>2 DEF MpOpen, MpInv
<1>3. CASE MpCancel
  BY <1>1, <1>3 DEF MpCancel, MpInv
<1>4. CASE MpTap
  <2>1. mpPlace' \in Nat /\ mpKnown' = mpKnown
    BY <1>4, LenProperties DEF MpTap, MpInv
  <2>2. MpMeant'
    BY <1>4, <2>1 DEF MpTap, MpMeant, MpShown
  <2>3. mpUpdate' \in BOOLEAN
    BY <1>4 DEF MpTap
  <2>4. QED
    BY <1>4, <2>1, <2>2, <2>3 DEF MpTap, MpInv
<1>5. CASE MpChanged
  <2>1. MpMeant'
    BY <1>5 DEF MpChanged, MpInv, MpMeant, MpShown
  <2>2. QED
    BY <1>5, <2>1 DEF MpChanged, MpInv
<1>6. CASE MpApply
  <2>1. MpMeant'
    BY <1>6 DEF MpApply, MpInv, MpMeant, MpShown
  <2>2. QED
    BY <1>6, <2>1 DEF MpApply, MpInv
<1>7. CASE MpTimer
  <2>1. ASSUME NEW rebuilt \in BOOLEAN, mpStatus.ports # mpKnown => rebuilt, MpRead(rebuilt)
        PROVE  MpInv'
    BY <1>7, <2>1, MpReadInv DEF MpTimer
  <2>2. CASE UNCHANGED <<mpChoice, mpChosen>>
    BY <1>1, <1>7, <2>2 DEF MpTimer, MpInv
  <2>3. QED
    BY <1>7, <2>1, <2>2 DEF MpTimer
<1>8. CASE MpCommand
  BY <1>1, <1>8 DEF MpCommand, MpInv
<1>9. CASE MpServe
  BY <1>1, <1>9 DEF MpServe, MpInv
<1>10. CASE MpPublish
  <2>1. mpStatus'.ports = mpListed
    BY <1>10 DEF MpPublish
  <2>2. QED
    BY <1>1, <1>10, <2>1 DEF MpPublish, MpInv
<1>11. CASE MpPlug
  BY <1>1, <1>11, MpPlugTypes DEF MpPlug, MpInv
<1>12. CASE MpStop
  <2>1. <<>> \in Seq(MpIds)
    BY EmptySeq
  <2>2. mpStatus'.ports \in Seq(MpIds)
    <3>1. CASE mpStatus' = mpStatus
      BY <3>1 DEF MpInv
    <3>2. CASE mpStatus' = [running |-> FALSE, selected |-> mpSelected, ports |-> mpListed]
      <4>1. mpStatus'.ports = mpListed
        BY <3>2
      <4>2. QED
        BY <4>1 DEF MpInv
    <3>3. CASE mpStatus' = [running |-> FALSE, selected |-> "none", ports |-> <<>>]
      <4>1. mpStatus'.ports = <<>>
        BY <3>3
      <4>2. QED
        BY <2>1, <4>1
    <3>4. QED
      BY <1>12, <3>1, <3>2, <3>3 DEF MpStop
  <2>3. QED
    BY <1>1, <1>12, <2>1, <2>2 DEF MpStop, MpInv
<1>13. CASE MpStart
  <2>1. PICK n \in Nat : n = Cardinality(mpPresent)
    BY FS_CardinalityType DEF MpInv
  <2>2. mpListed' \in [1..n -> MpIds]
    BY <1>13, <2>1 DEF MpStart, MpSorted, MpInv
  <2>3. mpListed' \in Seq(MpIds)
    BY <2>2
  <2>4. QED
    BY <1>1, <1>13, <2>3 DEF MpStart, MpInv
<1>14. CASE UNCHANGED mpVars
  BY <1>1, <1>14 DEF mpVars, MpInv
<1>15. QED
  BY <1>2, <1>3, <1>4, <1>5, <1>6, <1>7, <1>8, <1>9, <1>10, <1>11, <1>12, <1>13, <1>14 DEF MpNext

(* "Keep a pending selection while a different USB device is added or       *)
(* removed": for any ports, in whatever order the service lists them, the   *)
(* page goes on showing the port that was chosen, unless that one vanished  *)
(* or the timer came before the choice was marked.                          *)
THEOREM ChoicesAreKept == MpSpec => []MpPending
<1>1. MpInv => MpPending
  BY DEF MpInv, MpMeant, MpPending
<1>2. QED
  BY <1>1, MpInitInv, MpNextInv, PTL DEF MpSpec

(* And that port, not the one at its place, is what Apply sends, with the   *)
(* same two exceptions.                                                     *)
MpSends == [][MpApply => mpChosen = "nothing" \/ mpProcess' = mpChosen]_mpVars
THEOREM ChoicesAreSent == MpSpec => MpSends
<1>1. MpInv /\ [MpNext]_mpVars => [MpApply => mpChosen = "nothing" \/ mpProcess' = mpChosen]_mpVars
  BY DEF MpInv, MpMeant, MpApply
<1>2. QED
  BY <1>1, MpInitInv, MpNextInv, PTL DEF MpSpec, MpSends

-----------------------------------------------------------------------------
(* TriggerPanel.                                                            *)

TpInv ==
    /\ tpSetting \in TpValues /\ tpQueue \in Seq(TpValues)
    /\ tpProcesses \subseteq TpValues
    /\ tpSlider \in TpValues /\ tpRead.setting \in TpValues /\ tpStatus.setting \in TpValues
    /\ tpBusy \in BOOLEAN /\ (tpProcesses # {} => tpBusy)
    /\ TpOrdered

LEMMA TpInitInv == TpInit => TpInv
<1> SUFFICES ASSUME TpInit PROVE TpInv
  OBVIOUS
<1>1. <<>> \in Seq(TpValues)
  BY EmptySeq
<1>2. QED
  BY <1>1, TpAssumption DEF TpInit, TpInv, TpOrdered

(* The next command waits until the last has ended: there is one at most.   *)
LEMMA TpRunInv ==
  ASSUME TpInv, NEW value \in TpValues, TpRun(value),
         UNCHANGED <<tpSetting, tpQueue, tpStatus, tpRead, tpSlider, tpSent>>
  PROVE  TpInv'
<1>1. CASE UNCHANGED <<tpBusy, tpProcesses, tpBegan>>
  BY <1>1 DEF TpInv, TpOrdered
<1>2. CASE ~tpBusy /\ tpBusy' = TRUE /\ tpProcesses' = tpProcesses \cup {value} /\ tpBegan' = value
  <2>1. tpProcesses = {}
    BY <1>2 DEF TpInv
  <2>2. QED
    BY <1>2, <2>1 DEF TpInv, TpOrdered
<1>3. QED
  BY <1>1, <1>2 DEF TpRun

LEMMA TpNextInv == TpInv /\ [TpNext]_tpVars => TpInv'
<1> SUFFICES ASSUME TpInv, [TpNext]_tpVars PROVE TpInv'
  OBVIOUS
<1>1. CASE TpChoose
  BY <1>1 DEF TpChoose, TpInv, TpOrdered, tpService
<1>2. CASE TpClose
  BY <1>2 DEF TpClose, TpInv, TpOrdered, tpService
<1>3. CASE TpDrag
  BY <1>3 DEF TpDrag, TpInv, TpOrdered, tpService
<1>4. CASE TpDrop
  <2>1. tpSlider \in TpValues /\ TpRun(tpSlider)
    BY <1>4 DEF TpDrop, TpInv
  <2>2. QED
    BY <1>4, <2>1, TpRunInv DEF TpDrop, tpService
<1>5. CASE TpReset
  <2>1. TpDefault \in TpValues /\ TpRun(TpDefault)
    BY <1>5, TpAssumption DEF TpReset
  <2>2. QED
    BY <1>5, <2>1, TpRunInv DEF TpReset, tpService
<1>6. CASE TpCommand
  <2>1. PICK value \in tpProcesses :
          /\ tpProcesses' = tpProcesses \ {value}
          /\ IF tpUp /\ Len(tpQueue) < TpFifo
             THEN tpQueue' = Append(tpQueue, value) /\ tpSent' = value
             ELSE UNCHANGED <<tpQueue, tpSent>>
    BY <1>6 DEF TpCommand
  <2>2. tpProcesses' = {} /\ value \in TpValues
    BY <2>1 DEF TpInv, TpOrdered
  <2>3. /\ tpQueue' \in Seq(TpValues)
        /\ tpQueue' = <<>> => tpSetting = tpSent'
        /\ tpQueue' # <<>> => tpQueue'[Len(tpQueue')] = tpSent'
    <3>1. CASE tpQueue' = Append(tpQueue, value) /\ tpSent' = value
      <4>1. /\ tpQueue' \in Seq(TpValues) /\ tpQueue' # <<>>
            /\ Len(tpQueue') = Len(tpQueue) + 1 /\ tpQueue'[Len(tpQueue) + 1] = value
        BY <2>2, <3>1, AppendProperties DEF TpInv
      <4>2. QED
        BY <3>1, <4>1
    <3>2. CASE UNCHANGED <<tpQueue, tpSent>>
      BY <3>2 DEF TpInv, TpOrdered
    <3>3. QED
      BY <2>1, <3>1, <3>2
  <2>4. QED
    BY <1>6, <2>2, <2>3 DEF TpCommand, TpInv, TpOrdered
<1>7. CASE TpTimer
  <2>1. /\ tpBusy' = (tpBusy /\ tpProcesses # {}) /\ tpRead' = tpStatus
        /\ tpSlider' = tpStatus.setting \/ tpSlider' = tpSlider
        /\ UNCHANGED <<tpSetting, tpQueue, tpStatus, tpProcesses, tpSent, tpBegan>>
    BY <1>7 DEF TpTimer, TpRefresh, tpService
  <2>2. QED
    BY <2>1 DEF TpInv, TpOrdered
<1>8. CASE TpServe
  <2>1. /\ tpQueue \in Seq(TpValues) /\ tpQueue # <<>>
        /\ tpSetting' = Head(tpQueue) /\ tpQueue' = Tail(tpQueue) /\ tpSent' = tpSent
    BY <1>8 DEF TpServe, TpInv
  <2>2. PICK n \in Nat \ {0} : n = Len(tpQueue)
    BY <2>1, EmptySeq
  <2>3. /\ tpSetting' \in TpValues /\ tpQueue' \in Seq(TpValues) /\ Len(tpQueue') = n - 1
        /\ \A i \in 1..(n - 1) : tpQueue'[i] = tpQueue[i + 1]
    BY <2>1, <2>2, HeadTailProperties
  <2>4. tpQueue[n] = tpSent
    BY <2>1, <2>2 DEF TpInv, TpOrdered
  <2>5. CASE n = 1
    <3>1. tpQueue' = <<>> /\ tpSetting' = tpSent
      BY <2>1, <2>2, <2>3, <2>4, <2>5, EmptySeq
    <3>2. QED
      BY <1>8, <2>1, <2>3, <3>1 DEF TpServe, TpInv, TpOrdered
  <2>6. CASE n > 1
    <3>1. n - 1 \in 1..(n - 1) /\ (n - 1) + 1 = n
      BY <2>6
    <3>2. tpQueue'[Len(tpQueue')] = tpSent
      BY <2>3, <2>4, <3>1
    <3>3. tpQueue' # <<>>
      BY <2>3, <2>6, EmptySeq
    <3>4. QED
      BY <1>8, <2>1, <2>3, <3>2, <3>3 DEF TpServe, TpInv, TpOrdered
  <2>7. QED
    BY <2>2, <2>5, <2>6
<1>9. CASE TpPublish
  BY <1>9 DEF TpPublish, TpInv, TpOrdered
<1>10. CASE TpRestart
  <2>1. tpStatus'.setting \in TpValues
    BY <1>10 DEF TpRestart, TpInv
  <2>2. <<>> \in Seq(TpValues)
    BY EmptySeq
  <2>3. QED
    BY <1>10, <2>1, <2>2 DEF TpRestart, TpInv, TpOrdered
<1>11. CASE UNCHANGED tpVars
  BY <1>11 DEF tpVars, TpInv, TpOrdered
<1>12. QED
  BY <1>1, <1>2, <1>3, <1>4, <1>5, <1>6, <1>7, <1>8, <1>9, <1>10, <1>11 DEF TpNext

(* Of two settings the later one stays, for any slider and any FIFO: there  *)
(* is never a second process that could overtake the first, and the last of *)
(* the FIFO, or what the service holds, is what was sent last.              *)
THEOREM SettingsStayOrdered == TpSpec => []TpOrdered
<1>1. TpInv => TpOrdered
  BY DEF TpInv
<1>2. QED
  BY <1>1, TpInitInv, TpNextInv, PTL DEF TpSpec

-----------------------------------------------------------------------------
(* AuxControl.                                                              *)

(* A daemon that polls and remembers a code has written it to all three     *)
(* channels; one that writes has come to the channel it is at.              *)
AuxWhole(channels, code) == \A c \in channels : auxCode[c] = code
AuxWritten ==
    /\ auxPc \in {"read", "volume"} /\ auxPrevious # Unknown => AuxWhole(AuxChannels, auxPrevious)
    /\ auxPc = "ch1" => AuxWhole({0}, AuxCodeFor(auxSettings, auxGain))
    /\ auxPc = "ch2" => AuxWhole({0, 1}, AuxCodeFor(auxSettings, auxGain))
    /\ auxPc = "set" => AuxWhole(AuxChannels, AuxCodeFor(auxSettings, auxGain))

(* A panel that does not complain shows what it has published.              *)
AuxTold == auxFile = auxPublished /\ (~auxComplaint => auxShown = auxFile)

AuxInv ==
    /\ auxPc \in {"off", "read", "volume", "ch0", "ch1", "ch2", "set"}
    /\ DOMAIN auxCode = AuxChannels /\ auxComplaint \in BOOLEAN
    /\ AuxWritten /\ AuxTold

LEMMA AuxNextInv == AuxInv /\ [AuxNext]_auxVars => AuxInv'
<1> SUFFICES ASSUME AuxInv, [AuxNext]_auxVars PROVE AuxInv'
  OBVIOUS
<1>1. AuxChannels = {0, 1, 2}
  BY DEF AuxChannels
<1>2. CASE AuxMove
  <2>1. PICK settings \in AuxSettings, succeeds \in BOOLEAN : AuxUpdateSettings(settings, succeeds)
    BY <1>2 DEF AuxMove
  <2>2. AuxTold' /\ auxComplaint' \in BOOLEAN
    BY <2>1 DEF AuxUpdateSettings, AuxInv, AuxTold
  <2>3. QED
    BY <1>2, <2>2 DEF AuxMove, auxDaemon, AuxInv, AuxWritten, AuxWhole, AuxCodeFor,
                      AuxAttenuationCode, EffectiveAuxGain
<1>3. CASE AuxTurn
  BY <1>3 DEF AuxTurn, auxDaemon, AuxInv, AuxTold, AuxWritten, AuxWhole, AuxCodeFor,
              AuxAttenuationCode, EffectiveAuxGain
<1>4. CASE AuxStart
  BY <1>4 DEF AuxStart, auxUi, AuxInv, AuxTold, AuxWritten
<1>5. CASE AuxReadSettings
  BY <1>5 DEF AuxReadSettings, auxUi, AuxInv, AuxTold, AuxWritten, AuxWhole
<1>6. CASE AuxReadVolume
  BY <1>6 DEF AuxReadVolume, auxUi, AuxInv, AuxTold, AuxWritten, AuxWhole
<1>7. ASSUME NEW pc, NEW channel \in AuxChannels, NEW next, AuxWrite(pc, channel, next)
      PROVE  /\ DOMAIN auxCode' = AuxChannels /\ AuxTold' /\ auxComplaint' \in BOOLEAN
             /\ auxCode'[channel] = AuxCodeFor(auxSettings, auxGain)
             /\ \A c \in AuxChannels \ {channel} : auxCode'[c] = auxCode[c]
             /\ AuxCodeFor(auxSettings, auxGain)' = AuxCodeFor(auxSettings, auxGain)
             /\ auxPc = pc /\ auxPc' = next
  BY <1>7 DEF AuxWrite, auxUi, AuxInv, AuxTold, AuxCodeFor, AuxAttenuationCode, EffectiveAuxGain
<1>8. CASE AuxWrite("ch0", 0, "ch1")
  <2>1. 0 \in AuxChannels
    BY <1>1
  <2>2. /\ DOMAIN auxCode' = AuxChannels /\ AuxTold' /\ auxComplaint' \in BOOLEAN
        /\ auxCode'[0] = AuxCodeFor(auxSettings, auxGain)
        /\ \A c \in AuxChannels \ {0} : auxCode'[c] = auxCode[c]
        /\ AuxCodeFor(auxSettings, auxGain)' = AuxCodeFor(auxSettings, auxGain)
        /\ auxPc = "ch0" /\ auxPc' = "ch1"
    BY <1>8, <1>7, <2>1
  <2>3. \A c \in {0} : auxCode'[c] = AuxCodeFor(auxSettings, auxGain)
    BY <1>1, <2>2 DEF AuxInv, AuxWritten, AuxWhole
  <2>4. AuxWritten'
    BY <1>1, <2>2, <2>3 DEF AuxWritten, AuxWhole
  <2>5. QED
    BY <2>2, <2>4 DEF AuxInv
<1>9. CASE AuxWrite("ch1", 1, "ch2")
  <2>1. 1 \in AuxChannels
    BY <1>1
  <2>2. /\ DOMAIN auxCode' = AuxChannels /\ AuxTold' /\ auxComplaint' \in BOOLEAN
        /\ auxCode'[1] = AuxCodeFor(auxSettings, auxGain)
        /\ \A c \in AuxChannels \ {1} : auxCode'[c] = auxCode[c]
        /\ AuxCodeFor(auxSettings, auxGain)' = AuxCodeFor(auxSettings, auxGain)
        /\ auxPc = "ch1" /\ auxPc' = "ch2"
    BY <1>9, <1>7, <2>1
  <2>3. \A c \in {0, 1} : auxCode'[c] = AuxCodeFor(auxSettings, auxGain)
    BY <1>1, <2>2 DEF AuxInv, AuxWritten, AuxWhole
  <2>4. AuxWritten'
    BY <1>1, <2>2, <2>3 DEF AuxWritten, AuxWhole
  <2>5. QED
    BY <2>2, <2>4 DEF AuxInv
<1>10. CASE AuxWrite("ch2", 2, "set")
  <2>1. 2 \in AuxChannels
    BY <1>1
  <2>2. /\ DOMAIN auxCode' = AuxChannels /\ AuxTold' /\ auxComplaint' \in BOOLEAN
        /\ auxCode'[2] = AuxCodeFor(auxSettings, auxGain)
        /\ \A c \in AuxChannels \ {2} : auxCode'[c] = auxCode[c]
        /\ AuxCodeFor(auxSettings, auxGain)' = AuxCodeFor(auxSettings, auxGain)
        /\ auxPc = "ch2" /\ auxPc' = "set"
    BY <1>10, <1>7, <2>1
  <2>3. \A c \in AuxChannels : auxCode'[c] = AuxCodeFor(auxSettings, auxGain)
    BY <1>1, <2>2 DEF AuxInv, AuxWritten, AuxWhole
  <2>4. AuxWritten'
    BY <1>1, <2>2, <2>3 DEF AuxWritten, AuxWhole
  <2>5. QED
    BY <2>2, <2>4 DEF AuxInv
<1>11. CASE AuxRemember
  <2>1. /\ AuxWhole(AuxChannels, auxPrevious') /\ auxPc' = "read"
        /\ UNCHANGED <<auxUi, auxCode>>
    BY <1>11 DEF AuxRemember, AuxInv, AuxWritten
  <2>2. QED
    BY <2>1 DEF auxUi, AuxInv, AuxTold, AuxWritten, AuxWhole
<1>12. CASE AuxEnd
  BY <1>12 DEF AuxEnd, auxUi, AuxInv, AuxTold, AuxWritten
<1>13. CASE UNCHANGED auxVars
  BY <1>13 DEF auxVars, AuxInv, AuxTold, AuxWritten, AuxWhole, AuxCodeFor,
               AuxAttenuationCode, EffectiveAuxGain
<1>14. QED
  BY <1>2, <1>3, <1>4, <1>5, <1>6, <1>8, <1>9, <1>10, <1>11, <1>12, <1>13
  DEF AuxNext, AuxDaemon, AuxWrites

(* For gains of any resolution and ends of the daemon between any two       *)
(* channels: a code is remembered only when all three hold it, so a poll    *)
(* that finds nothing to write leaves no channel at an earlier code; and    *)
(* the panel shows what the daemon can read unless it complains.            *)
THEOREM AuxIsWrittenWhole == AuxSpec => [](AuxWritten /\ AuxTold)
<1>1. AuxInit => AuxInv
  BY DEF AuxInit, AuxInv, AuxWritten, AuxTold
<1>2. AuxInv => AuxWritten /\ AuxTold
  BY DEF AuxInv
<1>3. QED
  BY <1>1, <1>2, AuxNextInv, PTL DEF AuxSpec
=============================================================================
