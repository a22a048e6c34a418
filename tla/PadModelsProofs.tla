--------------------------- MODULE PadModelsProofs ---------------------------
(* Memory, disk and engine agree about a pad, and the receiver is told the  *)
(* truth about its transfers: for any versions and any number of transfers, *)
(* and with crashes between any two steps.                                  *)
EXTENDS PadModels, TLAPS

PmVersion == PadVersions \cup {Nothing}
PmProfileFile == [version : PmVersion, zones : Zones]
PmStagedFile == [kind : Kinds, version : PadVersions, zones : Zones]

PmTypeOK ==
    /\ pmDisk \in [profile : PmProfileFile, description : PmVersion, weights : PmVersion,
                   settings : PmVersion, zones : Zones]
    /\ pmPad \in [profile : PmProfileFile,
                  model : [description : PmVersion, weights : PmVersion],
                  settings : PmVersion, zones : Zones]
    /\ pmPc \in {"idle", "receiving", "resetting", "down"}
    /\ pmToken \in Nat
    /\ pmStaged \in [1..pmToken -> PmStagedFile]
    /\ pmQueue \subseteq 1..pmToken
    /\ pmPc = "receiving" => pmTaken \in 1..pmToken

(* The engine is told in the same step as the pad changes.                  *)
PmTold == pmEngine = Effective(pmPad)

(* What is durable while the service runs, also between the two files of a  *)
(* model; and the weights that wait for their description.                  *)
PmKept ==
    /\ pmPc # "down" =>
         /\ pmPad.zones = pmDisk.zones
         /\ "profile" \notin pmSpoiled => pmPad.profile = pmDisk.profile
         /\ "settings" \notin pmSpoiled => pmPad.settings = pmDisk.settings
    /\ pmPc = "idle" /\ "model" \notin pmSpoiled => pmPad.model = LoadedModel(pmDisk)
    /\ pmPc = "receiving" => pmDisk.weights = pmStaged[pmTaken].version

(* Attempts carry tokens.                                                   *)
PmNamed ==
    /\ pmAttempt \in [Kinds -> 0..pmToken] /\ pmError \in [Kinds -> BOOLEAN]
    /\ pmStatus.attempt \in [Kinds -> 0..pmToken]
    /\ pmStatus.error \in [Kinds -> BOOLEAN]

(* Transfers are taken in the order of their tokens, so the last one is     *)
(* dealt with after all others, once.                                       *)
PmInOrder ==
    /\ pmPc = "receiving" => \A u \in pmQueue : pmTaken < u
    /\ pmOutcome # "none" => pmQueue = {} /\ pmPc # "receiving"

(* An attempt that carries the last token tells what became of it, in       *)
(* memory and in the status published from there, however old that is.      *)
PmTells(attempt, error) ==
    LET kind == pmStaged[pmToken].kind
    IN  pmToken > 0 /\ attempt[kind] = pmToken =>
          pmOutcome = IF error[kind] THEN "refused" ELSE "accepted"
PmAnswers ==
    /\ PmNamed /\ PmInOrder
    /\ PmTells(pmAttempt, pmError) /\ PmTells(pmStatus.attempt, pmStatus.error)
    /\ pmWaits => pmToken > 0
    /\ PmVerdicts

PmInv == PmTypeOK /\ PmTold /\ PmKept /\ PmAnswers

-----------------------------------------------------------------------------
(* Versions are not "no file".                                              *)
LEMMA PmVersions == Nothing \notin PadVersions /\ 1 \in Zones /\ 2 \in Zones
  BY PadModelsAssumption DEF Nothing, Zones

LEMMA PmInitInv == PmInit => PmInv
<1> SUFFICES ASSUME PmInit PROVE PmInv
  OBVIOUS
<1> USE PmVersions DEF PmInit, Loaded, LoadedModel, NoModel, NoProfile, PmVersion, PmProfileFile
<1>1. PmTypeOK
  BY DEF PmTypeOK, Nothing
<1>2. PmTold
  BY DEF PmTold
<1>3. PmKept
  BY DEF PmKept
<1>4. PmAnswers
  <2>1. PmNamed
    BY DEF PmNamed, PmReport, Nothing
  <2>2. QED
    BY <2>1 DEF PmAnswers, PmInOrder, PmTells, PmVerdicts, Nothing
<1>5. QED
  BY <1>1, <1>2, <1>3, <1>4 DEF PmInv

(* The values of the variables.                                             *)
LEMMA PmTypeNext == PmInv /\ [PmNext]_pmVars => PmTypeOK'
<1> SUFFICES ASSUME PmInv, [PmNext]_pmVars PROVE PmTypeOK'
  OBVIOUS
<1>1. CASE PmSend
  <2> USE <1>1 DEF PmSend, PmInv, PmTypeOK
  <2>1. PICK kind \in Kinds, version \in PadVersions, zones \in Zones :
          /\ pmToken' = pmToken + 1
          /\ pmStaged' = [u \in 1..pmToken' |->
               IF u < pmToken' THEN pmStaged[u]
               ELSE [kind |-> kind, version |-> version,
                     zones |-> IF kind = "profile" THEN zones ELSE 1]]
    OBVIOUS
  <2>2. pmToken' \in Nat /\ \A u \in 1..pmToken' : u < pmToken' => u \in 1..pmToken
    BY <2>1
  <2>3. [kind |-> kind, version |-> version,
         zones |-> IF kind = "profile" THEN zones ELSE 1] \in PmStagedFile
    BY PmVersions DEF PmStagedFile
  <2>4. pmStaged' \in [1..pmToken' -> PmStagedFile]
    BY <2>1, <2>2, <2>3
  <2>5. pmQueue' \subseteq 1..pmToken' /\ 1..pmToken \subseteq 1..pmToken'
    <3>1. 1..pmToken \subseteq 1..pmToken'
      BY <2>1
    <3>2. pmToken' \in 1..pmToken'
      BY <2>1
    <3>3. pmQueue' \subseteq pmQueue \cup {pmToken'}
      OBVIOUS
    <3>4. QED
      BY <3>1, <3>2, <3>3
  <2>6. QED
    BY <2>2, <2>4, <2>5
<1>2. CASE PmPoll
  BY <1>2, PmVersions
     DEF PmPoll, PmJudge, PmAnswered, PmActive, pmReceiver, PmInv, PmTypeOK, PmVersion, PmProfileFile, PmStagedFile, NoProfile, NoModel, Loaded, LoadedModel
<1>3. CASE PmPublish
  BY <1>3, PmVersions
     DEF PmPublish, pmReceiver, PmInv, PmTypeOK, PmVersion, PmProfileFile, PmStagedFile, NoProfile, NoModel, Loaded, LoadedModel
<1>4. ASSUME NEW t \in 1..PadTokens, PmReceiveProfile(t) PROVE PmTypeOK'
  <2> USE <1>4 DEF PmReceiveProfile, PmTake, pmReceiver, PmInv, PmTypeOK
  <2>1. [version |-> pmStaged[t].version, zones |-> pmStaged[t].zones] \in PmProfileFile
    BY DEF PmStagedFile, PmProfileFile, PmVersion
  <2>2. pmDisk' \in [profile : PmProfileFile, description : PmVersion, weights : PmVersion,
                    settings : PmVersion, zones : Zones]
    BY <2>1
  <2>3. pmPad' \in [profile : PmProfileFile,
                   model : [description : PmVersion, weights : PmVersion],
                   settings : PmVersion, zones : Zones]
    BY <2>1
  <2>4. QED
    BY <2>2, <2>3
<1>5. ASSUME NEW t \in 1..PadTokens, PmReceiveModel(t) PROVE PmTypeOK'
  BY <1>5, PmVersions
     DEF PmReceiveModel, PmTake, PmConclude, pmReceiver, PmInv, PmTypeOK, PmVersion, PmProfileFile, PmStagedFile, NoProfile, NoModel, Loaded, LoadedModel
<1>6. ASSUME NEW t \in 1..PadTokens, PmDescribeModel(t) PROVE PmTypeOK'
  <2> USE <1>6 DEF PmDescribeModel, PmConclude, pmReceiver, PmInv, PmTypeOK
  <2>1. pmStaged[t].version \in PmVersion
    BY DEF PmStagedFile, PmVersion
  <2>2. pmDisk' \in [profile : PmProfileFile, description : PmVersion, weights : PmVersion,
                   settings : PmVersion, zones : Zones]
    BY <2>1
  <2>3. pmPad' \in [profile : PmProfileFile,
                   model : [description : PmVersion, weights : PmVersion],
                   settings : PmVersion, zones : Zones]
    BY <2>1
  <2>4. QED
    BY <2>2, <2>3
<1>7. CASE PmResetProfile
  BY <1>7, PmVersions
     DEF PmResetProfile, pmReceiver, PmInv, PmTypeOK, PmVersion, PmProfileFile, PmStagedFile, NoProfile, NoModel, Loaded, LoadedModel
<1>8. CASE PmResetModel
  BY <1>8, PmVersions
     DEF PmResetModel, pmReceiver, PmInv, PmTypeOK, PmVersion, PmProfileFile, PmStagedFile, NoProfile, NoModel, Loaded, LoadedModel
<1>9. CASE PmResetWeights
  BY <1>9, PmVersions
     DEF PmResetWeights, pmReceiver, PmInv, PmTypeOK, PmVersion, PmProfileFile, PmStagedFile, NoProfile, NoModel, Loaded, LoadedModel
<1>10. CASE PmTrigger
  BY <1>10, PmVersions
     DEF PmTrigger, pmReceiver, PmInv, PmTypeOK, PmVersion, PmProfileFile, PmStagedFile, NoProfile, NoModel, Loaded, LoadedModel
<1>11. CASE PmZones
  BY <1>11, PmVersions
     DEF PmZones, pmReceiver, PmInv, PmTypeOK, PmVersion, PmProfileFile, PmStagedFile, NoProfile, NoModel, Loaded, LoadedModel
<1>12. CASE PmSettings
  BY <1>12, PmVersions
     DEF PmSettings, pmReceiver, PmInv, PmTypeOK, PmVersion, PmProfileFile, PmStagedFile, NoProfile, NoModel, Loaded, LoadedModel
<1>13. CASE PmCrash
  BY <1>13, PmVersions
     DEF PmCrash, pmReceiver, PmInv, PmTypeOK, PmVersion, PmProfileFile, PmStagedFile, NoProfile, NoModel, Loaded, LoadedModel
<1>14. CASE PmStart
  BY <1>14, PmVersions
     DEF PmStart, pmReceiver, PmInv, PmTypeOK, PmVersion, PmProfileFile, PmStagedFile, NoProfile, NoModel, Loaded, LoadedModel
<1>15. CASE UNCHANGED pmVars
  BY <1>15, PmVersions
     DEF pmVars, pmReceiver, PmInv, PmTypeOK, PmVersion, PmProfileFile, PmStagedFile, NoProfile, NoModel, Loaded, LoadedModel
<1>16. QED
  BY <1>1, <1>2, <1>3, <1>4, <1>5, <1>6, <1>7, <1>8, <1>9, <1>10,
     <1>11, <1>12, <1>13, <1>14, <1>15
     DEF PmNext

(* No command changes the pad behind the engine's back.                     *)
LEMMA PmToldNext == PmInv /\ [PmNext]_pmVars => PmTold'
<1> SUFFICES ASSUME PmInv, [PmNext]_pmVars PROVE PmTold'
  OBVIOUS
<1>1. CASE PmSend
  BY <1>1
     DEF PmSend, PmInv, PmTold, ConfigureLive
<1>2. CASE PmPoll
  BY <1>2
     DEF PmPoll, PmJudge, PmAnswered, PmActive, PmInv, PmTold, ConfigureLive
<1>3. CASE PmPublish
  BY <1>3
     DEF PmPublish, PmInv, PmTold, ConfigureLive
<1>4. ASSUME NEW t \in 1..PadTokens, PmReceiveProfile(t) PROVE PmTold'
  BY <1>4
     DEF PmReceiveProfile, PmTake, PmConclude, PmSameProfile, PmInv, PmTold, ConfigureLive
<1>5. ASSUME NEW t \in 1..PadTokens, PmReceiveModel(t) PROVE PmTold'
  BY <1>5
     DEF PmReceiveModel, PmTake, PmConclude, PmInv, PmTold, ConfigureLive
<1>6. ASSUME NEW t \in 1..PadTokens, PmDescribeModel(t) PROVE PmTold'
  BY <1>6
     DEF PmDescribeModel, PmConclude, PmInv, PmTold, ConfigureLive
<1>7. CASE PmResetProfile
  BY <1>7
     DEF PmResetProfile, PmInv, PmTold, ConfigureLive
<1>8. CASE PmResetModel
  BY <1>8
     DEF PmResetModel, PmInv, PmTold, ConfigureLive
<1>9. CASE PmResetWeights
  BY <1>9
     DEF PmResetWeights, PmInv, PmTold, ConfigureLive
<1>10. CASE PmTrigger
  BY <1>10
     DEF PmTrigger, PmInv, PmTold, ConfigureLive
<1>11. CASE PmZones
  BY <1>11
     DEF PmZones, PmInv, PmTold, ConfigureLive
<1>12. CASE PmSettings
  BY <1>12
     DEF PmSettings, PmInv, PmTold, ConfigureLive
<1>13. CASE PmCrash
  BY <1>13
     DEF PmCrash, PmInv, PmTold, ConfigureLive
<1>14. CASE PmStart
  BY <1>14
     DEF PmStart, PmInv, PmTold, ConfigureLive
<1>15. CASE UNCHANGED pmVars
  BY <1>15
     DEF pmVars, PmInv, PmTold, ConfigureLive
<1>16. QED
  BY <1>1, <1>2, <1>3, <1>4, <1>5, <1>6, <1>7, <1>8, <1>9, <1>10,
     <1>11, <1>12, <1>13, <1>14, <1>15
     DEF PmNext

(* Memory follows the disk.                                                 *)
LEMMA PmKeptNext == PmInv /\ [PmNext]_pmVars => PmKept'
<1> SUFFICES ASSUME PmInv, [PmNext]_pmVars PROVE PmKept'
  OBVIOUS
<1>1. CASE PmSend
  BY <1>1, PmVersions
     DEF PmSend, pmReceiver, PmInv, PmTypeOK, PmVersion, PmProfileFile, PmStagedFile, PmKept, NoProfile, NoModel, Loaded, LoadedModel
<1>2. CASE PmPoll
  BY <1>2, PmVersions
     DEF PmPoll, PmJudge, PmAnswered, PmActive, pmReceiver, PmInv, PmTypeOK, PmVersion, PmProfileFile, PmStagedFile, PmKept, NoProfile, NoModel, Loaded, LoadedModel
<1>3. CASE PmPublish
  BY <1>3, PmVersions
     DEF PmPublish, pmReceiver, PmInv, PmTypeOK, PmVersion, PmProfileFile, PmStagedFile, PmKept, NoProfile, NoModel, Loaded, LoadedModel
<1>4. ASSUME NEW t \in 1..PadTokens, PmReceiveProfile(t) PROVE PmKept'
  BY <1>4, PmVersions
     DEF PmReceiveProfile, PmTake, PmConclude, PmSameProfile, pmReceiver, PmInv, PmTypeOK, PmVersion, PmProfileFile, PmStagedFile, PmKept, NoProfile, NoModel, Loaded, LoadedModel
<1>5. ASSUME NEW t \in 1..PadTokens, PmReceiveModel(t) PROVE PmKept'
  BY <1>5, PmVersions
     DEF PmReceiveModel, PmTake, PmConclude, pmReceiver, PmInv, PmTypeOK, PmVersion, PmProfileFile, PmStagedFile, PmKept, NoProfile, NoModel, Loaded, LoadedModel
<1>6. ASSUME NEW t \in 1..PadTokens, PmDescribeModel(t) PROVE PmKept'
  BY <1>6, PmVersions
     DEF PmDescribeModel, PmConclude, pmReceiver, PmInv, PmTypeOK, PmVersion, PmProfileFile, PmStagedFile, PmKept, NoProfile, NoModel, Loaded, LoadedModel
<1>7. CASE PmResetProfile
  BY <1>7, PmVersions
     DEF PmResetProfile, pmReceiver, PmInv, PmTypeOK, PmVersion, PmProfileFile, PmStagedFile, PmKept, NoProfile, NoModel, Loaded, LoadedModel
<1>8. CASE PmResetModel
  BY <1>8, PmVersions
     DEF PmResetModel, pmReceiver, PmInv, PmTypeOK, PmVersion, PmProfileFile, PmStagedFile, PmKept, NoProfile, NoModel, Loaded, LoadedModel
<1>9. CASE PmResetWeights
  BY <1>9, PmVersions
     DEF PmResetWeights, pmReceiver, PmInv, PmTypeOK, PmVersion, PmProfileFile, PmStagedFile, PmKept, NoProfile, NoModel, Loaded, LoadedModel
<1>10. CASE PmTrigger
  BY <1>10, PmVersions
     DEF PmTrigger, pmReceiver, PmInv, PmTypeOK, PmVersion, PmProfileFile, PmStagedFile, PmKept, NoProfile, NoModel, Loaded, LoadedModel
<1>11. CASE PmZones
  BY <1>11, PmVersions
     DEF PmZones, pmReceiver, PmInv, PmTypeOK, PmVersion, PmProfileFile, PmStagedFile, PmKept, NoProfile, NoModel, Loaded, LoadedModel
<1>12. CASE PmSettings
  BY <1>12, PmVersions
     DEF PmSettings, pmReceiver, PmInv, PmTypeOK, PmVersion, PmProfileFile, PmStagedFile, PmKept, NoProfile, NoModel, Loaded, LoadedModel
<1>13. CASE PmCrash
  BY <1>13, PmVersions
     DEF PmCrash, pmReceiver, PmInv, PmTypeOK, PmVersion, PmProfileFile, PmStagedFile, PmKept, NoProfile, NoModel, Loaded, LoadedModel
<1>14. CASE PmStart
  BY <1>14, PmVersions
     DEF PmStart, pmReceiver, PmInv, PmTypeOK, PmVersion, PmProfileFile, PmStagedFile, PmKept, NoProfile, NoModel, Loaded, LoadedModel
<1>15. CASE UNCHANGED pmVars
  BY <1>15, PmVersions
     DEF pmVars, pmReceiver, PmInv, PmTypeOK, PmVersion, PmProfileFile, PmStagedFile, PmKept, NoProfile, NoModel, Loaded, LoadedModel
<1>16. QED
  BY <1>1, <1>2, <1>3, <1>4, <1>5, <1>6, <1>7, <1>8, <1>9, <1>10,
     <1>11, <1>12, <1>13, <1>14, <1>15
     DEF PmNext

(* What an attempt that ended leaves behind. It was the last one only if    *)
(* nothing waits behind it.                                                 *)
LEMMA PmConcluded ==
  ASSUME PmInv, NEW t \in 1..pmToken, NEW outcome \in {"accepted", "refused"},
         PmConclude(t, outcome), pmOutcome = "none",
         pmQueue' \subseteq pmQueue \ {t}, \A u \in pmQueue : t <= u,
         pmPc' # "receiving", UNCHANGED <<pmStatus, pmReceiver>>
  PROVE  PmAnswers'
<1> PICK kind \in Kinds : kind = pmStaged[t].kind
  BY DEF PmInv, PmTypeOK, PmStagedFile
<1> PICK error \in BOOLEAN : error = (outcome = "refused")
  OBVIOUS
<1>1. /\ pmAttempt' = [pmAttempt EXCEPT ![kind] = t] \/ (pmAttempt' = pmAttempt /\ error)
      /\ pmError' = [pmError EXCEPT ![kind] = error]
      /\ pmOutcome' = IF t = pmToken THEN outcome ELSE pmOutcome
  BY DEF PmConclude
<1>2. PmNamed /\ pmToken \in Nat /\ pmToken' = pmToken /\ pmStatus' = pmStatus
  BY DEF PmInv, PmTypeOK, PmAnswers, pmReceiver
<1>3. PmNamed'
  <2>1. pmAttempt' \in [Kinds -> 0..pmToken]
    BY <1>1, <1>2 DEF PmNamed
  <2>2. pmError' \in [Kinds -> BOOLEAN]
    BY <1>1, <1>2 DEF PmNamed
  <2>3. QED
    BY <1>2, <2>1, <2>2 DEF PmNamed
<1> USE DEF PmInv, PmTypeOK, PmAnswers, pmReceiver
<1>4. PmInOrder'
  <2>1. t = pmToken => pmQueue' = {}
    OBVIOUS
  <2>2. QED
    BY <1>1, <2>1 DEF PmInOrder
<1>5. PmTells(pmAttempt, pmError)'
  <2>1. CASE t = pmToken
    <3>1. pmError'[kind] = error
      BY <1>1, <1>2 DEF PmNamed
    <3>2. pmOutcome' = IF error THEN "refused" ELSE "accepted"
      BY <1>1, <2>1
    <3>3. QED
      BY <2>1, <3>1, <3>2 DEF PmTells
  <2>2. CASE t # pmToken
    <3>1. pmToken > 0 /\ pmAttempt'[pmStaged[pmToken].kind] # pmToken
      BY <1>1, <1>2, <2>2 DEF PmTells, PmNamed, PmStagedFile
    <3>2. QED
      BY <3>1 DEF PmTells
  <2>3. QED
    BY <2>1, <2>2
<1>6. PmTells(pmStatus.attempt, pmStatus.error)'
  BY <1>1 DEF PmTells
<1>7. PmVerdicts'
  BY <1>1 DEF PmVerdicts
<1>8. QED
  BY <1>3, <1>4, <1>5, <1>6, <1>7

(* The commands that concern no transfer name at most fewer attempts.       *)
PmAside ==
    /\ UNCHANGED <<pmStatus, pmReceiver, pmOutcome>>
    /\ pmQueue' \subseteq pmQueue /\ pmPc' # "receiving"
    /\ pmAttempt' \in [Kinds -> 0..pmToken] /\ pmError' \in [Kinds -> BOOLEAN]
    /\ \A k \in Kinds :
         pmAttempt'[k] = 0 \/ (pmAttempt'[k] = pmAttempt[k] /\ pmError'[k] = pmError[k])

PmResets == PmResetProfile \/ PmResetModel \/ PmResetWeights \/ PmSettings
LEMMA PmAsideSteps ==
  ASSUME PmNamed, pmToken \in Nat,
         PmResets \/ PmTrigger \/ PmZones \/ PmCrash \/ PmStart
  PROVE  PmAside
<1> USE DEF PmAside, PmNamed, Nothing, Kinds, pmReceiver
<1>1. CASE PmResetProfile
  BY <1>1 DEF PmResetProfile
<1>2. CASE PmResetModel
  BY <1>2 DEF PmResetModel
<1>3. CASE PmResetWeights
  BY <1>3 DEF PmResetWeights
<1>4. CASE PmSettings
  BY <1>4 DEF PmSettings
<1>5. CASE PmTrigger \/ PmZones \/ PmCrash \/ PmStart
  BY <1>5 DEF PmTrigger, PmZones, PmCrash, PmStart
<1>6. QED
  BY <1>1, <1>2, <1>3, <1>4, <1>5 DEF PmResets

LEMMA PmAsideAnswers == PmInv /\ PmAside => PmAnswers'
<1> SUFFICES ASSUME PmInv, PmAside PROVE PmAnswers'
  OBVIOUS
<1> USE DEF PmInv, PmTypeOK, PmAnswers, PmAside, pmReceiver
<1>1. PmNamed' /\ PmInOrder'
  BY DEF PmNamed, PmInOrder
<1>2. pmToken > 0 => pmStaged[pmToken].kind \in Kinds
  BY DEF PmStagedFile
<1>3. PmTells(pmAttempt, pmError)' /\ PmTells(pmStatus.attempt, pmStatus.error)'
  BY <1>2 DEF PmTells
<1>4. QED
  BY <1>1, <1>3 DEF PmVerdicts

(* The receiver is told the truth.                                          *)
LEMMA PmAnswersNext == PmInv /\ [PmNext]_pmVars => PmAnswers'
<1> SUFFICES ASSUME PmInv, [PmNext]_pmVars PROVE PmAnswers'
  OBVIOUS
<1> USE DEF PmInv, PmTypeOK, PmAnswers, pmReceiver
<1>1. CASE PmSend
  <2> USE <1>1 DEF PmSend
  <2>1. pmToken' = pmToken + 1 /\ pmToken' \in Nat
    OBVIOUS
  <2>2. PmNamed'
    BY <2>1 DEF PmNamed
  <2>3. PmInOrder'
    <3>1. pmPc = "receiving" => pmTaken < pmToken'
      BY <2>1
    <3>2. QED
      BY <3>1 DEF PmInOrder
  <2>4. \A k \in Kinds : pmAttempt'[k] # pmToken' /\ pmStatus'.attempt[k] # pmToken'
    BY <2>1 DEF PmNamed
  <2>5. pmStaged'[pmToken'].kind \in Kinds
    BY <2>1
  <2>6. PmTells(pmAttempt, pmError)' /\ PmTells(pmStatus.attempt, pmStatus.error)'
    BY <2>4, <2>5 DEF PmTells
  <2>7. QED
    BY <2>2, <2>3, <2>6 DEF PmVerdicts
<1>2. CASE PmPoll
  <2> USE <1>2 DEF PmPoll, PmJudge
  <2>1. PmNamed' /\ PmInOrder'
    BY DEF PmNamed, PmInOrder
  <2>2. PmTells(pmAttempt, pmError)' /\ PmTells(pmStatus.attempt, pmStatus.error)'
    BY DEF PmTells
  <2>3. PmVerdicts'
    <3>1. CASE PmAnswered
      BY <3>1 DEF PmVerdicts, PmTells, PmAnswered
    <3>2. CASE pmVerdict' = "timeout"
      BY <3>2 DEF PmVerdicts
    <3>3. QED
      BY <3>1, <3>2
  <2>4. QED
    BY <2>1, <2>2, <2>3
<1>3. CASE PmPublish
  <2> USE <1>3 DEF PmPublish
  <2>1. pmStatus'.attempt = pmAttempt /\ pmStatus'.error = pmError
    BY DEF PmReport
  <2>2. PmNamed' /\ PmInOrder'
    BY <2>1 DEF PmNamed, PmInOrder
  <2>3. PmTells(pmAttempt, pmError)' /\ PmTells(pmStatus.attempt, pmStatus.error)'
    BY <2>1 DEF PmTells
  <2>4. QED
    BY <2>2, <2>3 DEF PmVerdicts
<1>4. ASSUME NEW t \in 1..PadTokens, PmReceiveProfile(t) PROVE PmAnswers'
  <2>1. PICK outcome \in {"accepted", "refused"} : PmConclude(t, outcome)
    BY <1>4 DEF PmReceiveProfile
  <2>2. /\ t \in pmQueue /\ pmQueue' = pmQueue \ {t} /\ \A u \in pmQueue : t <= u
        /\ pmPc' # "receiving" /\ UNCHANGED <<pmStatus, pmReceiver>>
    BY <1>4 DEF PmReceiveProfile, PmTake
  <2>3. t \in 1..pmToken /\ pmOutcome = "none"
    BY <2>2 DEF PmInOrder
  <2>4. QED
    BY <2>1, <2>2, <2>3, PmConcluded
<1>5. ASSUME NEW t \in 1..PadTokens, PmReceiveModel(t) PROVE PmAnswers'
  <2>1. /\ t \in pmQueue /\ pmQueue' = pmQueue \ {t} /\ \A u \in pmQueue : t <= u
        /\ pmPc = "idle" /\ UNCHANGED <<pmStatus, pmReceiver>>
    BY <1>5 DEF PmReceiveModel, PmTake
  <2>2. t \in 1..pmToken /\ pmOutcome = "none"
    BY <2>1 DEF PmInOrder
  <2>3. CASE PmConclude(t, "refused") /\ UNCHANGED pmPc
    BY <2>1, <2>2, <2>3, PmConcluded
  <2>4. CASE pmPc' = "receiving" /\ pmTaken' = t /\ UNCHANGED <<pmAttempt, pmError, pmOutcome>>
    <3>1. PmNamed'
      BY <2>1, <2>4 DEF PmNamed
    <3>2. \A u \in pmQueue' : t < u
      BY <2>1, <2>2
    <3>3. PmInOrder'
      BY <2>2, <2>4, <3>2 DEF PmInOrder
    <3>4. PmTells(pmAttempt, pmError)' /\ PmTells(pmStatus.attempt, pmStatus.error)'
      BY <2>1, <2>4 DEF PmTells
    <3>5. QED
      BY <2>1, <2>4, <3>1, <3>3, <3>4 DEF PmVerdicts
  <2>5. QED
    BY <1>5, <2>3, <2>4 DEF PmReceiveModel
<1>6. ASSUME NEW t \in 1..PadTokens, PmDescribeModel(t) PROVE PmAnswers'
  <2>1. PICK outcome \in {"accepted", "refused"} : PmConclude(t, outcome)
    BY <1>6 DEF PmDescribeModel
  <2>2. /\ pmPc = "receiving" /\ pmTaken = t /\ UNCHANGED pmQueue
        /\ pmPc' # "receiving" /\ UNCHANGED <<pmStatus, pmReceiver>>
    BY <1>6 DEF PmDescribeModel
  <2>3. /\ t \in 1..pmToken /\ pmOutcome = "none" /\ pmQueue' \subseteq pmQueue \ {t}
        /\ \A u \in pmQueue : t <= u
    BY <2>2 DEF PmInOrder
  <2>4. QED
    BY <2>1, <2>2, <2>3, PmConcluded
<1>7. CASE PmResets \/ PmTrigger \/ PmZones \/ PmCrash \/ PmStart
  BY <1>7, PmAsideSteps, PmAsideAnswers
<1>8. CASE UNCHANGED pmVars
  <2> USE <1>8 DEF pmVars
  <2>1. PmNamed' /\ PmInOrder'
    BY DEF PmNamed, PmInOrder
  <2>2. PmTells(pmAttempt, pmError)' /\ PmTells(pmStatus.attempt, pmStatus.error)'
    BY DEF PmTells
  <2>3. QED
    BY <2>1, <2>2 DEF PmVerdicts
<1>9. QED
  BY <1>1, <1>2, <1>3, <1>4, <1>5, <1>6, <1>7, <1>8 DEF PmNext, PmResets

(* The invariant holds in every state.                                      *)
THEOREM PmInvariant == PmSpec => []PmInv
<1>1. PmInv /\ [PmNext]_pmVars => PmInv'
  BY PmTypeNext, PmToldNext, PmKeptNext, PmAnswersNext DEF PmInv
<1>2. QED
  BY <1>1, PmInitInv, PTL DEF PmSpec

(* The live triggers work with what the pad has, and the pad has what the   *)
(* next start of the service will load (configureLive, receiveProfile,      *)
(* receiveModel, the reset commands, settings and zones).                   *)
THEOREM PmConsistency == PmSpec => []PmConsistent
<1>1. PmInv => PmConsistent
  BY DEF PmInv, PmTold, PmKept, PmConsistent, PmCurrent, PmDurable, Loaded
<1>2. QED
  BY <1>1, PmInvariant, PTL

(* The verdict of the receiver is true, however old the status is that it   *)
(* read, whatever transfers, resets and restarts came before, and although  *)
(* a service that cannot write an error never names the attempt             *)
(* (response_result, model_result).                                         *)
THEOREM PmVerdictsTrue == PmSpec => []PmVerdicts
<1>1. PmInv => PmVerdicts
  BY DEF PmInv, PmAnswers
<1>2. QED
  BY <1>1, PmInvariant, PTL
=============================================================================
