------------------------------ MODULE PadModels ------------------------------
(* What the pad service has learnt of one pad - its response profile, its   *)
(* classifier model and its trigger settings - in memory, on disk and in    *)
(* the live trigger engine, and the receiver on the Mac, which stages a     *)
(* profile or a model under a fresh token, sends the command to load it     *)
(* and reads the published status until it can tell what became of it.      *)
(*                                                                          *)
(* A version stands for the contents of a file. Where memory is changed     *)
(* after one write to disk, a crash between the two is a crash after both.  *)
EXTENDS Naturals, FiniteSets

CONSTANTS
    PadVersions,    \* contents of profiles, models and settings
    PadTokens       \* bound: transfers, in the order of their numbers

ASSUME PadModelsAssumption ==
    /\ PadVersions \subseteq Nat \ {0} /\ 1 \in PadVersions
    /\ PadTokens \in Nat

Nothing == 0        \* no file, no token, nothing loaded, default settings
Zones == {1, 2}
Kinds == {"profile", "model"}
NoProfile == [version |-> Nothing, zones |-> 1]
NoModel == [description |-> Nothing, weights |-> Nothing]

VARIABLES
    pmDisk,     \* files: .profile, .model, .tflite, .trigger, and the config
    pmPad,      \* the PadDefinition: calibration, model, settings, zoneCount
    pmAttempt,  \* calibrationAttempt and modelAttempt
    pmError,    \* calibrationError and modelError are set
    pmEngine,   \* what configureLive gave the engine
    pmPc,       \* the service: "idle", "receiving" or "resetting" a model, "down"
    pmTaken,    \* the token of the model it is receiving
    pmStatus,   \* status.json
    pmQueue,    \* tokens whose load command is in the FIFO
    pmToken,    \* the receiver's last token,
    pmStaged,   \* what each token's staged file holds,
    pmWaits,    \* whether it still polls for its last token,
    pmVerdict,  \* and what it made of it
    pmOutcome,  \* history: what the service did about the last token
    pmSpoiled   \* history: where memory and disk are known to differ
pmVars == <<pmDisk, pmPad, pmAttempt, pmError, pmEngine, pmPc, pmTaken, pmStatus, pmQueue,
            pmToken, pmStaged, pmWaits, pmVerdict, pmOutcome, pmSpoiled>>
pmReceiver == <<pmToken, pmStaged, pmWaits, pmVerdict>>

(* configureLive: a profile for another number of zones is left out.        *)
Effective(pad) ==
    [profile |-> IF pad.profile.zones = pad.zones THEN pad.profile.version ELSE Nothing,
     model |-> pad.model, settings |-> pad.settings, zones |-> pad.zones]
ConfigureLive == pmEngine' = Effective(pmPad')

(* What the constructor makes of the disk.                                  *)
LoadedModel(disk) ==
    IF disk.description # Nothing /\ disk.weights # Nothing
    THEN [description |-> disk.description, weights |-> disk.weights] ELSE NoModel
Loaded(disk) ==
    [profile |-> disk.profile, model |-> LoadedModel(disk),
     settings |-> disk.settings, zones |-> disk.zones]

(* What calibrationJson and modelJson say of it, in the status.             *)
PmProfileState == Effective(pmPad).profile
PmModelState == pmPad.model.description
PmReport ==
    [attempt |-> pmAttempt, error |-> pmError,
     active |-> [profile |-> PmProfileState, model |-> PmModelState]]

PmInit ==
    /\ pmDisk = [profile |-> NoProfile, description |-> Nothing, weights |-> Nothing,
                 settings |-> Nothing, zones |-> 2]
    /\ pmPad = Loaded(pmDisk)
    /\ pmAttempt = [k \in Kinds |-> Nothing]
    /\ pmError = [k \in Kinds |-> FALSE]
    /\ pmEngine = Effective(pmPad)
    /\ pmPc = "idle" /\ pmTaken = Nothing
    /\ pmStatus = PmReport
    /\ pmQueue = {}
    /\ pmToken = Nothing /\ pmStaged = <<>> /\ pmWaits = FALSE /\ pmVerdict = "none"
    /\ pmOutcome = "none"
    /\ pmSpoiled = {}

-----------------------------------------------------------------------------
(* The receiver: response_result and model_result.                          *)

(* A fresh token; the file is staged before the command is sent, and the    *)
(* command may not get through.                                             *)
PmSend ==
    /\ ~pmWaits /\ pmToken < PadTokens
    /\ \E kind \in Kinds, version \in PadVersions, zones \in Zones :
         /\ pmToken' = pmToken + 1
         /\ pmStaged' = [t \in 1..pmToken' |->
              IF t < pmToken' THEN pmStaged[t]
              ELSE [kind |-> kind, version |-> version,
                    zones |-> IF kind = "profile" THEN zones ELSE 1]]
    /\ pmWaits' = TRUE /\ pmVerdict' = "none" /\ pmOutcome' = "none"
    /\ \/ pmQueue' = pmQueue \cup {pmToken'}
       \/ UNCHANGED pmQueue
    /\ UNCHANGED <<pmDisk, pmPad, pmAttempt, pmError, pmEngine, pmPc, pmTaken, pmStatus,
                   pmSpoiled>>

(* Mutant: the status of an earlier attempt passes for an answer.           *)
PmAnsweredAny == pmStatus.attempt[pmStaged[pmToken].kind] # Nothing

(* The status answers this attempt when it names its token.                 *)
PmAnswered == pmStatus.attempt[pmStaged[pmToken].kind] = pmToken
PmActive == pmStatus.active[pmStaged[pmToken].kind] = pmStaged[pmToken].version
PmJudge(verdict) == pmVerdict' = verdict /\ pmWaits' = FALSE

(* A poll of the status, however old it is, or the last one.                *)
PmPoll ==
    /\ pmWaits
    /\ LET refused == pmStatus.error[pmStaged[pmToken].kind]
       IN  \/ PmAnswered /\ ~refused /\ PmActive /\ PmJudge("applied")
           \/ PmAnswered /\ refused /\ PmJudge("rejected")
           \/ PmJudge("timeout")
    /\ UNCHANGED <<pmDisk, pmPad, pmAttempt, pmError, pmEngine, pmPc, pmTaken, pmStatus, pmQueue,
                   pmToken, pmStaged, pmOutcome, pmSpoiled>>

-----------------------------------------------------------------------------
(* The service. It works off the FIFO and publishes between two commands.   *)

PmPublish ==
    /\ pmPc = "idle"
    /\ pmStatus' = PmReport
    /\ UNCHANGED <<pmDisk, pmPad, pmAttempt, pmError, pmEngine, pmPc, pmTaken, pmQueue,
                   pmReceiver, pmOutcome, pmSpoiled>>

PmTake(t, kind) ==
    /\ pmPc = "idle" /\ t \in pmQueue /\ pmStaged[t].kind = kind
    /\ \A u \in pmQueue : t <= u
    /\ pmQueue' = pmQueue \ {t}

(* An attempt was dealt with; the staged files are removed. When the error  *)
(* cannot be written to its file, the attempt is never named.               *)
PmConclude(t, outcome) ==
    LET kind == pmStaged[t].kind
    IN  /\ \/ pmAttempt' = [pmAttempt EXCEPT ![kind] = t]
           \/ outcome = "refused" /\ UNCHANGED pmAttempt
        /\ pmError' = [pmError EXCEPT ![kind] = (outcome = "refused")]
        /\ pmOutcome' = IF t = pmToken THEN outcome ELSE pmOutcome

(* receiveProfile. What cannot be parsed, belongs to another sensor type or *)
(* cannot be written leaves the profile at work alone.                      *)
PmSameProfile(t) ==
    pmPad.profile = [version |-> pmStaged[t].version, zones |-> pmStaged[t].zones]
PmReceiveProfile(t) ==
    /\ PmTake(t, "profile")
    /\ \/ /\ pmStaged[t].zones = pmPad.zones
          /\ PmConclude(t, "accepted")
          /\ IF PmSameProfile(t) THEN UNCHANGED <<pmDisk, pmPad, pmEngine>>
             ELSE LET profile == [version |-> pmStaged[t].version, zones |-> pmStaged[t].zones]
                  IN  /\ pmDisk' = [pmDisk EXCEPT !.profile = profile]
                      /\ pmPad' = [pmPad EXCEPT !.profile = profile]
                      /\ ConfigureLive
          /\ pmSpoiled' = pmSpoiled \ (IF PmSameProfile(t) THEN {} ELSE {"profile"})
       \/ PmConclude(t, "refused") /\ UNCHANGED <<pmDisk, pmPad, pmEngine, pmSpoiled>>
    /\ UNCHANGED <<pmPc, pmTaken, pmStatus, pmReceiver>>

(* receiveModel: the staged copy is loaded first, then its weights take the *)
(* place of the old ones ...                                                *)
PmReceiveModel(t) ==
    /\ PmTake(t, "model")
    /\ \/ /\ pmDisk' = [pmDisk EXCEPT !.weights = pmStaged[t].version]
          /\ pmPc' = "receiving" /\ pmTaken' = t
          /\ UNCHANGED <<pmAttempt, pmError, pmOutcome>>
       \/ PmConclude(t, "refused") /\ UNCHANGED <<pmDisk, pmPc, pmTaken>>
    /\ UNCHANGED <<pmPad, pmEngine, pmStatus, pmReceiver, pmSpoiled>>

(* ... and then its description, if it can be written.                      *)
PmDescribeModel(t) ==
    /\ pmPc = "receiving" /\ pmTaken = t
    /\ pmPc' = "idle" /\ pmTaken' = Nothing
    /\ LET version == pmStaged[t].version
       IN  \/ /\ pmDisk' = [pmDisk EXCEPT !.description = version]
              /\ pmPad' = [pmPad EXCEPT !.model =
                             [description |-> version, weights |-> version]]
              /\ ConfigureLive
              /\ pmSpoiled' = pmSpoiled \ {"model"}
              /\ PmConclude(t, "accepted")
           \/ /\ PmConclude(t, "refused")
              /\ pmSpoiled' = pmSpoiled \cup {"model"}
              /\ UNCHANGED <<pmDisk, pmPad, pmEngine>>
    /\ UNCHANGED <<pmStatus, pmQueue, pmReceiver>>

(* profile-reset.                                                           *)
PmResetProfile ==
    /\ pmPc = "idle"
    /\ pmDisk' = [pmDisk EXCEPT !.profile = NoProfile]
    /\ pmPad' = [pmPad EXCEPT !.profile = NoProfile]
    /\ pmAttempt' = [pmAttempt EXCEPT !["profile"] = Nothing]
    /\ pmError' = [pmError EXCEPT !["profile"] = FALSE]
    /\ pmSpoiled' = pmSpoiled \ {"profile"}
    /\ ConfigureLive
    /\ UNCHANGED <<pmPc, pmTaken, pmStatus, pmQueue, pmReceiver, pmOutcome>>

(* model-reset: the description goes first, then the weights.               *)
PmResetModel ==
    /\ pmPc = "idle"
    /\ pmDisk' = [pmDisk EXCEPT !.description = Nothing]
    /\ pmPc' = "resetting"
    /\ UNCHANGED <<pmTaken, pmPad, pmAttempt, pmError, pmEngine, pmStatus, pmQueue, pmReceiver,
                   pmOutcome, pmSpoiled>>
PmResetWeights ==
    /\ pmPc = "resetting"
    /\ pmDisk' = [pmDisk EXCEPT !.weights = Nothing]
    /\ pmPad' = [pmPad EXCEPT !.model = NoModel]
    /\ pmAttempt' = [pmAttempt EXCEPT !["model"] = Nothing]
    /\ pmError' = [pmError EXCEPT !["model"] = FALSE]
    /\ pmSpoiled' = pmSpoiled \ {"model"}
    /\ ConfigureLive
    /\ pmPc' = "idle"
    /\ UNCHANGED <<pmTaken, pmStatus, pmQueue, pmReceiver, pmOutcome>>

(* trigger and trigger-reset; zones. A write that fails changes nothing.    *)
PmTrigger ==
    /\ pmPc = "idle"
    /\ \E version \in PadVersions \cup {Nothing} :
         /\ pmDisk' = [pmDisk EXCEPT !.settings = version]
         /\ pmPad' = [pmPad EXCEPT !.settings = version]
    /\ pmSpoiled' = pmSpoiled \ {"settings"}
    /\ ConfigureLive
    /\ UNCHANGED <<pmAttempt, pmError, pmPc, pmTaken, pmStatus, pmQueue, pmReceiver, pmOutcome>>

(* Mutant: the engine is not told of another number of zones.               *)
PmZonesUntold ==
    /\ pmPc = "idle"
    /\ \E zones \in Zones :
         /\ pmDisk' = [pmDisk EXCEPT !.zones = zones]
         /\ pmPad' = [pmPad EXCEPT !.zones = zones]
    /\ UNCHANGED <<pmEngine, pmAttempt, pmError, pmPc, pmTaken, pmStatus, pmQueue, pmReceiver,
                   pmOutcome, pmSpoiled>>

PmZones ==
    /\ pmPc = "idle"
    /\ \E zones \in Zones :
         /\ pmDisk' = [pmDisk EXCEPT !.zones = zones]
         /\ pmPad' = [pmPad EXCEPT !.zones = zones]
    /\ ConfigureLive
    /\ UNCHANGED <<pmAttempt, pmError, pmPc, pmTaken, pmStatus, pmQueue, pmReceiver, pmOutcome,
                   pmSpoiled>>

(* settings: the pad is replaced by a candidate that has neither profile,   *)
(* model nor trigger settings; their files stay.                            *)
PmSettings ==
    /\ pmPc = "idle"
    /\ \E zones \in Zones :
         /\ pmDisk' = [pmDisk EXCEPT !.zones = zones]
         /\ pmPad' = [profile |-> NoProfile, model |-> NoModel, settings |-> Nothing,
                      zones |-> zones]
    /\ pmAttempt' = [k \in Kinds |-> Nothing]
    /\ pmError' = [k \in Kinds |-> FALSE]
    /\ pmSpoiled' = {"profile", "model", "settings"}
    /\ ConfigureLive
    /\ UNCHANGED <<pmPc, pmTaken, pmStatus, pmQueue, pmReceiver, pmOutcome>>

(* The service dies and starts again: commands in the FIFO are lost, and    *)
(* the old status stays until the new process publishes its own.            *)
PmCrash ==
    /\ pmPc # "down"
    /\ pmPc' = "down" /\ pmQueue' = {} /\ pmTaken' = Nothing
    /\ UNCHANGED <<pmDisk, pmPad, pmAttempt, pmError, pmEngine, pmStatus, pmReceiver,
                   pmOutcome, pmSpoiled>>
PmStart ==
    /\ pmPc = "down"
    /\ pmPc' = "idle"
    /\ pmPad' = Loaded(pmDisk)
    /\ pmAttempt' = [k \in Kinds |-> Nothing]
    /\ ConfigureLive
    /\ pmSpoiled' = {}
    /\ UNCHANGED <<pmDisk, pmError, pmTaken, pmStatus, pmQueue, pmReceiver, pmOutcome>>

PmNext ==
    \/ PmSend \/ PmPoll
    \/ PmPublish
    \/ \E t \in 1..PadTokens :
         PmReceiveProfile(t) \/ PmReceiveModel(t) \/ PmDescribeModel(t)
    \/ PmResetProfile \/ PmResetModel \/ PmResetWeights
    \/ PmTrigger \/ PmZones \/ PmSettings
    \/ PmCrash \/ PmStart

PmSpec == PmInit /\ [][PmNext]_pmVars

-----------------------------------------------------------------------------
(* The engine decides with what the pad has now: no command that changes    *)
(* the profile, the model, the settings or the zones leaves it with an old  *)
(* one, or with a profile measured for another kind of sensor.              *)
PmCurrent ==
    pmPc = "idle" => pmEngine = Effective(pmPad)

(* A restart changes nothing: what the pad works with is what the next      *)
(* start will load, except where settings made it forget, or a model was    *)
(* replaced half.                                                           *)
PmDurable ==
    pmPc = "idle" =>
      LET next == Loaded(pmDisk)
      IN  /\ pmPad.zones = next.zones
          /\ "profile" \notin pmSpoiled => pmPad.profile = next.profile
          /\ "model" \notin pmSpoiled => pmPad.model = next.model
          /\ "settings" \notin pmSpoiled => pmPad.settings = next.settings

(* What a pad works with is one thing in three places.                      *)
PmConsistent == PmCurrent /\ PmDurable

(* The receiver believes of a transfer only what happened to it, however    *)
(* old the status it read, and whatever restarts and transfers came before. *)
PmVerdicts ==
    /\ pmVerdict = "applied" => pmOutcome = "accepted"
    /\ pmVerdict = "rejected" => pmOutcome = "refused"
=============================================================================
