----------------------------- MODULE AuxControl -----------------------------
(* The Aux input: the panel and the headphone control of the touchscreen    *)
(* publish their settings in two files, and the aux-control daemon polls    *)
(* them and sets the three channels of the attenuator. The daemon is not    *)
(* respawned: it may fail at any channel, and is started again by hand.     *)
EXTENDS Integers

CONSTANT AuxFull    \* a gain is 0 (muted) to AuxFull of AuxFull

ASSUME AuxAssumption == AuxFull \in Nat \ {0}

AuxGains == 0..AuxFull
AuxSettings == [gain : AuxGains, follow : BOOLEAN]
AuxChannels == 0..2

VARIABLES
    auxShown,       \* the panel's slider and toggle
    auxComplaint,   \* it says that it could not update the controls
    auxPublished,   \* publishedSettings, "none" before the first
    auxFile,        \* /run/mimic-aux-input
    auxHeadphones,  \* the headphone slider
    auxVolume,      \* /run/mimic-headphone-volume
    auxPc,          \* the daemon: "off", "read", "volume", or the channel it writes
    auxSettings,    \* settings and
    auxGain,        \* headphoneGain, as it last read them
    auxPrevious,    \* previousCode
    auxCode         \* the codes the attenuator holds
auxVars == <<auxShown, auxComplaint, auxPublished, auxFile, auxHeadphones,
             auxVolume, auxPc, auxSettings, auxGain, auxPrevious, auxCode>>
auxUi == <<auxShown, auxComplaint, auxPublished, auxFile, auxHeadphones, auxVolume>>
auxDaemon == <<auxPc, auxSettings, auxGain, auxPrevious, auxCode>>

Unknown == -1

(* effectiveAuxGain, in parts of AuxFull * AuxFull, and auxAttenuationCode: *)
(* no attenuation is code 0, and less gain is a higher code.                *)
EffectiveAuxGain(settings, volume) ==
    settings.gain * (IF settings.follow THEN volume ELSE AuxFull)
AuxAttenuationCode(gain) == AuxFull * AuxFull - gain
AuxCodeFor(settings, volume) == AuxAttenuationCode(EffectiveAuxGain(settings, volume))

(* The panel takes over what the file holds, or full gain, and publishes it *)
(* (again); so does the headphone slider.                                   *)
AuxInit ==
    /\ auxShown \in {[gain |-> AuxFull, follow |-> FALSE], [gain |-> 0, follow |-> TRUE]}
    /\ auxFile = auxShown /\ auxPublished = auxShown
    /\ auxComplaint = FALSE
    /\ auxHeadphones = AuxFull /\ auxVolume = AuxFull
    /\ auxPc = "off"
    /\ auxSettings = [gain |-> AuxFull, follow |-> FALSE] /\ auxGain = AuxFull
    /\ auxPrevious = Unknown
    /\ auxCode = [c \in AuxChannels |-> Unknown]

(* AuxInputPanel::updateSettings: the file is replaced, or left as it is.   *)
AuxUpdateSettings(settings, succeeds) ==
    /\ auxShown' = settings
    /\ auxComplaint' = (settings # auxPublished /\ ~succeeds)
    /\ IF settings # auxPublished /\ succeeds
       THEN auxFile' = settings /\ auxPublished' = settings
       ELSE UNCHANGED <<auxFile, auxPublished>>
AuxMove ==
    /\ \E settings \in AuxSettings \ {auxShown}, succeeds \in BOOLEAN :
         AuxUpdateSettings(settings, succeeds)
    /\ UNCHANGED <<auxHeadphones, auxVolume, auxDaemon>>

(* updateHeadphoneVolume, also from the wheel and the mute button: always   *)
(* published, and a failure is only logged.                                 *)
AuxTurn ==
    /\ \E volume \in AuxGains \ {auxHeadphones}, succeeds \in BOOLEAN :
         /\ auxHeadphones' = volume
         /\ auxVolume' = IF succeeds THEN volume ELSE auxVolume
    /\ UNCHANGED <<auxShown, auxComplaint, auxPublished, auxFile, auxDaemon>>

-----------------------------------------------------------------------------
(* runAuxControl.                                                           *)
(* Mutant: the code written by an earlier run counts as written.            *)
AuxStartTrusting ==
    /\ auxPc = "off"
    /\ auxPc' = "read"
    /\ auxSettings' = [gain |-> AuxFull, follow |-> FALSE] /\ auxGain' = AuxFull
    /\ UNCHANGED <<auxUi, auxPrevious, auxCode>>

AuxStart ==
    /\ auxPc = "off"
    /\ auxPc' = "read"
    /\ auxSettings' = [gain |-> AuxFull, follow |-> FALSE] /\ auxGain' = AuxFull
    /\ auxPrevious' = Unknown
    /\ UNCHANGED <<auxUi, auxCode>>

(* readSettings: one file, then the other.                                  *)
AuxReadSettings ==
    /\ auxPc = "read"
    /\ auxSettings' = auxFile
    /\ auxPc' = "volume"
    /\ UNCHANGED <<auxUi, auxGain, auxPrevious, auxCode>>

AuxReadVolume ==
    /\ auxPc = "volume"
    /\ auxGain' = auxVolume
    /\ auxPc' = IF AuxCodeFor(auxSettings, auxVolume) # auxPrevious THEN "ch0" ELSE "read"
    /\ UNCHANGED <<auxUi, auxSettings, auxPrevious, auxCode>>

(* writeAttenuation, a channel at a time. The first time, the outputs of    *)
(* the board are enabled after the last, before the code is remembered.     *)
AuxWrite(pc, channel, next) ==
    /\ auxPc = pc
    /\ auxCode' = [auxCode EXCEPT ![channel] = AuxCodeFor(auxSettings, auxGain)]
    /\ auxPc' = next
    /\ UNCHANGED <<auxUi, auxSettings, auxGain, auxPrevious>>
AuxWrites == AuxWrite("ch0", 0, "ch1") \/ AuxWrite("ch1", 1, "ch2") \/ AuxWrite("ch2", 2, "set")

AuxRemember ==
    /\ auxPc = "set"
    /\ auxPrevious' = AuxCodeFor(auxSettings, auxGain)
    /\ auxPc' = "read"
    /\ UNCHANGED <<auxUi, auxSettings, auxGain, auxCode>>

(* A signal, the regulator refusing a code, or the board its outputs. The   *)
(* attenuator keeps what it was given.                                      *)
AuxEnd ==
    /\ auxPc # "off"
    /\ auxPc' = "off"
    /\ UNCHANGED <<auxUi, auxSettings, auxGain, auxPrevious, auxCode>>

AuxDaemon == AuxReadSettings \/ AuxReadVolume \/ AuxWrites \/ AuxRemember

AuxNext == AuxMove \/ AuxTurn \/ AuxStart \/ AuxDaemon \/ AuxEnd

(* A daemon that runs polls every 20 ms.                                    *)
AuxFairness == WF_auxVars(AuxDaemon)
AuxSpec == AuxInit /\ [][AuxNext]_auxVars /\ AuxFairness

-----------------------------------------------------------------------------
(* What is heard is what is shown: once the controls are left alone, are    *)
(* published, and the daemon stays up, all three channels come to hold, and *)
(* keep, the code of the settings - "Linked headphone mute must mute Aux",  *)
(* whatever writes of earlier settings or earlier runs of the daemon were   *)
(* cut short between two channels.                                          *)
AuxSettled ==
    /\ ~auxComplaint /\ auxVolume = auxHeadphones
    /\ auxPc # "off"
AuxHeard == \A c \in AuxChannels : auxCode[c] = AuxCodeFor(auxShown, auxHeadphones)
AuxFollows == <>[][FALSE]_<<auxShown, auxHeadphones>> /\ <>[]AuxSettled => <>[]AuxHeard
=============================================================================
