------------------------------- MODULE MCParts -------------------------------
(* The smaller parts of the system in one state space: the first state      *)
(* picks a part, and only that part takes steps, in its own variables. The  *)
(* others stay in an initial state. A part has the fairness of its own      *)
(* specification as long as it is the one that was picked.                  *)
EXTENDS AdcRing, TriggerEngine, MidiStream, AudioTest, AuxControl, PadModels,
        MidiPanel, TriggerPanel, CalibrationPanel, CommandFifo

CONSTANTS
    shell, panel,
    Picked      \* the parts to explore

VARIABLE part

(* Two USB ports, so that one moves up when the other is unplugged.         *)
Ports == <<"din", "usb1", "usb2">>

PartsInit ==
    /\ RingInit /\ TrigInit /\ StreamInit /\ AudioInit /\ AuxInit /\ PmInit
    /\ MpInit /\ TpInit /\ PcInit /\ FifoInit
    /\ part \in Picked
    /\ part # "ring" => ringMode = "sequence"
    /\ part # "trigger" => trigInput = CHOOSE settings \in TrigSettings : TRUE
    /\ part # "aux" => auxShown.follow

PartsNext ==
    /\ UNCHANGED part
    /\ \/ part = "ring" /\ RingNext
          /\ UNCHANGED <<trigVars, streamVars, audVars, auxVars, pmVars, mpVars,
                         tpVars, pcVars, fifoVars>>
       \/ part = "trigger" /\ TrigNext
          /\ UNCHANGED <<ringVars, streamVars, audVars, auxVars, pmVars, mpVars,
                         tpVars, pcVars, fifoVars>>
       \/ part = "stream" /\ StreamNext
          /\ UNCHANGED <<ringVars, trigVars, audVars, auxVars, pmVars, mpVars, tpVars,
                         pcVars, fifoVars>>
       \/ part = "audio" /\ AudioNext
          /\ UNCHANGED <<ringVars, trigVars, streamVars, auxVars, pmVars, mpVars,
                         tpVars, pcVars, fifoVars>>
       \/ part = "aux" /\ AuxNext
          /\ UNCHANGED <<ringVars, trigVars, streamVars, audVars, pmVars, mpVars,
                         tpVars, pcVars, fifoVars>>
       \/ part = "models" /\ PmNext
          /\ UNCHANGED <<ringVars, trigVars, streamVars, audVars, auxVars, mpVars,
                         tpVars, pcVars, fifoVars>>
       \/ part = "midi page" /\ MpNext
          /\ UNCHANGED <<ringVars, trigVars, streamVars, audVars, auxVars, pmVars,
                         tpVars, pcVars, fifoVars>>
       \/ part = "trigger page" /\ TpNext
          /\ UNCHANGED <<ringVars, trigVars, streamVars, audVars, auxVars, pmVars,
                         mpVars, pcVars, fifoVars>>
       \/ part = "pad pages" /\ PcNext
          /\ UNCHANGED <<ringVars, trigVars, streamVars, audVars, auxVars, pmVars,
                         mpVars, tpVars, fifoVars>>
       \/ part = "fifo" /\ FifoNext
          /\ UNCHANGED <<ringVars, trigVars, streamVars, audVars, auxVars, pmVars,
                         mpVars, tpVars, pcVars>>

PartsFairness ==
    /\ WF_trigVars(part = "trigger" /\ TrigBeginBatch)
    /\ WF_trigVars(part = "trigger" /\ TrigFrame)
    /\ WF_audVars(part = "audio" /\ AudioProcess(AudioPanelProc))
    /\ WF_audVars(part = "audio" /\ AudioWorker)
    /\ WF_audVars(part = "audio" /\ AudioPoll)
    /\ WF_auxVars(part = "aux" /\ AuxDaemon)
    /\ WF_tpVars(part = "trigger page" /\ TpCommand)
    /\ WF_tpVars(part = "trigger page" /\ TpTimer)
    /\ WF_tpVars(part = "trigger page" /\ TpServe)
    /\ WF_tpVars(part = "trigger page" /\ TpPublish)
    /\ WF_pcVars(part = "pad pages" /\ PcCommand)
    /\ WF_pcVars(part = "pad pages" /\ PcTimer)
    /\ WF_pcVars(part = "pad pages" /\ PcServe)
    /\ WF_pcVars(part = "pad pages" /\ PcPublish)
    /\ WF_pcVars(part = "pad pages" /\ (PcReopen \/ PcLeave))

(* The MIDI page has a run without the other fair parts.                    *)
PageFairness ==
    /\ WF_mpVars(part = "midi page" /\ MpChanged)
    /\ WF_mpVars(part = "midi page" /\ MpCommand)
    /\ WF_mpVars(part = "midi page" /\ MpTimer)
    /\ WF_mpVars(part = "midi page" /\ MpServe)
    /\ WF_mpVars(part = "midi page" /\ MpPublish)

partsVars == <<part, ringVars, trigVars, streamVars, audVars, auxVars, pmVars, mpVars,
               tpVars, pcVars, fifoVars>>
PartsSpec == PartsInit /\ [][PartsNext]_partsVars /\ PartsFairness
PageSpec == PartsInit /\ [][PartsNext]_partsVars /\ PageFairness
=============================================================================
