--------------------------- MODULE MCMidiService ---------------------------
(* Instances of MidiService for TLC.                                       *)
EXTENDS MidiService

PullsAndStatus == {"unplug", "status"}
PullsAndErrors == {"unplug", "io"}
=============================================================================
