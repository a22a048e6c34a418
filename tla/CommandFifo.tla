----------------------------- MODULE CommandFifo -----------------------------
(* The command FIFO of a service (the pad and the MIDI service read theirs  *)
(* alike) and those who write to it: commands of the command line, which    *)
(* open it for one line, and the pad service, which keeps that of the MIDI  *)
(* service open for its hits. The kernel writes a line whole or not at all; *)
(* the service reads what is there in pieces that know nothing of lines.    *)
(*                                                                          *)
(* A byte is the number of the line it belongs to, and whether it ends it.  *)
EXTENDS Naturals, Sequences, SequencesExt, FiniteSetsExt

CONSTANTS
    FifoWriters,    \* those who write
    FifoKeepers,    \* the ones that keep it open: MidiEndpoint
    FifoLine,       \* bytes of a command (256)
    FifoChunk,      \* bytes read at once (512)
    FifoRoom,       \* bytes the pipe holds
    FifoLines,      \* bound: lines written
    FifoLongest     \* bound: their bytes

ASSUME FifoAssumption ==
    /\ FifoKeepers \subseteq FifoWriters
    /\ {FifoLine, FifoChunk} \subseteq Nat \ {0}
    /\ {FifoRoom, FifoLines, FifoLongest} \subseteq Nat

VARIABLES
    fifoUp,       \* the service runs and has the FIFO open
    fifoOpen,     \* the writers that have it open
    fifoPipe,     \* the bytes in the pipe
    fifoHand,     \* the bytes of the last read still to be looked at
    fifoPending,  \* pending
    fifoOverflow, \* overflow, oversizedCommand
    fifoFresh,    \* history: no line has ended since the service started
    fifoLengths,  \* history: the lengths of the lines written
    fifoServed    \* history: the commands carried out or refused
fifoVars == <<fifoUp, fifoOpen, fifoPipe, fifoHand, fifoPending, fifoOverflow,
              fifoFresh, fifoLengths, fifoServed>>
fifoReader == <<fifoHand, fifoPending, fifoOverflow, fifoFresh, fifoServed>>

FifoInit ==
    /\ fifoUp = TRUE /\ fifoOpen = {} /\ fifoPipe = <<>>
    /\ fifoHand = <<>> /\ fifoPending = <<>> /\ fifoOverflow = FALSE
    /\ fifoFresh = TRUE /\ fifoLengths = <<>> /\ fifoServed = <<>>

FifoBytes(line, length) ==
    [i \in 1..(length + 1) |-> [line |-> line, end |-> i = length + 1]]

-----------------------------------------------------------------------------
(* A writer that does not wait needs a reader to open the FIFO.             *)
FifoConnect ==
    /\ fifoUp
    /\ \E w \in FifoWriters \ fifoOpen : fifoOpen' = fifoOpen \cup {w}
    /\ UNCHANGED <<fifoUp, fifoPipe, fifoLengths, fifoReader>>

(* Whoever closes last takes with him what nobody has read.                 *)
FifoLeft(up, open, pipe) == IF up \/ open # {} THEN pipe ELSE <<>>

(* sendCommand closes at any rate, MidiEndpoint::send when it failed.       *)
FifoWrite ==
    \E w \in fifoOpen :
      \/ \E length \in 0..FifoLongest :
           /\ fifoUp /\ Len(fifoLengths) < FifoLines
           /\ Len(fifoPipe) + length < FifoRoom
           /\ fifoLengths' = Append(fifoLengths, length)
           /\ fifoPipe' = fifoPipe \o FifoBytes(Len(fifoLengths'), length)
           /\ fifoOpen' = fifoOpen \ ({w} \ FifoKeepers)
           /\ UNCHANGED <<fifoUp, fifoReader>>
      \/ /\ ~fifoUp \/ Len(fifoPipe) + FifoLongest >= FifoRoom
         /\ fifoOpen' = fifoOpen \ {w}
         /\ fifoPipe' = FifoLeft(fifoUp, fifoOpen', fifoPipe)
         /\ UNCHANGED <<fifoUp, fifoLengths, fifoReader>>

-----------------------------------------------------------------------------
(* The service's loop: a read, and then each byte of it.                    *)
FifoRead ==
    /\ fifoUp /\ fifoHand = <<>> /\ fifoPipe # <<>>
    /\ LET amount == Min({FifoChunk, Len(fifoPipe)})
       IN  /\ fifoHand' = SubSeq(fifoPipe, 1, amount)
           /\ fifoPipe' = SubSeq(fifoPipe, amount + 1, Len(fifoPipe))
    /\ UNCHANGED <<fifoUp, fifoOpen, fifoPending, fifoOverflow, fifoFresh,
                   fifoLengths, fifoServed>>

FifoFits == Len(fifoPending) < FifoLine /\ ~fifoOverflow

(* Mutant: a full buffer is emptied and filled with the rest of the line.   *)
FifoOverrunUntold == fifoPending' = <<>> /\ UNCHANGED fifoOverflow
FifoOverrun == fifoPending' = <<>> /\ fifoOverflow' = TRUE

FifoByte ==
    /\ fifoUp /\ fifoHand # <<>>
    /\ fifoHand' = Tail(fifoHand)
    /\ LET byte == Head(fifoHand)
       IN  \/ /\ byte.end
              /\ fifoServed' = Append(fifoServed,
                   [line |-> byte.line, refused |-> fifoOverflow,
                    text |-> fifoPending, fresh |-> fifoFresh])
              /\ fifoPending' = <<>> /\ fifoOverflow' = FALSE /\ fifoFresh' = FALSE
           \/ /\ ~byte.end
              /\ IF FifoFits
                 THEN fifoPending' = Append(fifoPending, byte.line) /\ UNCHANGED fifoOverflow
                 ELSE FifoOverrun
              /\ UNCHANGED <<fifoFresh, fifoServed>>
    /\ UNCHANGED <<fifoUp, fifoOpen, fifoPipe, fifoLengths>>

(* It ends, or is killed; and it is started again. What is in the pipe      *)
(* waits for it as long as a writer keeps the FIFO open.                    *)
FifoStop ==
    /\ fifoUp
    /\ fifoUp' = FALSE
    /\ fifoPipe' = FifoLeft(FALSE, fifoOpen, fifoPipe)
    /\ fifoHand' = <<>> /\ fifoPending' = <<>> /\ fifoOverflow' = FALSE
    /\ fifoFresh' = TRUE
    /\ UNCHANGED <<fifoOpen, fifoLengths, fifoServed>>

FifoStart ==
    /\ ~fifoUp
    /\ fifoUp' = TRUE
    /\ UNCHANGED <<fifoOpen, fifoPipe, fifoLengths, fifoReader>>

FifoNext == FifoConnect \/ FifoWrite \/ FifoRead \/ FifoByte \/ FifoStop \/ FifoStart
FifoSpec == FifoInit /\ [][FifoNext]_fifoVars

-----------------------------------------------------------------------------
(* What the n-th answer was about.                                          *)
FifoText(line, length) == [i \in 1..length |-> line]
FifoWhole(s) ==
    LET length == fifoLengths[s.line]
    IN  IF length > FifoLine THEN s.refused
        ELSE ~s.refused /\ s.text = FifoText(s.line, length)
FifoTail(s) == s.refused \/ s.text = FifoText(s.line, Len(s.text))

(* "Oversized IPC commands are discarded as complete lines": whoever writes *)
(* in between and wherever a read cuts a line, every line is answered in    *)
(* turn, none twice, carried out as it was written or refused for its       *)
(* length; only the first after a restart may lack its beginning, and lines *)
(* are left out only there. None is ever put together of two.               *)
FifoExact ==
    \A i \in DOMAIN fifoServed :
      LET s == fifoServed[i]
      IN  /\ IF s.fresh THEN FifoTail(s) ELSE FifoWhole(s)
          /\ i > 1 => IF s.fresh THEN s.line > fifoServed[i - 1].line
                      ELSE s.line = fifoServed[i - 1].line + 1
=============================================================================
