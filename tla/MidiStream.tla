----------------------------- MODULE MidiStream -----------------------------
(* The parser of incoming MIDI bytes, one per port: running status, real-   *)
(* time bytes between the bytes of another message, and system exclusive    *)
(* messages of bounded length.                                              *)
(*                                                                          *)
(* A byte is one of a few classes; an emitted message is the sequence of    *)
(* positions of its bytes in the input, which tells any two apart.          *)
EXTENDS Naturals, Sequences, FiniteSets

CONSTANTS
    StreamMax,     \* MidiMessage::maximumBytes (1024)
    StreamInput    \* bound: bytes read since the port was opened

ASSUME StreamAssumption == StreamMax \in Nat \ {0} /\ StreamInput \in Nat

VARIABLES
    streamIn,       \* history: the bytes read
    streamOut,      \* history: the messages emitted
    streamPending,  \* the bytes of the message in hand
    streamRunning,  \* runningStatus: its position, or 0
    streamExpected, \* expectedBytes
    streamSysEx,    \* inSysEx
    streamDropping, \* droppingSysEx
    streamDiscarded \* discarded
streamVars == <<streamIn, streamOut, streamPending, streamRunning,
                streamExpected, streamSysEx, streamDropping, streamDiscarded>>

(* Channel messages of two and three bytes, system messages of one and      *)
(* three, an undefined system message, the brackets of a system exclusive,  *)
(* a data byte, and the real-time bytes that mean something or nothing.     *)
Channel == {"note", "program"}
Common == {"position", "tune", "undefined"}
RealTime == {"clock", "reserved"}
Byte == Channel \cup Common \cup RealTime \cup {"begin", "end", "data"}

(* messageBytes                                                             *)
MessageBytes(byte) ==
    CASE byte \in {"note", "position"} -> 3
      [] byte = "program" -> 2
      [] byte = "tune" -> 1
      [] OTHER -> 0

StreamInit ==
    /\ streamIn = <<>> /\ streamOut = {}
    /\ streamPending = <<>> /\ streamRunning = 0 /\ streamExpected = 0
    /\ streamSysEx = FALSE /\ streamDropping = FALSE
    /\ streamDiscarded = 0

(* The port is opened again.                                                *)
StreamReset ==
    /\ streamIn' = <<>> /\ streamOut' = {}
    /\ streamPending' = <<>> /\ streamRunning' = 0 /\ streamExpected' = 0
    /\ streamSysEx' = FALSE /\ streamDropping' = FALSE
    /\ streamDiscarded' = 0

Emit(message) == streamOut' = streamOut \cup {message}

(* Real-time bytes go out at once and touch nothing else.                   *)
PushRealTime(byte, at) ==
    /\ IF byte = "clock" THEN Emit(<<at>>) ELSE UNCHANGED streamOut
    /\ UNCHANGED <<streamPending, streamRunning, streamExpected, streamSysEx,
                   streamDropping, streamDiscarded>>

(* A byte of a system exclusive, the last one included. One too long is     *)
(* counted once and swallowed to its end.                                   *)
PushSysEx(byte, at) ==
    LET tooLong == ~streamDropping /\ Len(streamPending) = StreamMax
        dropping == streamDropping \/ tooLong
        message == IF dropping THEN streamPending ELSE Append(streamPending, at)
    IN  /\ streamDiscarded' = streamDiscarded + (IF tooLong THEN 1 ELSE 0)
        /\ streamSysEx' = (byte # "end")
        /\ streamDropping' = (dropping /\ byte # "end")
        /\ streamPending' = IF byte = "end" THEN <<>> ELSE message
        /\ IF byte = "end" /\ ~dropping THEN Emit(message) ELSE UNCHANGED streamOut
        /\ UNCHANGED <<streamRunning, streamExpected>>

(* Mutant: a system common message leaves the running status in force.      *)
PushStatusRuns(byte, at) ==
    /\ streamDiscarded' = streamDiscarded
         + (IF streamSysEx THEN (IF streamDropping THEN 0 ELSE 1)
            ELSE IF Len(streamPending) > 1 THEN 1 ELSE 0)
    /\ streamDropping' = FALSE
    /\ streamRunning' = IF byte \in Channel THEN at ELSE streamRunning
    /\ streamExpected' = MessageBytes(byte)
    /\ streamSysEx' = (byte = "begin")
    /\ streamPending' = IF byte = "begin" \/ MessageBytes(byte) > 1 THEN <<at>> ELSE <<>>
    /\ IF MessageBytes(byte) = 1 THEN Emit(<<at>>) ELSE UNCHANGED streamOut

(* A status byte gives up what is in hand and begins the next message.      *)
PushStatus(byte, at) ==
    /\ streamDiscarded' = streamDiscarded
         + (IF streamSysEx THEN (IF streamDropping THEN 0 ELSE 1)
            ELSE IF Len(streamPending) > 1 THEN 1 ELSE 0)
    /\ streamDropping' = FALSE
    /\ streamRunning' = IF byte \in Channel THEN at ELSE 0
    /\ streamExpected' = MessageBytes(byte)
    /\ streamSysEx' = (byte = "begin")
    /\ streamPending' = IF byte = "begin" \/ MessageBytes(byte) > 1 THEN <<at>> ELSE <<>>
    /\ IF MessageBytes(byte) = 1 THEN Emit(<<at>>) ELSE UNCHANGED streamOut

(* A data byte continues the message in hand, or the running status begins  *)
(* one; without either it is ignored.                                       *)
PushData(at) ==
    LET runs == streamPending = <<>>
        message == IF runs THEN <<streamRunning, at>> ELSE Append(streamPending, at)
        expected == IF runs /\ streamRunning # 0
                    THEN MessageBytes(streamIn[streamRunning]) ELSE streamExpected
    IN  /\ IF runs /\ streamRunning = 0
           THEN UNCHANGED <<streamPending, streamOut>>
           ELSE IF Len(message) = expected
           THEN Emit(message) /\ streamPending' = <<>>
           ELSE streamPending' = message /\ UNCHANGED streamOut
        /\ streamExpected' = expected
        /\ UNCHANGED <<streamRunning, streamSysEx, streamDropping, streamDiscarded>>

(* push, for the next byte of the port.                                     *)
StreamPush ==
    /\ Len(streamIn) < StreamInput
    /\ \E byte \in Byte :
         LET at == Len(streamIn) + 1
         IN  /\ streamIn' = Append(streamIn, byte)
             /\ \/ byte \in RealTime /\ PushRealTime(byte, at)
                \/ streamSysEx /\ byte \in {"data", "end"} /\ PushSysEx(byte, at)
                \/ ~streamSysEx /\ byte = "data" /\ PushData(at)
                \/ /\ byte \notin RealTime \cup {"data"}
                   /\ ~(streamSysEx /\ byte = "end")
                   /\ PushStatus(byte, at)

StreamNext == StreamReset \/ StreamPush
StreamSpec == StreamInit /\ [][StreamNext]_streamVars

-----------------------------------------------------------------------------
(* What the bytes mean, read off the whole input at once. Real-time bytes   *)
(* apart, a byte belongs to the last status before it.                      *)
Positions(bytes) == {i \in 1..Len(streamIn) : streamIn[i] \in bytes}
Plain == Positions(Byte \ RealTime)
Statuses == Positions(Byte \ (RealTime \cup {"data"}))
OwnerOf(i) == CHOOSE s \in Statuses : s < i /\ \A t \in Statuses : t < i => t <= s
Owned(i) == \E s \in Statuses : s < i
RunOf(s, i) == {j \in Plain : s < j /\ j <= i}     \* what s owns up to i

(* The n-th smallest of a set of positions.                                 *)
Nth(S, n) == CHOOSE x \in S : Cardinality({y \in S : y <= x}) = n
InOrderOf(S) == [n \in 1..Cardinality(S) |-> Nth(S, n)]

(* Data bytes of a message begun by status s: channel messages repeat.      *)
DataOf(s) == MessageBytes(streamIn[s]) - 1
Ends(s, i) ==
    LET n == Cardinality(RunOf(s, i))
    IN  /\ MessageBytes(streamIn[s]) > 1
        /\ IF streamIn[s] \in Channel THEN n % DataOf(s) = 0 ELSE n = DataOf(s)
LastOf(s, i) ==
    LET run == RunOf(s, i)
        n == Cardinality(run)
    IN  <<s>> \o [k \in 1..DataOf(s) |-> Nth(run, n - DataOf(s) + k)]

Meant ==
    {<<i>> : i \in Positions({"clock", "tune"})}
      \cup {LastOf(OwnerOf(i), i) : i \in
             {j \in Positions({"data"}) : Owned(j) /\ Ends(OwnerOf(j), j)}}
      \cup {InOrderOf({OwnerOf(i)} \cup RunOf(OwnerOf(i), i)) : i \in
             {j \in Positions({"end"}) :
                /\ Owned(j) /\ streamIn[OwnerOf(j)] = "begin"
                /\ Cardinality(RunOf(OwnerOf(j), j)) < StreamMax}}

(* The bytes s owns until the next status, which may be the end of s.       *)
NextStatus(s) == {t \in Statuses : s < t /\ \A u \in Statuses : s < u => t <= u}
Closes(s, t) == streamIn[s] = "begin" /\ streamIn[t] = "end"
Until(s) == {i \in Plain : s < i /\ \A t \in NextStatus(s) : i < t \/ (i = t /\ Closes(s, t))}

(* What is lost: an exclusive cut short by another status or too long, and  *)
(* any other message of which a data byte had come when the next status did.*)
Lost ==
    {s \in Statuses :
        LET n == Cardinality(Until(s))
        IN  IF streamIn[s] = "begin"
            THEN n >= StreamMax \/ \E t \in NextStatus(s) : ~Closes(s, t)
            ELSE /\ NextStatus(s) # {} /\ MessageBytes(streamIn[s]) > 1
                 /\ IF streamIn[s] \in Channel THEN n % DataOf(s) # 0
                    ELSE n \in 1..(DataOf(s) - 1)}

(* The parser emits exactly the messages the bytes mean, whatever real-time *)
(* bytes come between theirs, wherever a message is cut short, and after a  *)
(* system exclusive that is too long; every message lost is counted once    *)
(* ("Oversized SysEx must be dropped once and recover without overflow").   *)
StreamFaithful ==
    /\ streamOut = Meant
    /\ streamDiscarded = Cardinality(Lost)
=============================================================================
