------------------------------ MODULE AdcRing ------------------------------
(* The ring into which the converter's DMA writes frames and the three      *)
(* readers of the pad service: the completed-frame reader as the continuous *)
(* recorder ("sequence") and as the live triggers ("live") use it, and the  *)
(* whole-ring snapshot ("snapshot") of the stroke captures.                 *)
(*                                                                          *)
(* Frames are numbered in the order the DMA completes them; frame k lies in *)
(* slot k % RingFrames until it is overwritten. The clock is counted in     *)
(* frames: both tick at the converter's rate, so ringW is also the time.    *)
(* A slot copied while the DMA writes it holds words of two frames: it is   *)
(* Torn, and decodeAdcFrame may or may not notice.                          *)
EXTENDS Integers, Sequences

CONSTANTS
    RingFrames,     \* frames of the ring: 4096 / 32
    RingGap,        \* frames completed in 8 ms, the gap that is refused
    RingMaxFrames   \* bound: frames the DMA completes

(* "The 8 ms gap bound is conservative for this board's observed ~11.28 kHz *)
(* cadence and 4096-byte ring": it is shorter than the ring.                *)
ASSUME RingAssumption ==
    /\ RingFrames \in Nat /\ RingFrames > 1
    /\ RingGap \in 1..(RingFrames - 1)
    /\ RingMaxFrames \in Nat

VARIABLES
    ringW,        \* frames completed; the DMA writes slot ringW % RingFrames
    ringMode,     \* the reader: "sequence", "live" or "snapshot"
    ringPc,       \* where the reader is
    ringCursor,   \* frameCursor_, or the first cursor of the previous snapshot
    ringBefore,   \* the cursor read before the copy
    ringCopy,     \* the frames copied so far
    ringPoll,     \* sequencePoll, lastFastPoll, or previous.elapsed
    ringNow,      \* when this poll began
    ringFirst,    \* history: the first frame the next record owes, or NoFrame
    ringUpto,     \* history: frames completed when ringBefore was read
    ringRecord    \* what the last poll delivered
ringVars == <<ringW, ringMode, ringPc, ringCursor, ringBefore, ringCopy,
              ringPoll, ringNow, ringFirst, ringUpto, ringRecord>>

NoFrame == -1
Torn == -2
Invalid == 0

(* The cursor points behind the last complete frame; none is valid yet as   *)
(* long as nothing was written.                                             *)
RingCursorNow == IF ringW = 0 THEN Invalid ELSE ((ringW - 1) % RingFrames) + 1

(* What a copy of slot s delivers now.                                      *)
RingSlot(s) ==
    IF s = ringW % RingFrames THEN Torn
    ELSE ringW - 1 - ((ringW - 1 - s) % RingFrames)

RingDistance(from, to) == (to + RingFrames - from) % RingFrames

RingProduced == RingDistance(ringCursor, ringBefore)

(* Mutant: a copy the DMA has just come round to passes.                    *)
RingOverlapLate(produced, moved) == produced + moved > RingFrames

(* The copy may have been overtaken.                                        *)
RingOverlap(produced, moved) == produced + moved >= RingFrames

RingInit ==
    /\ ringW = 0
    /\ ringMode \in {"sequence", "live", "snapshot"}
    /\ ringPc = "idle"
    /\ ringCursor = Invalid /\ ringBefore = Invalid
    /\ ringCopy = <<>>
    /\ ringPoll = (IF ringMode = "sequence" THEN 0 ELSE NoFrame)
    /\ ringNow = 0
    /\ ringFirst = NoFrame /\ ringUpto = 0
    /\ ringRecord = [frames |-> <<>>, flagged |-> FALSE, first |-> NoFrame,
                     upto |-> 0, after |-> 0]

(* External: the DMA completes a frame.                                     *)
RingDma ==
    /\ ringW < RingMaxFrames
    /\ ringW' = ringW + 1
    /\ UNCHANGED <<ringMode, ringPc, ringCursor, ringBefore, ringCopy, ringPoll,
                   ringNow, ringFirst, ringUpto, ringRecord>>

(* A poll notes the time. Live triggering gives up a reader that was not    *)
(* polled in time before it reads, or that new settings or a stroke capture *)
(* interrupted: the frames since are lost on purpose.                       *)
RingLate == ringPoll = NoFrame \/ ringW - ringPoll > RingGap
RingBegin ==
    /\ ringPc = "idle"
    /\ ringNow' = ringW
    /\ \/ /\ ringMode = "live"
          /\ ringCursor' = Invalid /\ ringFirst' = NoFrame
       \/ /\ ringMode = "live" => ~RingLate
          /\ UNCHANGED <<ringCursor, ringFirst>>
    /\ ringPc' = "open"
    /\ ringCopy' = <<>>
    /\ UNCHANGED <<ringW, ringMode, ringBefore, ringPoll, ringUpto, ringRecord>>

(* The cursor before the copy. The frame reader refuses an invalid one and  *)
(* only takes its place in the ring when it has none.                       *)
RingOpen ==
    /\ ringPc = "open"
    /\ ringBefore' = RingCursorNow
    /\ ringUpto' = ringW
    /\ ringPc' = CASE ringMode = "snapshot" -> "copy"
                   [] ringMode # "snapshot" /\ ringBefore' = Invalid -> "invalid"
                   [] ringMode # "snapshot" /\ ringBefore' # Invalid
                        /\ ringCursor = Invalid -> "anchored"
                   [] OTHER -> "copy"
    /\ UNCHANGED <<ringW, ringMode, ringCursor, ringCopy, ringPoll, ringNow,
                   ringFirst, ringRecord>>

(* One frame is copied: the frame reader takes the completed frames in      *)
(* order and decodes each at once, the snapshot all slots from the first.   *)
RingToCopy == IF ringMode = "snapshot" THEN RingFrames ELSE RingProduced
RingCopySlot ==
    /\ ringPc = "copy"
    /\ Len(ringCopy) < RingToCopy
    /\ LET slot == IF ringMode = "snapshot" THEN Len(ringCopy)
                   ELSE (ringCursor + Len(ringCopy)) % RingFrames
       IN  /\ ringCopy' = Append(ringCopy, RingSlot(slot))
           /\ ringPc' \in IF RingSlot(slot) = Torn /\ ringMode # "snapshot"
                          THEN {"copy", "invalid"} ELSE {"copy"}
    /\ UNCHANGED <<ringW, ringMode, ringCursor, ringBefore, ringPoll, ringNow,
                   ringFirst, ringUpto, ringRecord>>

(* The cursor after the copy decides whether the DMA may have come round.   *)
RingAfter ==
    /\ ringPc = "copy"
    /\ Len(ringCopy) = RingToCopy
    /\ ringPc' = IF RingOverlap(RingProduced, RingDistance(ringBefore, RingCursorNow))
                 THEN "invalid" ELSE "copied"
    /\ ringRecord' = [ringRecord EXCEPT !.after = ringW]
    /\ UNCHANGED <<ringW, ringMode, ringCursor, ringBefore, ringCopy, ringPoll,
                   ringNow, ringFirst, ringUpto>>

RingDeliver(frames, flagged) ==
    ringRecord' = [frames |-> frames, flagged |-> flagged, first |-> ringFirst,
                   upto |-> ringUpto, after |-> ringRecord.after]

(* The caller's verdict on a batch: late, slow or invalid (of either        *)
(* converter) loses the batch and the reader's place, and says so in the    *)
(* record; in the live path the engine is reset. The live path has judged   *)
(* the time since the last poll before it read.                             *)
RingClose ==
    /\ ringMode # "snapshot"
    /\ ringPc \in {"invalid", "anchored", "copied"}
    /\ \E otherValid \in BOOLEAN :
         LET gap == \/ ringMode = "sequence" /\ ringNow - ringPoll > RingGap
                    \/ ringW - ringNow > RingGap
             bad == gap \/ ringPc = "invalid" \/ ~otherValid
         IN  /\ RingDeliver(IF bad THEN <<>> ELSE ringCopy, bad)
             /\ ringCursor' = IF bad THEN Invalid ELSE ringBefore
             /\ ringFirst' = IF bad THEN NoFrame ELSE ringUpto
    /\ ringPoll' = ringNow
    /\ ringPc' = "idle"
    /\ UNCHANGED <<ringW, ringMode, ringBefore, ringCopy, ringNow, ringUpto>>

(* analysePadSnapshot: the frames from the previous snapshot's cursor to    *)
(* this one's, found unusable when late, stalled, overtaken or undecodable. *)
(* The snapshot is stamped after the copy. The first has nothing to analyse.*)
RingAnalyse ==
    /\ ringMode = "snapshot"
    /\ ringPc \in {"invalid", "copied"}
    /\ LET fresh == [i \in 1..RingProduced |->
                       ringCopy[((ringCursor + i - 1) % RingFrames) + 1]]
           torn == \E i \in 1..RingProduced : fresh[i] = Torn
       IN  IF ringPoll = NoFrame THEN RingDeliver(<<>>, FALSE)
           ELSE \E noticed \in IF torn THEN BOOLEAN ELSE {FALSE} :
                  RingDeliver(fresh, \/ ringW - ringPoll > RingGap
                                     \/ ringW = ringPoll
                                     \/ ringCursor = Invalid \/ ringBefore = Invalid
                                     \/ RingProduced = 0
                                     \/ ringPc = "invalid"
                                     \/ noticed)
    /\ ringCursor' = ringBefore
    /\ ringFirst' = ringUpto
    /\ ringPoll' = ringW
    /\ ringPc' = "idle"
    /\ UNCHANGED <<ringW, ringMode, ringBefore, ringCopy, ringNow, ringUpto>>

RingNext ==
    \/ RingDma \/ RingBegin \/ RingOpen \/ RingCopySlot \/ RingAfter
    \/ RingClose \/ RingAnalyse

RingSpec == RingInit /\ [][RingNext]_ringVars

-----------------------------------------------------------------------------
(* The record holds exactly the frames completed since the previous one, or *)
(* nothing where that one gave up its place.                                *)
RingFaithful(r) ==
    r.frames = IF r.first = NoFrame THEN <<>>
               ELSE [i \in 1..(r.upto - r.first) |-> r.first + i - 1]

(* What readCompletedFrames and analysePadSnapshot promise their callers:   *)
(* as long as the cursor moves by less than a ring between two looks at it, *)
(* a record that carries no flag holds all frames since the previous one,   *)
(* in order, and none that was overwritten while it was copied.             *)
RingExact ==
    LET r == ringRecord
    IN  (/\ ~r.flagged
         /\ r.first # NoFrame => r.upto - r.first < RingFrames
         /\ r.after - r.upto < RingFrames)
        => RingFaithful(r)
=============================================================================
