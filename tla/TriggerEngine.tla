---------------------------- MODULE TriggerEngine ----------------------------
(* The live trigger of one pad: it learns the resting level of the sensors, *)
(* waits for a first quiet stretch, and then turns a rise above threshold   *)
(* and above the fading trace of the last hit into one event, after a       *)
(* window of frames, unless the input clips, the caller resets the engine   *)
(* for a gap in the frames, or the batch's events are full.                 *)
(*                                                                          *)
(* Abstractions: a few levels stand for the 12-bit samples, the louder of   *)
(* two sensors for both; a sample is quiet when it equals the baseline; the *)
(* trace loses a level or not per frame; an event is counted, its zone and  *)
(* velocity are left out.                                                   *)
EXTENDS Integers

CONSTANTS
    TrigWarm,       \* frames the first baseline is taken from (64)
    TrigQuiet,      \* quiet frames before the first hit (16)
    TrigUnsettled,  \* loud frames before the warm-up is repeated (128)
    TrigWindow,     \* frames of a hit, drumWindowFrames (32)
    TrigMasks,      \* settings: frames from a hit to the next, maskFrames
    TrigClipMask,   \* frames without a hit after clipping (128)
    TrigFollow,     \* frames in which the trace follows the signal
    TrigLevels,     \* the loudest level is clipping, 0 the sensor at rest
    TrigEvents,     \* events a batch may hold (32)
    TrigBatch,      \* frames of a batch (127)
    TrigFar         \* bound: what the history counters count to

ASSUME TrigAssumption ==
    /\ {TrigWarm, TrigQuiet, TrigUnsettled, TrigWindow, TrigClipMask,
        TrigLevels, TrigEvents, TrigBatch} \subseteq Nat \ {0}
    /\ TrigFollow \in Nat
    /\ TrigMasks \subseteq Nat
    /\ TrigFar \in Nat
    /\ \A n \in TrigMasks \cup {TrigWindow, TrigClipMask} : n <= TrigFar

VARIABLES
    trigPad,        \* PadState: what a reset forgets
    trigInput,      \* the settings of the pad
    trigReady,      \* liveReady: the last configure() succeeded
    trigLeft,       \* frames of the batch still to be processed
    trigCount,      \* events of the batch
    trigSince,      \* history: frames since the last hit began, and
    trigClipAgo,    \* frames since the input clipped, or TrigFar
    trigCalm        \* from now on the sensors rest and no frame is missed
trigVars == <<trigPad, trigInput, trigReady, trigLeft, trigCount,
              trigSince, trigClipAgo, trigCalm>>

TrigLater(n) == IF n < TrigFar THEN n + 1 ELSE n

TrigFresh ==
    [warm |-> 0, mask |-> 0, quiet |-> 0, unsettled |-> 0, since |-> TrigFollow,
     base |-> 0, trace |-> 0, filled |-> 0, peak |-> 0,
     pending |-> FALSE, found |-> FALSE]

TrigSettings == [mask : TrigMasks, calibrated : BOOLEAN]

TrigInit ==
    /\ trigPad = TrigFresh /\ trigInput \in TrigSettings
    /\ trigReady = FALSE
    /\ trigLeft = 0 /\ trigCount = 0
    /\ trigSince = TrigFar /\ trigClipAgo = TrigFar
    /\ trigCalm = FALSE

TrigForget ==
    /\ trigPad' = TrigFresh
    /\ trigCount' = 0
    /\ trigSince' = TrigFar /\ trigClipAgo' = TrigFar

(* New settings, between two batches. Settings the engine refuses leave it  *)
(* without its pads, and the service without live triggers.                 *)
TrigConfigure ==
    /\ trigLeft = 0 /\ ~trigCalm
    /\ trigInput' \in TrigSettings
    /\ trigReady' \in BOOLEAN
    /\ TrigForget
    /\ UNCHANGED <<trigLeft, trigCalm>>

(* Frames were missed, or the service did something else for a while.       *)
TrigReset ==
    /\ trigLeft = 0 /\ ~trigCalm
    /\ TrigForget
    /\ UNCHANGED <<trigInput, trigReady, trigLeft, trigCalm>>

(* External: the drummer stops. A batch in hand is still processed.         *)
TrigCalmDown ==
    /\ ~trigCalm /\ trigReady
    /\ trigCalm' = TRUE
    /\ UNCHANGED <<trigPad, trigInput, trigReady, trigLeft, trigCount,
                   trigSince, trigClipAgo>>

(* processLiveFrames takes a batch; it has sent the events of the last one. *)
TrigBeginBatch ==
    /\ trigReady /\ trigLeft = 0
    /\ trigLeft' \in 1..TrigBatch
    /\ trigCount' = 0
    /\ UNCHANGED <<trigPad, trigInput, trigReady, trigSince, trigClipAgo, trigCalm>>

-----------------------------------------------------------------------------
(* A frame: one level of the sensors. Each step below says what becomes of  *)
(* the pad s, its mask already counted down.                                *)
TrigMasked == [trigPad EXCEPT !.mask = IF @ > 0 THEN @ - 1 ELSE 0]
TrigLoud(s, level) == level # s.base

(* Clipping drops the hit in hand and blinds the pad for a while.           *)
TrigClip(s) == [s EXCEPT !.pending = FALSE, !.mask = TrigClipMask,
                         !.trace = TrigLevels]

(* The baseline is the average of the first frames; a calibrated pad has    *)
(* the one of its profile and takes only frames near it into account.       *)
TrigWarmUp(s, level) ==
    {[s EXCEPT !.warm = @ + 1, !.base = b] :
        b \in IF trigInput.calibrated THEN {0}
              ELSE IF s.warm = 0 THEN {level}
              ELSE {x \in 0..TrigLevels : (s.base <= x /\ x <= level)
                                            \/ (level <= x /\ x <= s.base)}}

(* Mutant: the baseline that was taken of a strike is kept.                 *)
TrigSettleOnly(s) == [s EXCEPT !.unsettled = 0, !.quiet = 0]

(* A warm-up that fell into a strike is repeated.                           *)
TrigSettle(s, level) ==
    IF trigInput.calibrated \/ s.found THEN s
    ELSE [s EXCEPT !.unsettled = IF TrigLoud(s, level) THEN @ + 1 ELSE 0]
TrigStartOver(s) == [s EXCEPT !.warm = 0, !.unsettled = 0, !.quiet = 0]

TrigAmplitude(s, level) == IF level > s.base THEN level - s.base ELSE s.base - level

(* A new hit: above threshold, above the trace, unmasked, after quiet.      *)
TrigOnset(s, level) ==
    /\ ~s.pending /\ TrigLoud(s, level)
    /\ TrigAmplitude(s, level) > s.trace
    /\ s.found /\ s.mask = 0

TrigListen(s, level) ==
    IF s.pending THEN s
    ELSE IF TrigOnset(s, level)
    THEN [s EXCEPT !.quiet = 0, !.since = 0, !.pending = TRUE, !.filled = 0, !.peak = 0]
    ELSE IF TrigLoud(s, level) THEN [s EXCEPT !.quiet = 0]
    ELSE LET q == IF s.quiet < TrigQuiet THEN s.quiet + 1 ELSE s.quiet
         IN  [s EXCEPT !.quiet = q, !.found = @ \/ q = TrigQuiet]

(* The trace of the last hit: it follows the signal at first, then fades.   *)
TrigTrace(s, level) ==
    {[s EXCEPT !.since = IF @ < TrigFollow THEN @ + 1 ELSE @,
               !.trace = IF s.since < TrigFollow /\ TrigAmplitude(s, level) > t
                         THEN TrigAmplitude(s, level) ELSE t] :
        t \in {s.trace, IF s.trace > 0 THEN s.trace - 1 ELSE 0}}

TrigFill(s, level) ==
    IF ~s.pending THEN s
    ELSE [s EXCEPT !.filled = @ + 1,
                   !.peak = IF TrigAmplitude(s, level) > @
                            THEN TrigAmplitude(s, level) ELSE @]

TrigFull(s) == s.pending /\ s.filled = TrigWindow

(* Mutant: the pad listens again as soon as the window is full.             *)
TrigNoRest(mask) == 0

(* A full window ends the hit; the mask counts from its first frame.        *)
TrigRest(mask) == IF mask > TrigWindow THEN mask - TrigWindow ELSE 0
TrigEnd(s) ==
    [s EXCEPT !.pending = FALSE, !.mask = TrigRest(trigInput.mask),
              !.trace = IF s.peak > @ THEN s.peak ELSE @]

(* Whatever the zone rule and the classifier make of it, a hit becomes an   *)
(* event if the batch has room for one more, else it is rejected.           *)
TrigReport(s) ==
    trigCount' = IF TrigFull(s) /\ trigCount < TrigEvents THEN trigCount + 1
                 ELSE trigCount

(* History: a hit in hand that clips was none.                              *)
TrigHistory(onset, clip) ==
    /\ trigSince' = IF onset THEN 0
                    ELSE IF clip /\ trigPad.pending THEN TrigFar
                    ELSE TrigLater(trigSince)
    /\ trigClipAgo' = IF clip THEN 0 ELSE TrigLater(trigClipAgo)

(* processFrame.                                                            *)
TrigFrame ==
    /\ trigLeft > 0
    /\ trigLeft' = trigLeft - 1
    /\ \E level \in IF trigCalm THEN {0} ELSE 0..TrigLevels :
         LET s == TrigMasked
             t == TrigSettle(s, level)
             u == TrigListen(t, level)
         IN  \/ /\ level = TrigLevels
                /\ trigPad' = TrigClip(s)
                /\ TrigHistory(FALSE, TRUE) /\ UNCHANGED trigCount
             \/ /\ level # TrigLevels /\ s.warm < TrigWarm
                /\ trigPad' \in TrigWarmUp(s, level)
                /\ TrigHistory(FALSE, FALSE) /\ UNCHANGED trigCount
             \/ /\ level # TrigLevels /\ s.warm >= TrigWarm
                /\ t.unsettled = TrigUnsettled
                /\ trigPad' = TrigStartOver(t)
                /\ TrigHistory(FALSE, FALSE) /\ UNCHANGED trigCount
             \/ /\ level # TrigLevels /\ s.warm >= TrigWarm
                /\ t.unsettled # TrigUnsettled
                /\ \E v \in TrigTrace(u, level) :
                     LET w == TrigFill(v, level)
                     IN  /\ trigPad' = IF TrigFull(w) THEN TrigEnd(w) ELSE w
                         /\ TrigReport(w)
                /\ TrigHistory(TrigOnset(t, level), FALSE)
    /\ UNCHANGED <<trigInput, trigReady, trigCalm>>

TrigNext ==
    \/ TrigConfigure \/ TrigReset \/ TrigCalmDown \/ TrigBeginBatch \/ TrigFrame

(* The converter keeps delivering and the service keeps polling.            *)
TrigFairness == WF_trigVars(TrigBeginBatch) /\ WF_trigVars(TrigFrame)
TrigSpec == TrigInit /\ [][TrigNext]_trigVars /\ TrigFairness

-----------------------------------------------------------------------------
(* The step in which the pad begins a hit.                                  *)
TrigBegins == ~trigPad.pending /\ trigPad'.pending
TrigFramesSince(n) == IF n < TrigFar THEN n + 1 ELSE TrigFar

(* A strike is not reported twice: two hits of a pad are a window apart and *)
(* (but for one frame) the mask time of its settings, unless the input      *)
(* clipped since the first; none begins in the blind time after clipping.   *)
TrigSpaced ==
    [][TrigBegins =>
         /\ TrigFramesSince(trigSince) >= TrigWindow
         /\ \/ TrigFramesSince(trigSince) >= trigInput.mask - 1
            \/ trigClipAgo < trigSince
         /\ TrigFramesSince(trigClipAgo) >= TrigClipMask]_trigVars

(* "minimum time between two hits" (PadCalibration.h), without exception.   *)
TrigMaskKept ==
    [][TrigBegins => TrigFramesSince(trigSince) >= trigInput.mask - 1]_trigVars

(* "retry the baseline bootstrap rather than retaining that strike as the   *)
(* baseline indefinitely": once the sensors rest, an engine that was        *)
(* started, or restarted after a gap, in the middle of a strike finds its   *)
(* quiet stretch and can hear hits again.                                   *)
TrigRecovers == []<>(trigCalm => trigPad.found)
=============================================================================
