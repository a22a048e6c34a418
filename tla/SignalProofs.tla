---------------------------- MODULE SignalProofs ----------------------------
(* Proofs about the signal path of the pads: AdcRing, for a ring and a gap   *)
(* of any length - a record that carries no flag holds all frames since the *)
(* previous one - and TriggerEngine, for any levels, windows, masks and     *)
(* batches - the counters of a pad and the history of its hits move         *)
(* together.                                                                *)
EXTENDS AdcRing, TriggerEngine, SequenceTheorems, TLAPS

-----------------------------------------------------------------------------
(* AdcRing.                                                                 *)

(* The cursor after n frames.                                               *)
RingCursorAt(n) == IF n = 0 THEN Invalid ELSE ((n - 1) % RingFrames) + 1

RingPoint == 0..RingFrames

RingTypes ==
    /\ ringW \in Nat
    /\ ringMode \in {"sequence", "live", "snapshot"}
    /\ ringPc \in {"idle", "open", "anchored", "copy", "copied", "invalid"}
    /\ ringCursor \in RingPoint /\ ringBefore \in RingPoint
    /\ ringCopy \in Seq(Int)
    /\ ringPoll \in Int /\ ringNow \in Nat
    /\ ringFirst \in Nat \cup {NoFrame}
    /\ ringUpto \in Nat /\ ringUpto <= ringW
    /\ DOMAIN ringRecord = {"frames", "flagged", "first", "upto", "after"}
    /\ ringRecord.after \in Nat /\ ringRecord.after <= ringW
    /\ ringRecord.upto \in Nat /\ ringRecord.first \in Nat \cup {NoFrame}

(* The cursors are those of the frames the history names; only a reader of  *)
(* completed frames that has its place in the ring copies any.              *)
RingPlaces ==
    /\ ringBefore = RingCursorAt(ringUpto)
    /\ ringFirst # NoFrame => ringFirst <= ringUpto /\ ringCursor = RingCursorAt(ringFirst)
    /\ ringMode = "snapshot" =>
         /\ ringFirst = NoFrame <=> ringPoll = NoFrame
         /\ ringPc # "anchored"
    /\ ringMode # "snapshot" =>
         /\ ringFirst = NoFrame <=> ringCursor = Invalid
         /\ ringPc \in {"anchored", "copy", "copied"} => ringUpto # 0
         /\ ringPc \in {"copy", "copied"} => ringFirst # NoFrame
         /\ ringPc = "anchored" => ringFirst = NoFrame

(* The slot the j-th frame of the copy came from; and what it is: each      *)
(* frame that lies in this slot, unless the DMA had come round to it.       *)
RingSlotOf(j) ==
    IF ringMode = "snapshot" THEN j - 1 ELSE (ringCursor + j - 1) % RingFrames
RingHeld(written) ==
    \A j \in 1..Len(ringCopy), k \in 0..(ringUpto - 1) :
      k % RingFrames = RingSlotOf(j) => ringCopy[j] = k \/ written >= k + RingFrames

RingCopies ==
    /\ ringPc \in {"open", "anchored"} => ringCopy = <<>>
    /\ ringPc = "copy" => RingHeld(ringW)
    /\ ringPc = "copied" =>
         /\ Len(ringCopy) = RingToCopy
         /\ ringUpto <= ringRecord.after
         /\ RingProduced + RingDistance(ringBefore, RingCursorAt(ringRecord.after)) < RingFrames
         /\ RingHeld(ringRecord.after)

RingInv == RingTypes /\ RingPlaces /\ RingCopies /\ RingExact

LEMMA RingSizes ==
    /\ RingFrames \in Nat \ {0} /\ RingFrames > 1
    /\ RingGap \in Nat /\ NoFrame = -1 /\ Torn = -2 /\ Invalid = 0
  BY RingAssumption DEF NoFrame, Torn, Invalid

-----------------------------------------------------------------------------
(* Remainders.                                                              *)
LEMMA Division ==
    ASSUME NEW n \in Nat \ {0}, NEW a \in Int
    PROVE  /\ a % n \in 0..(n - 1)
           /\ \E q \in Int : a = q * n + (a % n)
<1>1. a % n \in 0..(n - 1)
  OBVIOUS
<1>2. a = (a \div n) * n + (a % n) /\ a \div n \in Int
  OBVIOUS
<1> QED
  BY <1>1, <1>2

LEMMA NoSmallMultiple ==
    ASSUME NEW n \in Nat \ {0}, NEW k \in Int, k * n < n, k * n > -n
    PROVE  k = 0
<1>1. k >= 1 => k * n >= n
  OBVIOUS
<1>2. k <= -1 => k * n <= -n
  OBVIOUS
<1> QED
  BY <1>1, <1>2

LEMMA Remainder ==
    ASSUME NEW n \in Nat \ {0}, NEW a \in Int, NEW q \in Int, NEW r \in 0..(n - 1),
           a = q * n + r
    PROVE  a % n = r
<1>1. PICK p \in Int : a = p * n + (a % n)
  BY Division
<1>2. a % n \in 0..(n - 1)
  BY Division
<1>3. (p - q) * n = r - (a % n)
  BY <1>1, <1>2
<1>4. p - q = 0
  BY <1>2, <1>3, NoSmallMultiple
<1> QED
  BY <1>1, <1>2, <1>4

LEMMA SameRemainder ==
    ASSUME NEW n \in Nat \ {0}, NEW a \in Int, NEW b \in Int,
           a % n = b % n, a - b < n, b - a < n
    PROVE  a = b
<1>1. PICK p \in Int : a = p * n + (a % n)
  BY Division
<1>2. PICK q \in Int : b = q * n + (b % n)
  BY Division
<1>3. a - b = (p - q) * n
  BY <1>1, <1>2
<1>4. p - q = 0
  BY <1>3, NoSmallMultiple
<1> QED
  BY <1>3, <1>4

LEMMA Quotient ==
    ASSUME NEW n \in Nat \ {0}, NEW a \in Int
    PROVE  \E q \in Int, r \in 0..(n - 1) : a = q * n + r /\ a % n = r
<1>1. a % n \in 0..(n - 1)
  BY Division
<1>2. PICK q \in Int : a = q * n + (a % n)
  BY Division
<1> QED
  BY <1>1, <1>2

LEMMA RemainderPlus ==
    ASSUME NEW n \in Nat \ {0}, NEW a \in Int, NEW k \in Int
    PROVE  ((a % n) + k) % n = (a + k) % n
<1>1. PICK p \in Int, r \in 0..(n - 1) : a = p * n + r /\ a % n = r
  BY Quotient
<1>2. r + k \in Int
  OBVIOUS
<1>3. PICK q \in Int, s \in 0..(n - 1) : r + k = q * n + s /\ (r + k) % n = s
  BY <1>2, Quotient
<1>4. p * n + q * n = (p + q) * n /\ p * n \in Int /\ q * n \in Int /\ p + q \in Int
  OBVIOUS
<1>5. a + k = (p + q) * n + s
  BY ONLY a \in Int, k \in Int, r \in Int, s \in Int, <1>1, <1>3, <1>4
<1> DEFINE m == a + k
           o == p + q
<1>6. m \in Int /\ o \in Int /\ m = o * n + s
  BY <1>5
<1> HIDE DEF m, o
<1>7. m % n = s
  BY <1>6, Remainder
<1> QED
  BY <1>1, <1>3, <1>7 DEF m

LEMMA RemainderMinus ==
    ASSUME NEW n \in Nat \ {0}, NEW a \in Int, NEW b \in Int,
           a - b \in 0..(n - 1)
    PROVE  /\ ((a % n) + n - (b % n)) % n = a - b
           /\ (a - (b % n)) % n = a - b
<1>1. PICK p \in Int, r \in 0..(n - 1) : a = p * n + r /\ a % n = r
  BY Quotient
<1>2. PICK q \in Int, s \in 0..(n - 1) : b = q * n + s /\ b % n = s
  BY Quotient
<1>3. (q - p + 1) * n = q * n - p * n + n /\ p * n \in Int /\ q * n \in Int
  OBVIOUS
<1>4. r + n - s = (q - p + 1) * n + (a - b) /\ q - p + 1 \in Int
  BY <1>1, <1>2, <1>3
<1>5. a - s = q * n + (a - b)
  BY <1>2, <1>3
<1>6. r + n - s \in Int /\ a - s \in Int
  OBVIOUS
<1>7. (r + n - s) % n = a - b
  BY <1>4, <1>6, Remainder
<1>8. (a - s) % n = a - b
  BY <1>5, <1>6, Remainder
<1> QED
  BY <1>1, <1>2, <1>7, <1>8

-----------------------------------------------------------------------------
(* A cursor is a place in the ring; the distance of two is that of their    *)
(* frames, as long as these are less than a ring apart.                     *)
LEMMA CursorInRing ==
    ASSUME NEW n \in Nat
    PROVE  /\ RingCursorAt(n) \in RingPoint
           /\ RingCursorAt(n) = Invalid <=> n = 0
<1>1. n # 0 => (n - 1) % RingFrames \in 0..(RingFrames - 1)
  BY RingSizes, Division
<1> QED
  BY <1>1, RingSizes DEF RingCursorAt, RingPoint

LEMMA CursorDistance ==
    ASSUME NEW f \in Nat, NEW u \in Nat, f # 0, f <= u, u - f < RingFrames
    PROVE  RingDistance(RingCursorAt(f), RingCursorAt(u)) = u - f
<1> DEFINE a == u - 1
           b == f - 1
<1>1. a \in Int /\ b \in Int /\ a - b = u - f /\ a - b \in 0..(RingFrames - 1)
  BY RingSizes
<1>2. a % RingFrames \in Int /\ b % RingFrames \in Int
  BY <1>1, RingSizes, Division
<1>3. RingDistance(RingCursorAt(f), RingCursorAt(u))
        = ((a % RingFrames) + 1 + RingFrames - ((b % RingFrames) + 1)) % RingFrames
  BY DEF RingDistance, RingCursorAt
<1> HIDE DEF a, b
<1>4. (a % RingFrames) + 1 + RingFrames - ((b % RingFrames) + 1)
        = (a % RingFrames) + RingFrames - (b % RingFrames)
  BY <1>2, RingSizes
<1> QED
  BY <1>1, <1>3, <1>4, RingSizes, RemainderMinus

(* The i-th frame from the cursor on lies i frames behind.                  *)
LEMMA SlotFromCursor ==
    ASSUME NEW f \in Nat, f # 0, NEW i \in Int
    PROVE  (RingCursorAt(f) + i - 1) % RingFrames = (f + i - 1) % RingFrames
<1> DEFINE a == f - 1
<1>1. a \in Int /\ a + i = f + i - 1
  OBVIOUS
<1>2. a % RingFrames \in Int
  BY <1>1, RingSizes, Division
<1>3. RingCursorAt(f) + i - 1 = (a % RingFrames) + i
  BY <1>2 DEF RingCursorAt
<1> HIDE DEF a
<1> QED
  BY <1>1, <1>3, RingSizes, RemainderPlus

(* What a copy of the slot of a completed frame delivers.                   *)
LEMMA SlotHoldsFrame ==
    ASSUME RingTypes, NEW k \in Nat, k < ringW, ringW < k + RingFrames
    PROVE  RingSlot(k % RingFrames) = k
<1> DEFINE a == ringW - 1
<1>1. ringW \in Nat /\ a \in Int /\ a - k \in 0..(RingFrames - 1)
  BY RingSizes DEF RingTypes
<1>2. ringW % RingFrames # k % RingFrames
  BY <1>1, RingSizes, SameRemainder
<1> HIDE DEF a
<1>3. (a - (k % RingFrames)) % RingFrames = a - k
  <2>1. k \in Int /\ a \in Int /\ a - k \in 0..(RingFrames - 1)
    BY <1>1
  <2>2. RingFrames \in Nat \ {0}
    BY RingSizes
  <2> QED
    BY ONLY <2>1, <2>2, RemainderMinus
<1> QED
  BY <1>1, <1>2, <1>3 DEF RingSlot, a

LEMMA SlotIsInteger ==
    ASSUME RingTypes, NEW s \in Int PROVE RingSlot(s) \in Int
<1>1. (ringW - 1 - s) % RingFrames \in Int
  BY RingSizes, Division DEF RingTypes
<1> QED
  BY <1>1, RingSizes DEF RingTypes, RingSlot

-----------------------------------------------------------------------------
(* The invariant, action by action.                                         *)
LEMMA RingStarts == RingInit => RingInv
<1> SUFFICES ASSUME RingInit PROVE RingInv
  OBVIOUS
<1> USE RingSizes DEF RingInit
<1>1. RingTypes
  BY DEF RingTypes, RingPoint
<1>2. RingPlaces
  BY DEF RingPlaces, RingCursorAt
<1>3. RingCopies
  BY DEF RingCopies
<1>4. RingExact
  BY DEF RingExact, RingFaithful
<1> QED
  BY <1>1, <1>2, <1>3, <1>4 DEF RingInv

(* RingExact speaks of the record alone.                                    *)
LEMMA RecordKept ==
    ASSUME RingExact, ringRecord' = ringRecord PROVE RingExact'
  BY DEF RingExact, RingFaithful

LEMMA DmaKeeps == RingInv /\ RingDma => RingInv'
<1> SUFFICES ASSUME RingInv, RingDma PROVE RingInv'
  OBVIOUS
<1> USE RingSizes DEF RingInv, RingDma
<1>1. RingTypes'
  BY DEF RingTypes
<1>2. RingPlaces'
  BY DEF RingPlaces, RingCursorAt
<1>3. RingCopies'
  <2>1. RingHeld(ringW) => RingHeld(ringW)'
    BY DEF RingHeld, RingSlotOf, RingTypes
  <2>2. RingHeld(ringRecord.after) => RingHeld(ringRecord.after)'
    BY DEF RingHeld, RingSlotOf
  <2> QED
    BY <2>1, <2>2 DEF RingCopies, RingToCopy, RingProduced, RingDistance, RingCursorAt
<1>4. RingExact'
  BY RecordKept
<1> QED
  BY <1>1, <1>2, <1>3, <1>4

LEMMA BeginKeeps == RingInv /\ RingBegin => RingInv'
<1> SUFFICES ASSUME RingInv, RingBegin PROVE RingInv'
  OBVIOUS
<1> USE RingSizes DEF RingInv, RingBegin
<1>1. RingTypes'
  BY DEF RingTypes, RingPoint
<1>2. RingPlaces'
  BY DEF RingPlaces, RingCursorAt
<1>3. RingCopies'
  BY DEF RingCopies
<1>4. RingExact'
  BY RecordKept
<1> QED
  BY <1>1, <1>2, <1>3, <1>4

LEMMA OpenKeeps == RingInv /\ RingOpen => RingInv'
<1> SUFFICES ASSUME RingInv, RingOpen PROVE RingInv'
  OBVIOUS
<1> USE RingSizes DEF RingInv, RingOpen
<1>1. /\ ringBefore' = RingCursorAt(ringW) /\ ringUpto' = ringW /\ ringW \in Nat
      /\ ringUpto \in Nat /\ ringUpto <= ringW
  BY DEF RingCursorNow, RingCursorAt, RingTypes
<1>2. /\ ringBefore' \in RingPoint
      /\ ringBefore' = Invalid <=> ringW = 0
  BY <1>1, CursorInRing
<1>3. ringPc' \in {"copy", "invalid", "anchored"}
  OBVIOUS
<1>4. RingTypes'
  BY <1>1, <1>2, <1>3 DEF RingTypes
<1>5. RingPlaces'
  <2>1. ringBefore' = RingCursorAt(ringUpto')
    BY <1>1
  <2>2. ringFirst # NoFrame => ringFirst <= ringUpto' /\ ringCursor = RingCursorAt(ringFirst)
    BY <1>1 DEF RingPlaces, RingTypes
  <2>3. CASE ringMode = "snapshot"
    BY <2>1, <2>2, <2>3 DEF RingPlaces, RingCursorAt
  <2>4. CASE ringMode # "snapshot"
    BY <1>1, <1>2, <2>1, <2>2, <2>4 DEF RingPlaces, RingCursorAt
  <2> QED
    BY <2>3, <2>4
<1>6. RingCopies'
  <2>1. ringCopy' = <<>>
    BY DEF RingCopies
  <2>2. RingHeld(ringW)'
    BY <2>1 DEF RingHeld
  <2> QED
    BY <1>3, <2>1, <2>2 DEF RingCopies
<1>7. RingExact'
  BY RecordKept
<1> QED
  BY <1>4, <1>5, <1>6, <1>7

LEMMA CopyKeeps == RingInv /\ RingCopySlot => RingInv'
<1> SUFFICES ASSUME RingInv, RingCopySlot PROVE RingInv'
  OBVIOUS
<1> USE RingSizes DEF RingInv, RingCopySlot
<1> DEFINE n == Len(ringCopy) + 1
           slot == RingSlotOf(n)
<1>0. ringCopy \in Seq(Int) /\ Len(ringCopy) \in Nat /\ n \in Nat
  BY LenProperties DEF RingTypes
<1>1. slot \in Int
  <2>1. ringCursor + n - 1 \in Int /\ n - 1 \in Int
    BY <1>0 DEF RingTypes, RingPoint
  <2>2. (ringCursor + n - 1) % RingFrames \in Int
    BY <2>1, Division
  <2> QED
    BY <2>1, <2>2 DEF RingSlotOf
<1>2. ringCopy' = Append(ringCopy, RingSlot(slot)) /\ ringPc' \in {"copy", "invalid"}
  BY <1>0 DEF RingSlotOf, RingTypes, RingPoint
<1>3. RingSlot(slot) \in Int
  BY <1>1, SlotIsInteger
<1>4. /\ ringCopy' \in Seq(Int) /\ Len(ringCopy') = n
      /\ \A j \in 1..n : ringCopy'[j] = IF j = n THEN RingSlot(slot) ELSE ringCopy[j]
  BY <1>0, <1>2, <1>3, AppendProperties
<1>5. RingTypes'
  BY <1>2, <1>4 DEF RingTypes
<1>6. RingPlaces'
  BY <1>2 DEF RingPlaces, RingCursorAt
<1>7. RingCopies'
  <2>1. ASSUME NEW j \in 1..n, NEW k \in 0..(ringUpto - 1), k % RingFrames = RingSlotOf(j)
        PROVE  ringCopy'[j] = k \/ ringW >= k + RingFrames
    <3>1. CASE j = n
      <4>1. k \in Nat /\ k < ringW /\ ringW \in Nat
        BY DEF RingTypes
      <4>2. ringW < k + RingFrames => RingSlot(slot) = k
        BY <2>1, <3>1, <4>1, SlotHoldsFrame
      <4> QED
        BY <1>4, <3>1, <4>1, <4>2
    <3>2. CASE j # n
      <4>1. j \in 1..Len(ringCopy) /\ ringCopy'[j] = ringCopy[j]
        BY <1>0, <1>4, <3>2
      <4> QED
        BY <2>1, <4>1 DEF RingCopies, RingHeld
    <3> QED
      BY <3>1, <3>2
  <2>2. RingHeld(ringW)'
    BY <1>4, <2>1 DEF RingHeld, RingSlotOf
  <2> QED
    BY <1>2, <2>2 DEF RingCopies
<1>8. RingExact'
  BY RecordKept
<1> QED
  BY <1>5, <1>6, <1>7, <1>8

LEMMA AfterKeeps == RingInv /\ RingAfter => RingInv'
<1> SUFFICES ASSUME RingInv, RingAfter PROVE RingInv'
  OBVIOUS
<1> USE RingSizes DEF RingInv, RingAfter
<1>1. /\ ringRecord'.after = ringW /\ ringRecord'.upto = ringRecord.upto
      /\ ringRecord'.first = ringRecord.first /\ ringRecord'.frames = ringRecord.frames
      /\ ringRecord'.flagged = ringRecord.flagged
  BY DEF RingTypes
<1>2. RingTypes'
  <2>2. DOMAIN ringRecord' = DOMAIN ringRecord
    OBVIOUS
  <2>3. ringRecord'.after \in Nat /\ ringRecord'.after <= ringW'
    BY <1>1 DEF RingTypes
  <2>4. ringPc' \in {"copied", "invalid"}
    OBVIOUS
  <2> QED
    BY <1>1, <2>2, <2>3, <2>4 DEF RingTypes
<1>3. RingPlaces'
  BY DEF RingPlaces, RingCursorAt
<1>4. RingCopies'
  <2>1. RingHeld(ringW) => RingHeld(ringRecord.after)'
    BY <1>1 DEF RingHeld, RingSlotOf
  <2>2. ASSUME ringPc' = "copied"
        PROVE  RingProduced + RingDistance(ringBefore, RingCursorAt(ringW)) < RingFrames
    <3>1. RingCursorNow = RingCursorAt(ringW)
      BY DEF RingCursorNow, RingCursorAt
    <3>2. /\ RingProduced \in Int
          /\ RingDistance(ringBefore, RingCursorAt(ringW)) \in Int
      <4>1. RingCursorAt(ringW) \in Int /\ ringBefore \in Int /\ ringCursor \in Int
        BY CursorInRing DEF RingTypes, RingPoint
      <4>2. /\ RingCursorAt(ringW) + RingFrames - ringBefore \in Int
            /\ ringBefore + RingFrames - ringCursor \in Int
        BY <4>1
      <4> QED
        BY <4>2, Division DEF RingProduced, RingDistance
    <3> QED
      BY <2>2, <3>1, <3>2 DEF RingOverlap
  <2> QED
    BY <1>1, <2>1, <2>2
    DEF RingCopies, RingTypes, RingToCopy, RingProduced, RingDistance, RingCursorAt
<1>5. RingExact'
  BY <1>1 DEF RingExact, RingFaithful, RingTypes
<1> QED
  BY <1>2, <1>3, <1>4, <1>5

(* A copy the DMA did not come round to holds the frames since the last     *)
(* record, at the slots they lie in.                                        *)
LEMMA CopyIsWhole ==
    ASSUME RingInv, ringPc = "copied", ringFirst \in Nat, ringFirst # 0,
           ringUpto - ringFirst < RingFrames, ringRecord.after - ringUpto < RingFrames
    PROVE  /\ RingProduced = ringUpto - ringFirst
           /\ Len(ringCopy) = RingToCopy
           /\ \A i \in 1..(ringUpto - ringFirst), j \in 1..Len(ringCopy) :
                RingSlotOf(j) = (ringCursor + i - 1) % RingFrames
                  => ringCopy[j] = ringFirst + i - 1
<1> USE RingSizes DEF RingInv
<1>1. /\ ringUpto \in Nat /\ ringRecord.after \in Nat /\ ringUpto <= ringRecord.after
      /\ ringFirst <= ringUpto /\ ringUpto # 0
      /\ ringCursor = RingCursorAt(ringFirst) /\ ringBefore = RingCursorAt(ringUpto)
  BY DEF RingTypes, RingPlaces, RingCopies
<1>2. RingProduced = ringUpto - ringFirst
  BY <1>1, CursorDistance DEF RingProduced
<1>3. RingDistance(ringBefore, RingCursorAt(ringRecord.after)) = ringRecord.after - ringUpto
  BY <1>1, CursorDistance
<1>4. ringRecord.after < ringFirst + RingFrames
  BY <1>1, <1>2, <1>3 DEF RingCopies
<1>5. ASSUME NEW i \in 1..(ringUpto - ringFirst), NEW j \in 1..Len(ringCopy),
             RingSlotOf(j) = (ringCursor + i - 1) % RingFrames
      PROVE  ringCopy[j] = ringFirst + i - 1
  <2> DEFINE k == ringFirst + i - 1
  <2>1. k \in 0..(ringUpto - 1) /\ i \in Int /\ k >= ringFirst /\ k \in Int
    BY <1>1
  <2>2. (ringCursor + i - 1) % RingFrames = k % RingFrames
    BY <1>1, <2>1, SlotFromCursor
  <2> HIDE DEF k
  <2>3. ringCopy[j] = k \/ ringRecord.after >= k + RingFrames
    BY <1>5, <2>1, <2>2 DEF RingCopies, RingHeld
  <2> QED
    BY <1>1, <1>4, <2>1, <2>3 DEF k
<1> QED
  BY <1>2, <1>5 DEF RingCopies

LEMMA CloseKeeps == RingInv /\ RingClose => RingInv'
<1> SUFFICES ASSUME RingInv, RingClose PROVE RingInv'
  OBVIOUS
<1> USE RingSizes DEF RingInv
<1>1. PICK bad \in BOOLEAN :
        /\ ringPc = "invalid" => bad
        /\ RingDeliver(IF bad THEN <<>> ELSE ringCopy, bad)
        /\ ringCursor' = IF bad THEN Invalid ELSE ringBefore
        /\ ringFirst' = IF bad THEN NoFrame ELSE ringUpto
  <2>1. PICK otherValid \in BOOLEAN :
         LET gap == \/ ringMode = "sequence" /\ ringNow - ringPoll > RingGap
                    \/ ringW - ringNow > RingGap
             bad == gap \/ ringPc = "invalid" \/ ~otherValid
         IN  /\ RingDeliver(IF bad THEN <<>> ELSE ringCopy, bad)
             /\ ringCursor' = IF bad THEN Invalid ELSE ringBefore
             /\ ringFirst' = IF bad THEN NoFrame ELSE ringUpto
    BY DEF RingClose
  <2> DEFINE bad == \/ ringMode = "sequence" /\ ringNow - ringPoll > RingGap
                    \/ ringW - ringNow > RingGap
                    \/ ringPc = "invalid" \/ ~otherValid
  <2>2. bad \in BOOLEAN
    OBVIOUS
  <2>3. /\ ringPc = "invalid" => bad
        /\ RingDeliver(IF bad THEN <<>> ELSE ringCopy, bad)
        /\ ringCursor' = IF bad THEN Invalid ELSE ringBefore
        /\ ringFirst' = IF bad THEN NoFrame ELSE ringUpto
    BY <2>1
  <2> HIDE DEF bad
  <2> QED
    BY <2>2, <2>3
<1>2. /\ ringMode # "snapshot" /\ ringPc \in {"invalid", "anchored", "copied"}
      /\ ringPoll' = ringNow /\ ringPc' = "idle"
      /\ UNCHANGED <<ringW, ringMode, ringBefore, ringCopy, ringNow, ringUpto>>
  BY DEF RingClose
<1>3. /\ ringRecord'.frames = (IF bad THEN <<>> ELSE ringCopy)
      /\ ringRecord'.flagged = bad /\ ringRecord'.first = ringFirst
      /\ ringRecord'.upto = ringUpto /\ ringRecord'.after = ringRecord.after
      /\ DOMAIN ringRecord' = {"frames", "flagged", "first", "upto", "after"}
  BY <1>1 DEF RingDeliver
<1>4. RingTypes'
  BY <1>1, <1>2, <1>3 DEF RingTypes, RingPoint
<1>5. RingPlaces'
  <2>1. ~bad => ringUpto # 0 /\ ringBefore = RingCursorAt(ringUpto) /\ ringBefore # Invalid
    BY <1>1, <1>2, CursorInRing DEF RingPlaces, RingTypes
  <2> QED
    BY <1>1, <1>2, <2>1 DEF RingPlaces, RingTypes, RingCursorAt
<1>6. RingCopies'
  BY <1>2 DEF RingCopies
<1>7. RingExact'
  <2> SUFFICES ASSUME ~bad, ringFirst # NoFrame => ringUpto - ringFirst < RingFrames,
                      ringRecord.after - ringUpto < RingFrames
               PROVE  ringCopy = IF ringFirst = NoFrame THEN <<>>
                                 ELSE [i \in 1..(ringUpto - ringFirst) |-> ringFirst + i - 1]
    BY <1>3 DEF RingExact, RingFaithful
  <2>1. CASE ringPc = "anchored"
    BY <1>2, <2>1 DEF RingPlaces, RingCopies
  <2>2. CASE ringPc = "copied"
    <3> DEFINE n == ringUpto - ringFirst
    <3>1. ringFirst # NoFrame /\ ringFirst \in Nat /\ ringFirst # 0 /\ n \in Nat
      BY <1>2, <2>2 DEF RingPlaces, RingTypes, RingCursorAt
    <3>2. /\ Len(ringCopy) = n
          /\ \A i \in 1..n : RingSlotOf(i) = (ringCursor + i - 1) % RingFrames
                              => ringCopy[i] = ringFirst + i - 1
      BY <1>2, <2>2, <3>1, CopyIsWhole DEF RingToCopy
    <3>3. ringCopy \in Seq(Int)
      BY DEF RingTypes
    <3>4. \A i \in 1..n : ringCopy[i] = ringFirst + i - 1
      BY <1>2, <3>2 DEF RingSlotOf
    <3> HIDE DEF n
    <3>5. ringCopy = [i \in 1..n |-> ringFirst + i - 1]
      BY <3>1, <3>2, <3>3, <3>4
    <3> QED
      BY <3>1, <3>5 DEF n
  <2> QED
    BY <1>1, <1>2, <2>1, <2>2
<1> QED
  BY <1>4, <1>5, <1>6, <1>7

LEMMA AnalyseKeeps == RingInv /\ RingAnalyse => RingInv'
<1> SUFFICES ASSUME RingInv, RingAnalyse PROVE RingInv'
  OBVIOUS
<1> USE RingSizes DEF RingInv
<1> DEFINE fresh == [i \in 1..RingProduced |->
                       ringCopy[((ringCursor + i - 1) % RingFrames) + 1]]
<1>1. /\ ringMode = "snapshot" /\ ringPc \in {"invalid", "copied"}
      /\ ringCursor' = ringBefore /\ ringFirst' = ringUpto
      /\ ringPoll' = ringW /\ ringPc' = "idle"
      /\ UNCHANGED <<ringW, ringMode, ringBefore, ringCopy, ringNow, ringUpto>>
  BY DEF RingAnalyse
<1>2. \/ ringPoll = NoFrame /\ RingDeliver(<<>>, FALSE)
      \/ /\ ringPoll # NoFrame
         /\ \E flagged \in BOOLEAN :
              /\ ringCursor = Invalid \/ ringPc = "invalid" => flagged
              /\ RingDeliver(fresh, flagged)
  BY DEF RingAnalyse
<1>3. /\ ringRecord'.first = ringFirst /\ ringRecord'.upto = ringUpto
      /\ ringRecord'.after = ringRecord.after
      /\ DOMAIN ringRecord' = {"frames", "flagged", "first", "upto", "after"}
  BY <1>2 DEF RingDeliver
<1>4. RingTypes'
  BY <1>1, <1>3 DEF RingTypes
<1>5. RingPlaces'
  BY <1>1 DEF RingPlaces, RingTypes, RingCursorAt
<1>6. RingCopies'
  BY <1>1 DEF RingCopies
<1>7. RingExact'
  <2>1. CASE ringPoll = NoFrame /\ RingDeliver(<<>>, FALSE)
    <3>1. ringRecord'.frames = <<>> /\ ringFirst = NoFrame
      BY <1>1, <2>1 DEF RingDeliver, RingPlaces
    <3> QED
      BY <1>3, <3>1 DEF RingExact, RingFaithful
  <2>2. ASSUME NEW flagged \in BOOLEAN, ringPoll # NoFrame, RingDeliver(fresh, flagged),
               ringCursor = Invalid \/ ringPc = "invalid" => flagged
        PROVE  RingExact'
    <3>1. ringRecord'.frames = fresh /\ ringRecord'.flagged = flagged
      BY <2>2 DEF RingDeliver
    <3>2. ringFirst # NoFrame
      BY <1>1, <2>2 DEF RingPlaces
    <3> SUFFICES ASSUME ~flagged, ringUpto - ringFirst < RingFrames,
                        ringRecord.after - ringUpto < RingFrames
                 PROVE  fresh = [i \in 1..(ringUpto - ringFirst) |-> ringFirst + i - 1]
      BY <1>3, <3>1, <3>2 DEF RingExact, RingFaithful
    <3>3. ringPc = "copied" /\ ringFirst \in Nat /\ ringFirst # 0
      BY <1>1, <2>2, <3>2 DEF RingPlaces, RingTypes, RingCursorAt
    <3>4. /\ RingProduced = ringUpto - ringFirst /\ Len(ringCopy) = RingFrames
          /\ \A i \in 1..(ringUpto - ringFirst), j \in 1..Len(ringCopy) :
               RingSlotOf(j) = (ringCursor + i - 1) % RingFrames
                 => ringCopy[j] = ringFirst + i - 1
      BY <1>1, <3>3, CopyIsWhole DEF RingToCopy
    <3>5. ASSUME NEW i \in 1..(ringUpto - ringFirst)
          PROVE  ringCopy[((ringCursor + i - 1) % RingFrames) + 1] = ringFirst + i - 1
      <4> DEFINE s == (ringCursor + i - 1) % RingFrames
      <4>1. ringCursor + i - 1 \in Int
        BY <3>3 DEF RingTypes, RingPoint
      <4>2. s \in 0..(RingFrames - 1)
        BY <4>1, Division
      <4> HIDE DEF s
      <4>3. s + 1 \in 1..Len(ringCopy) /\ RingSlotOf(s + 1) = s
        BY <1>1, <3>4, <4>2 DEF RingSlotOf
      <4> QED
        BY <3>4, <4>3 DEF s
    <3> QED
      BY <3>4, <3>5
  <2> QED
    BY <1>2, <2>1, <2>2
<1> QED
  BY <1>4, <1>5, <1>6, <1>7

LEMMA RingInductive == RingInv /\ [RingNext]_ringVars => RingInv'
<1>1. ASSUME RingInv, UNCHANGED ringVars PROVE RingInv'
  BY <1>1 DEF ringVars, RingInv, RingTypes, RingPlaces, RingCopies, RingExact, RingFaithful,
              RingHeld, RingSlotOf, RingToCopy, RingProduced, RingDistance, RingCursorAt
<1> QED
  BY <1>1, DmaKeeps, BeginKeeps, OpenKeeps, CopyKeeps, AfterKeeps, CloseKeeps, AnalyseKeeps
  DEF RingNext

-----------------------------------------------------------------------------
(* For a ring of any length and a gap bound of any length below it, and a   *)
(* DMA that goes on between any two words: a record without a flag holds    *)
(* all frames since the previous one, in order, and none that was           *)
(* overwritten while it was copied (readCompletedFrames, its callers, and   *)
(* analysePadSnapshot), as long as the DMA does not go round between two    *)
(* looks at the cursor.                                                     *)
THEOREM RecordsAreExact == RingSpec => []RingExact
<1>1. RingInv => RingExact
  BY DEF RingInv
<1> QED
  BY <1>1, RingStarts, RingInductive, PTL DEF RingSpec

-----------------------------------------------------------------------------
(* TriggerEngine.                                                           *)

USE TrigAssumption

TrigPads ==
    [warm : Nat, mask : Nat, quiet : Nat, unsettled : Nat, since : Nat, base : Int,
     trace : Int, filled : Nat, peak : Int, pending : BOOLEAN, found : BOOLEAN]

TrigTypes ==
    /\ trigPad \in TrigPads
    /\ trigInput \in TrigSettings
    /\ trigLeft \in Nat
    /\ trigSince \in 0..TrigFar /\ trigClipAgo \in 0..TrigFar

(* A hit in hand belongs to a pad that has found its rest; its window is as *)
(* long as the hit is old. A pad without one has had its window.            *)
TrigWindows ==
    /\ trigPad.unsettled < TrigUnsettled
    /\ trigPad.pending =>
         /\ trigPad.found /\ trigPad.warm >= TrigWarm /\ trigPad.mask = 0
         /\ trigPad.filled < TrigWindow /\ trigPad.filled = trigSince + 1
    /\ ~trigPad.pending => trigSince >= TrigWindow - 1

(* What is left of the mask covers what is left of the time between hits.   *)
TrigMaskCovers ==
    /\ trigClipAgo + trigPad.mask >= TrigClipMask
    /\ ~trigPad.pending => \/ trigSince + trigPad.mask >= trigInput.mask - 1
                           \/ trigClipAgo < trigSince

TrigIInv == TrigTypes /\ TrigWindows /\ TrigMaskCovers

LEMMA TrigBounds ==
    /\ TrigWindow \in Nat /\ 1 <= TrigWindow /\ TrigWindow <= TrigFar
    /\ TrigClipMask \in Nat /\ 1 <= TrigClipMask /\ TrigClipMask <= TrigFar
    /\ TrigWarm \in Nat /\ TrigUnsettled \in Nat /\ 1 <= TrigUnsettled
    /\ TrigLevels \in Nat /\ TrigFar \in Nat
    /\ \A m \in TrigMasks : m \in Nat /\ m <= TrigFar
  OBVIOUS

(* A pad that was reset; with a forgotten history it meets the invariant.   *)
LEMMA TrigForgotten ==
    /\ TrigFresh \in TrigPads
    /\ TrigFresh.pending = FALSE /\ TrigFresh.mask = 0 /\ TrigFresh.unsettled = 0
    /\ \A s \in TrigSettings : s.mask \in Nat /\ s.mask <= TrigFar
<1>1. TrigFresh \in TrigPads
  BY DEF TrigFresh, TrigPads
<1>2. TrigFresh.pending = FALSE /\ TrigFresh.mask = 0 /\ TrigFresh.unsettled = 0
  BY DEF TrigFresh
<1>3. \A s \in TrigSettings : s.mask \in Nat /\ s.mask <= TrigFar
  BY TrigBounds DEF TrigSettings
<1> QED
  BY <1>1, <1>2, <1>3

(* The history after a frame.                                               *)
LEMMA TrigAges ==
    ASSUME TrigTypes, NEW onset \in BOOLEAN, NEW clip \in BOOLEAN, TrigHistory(onset, clip)
    PROVE  /\ trigSince' \in 0..TrigFar /\ trigClipAgo' \in 0..TrigFar
           /\ onset => trigSince' = 0
           /\ ~onset /\ ~(clip /\ trigPad.pending) =>
                \/ trigSince' = trigSince + 1
                \/ trigSince' = TrigFar /\ trigSince = TrigFar
           /\ ~onset /\ clip /\ trigPad.pending => trigSince' = TrigFar
           /\ clip => trigClipAgo' = 0
           /\ ~clip => \/ trigClipAgo' = trigClipAgo + 1
                       \/ trigClipAgo' = TrigFar /\ trigClipAgo = TrigFar
<1>1. trigSince \in 0..TrigFar /\ trigClipAgo \in 0..TrigFar /\ TrigFar \in Nat
  BY TrigBounds DEF TrigTypes
<1>2. \A n \in 0..TrigFar : /\ TrigLater(n) \in 0..TrigFar
                            /\ (TrigLater(n) = n + 1 \/ (n = TrigFar /\ TrigLater(n) = TrigFar))
  BY <1>1 DEF TrigLater
<1> QED
  BY <1>1, <1>2 DEF TrigHistory

(* The parts of processFrame: what each does to the fields of the pad.      *)
LEMMA TrigMaskDown ==
    ASSUME TrigTypes
    PROVE  /\ TrigMasked \in TrigPads
           /\ TrigMasked.mask = IF trigPad.mask > 0 THEN trigPad.mask - 1 ELSE 0
           /\ TrigMasked.pending = trigPad.pending /\ TrigMasked.found = trigPad.found
           /\ TrigMasked.warm = trigPad.warm /\ TrigMasked.filled = trigPad.filled
           /\ TrigMasked.unsettled = trigPad.unsettled
  BY DEF TrigTypes, TrigMasked, TrigPads

LEMMA TrigSettled ==
    ASSUME NEW s \in TrigPads, NEW level, s.unsettled < TrigUnsettled
    PROVE  LET t == TrigSettle(s, level)
           IN  /\ t \in TrigPads /\ t.mask = s.mask /\ t.pending = s.pending
               /\ t.found = s.found /\ t.warm = s.warm /\ t.filled = s.filled
               /\ t.unsettled <= TrigUnsettled
               /\ s.found => t.unsettled = s.unsettled
  BY TrigBounds DEF TrigSettle, TrigPads

LEMMA TrigHit ==
    ASSUME NEW t \in TrigPads, NEW h,
           h = [t EXCEPT !.quiet = 0, !.since = 0, !.pending = TRUE, !.filled = 0, !.peak = 0]
    PROVE  /\ h \in TrigPads
           /\ h.mask = t.mask /\ h.warm = t.warm /\ h.unsettled = t.unsettled
           /\ h.pending = TRUE /\ h.filled = 0 /\ h.found = t.found
<1>1. h \in TrigPads
  <2>1. t = [warm |-> t.warm, mask |-> t.mask, quiet |-> t.quiet, unsettled |-> t.unsettled,
             since |-> t.since, base |-> t.base, trace |-> t.trace, filled |-> t.filled,
             peak |-> t.peak, pending |-> t.pending, found |-> t.found]
    BY DEF TrigPads
  <2>2. h = [warm |-> t.warm, mask |-> t.mask, quiet |-> 0, unsettled |-> t.unsettled,
             since |-> 0, base |-> t.base, trace |-> t.trace, filled |-> 0,
             peak |-> 0, pending |-> TRUE, found |-> t.found]
    BY <2>1
  <2>3. /\ t.warm \in Nat /\ t.mask \in Nat /\ t.unsettled \in Nat
        /\ t.base \in Int /\ t.trace \in Int /\ t.found \in BOOLEAN
    BY DEF TrigPads
  <2>4. PICK b \in BOOLEAN : b = TRUE
    OBVIOUS
  <2>5. h = [warm |-> t.warm, mask |-> t.mask, quiet |-> 0, unsettled |-> t.unsettled,
             since |-> 0, base |-> t.base, trace |-> t.trace, filled |-> 0,
             peak |-> 0, pending |-> b, found |-> t.found]
    BY <2>2, <2>4
  <2> QED
    BY <2>3, <2>5 DEF TrigPads
<1>2. h.mask = t.mask /\ h.warm = t.warm /\ h.unsettled = t.unsettled /\ h.found = t.found
  BY DEF TrigPads
<1>3. h.pending = TRUE /\ h.filled = 0
  BY DEF TrigPads
<1> QED
  BY <1>1, <1>2, <1>3

LEMMA TrigFilled ==
    ASSUME NEW v \in TrigPads, NEW level, TrigAmplitude(v, level) \in Int, v.pending
    PROVE  /\ TrigFill(v, level) \in TrigPads
           /\ TrigFill(v, level).mask = v.mask /\ TrigFill(v, level).warm = v.warm
           /\ TrigFill(v, level).unsettled = v.unsettled
           /\ TrigFill(v, level).found = v.found /\ TrigFill(v, level).pending = v.pending
           /\ TrigFill(v, level).filled = v.filled + 1
<1> DEFINE peak == IF TrigAmplitude(v, level) > v.peak THEN TrigAmplitude(v, level) ELSE v.peak
<1>1. v.filled + 1 \in Nat /\ peak \in Int
  BY DEF TrigPads
<1>2. TrigFill(v, level) = [v EXCEPT !.filled = v.filled + 1, !.peak = peak]
  BY DEF TrigFill, TrigPads
<1> HIDE DEF peak
<1> QED
  BY <1>1, <1>2 DEF TrigPads

LEMMA TrigListened ==
    ASSUME NEW t \in TrigPads, NEW level
    PROVE  LET u == TrigListen(t, level)
           IN  /\ u \in TrigPads /\ u.mask = t.mask /\ u.warm = t.warm
               /\ u.unsettled = t.unsettled
               /\ t.pending => u = t /\ ~TrigOnset(t, level)
               /\ ~t.pending /\ TrigOnset(t, level) =>
                    u.pending /\ u.filled = 0 /\ t.found /\ u.found /\ t.mask = 0
               /\ ~t.pending /\ ~TrigOnset(t, level) => ~u.pending
<1> DEFINE u == TrigListen(t, level)
<1>1. CASE t.pending
  BY <1>1 DEF TrigListen, TrigOnset
<1>2. CASE ~t.pending /\ TrigOnset(t, level)
  <2>1. u = [t EXCEPT !.quiet = 0, !.since = 0, !.pending = TRUE, !.filled = 0, !.peak = 0]
    BY <1>2 DEF TrigListen
  <2>2. t.found /\ t.mask = 0
    BY <1>2 DEF TrigOnset
  <2>3. /\ u \in TrigPads /\ u.mask = t.mask /\ u.warm = t.warm /\ u.unsettled = t.unsettled
        /\ u.pending = TRUE /\ u.filled = 0 /\ u.found = t.found
    BY <2>1, TrigHit
  <2> QED
    BY <1>2, <2>2, <2>3
<1>3. CASE ~t.pending /\ ~TrigOnset(t, level)
  <2>1. PICK q \in Nat, f \in BOOLEAN : u = [t EXCEPT !.quiet = q, !.found = f]
    <3>1. CASE TrigLoud(t, level)
      <4>1. u = [t EXCEPT !.quiet = 0, !.found = t.found]
        BY <1>3, <3>1 DEF TrigListen, TrigPads
      <4> QED
        BY <4>1 DEF TrigPads
    <3>2. CASE ~TrigLoud(t, level)
      <4> DEFINE q == IF t.quiet < TrigQuiet THEN t.quiet + 1 ELSE t.quiet
      <4>1. u = [t EXCEPT !.quiet = q, !.found = t.found \/ q = TrigQuiet]
        BY <1>3, <3>2 DEF TrigListen, TrigPads
      <4>2. q \in Nat /\ (t.found \/ q = TrigQuiet) \in BOOLEAN
        BY DEF TrigPads
      <4> QED
        BY <4>1, <4>2
    <3> QED
      BY <3>1, <3>2
  <2> QED
    BY <1>3, <2>1 DEF TrigPads
<1> QED
  BY <1>1, <1>2, <1>3

LEMMA TrigFaded ==
    ASSUME NEW u \in TrigPads, NEW level \in 0..TrigLevels, NEW v \in TrigTrace(u, level)
    PROVE  LET w == TrigFill(v, level)
           IN  /\ w \in TrigPads /\ w.mask = u.mask /\ w.warm = u.warm
               /\ w.unsettled = u.unsettled /\ w.found = u.found /\ w.pending = u.pending
               /\ u.pending => w.filled = u.filled + 1
<1>1. TrigAmplitude(u, level) \in Int
  BY TrigBounds DEF TrigAmplitude, TrigPads
<1>2. /\ v \in TrigPads /\ v.mask = u.mask /\ v.warm = u.warm /\ v.unsettled = u.unsettled
      /\ v.found = u.found /\ v.pending = u.pending /\ v.filled = u.filled
  <2>1. PICK n \in Nat, t \in Int : v = [u EXCEPT !.since = n, !.trace = t]
    <3> DEFINE n == IF u.since < TrigFollow THEN u.since + 1 ELSE u.since
    <3>1. n \in Nat /\ u.trace \in Int
      BY DEF TrigPads
    <3>2. PICK t \in {u.trace, IF u.trace > 0 THEN u.trace - 1 ELSE 0} :
            v = [u EXCEPT !.since = n,
                          !.trace = IF u.since < TrigFollow /\ TrigAmplitude(u, level) > t
                                    THEN TrigAmplitude(u, level) ELSE t]
      BY DEF TrigTrace
    <3> DEFINE x == IF u.since < TrigFollow /\ TrigAmplitude(u, level) > t
                    THEN TrigAmplitude(u, level) ELSE t
    <3>3. x \in Int
      BY <1>1, <3>1, <3>2
    <3>4. v = [u EXCEPT !.since = n, !.trace = x]
      BY <3>2
    <3> HIDE DEF x, n
    <3> QED
      BY <3>1, <3>3, <3>4
  <2> QED
    BY <2>1 DEF TrigPads
<1>3. TrigAmplitude(v, level) \in Int
  BY <1>2, TrigBounds DEF TrigAmplitude, TrigPads
<1>4. CASE ~v.pending
  BY <1>2, <1>4 DEF TrigFill
<1>5. CASE v.pending
  BY <1>2, <1>3, <1>5, TrigFilled
<1> QED
  BY <1>4, <1>5

LEMMA TrigEnded ==
    ASSUME NEW w \in TrigPads, trigInput \in TrigSettings
    PROVE  /\ TrigEnd(w) \in TrigPads /\ ~TrigEnd(w).pending
           /\ TrigEnd(w).mask = TrigRest(trigInput.mask)
           /\ TrigEnd(w).unsettled = w.unsettled
           /\ TrigRest(trigInput.mask) \in Nat
           /\ TrigRest(trigInput.mask) + TrigWindow >= trigInput.mask
<1>1. trigInput.mask \in Nat
  BY TrigBounds DEF TrigSettings
<1>2. TrigRest(trigInput.mask) \in Nat /\ TrigRest(trigInput.mask) + TrigWindow >= trigInput.mask
  BY <1>1, TrigBounds DEF TrigRest
<1> QED
  BY <1>2 DEF TrigEnd, TrigPads

-----------------------------------------------------------------------------
(* processFrame, by its four ways through.                                  *)
LEMMA TrigFrames ==
    ASSUME TrigIInv, TrigFrame
    PROVE  TrigIInv'
<1> USE DEF TrigIInv
<1> DEFINE s == TrigMasked
           m == trigInput.mask
<1>0. /\ m \in Nat /\ m <= TrigFar /\ UNCHANGED trigInput
      /\ trigLeft' \in Nat
      /\ trigPad.mask \in Nat /\ trigPad.pending \in BOOLEAN /\ trigPad.filled \in Nat
      /\ trigSince \in 0..TrigFar /\ trigClipAgo \in 0..TrigFar /\ TrigFar \in Nat
  <2>1. m \in Nat /\ m <= TrigFar
    BY TrigBounds DEF TrigTypes, TrigSettings
  <2>2. UNCHANGED trigInput /\ trigLeft' \in Nat
    BY DEF TrigTypes, TrigFrame
  <2>3. trigPad.mask \in Nat /\ trigPad.pending \in BOOLEAN /\ trigPad.filled \in Nat
    BY DEF TrigTypes, TrigPads
  <2> QED
    BY <2>1, <2>2, <2>3, TrigBounds DEF TrigTypes
<1>1. /\ s \in TrigPads /\ s.mask \in Nat
      /\ s.mask >= trigPad.mask - 1
      /\ s.pending = trigPad.pending /\ s.found = trigPad.found
      /\ s.warm = trigPad.warm /\ s.filled = trigPad.filled
      /\ s.unsettled = trigPad.unsettled /\ s.unsettled < TrigUnsettled
  BY <1>0, TrigMaskDown DEF TrigPads, TrigWindows
(* A frame without a hit: the counters move together.                       *)
<1>2. ASSUME TrigHistory(FALSE, FALSE)
      PROVE  /\ trigSince' \in 0..TrigFar /\ trigClipAgo' \in 0..TrigFar
             /\ trigSince' >= trigSince
             /\ trigClipAgo' + s.mask >= TrigClipMask
             /\ ~trigPad.pending => \/ trigSince' + s.mask >= m - 1
                                    \/ trigClipAgo' < trigSince'
             /\ trigSince' = trigSince + 1 \/ trigSince = TrigFar
  <2>1. /\ trigSince' \in 0..TrigFar /\ trigClipAgo' \in 0..TrigFar
        /\ \/ trigSince' = trigSince + 1
           \/ trigSince' = TrigFar /\ trigSince = TrigFar
        /\ \/ trigClipAgo' = trigClipAgo + 1
           \/ trigClipAgo' = TrigFar /\ trigClipAgo = TrigFar
    BY <1>2, TrigAges
  <2>2. trigClipAgo' + s.mask >= TrigClipMask
    BY <1>0, <1>1, <2>1, TrigBounds DEF TrigMaskCovers
  <2>3. ASSUME ~trigPad.pending
        PROVE  trigSince' + s.mask >= m - 1 \/ trigClipAgo' < trigSince'
    <3>1. trigSince + trigPad.mask >= m - 1 \/ trigClipAgo < trigSince
      BY <2>3 DEF TrigMaskCovers
    <3> HIDE DEF s, m
    <3> QED
      BY <1>0, <1>1, <2>1, <3>1
  <2> QED
    BY <1>0, <2>1, <2>2, <2>3
<1>3. ASSUME TrigHistory(FALSE, TRUE), trigPad' = TrigClip(s) PROVE TrigIInv'
  <2>1. /\ TrigClip(s) \in TrigPads /\ TrigClip(s).mask = TrigClipMask
        /\ TrigClip(s).pending = FALSE /\ TrigClip(s).unsettled = s.unsettled
    <3>1. TrigClipMask \in Nat /\ TrigLevels \in Int
      BY TrigBounds
    <3>2. PICK b \in BOOLEAN : b = FALSE
      OBVIOUS
    <3>3. TrigClip(s) = [s EXCEPT !.pending = b, !.mask = TrigClipMask, !.trace = TrigLevels]
      BY <3>2 DEF TrigClip
    <3> HIDE DEF s
    <3> QED
      BY <1>1, <3>1, <3>2, <3>3 DEF TrigPads
  <2>2. /\ trigClipAgo' = 0 /\ trigSince' \in 0..TrigFar
        /\ trigSince' >= TrigWindow - 1 /\ trigSince' >= 1
    <3>1. /\ trigClipAgo' = 0 /\ trigSince' \in 0..TrigFar
          /\ trigPad.pending => trigSince' = TrigFar
          /\ ~trigPad.pending => \/ trigSince' = trigSince + 1
                                 \/ trigSince' = TrigFar /\ trigSince = TrigFar
      BY <1>3, TrigAges
    <3> QED
      BY <1>0, <3>1, TrigBounds DEF TrigWindows
  <2> QED
    BY <1>0, <1>1, <1>3, <2>1, <2>2, TrigBounds DEF TrigTypes, TrigWindows, TrigMaskCovers
<1>4. ASSUME TrigHistory(FALSE, FALSE), NEW level \in 0..TrigLevels, s.warm < TrigWarm,
             trigPad' \in TrigWarmUp(s, level)
      PROVE  TrigIInv'
  <2>1. ~trigPad.pending
    BY <1>1, <1>4, TrigBounds DEF TrigWindows, TrigPads
  <2>2. PICK b \in 0..TrigLevels : trigPad' = [s EXCEPT !.warm = s.warm + 1, !.base = b]
    <3>1. PICK b \in IF trigInput.calibrated THEN {0}
                     ELSE IF s.warm = 0 THEN {level}
                     ELSE {x \in 0..TrigLevels : (s.base <= x /\ x <= level)
                                                   \/ (level <= x /\ x <= s.base)} :
             trigPad' = [s EXCEPT !.warm = @ + 1, !.base = b]
      BY <1>4 DEF TrigWarmUp
    <3>2. b \in 0..TrigLevels
      BY <3>1, TrigBounds
    <3>3. trigPad' = [s EXCEPT !.warm = s.warm + 1, !.base = b]
      <4> HIDE DEF s
      <4> QED
        BY <1>1, <3>1 DEF TrigPads
    <3> QED
      BY <3>2, <3>3
  <2>3. /\ trigPad' \in TrigPads /\ trigPad'.mask = s.mask /\ trigPad'.pending = s.pending
        /\ trigPad'.unsettled = s.unsettled
    <3>1. b \in Int
      BY TrigBounds
    <3>2. s.warm + 1 \in Nat
      BY <1>1 DEF TrigPads
    <3> HIDE DEF s
    <3> QED
      BY <1>1, <2>2, <3>1, <3>2 DEF TrigPads
  <2> QED
    BY <1>0, <1>1, <1>2, <1>4, <2>1, <2>3 DEF TrigTypes, TrigWindows, TrigMaskCovers
<1>5. ASSUME TrigHistory(FALSE, FALSE), NEW level \in 0..TrigLevels,
             TrigSettle(s, level).unsettled = TrigUnsettled,
             trigPad' = TrigStartOver(TrigSettle(s, level))
      PROVE  TrigIInv'
  <2> DEFINE t == TrigSettle(s, level)
  <2>1. t \in TrigPads /\ t.mask = s.mask /\ t.pending = s.pending /\ ~s.found
    BY <1>1, <1>5, TrigSettled
  <2>2. ~trigPad.pending
    BY <1>1, <2>1 DEF TrigWindows
  <2>3. /\ TrigStartOver(t) \in TrigPads /\ TrigStartOver(t).mask = t.mask
        /\ TrigStartOver(t).pending = t.pending /\ TrigStartOver(t).unsettled = 0
    BY <2>1 DEF TrigStartOver, TrigPads
  <2> QED
    BY <1>0, <1>1, <1>2, <1>5, <2>1, <2>2, <2>3, TrigBounds
    DEF TrigTypes, TrigWindows, TrigMaskCovers
<1>6. ASSUME NEW level \in 0..TrigLevels, s.warm >= TrigWarm,
             TrigSettle(s, level).unsettled # TrigUnsettled,
             NEW v \in TrigTrace(TrigListen(TrigSettle(s, level), level), level),
             trigPad' = IF TrigFull(TrigFill(v, level)) THEN TrigEnd(TrigFill(v, level))
                        ELSE TrigFill(v, level),
             TrigHistory(TrigOnset(TrigSettle(s, level), level), FALSE)
      PROVE  TrigIInv'
  <2> DEFINE t == TrigSettle(s, level)
             u == TrigListen(t, level)
             w == TrigFill(v, level)
             onset == TrigOnset(t, level)
  <2>1. /\ t \in TrigPads /\ t.mask = s.mask /\ t.pending = s.pending /\ t.found = s.found
        /\ t.warm = s.warm /\ t.filled = s.filled
        /\ t.unsettled <= TrigUnsettled
    BY <1>1, TrigSettled
  <2>2. t.unsettled < TrigUnsettled
    BY <1>6, <2>1, TrigBounds DEF TrigPads
  <2>3. /\ u \in TrigPads /\ u.mask = t.mask /\ u.warm = t.warm /\ u.unsettled = t.unsettled
        /\ t.pending => u = t /\ ~onset
        /\ ~t.pending /\ onset => u.pending /\ u.filled = 0 /\ u.found /\ t.mask = 0
        /\ ~t.pending /\ ~onset => ~u.pending
    BY <2>1, TrigListened
  <2>4. /\ w \in TrigPads /\ w.mask = u.mask /\ w.warm = u.warm /\ w.unsettled = u.unsettled
        /\ w.found = u.found /\ w.pending = u.pending
        /\ u.pending => w.filled = u.filled + 1
    BY <1>6, <2>3, TrigFaded
  <2>5. onset \in BOOLEAN
    BY <2>1 DEF TrigOnset, TrigPads
  <2>6. /\ TrigEnd(w) \in TrigPads /\ ~TrigEnd(w).pending
        /\ TrigEnd(w).mask = TrigRest(m) /\ TrigEnd(w).unsettled = w.unsettled
        /\ TrigRest(m) \in Nat /\ TrigRest(m) + TrigWindow >= m
    BY <2>4, TrigEnded DEF TrigTypes
  <2> HIDE DEF t, u, w, onset, s
  <2>7. CASE ~trigPad.pending /\ ~onset
    <3>1. TrigHistory(FALSE, FALSE)
      BY <1>6, <2>5, <2>7 DEF t, onset, s
    <3>2. ~w.pending /\ trigPad' = w
      BY <1>1, <1>6, <2>1, <2>3, <2>4, <2>7 DEF TrigFull, w
    <3> QED
      BY <1>0, <1>1, <1>2, <2>1, <2>2, <2>3, <2>4, <2>7, <3>1, <3>2
      DEF TrigTypes, TrigWindows, TrigMaskCovers
  <2>8. CASE ~trigPad.pending /\ onset
    <3>1. TrigHistory(TRUE, FALSE)
      BY <1>6, <2>5, <2>8 DEF t, onset, s
    <3>2. /\ trigSince' = 0
          /\ trigClipAgo' \in 0..TrigFar /\ trigClipAgo' >= trigClipAgo
          /\ trigClipAgo' = trigClipAgo + 1 \/ trigClipAgo' = TrigFar
      <4>1. /\ trigSince' = 0 /\ trigClipAgo' \in 0..TrigFar
            /\ \/ trigClipAgo' = trigClipAgo + 1
               \/ trigClipAgo' = TrigFar /\ trigClipAgo = TrigFar
        BY <3>1, TrigAges
      <4> QED
        BY <1>0, <4>1
    <3>3. w.pending /\ w.filled = 1 /\ w.found /\ w.warm >= TrigWarm /\ w.mask = 0 /\ s.mask = 0
      BY <1>1, <1>6, <2>1, <2>3, <2>4, <2>8
    <3>4. trigClipAgo' >= TrigClipMask
      BY <1>0, <1>1, <3>2, <3>3, TrigBounds DEF TrigMaskCovers
    <3>5. CASE TrigFull(w)
      <4>1. trigPad' = TrigEnd(w) /\ TrigWindow = 1
        BY <1>6, <3>3, <3>5 DEF TrigFull, w
      <4> QED
        BY <1>0, <2>1, <2>2, <2>3, <2>4, <2>6, <3>2, <3>4, <4>1, TrigBounds
        DEF TrigTypes, TrigWindows, TrigMaskCovers
    <3>6. CASE ~TrigFull(w)
      <4>1. trigPad' = w /\ 1 < TrigWindow
        BY <1>6, <3>3, <3>6, TrigBounds DEF TrigFull, w
      <4> QED
        BY <1>0, <2>1, <2>2, <2>3, <2>4, <3>2, <3>3, <3>4, <4>1, TrigBounds
        DEF TrigTypes, TrigWindows, TrigMaskCovers
    <3> QED
      BY <3>5, <3>6
  <2>9. CASE trigPad.pending
    <3>1. TrigHistory(FALSE, FALSE)
      BY <1>1, <1>6, <2>1, <2>3, <2>5, <2>9 DEF t, onset, s
    <3>2. /\ w.pending /\ w.filled = trigPad.filled + 1 /\ w.found /\ w.warm >= TrigWarm
          /\ w.mask = s.mask
      BY <1>1, <1>6, <2>1, <2>3, <2>4, <2>9 DEF TrigWindows
    <3>3. /\ trigPad.filled = trigSince + 1 /\ trigPad.filled < TrigWindow
          /\ trigSince' = trigSince + 1
      BY <1>0, <1>2, <2>9, <3>1, TrigBounds DEF TrigWindows
    <3>4. CASE TrigFull(w)
      <4>1. trigPad' = TrigEnd(w) /\ w.filled = TrigWindow
        BY <1>6, <3>4 DEF TrigFull, w
      <4>2. trigSince' = TrigWindow - 1
        BY <1>0, <3>2, <3>3, <4>1, TrigBounds
      <4>3. trigClipAgo' + TrigRest(m) >= TrigClipMask
        <5>1. trigClipAgo' + s.mask >= TrigClipMask /\ s.mask = 0
          BY <1>0, <1>2, <2>9, <3>1, TrigMaskDown DEF TrigWindows, s
        <5> QED
          BY <1>0, <1>2, <2>6, <3>1, <5>1, TrigBounds
      <4> QED
        BY <1>0, <1>2, <2>1, <2>2, <2>3, <2>4, <2>6, <3>1, <4>1, <4>2, <4>3, TrigBounds
        DEF TrigTypes, TrigWindows, TrigMaskCovers
    <3>5. CASE ~TrigFull(w)
      <4>1. trigPad' = w /\ w.filled # TrigWindow
        BY <1>6, <3>2, <3>5 DEF TrigFull, w
      <4>2. w.mask = 0
        BY <1>0, <2>9, <3>2, TrigMaskDown DEF TrigWindows, s
      <4>3. trigClipAgo' + w.mask >= TrigClipMask
        BY <1>2, <3>1, <3>2
      <4>4. w.filled < TrigWindow /\ w.filled = trigSince' + 1
        BY <1>0, <3>2, <3>3, <4>1, TrigBounds
      <4> QED
        BY <4>2, <4>3, <4>4, <1>0, <1>1, <1>2, <2>1, <2>2, <2>3, <2>4, <3>1, <3>2, <3>3, <4>1, TrigBounds
        DEF TrigTypes, TrigWindows, TrigMaskCovers
    <3> QED
      BY <3>4, <3>5
  <2> QED
    BY <1>0, <2>7, <2>8, <2>9
<1> QED
  <2>1. PICK level \in 0..TrigLevels :
         LET t == TrigSettle(s, level)
             u == TrigListen(t, level)
         IN  \/ trigPad' = TrigClip(s) /\ TrigHistory(FALSE, TRUE)
             \/ /\ s.warm < TrigWarm
                /\ trigPad' \in TrigWarmUp(s, level)
                /\ TrigHistory(FALSE, FALSE)
             \/ /\ t.unsettled = TrigUnsettled
                /\ trigPad' = TrigStartOver(t)
                /\ TrigHistory(FALSE, FALSE)
             \/ /\ s.warm >= TrigWarm /\ t.unsettled # TrigUnsettled
                /\ \E v \in TrigTrace(u, level) :
                     trigPad' = IF TrigFull(TrigFill(v, level)) THEN TrigEnd(TrigFill(v, level))
                                ELSE TrigFill(v, level)
                /\ TrigHistory(TrigOnset(t, level), FALSE)
    <3>1. 0 \in 0..TrigLevels
      BY TrigBounds
    <3> QED
      BY <3>1 DEF TrigFrame
  <2> QED
    BY <1>3, <1>4, <1>5, <1>6, <2>1

LEMMA TrigInductive == TrigIInv /\ [TrigNext]_trigVars => TrigIInv'
<1> SUFFICES ASSUME TrigIInv, [TrigNext]_trigVars PROVE TrigIInv'
  OBVIOUS
<1>1. CASE TrigConfigure \/ TrigReset
  <2>1. /\ trigPad' = TrigFresh /\ trigSince' = TrigFar /\ trigClipAgo' = TrigFar
        /\ trigInput' \in TrigSettings /\ trigLeft' \in Nat
    BY <1>1 DEF TrigConfigure, TrigReset, TrigForget, TrigIInv, TrigTypes
  <2> QED
    BY <2>1, TrigForgotten, TrigBounds DEF TrigIInv, TrigTypes, TrigWindows, TrigMaskCovers
<1>2. CASE TrigCalmDown \/ TrigBeginBatch
  <2>1. /\ UNCHANGED <<trigPad, trigInput, trigSince, trigClipAgo>>
        /\ trigLeft' \in Nat
    BY <1>2 DEF TrigCalmDown, TrigBeginBatch, TrigIInv, TrigTypes
  <2> QED
    BY <2>1 DEF TrigIInv, TrigTypes, TrigWindows, TrigMaskCovers
<1>3. CASE TrigFrame
  BY <1>3, TrigFrames
<1>4. CASE UNCHANGED trigVars
  BY <1>4 DEF trigVars, TrigIInv, TrigTypes, TrigWindows, TrigMaskCovers
<1> QED
  BY <1>1, <1>2, <1>3, <1>4 DEF TrigNext

(* A hit begins only in a frame that is an onset.                           *)
LEMMA TrigBeginsByOnset ==
    ASSUME TrigIInv, [TrigNext]_trigVars, TrigBegins
    PROVE  TrigMasked.mask = 0
<1>1. trigPad.pending = FALSE /\ trigPad'.pending = TRUE
  BY TrigInductive DEF TrigBegins, TrigIInv, TrigTypes, TrigPads
<1>2. CASE TrigConfigure \/ TrigReset
  BY <1>1, <1>2 DEF TrigConfigure, TrigReset, TrigForget, TrigFresh
<1>3. CASE TrigCalmDown \/ TrigBeginBatch \/ UNCHANGED trigVars
  BY <1>1, <1>3 DEF TrigCalmDown, TrigBeginBatch, trigVars
<1>4. CASE TrigFrame
  <2> DEFINE s == TrigMasked
  <2>1. s \in TrigPads /\ s.pending = FALSE /\ s.unsettled < TrigUnsettled
    BY <1>1, TrigMaskDown DEF TrigIInv, TrigWindows
  <2>2. PICK level \in 0..TrigLevels :
         LET t == TrigSettle(s, level)
             u == TrigListen(t, level)
         IN  \/ trigPad' = TrigClip(s)
             \/ trigPad' \in TrigWarmUp(s, level)
             \/ trigPad' = TrigStartOver(t)
             \/ \E v \in TrigTrace(u, level) :
                  trigPad' = IF TrigFull(TrigFill(v, level)) THEN TrigEnd(TrigFill(v, level))
                             ELSE TrigFill(v, level)
    <3>1. 0 \in 0..TrigLevels
      BY TrigBounds
    <3> QED
      BY <1>4, <3>1 DEF TrigFrame
  <2> DEFINE t == TrigSettle(s, level)
             u == TrigListen(t, level)
  <2>3. t \in TrigPads /\ t.mask = s.mask /\ t.pending = FALSE
    BY <2>1, TrigSettled
  <2>4. /\ u \in TrigPads
        /\ ~TrigOnset(t, level) => ~u.pending
        /\ TrigOnset(t, level) => t.mask = 0
    BY <2>3, TrigListened
  <2> HIDE DEF s, t, u
  <2>5. CASE trigPad' = TrigClip(s)
    BY <1>1, <2>1, <2>5 DEF TrigClip, TrigPads
  <2>6. CASE trigPad' \in TrigWarmUp(s, level)
    <3>1. PICK b : trigPad' = [s EXCEPT !.warm = @ + 1, !.base = b]
      BY <2>6 DEF TrigWarmUp
    <3> QED
      BY <1>1, <2>1, <3>1 DEF TrigPads
  <2>7. CASE trigPad' = TrigStartOver(t)
    BY <1>1, <2>3, <2>7 DEF TrigStartOver, TrigPads
  <2>8. ASSUME NEW v \in TrigTrace(u, level),
               trigPad' = IF TrigFull(TrigFill(v, level)) THEN TrigEnd(TrigFill(v, level))
                          ELSE TrigFill(v, level)
        PROVE  s.mask = 0
    <3> DEFINE w == TrigFill(v, level)
    <3>1. w \in TrigPads /\ w.pending = u.pending
      BY <2>4, <2>8, TrigFaded
    <3>2. ~TrigEnd(w).pending
      BY <3>1, TrigEnded DEF TrigIInv, TrigTypes
    <3>3. u.pending
      BY <1>1, <2>8, <3>1, <3>2
    <3> QED
      BY <2>3, <2>4, <3>3
  <2> QED
    BY <2>2, <2>5, <2>6, <2>7, <2>8 DEF s, t, u
<1> QED
  BY <1>2, <1>3, <1>4 DEF TrigNext

(* A strike is not reported twice, for any length of window, mask and blind *)
(* time and whatever the signal, the settings and the gaps: the mask left   *)
(* after a window still covers the time to the next hit (processFrame).     *)
THEOREM HitsAreSpaced == TrigSpec => TrigSpaced
<1>1. TrigInit => TrigIInv
  BY TrigForgotten, TrigBounds
  DEF TrigInit, TrigIInv, TrigTypes, TrigWindows, TrigMaskCovers
<1>2. TrigIInv /\ [TrigNext]_trigVars =>
        [TrigBegins =>
           /\ TrigFramesSince(trigSince) >= TrigWindow
           /\ \/ TrigFramesSince(trigSince) >= trigInput.mask - 1
              \/ trigClipAgo < trigSince
           /\ TrigFramesSince(trigClipAgo) >= TrigClipMask]_trigVars
  <2> SUFFICES ASSUME TrigIInv, [TrigNext]_trigVars, TrigBegins
               PROVE  /\ TrigFramesSince(trigSince) >= TrigWindow
                      /\ \/ TrigFramesSince(trigSince) >= trigInput.mask - 1
                         \/ trigClipAgo < trigSince
                      /\ TrigFramesSince(trigClipAgo) >= TrigClipMask
    OBVIOUS
  <2>1. /\ trigPad.mask \in Nat /\ trigPad.mask <= 1
        /\ trigPad.pending = FALSE
    BY TrigBeginsByOnset, TrigMaskDown DEF TrigIInv, TrigTypes, TrigPads, TrigBegins
  <2>2. /\ trigSince \in 0..TrigFar /\ trigClipAgo \in 0..TrigFar
        /\ trigInput.mask \in Nat /\ trigInput.mask <= TrigFar
    BY TrigBounds DEF TrigIInv, TrigTypes, TrigSettings
  <2>3. /\ trigSince >= TrigWindow - 1
        /\ trigClipAgo + trigPad.mask >= TrigClipMask
        /\ trigSince + trigPad.mask >= trigInput.mask - 1 \/ trigClipAgo < trigSince
    BY <2>1 DEF TrigIInv, TrigWindows, TrigMaskCovers
  <2> QED
    BY <2>1, <2>2, <2>3, TrigBounds DEF TrigFramesSince
<1>3. TrigIInv /\ [TrigNext]_trigVars => TrigIInv'
  BY TrigInductive
<1> QED
  BY <1>1, <1>2, <1>3, PTL DEF TrigSpec, TrigSpaced
=============================================================================
