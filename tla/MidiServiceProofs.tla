------------------------- MODULE MidiServiceProofs -------------------------
(* Proofs about MidiService, for any number of ports and channels, any     *)
(* queue length and any number of notes.                                   *)
EXTENDS MidiService, SequenceTheorems, FiniteSetTheorems, TLAPS

USE ConstantsAssumption DEF Replaced, NotesAfter, PortsToService, NotesToFinish,
                            Cleared, AnotherPass, HasPendingOutput, WholeMessages

----------------------------------------------------------------------------
(* The length of a queue in bytes is a natural number.                     *)
LEMMA BytesNat ==
    ASSUME TypeOK, NEW p \in Ports
    PROVE  /\ Bytes(p) \in Nat /\ Len(outgoing[p]) \in Nat /\ cut[p] \in 0 .. 2
           /\ outgoing[p] \in Seq(Message)
<1>1. outgoing[p] \in Seq(Message) /\ cut[p] \in 0 .. 2
  BY DEF TypeOK
<1>2. Len(outgoing[p]) \in Nat
  BY <1>1, LenProperties
<1>3. outgoing[p] = <<>> => cut[p] = 0
  BY DEF TypeOK
<1>4. Len(outgoing[p]) = 0 => outgoing[p] = <<>>
  BY <1>1, EmptySeq
<1> QED
  BY <1>1, <1>2, <1>3, <1>4 DEF Bytes

(* The note-offs owed to a port are among those owed.                      *)
LEMMA OwedFinite ==
    ASSUME IsFiniteSet(notes), NEW p
    PROVE  /\ IsFiniteSet(Owed(p))
           /\ Cardinality(Owed(p)) \in Nat
           /\ Cardinality(notes) \in Nat
           /\ Cardinality(Owed(p)) <= Cardinality(notes)
<1>1. Owed(p) \in SUBSET notes
  BY DEF Owed
<1> QED
  BY <1>1, FS_Subset, FS_CardinalityType

(* A set that loses some elements and gains one.                           *)
LEMMA ReplaceOne ==
    ASSUME NEW S, IsFiniteSet(S), NEW T \in SUBSET S, NEW x, x \notin S \ T
    PROVE  /\ IsFiniteSet((S \ T) \cup {x})
           /\ Cardinality((S \ T) \cup {x}) = Cardinality(S) - Cardinality(T) + 1
           /\ Cardinality(S) \in Nat /\ Cardinality(T) \in Nat
           /\ Cardinality(T) <= Cardinality(S)
<1>1. IsFiniteSet(S \ T) /\ Cardinality(S \ T) = Cardinality(S) - Cardinality(S \cap T)
  BY FS_Difference
<1>2. S \cap T = T
  OBVIOUS
<1>3. /\ IsFiniteSet((S \ T) \cup {x})
      /\ Cardinality((S \ T) \cup {x}) = Cardinality(S \ T) + 1
  BY <1>1, FS_AddElement
<1>4. IsFiniteSet(T) /\ Cardinality(T) <= Cardinality(S)
  BY FS_Subset
<1>5. Cardinality(S) \in Nat /\ Cardinality(T) \in Nat
  BY <1>4, FS_CardinalityType
<1> QED
  BY <1>1, <1>2, <1>3, <1>4, <1>5

(* A sequence that says the same n times.                                  *)
LEMMA ConstantSeq ==
    ASSUME NEW n \in Nat, NEW S, NEW x \in S
    PROVE  /\ [i \in 1 .. n |-> x] \in Seq(S)
           /\ Len([i \in 1 .. n |-> x]) = n
<1>1. [i \in 1 .. n |-> x] \in [1 .. n -> S]
  OBVIOUS
<1>2. [i \in 1 .. n |-> x] \in Seq(S)
  BY <1>1, SeqDef
<1>3. DOMAIN [i \in 1 .. n |-> x] = 1 .. n
  OBVIOUS
<1> QED
  BY <1>2, <1>3, LenProperties

LEMMA MessageTypes ==
    /\ \A t \in Tones : NoteOn(t) \in Message /\ NoteOff(t) \in Message
    /\ PanicMessages \in Seq(Message) /\ Len(PanicMessages) = 2 * Channels
<1>1. \A t \in Tones : NoteOn(t) \in Message /\ NoteOff(t) \in Message
  BY DEF NoteOn, NoteOff, Message
<1>2. ASSUME NEW i \in 1 .. 2 * Channels
      PROVE  [kind |-> "alloff", channel |-> (i - 1) \div 2] \in Message
  <2>1. (i - 1) \div 2 \in 0 .. Channels - 1
    OBVIOUS
  <2> QED
    BY <2>1 DEF Message
<1>3. PanicMessages \in [1 .. 2 * Channels -> Message]
  BY <1>2 DEF PanicMessages
<1>4. PanicMessages \in Seq(Message)
  <2>1. 2 * Channels \in Nat
    OBVIOUS
  <2> QED
    BY <2>1, <1>3, SeqDef
<1>5. DOMAIN PanicMessages = 1 .. 2 * Channels /\ 2 * Channels \in Nat
  BY <1>3
<1>6. Len(PanicMessages) = 2 * Channels
  BY <1>4, <1>5, LenProperties
<1> QED
  BY <1>1, <1>4, <1>6

(* What an enqueue that fits does to the queues.                           *)
LEMMA PutFits ==
    ASSUME TypeOK, ~failed, NEW p \in Ports, NEW q \in Seq(Message), Put(p, q),
           Bytes(p) + 3 * Len(q) <= MaxBytes, cut' = cut
    PROVE  /\ failed' = FALSE
           /\ outgoing' \in [Ports -> Seq(Message)]
           /\ \A r \in Ports : outgoing'[r] = <<>> => cut'[r] = 0
           /\ Bytes(p)' = Bytes(p) + 3 * Len(q)
           /\ \A r \in Ports \ {p} : Bytes(r)' = Bytes(r)
<1>1. outgoing' = [outgoing EXCEPT ![p] = @ \o q] /\ failed' = FALSE
  <2>1. Len(q) \in Nat
    BY LenProperties
  <2>2. ~(Bytes(p) + 3 * Len(q) > MaxBytes)
    BY <2>1, BytesNat
  <2> QED
    BY <2>2 DEF Put, TypeOK
<1>2. /\ outgoing[p] \o q \in Seq(Message)
      /\ Len(outgoing[p] \o q) = Len(outgoing[p]) + Len(q)
  BY BytesNat, ConcatProperties
<1>3. outgoing \in [Ports -> Seq(Message)]
  BY DEF TypeOK
<1>4. outgoing'[p] = outgoing[p] \o q
  BY <1>1, <1>3
<1>5. \A r \in Ports \ {p} : outgoing'[r] = outgoing[r]
  BY <1>1, <1>3
<1>6. outgoing' \in [Ports -> Seq(Message)]
  BY <1>1, <1>2, <1>3
<1>7. outgoing'[p] = <<>> => cut'[p] = 0
  <2> SUFFICES ASSUME outgoing'[p] = <<>> PROVE cut[p] = 0
    OBVIOUS
  <2>1. outgoing[p] = <<>>
    <3>1. Len(outgoing[p] \o q) = 0
      BY <1>4, EmptySeq
    <3>2. Len(outgoing[p]) = 0
      BY <3>1, <1>2, BytesNat, LenProperties
    <3> QED
      BY <3>2, BytesNat, EmptySeq
  <2> QED
    BY <2>1 DEF TypeOK
<1>8. \A r \in Ports : outgoing'[r] = <<>> => cut'[r] = 0
  BY <1>5, <1>7 DEF TypeOK
<1>9. Bytes(p)' = Bytes(p) + 3 * Len(q)
  <2>1. Len(q) \in Nat
    BY LenProperties
  <2>2. Len(outgoing'[p]) = Len(outgoing[p]) + Len(q) /\ cut'[p] = cut[p]
    BY <1>2, <1>4
  <2>3. Len(outgoing[p]) \in Nat /\ cut[p] \in 0 .. 2
    BY BytesNat
  <2> QED
    BY <2>1, <2>2, <2>3 DEF Bytes
<1>10. \A r \in Ports \ {p} : Bytes(r)' = Bytes(r)
  BY <1>5 DEF Bytes
<1> QED
  BY <1>1, <1>6, <1>8, <1>9, <1>10

----------------------------------------------------------------------------
(* Every initial state satisfies the invariant.                            *)
LEMMA InitIInv == Init => IInv
<1> SUFFICES ASSUME Init PROVE IInv
  OBVIOUS
<1> USE DEF Init
<1>1. IsFiniteSet(notes) /\ Cardinality(notes) = 0
  BY FS_EmptySet
<1>2. outgoing \in [Ports -> Seq(Message)]
  OBVIOUS
<1>3. TypeOK
  <2>1. cut \in [Ports -> 0 .. 2] /\ \A p \in Ports : outgoing[p] = <<>> => cut[p] = 0
    OBVIOUS
  <2>2. notes \subseteq Note /\ left \subseteq notes /\ visit \subseteq Ports
    OBVIOUS
  <2>3. sounding \in [Ports -> SUBSET Tones]
    OBVIOUS
  <2>4. passes \in 0 .. DrainPasses /\ strikes \in 0 .. MaxStrikes /\ pulls \in 0 .. MaxUnplugs
    OBVIOUS
  <2>5. Cardinality(notes) <= MaxNotes
    BY <1>1
  <2> QED
    BY <1>2, <2>1, <2>2, <2>3, <2>4, <2>5 DEF TypeOK
<1>4. ASSUME NEW p \in Ports
      PROVE  Bytes(p) + 3 * Cardinality(Owed(p)) + Reserved(p) <= MaxBytes
  <2>1. Owed(p) = {}
    BY DEF Owed
  <2>2. Cardinality(Owed(p)) = 0
    BY <2>1, FS_EmptySet
  <2>3. Bytes(p) = 0
    BY DEF Bytes
  <2>4. Reserved(p) = 0
    BY DEF Reserved
  <2> QED
    BY <2>2, <2>3, <2>4
<1>5. NoteOffsFit
  BY <1>4 DEF NoteOffsFit
<1>6. OneTimer
  BY DEF OneTimer
<1> QED
  BY <1>1, <1>3, <1>5, <1>6 DEF IInv

(* A step that keeps the notes, lengthens no queue and starts no panic      *)
(* keeps the room that is promised.                                         *)
LEMMA RoomKept ==
    ASSUME IInv, notes' = notes, failed' = failed,
           \A p \in Ports : Bytes(p)' \in Nat /\ Bytes(p)' <= Bytes(p),
           \A p \in Ports : Reserved(p)' = 0 \/ Reserved(p)' = Reserved(p)
    PROVE  IsFiniteSet(notes)' /\ NoteOffsFit' /\ OneTimer'
<1>1. IsFiniteSet(notes)' /\ OneTimer'
  BY DEF IInv, OneTimer
<1>2. ASSUME NEW p \in Ports
      PROVE  (Bytes(p) + 3 * Cardinality(Owed(p)) + Reserved(p) <= MaxBytes)'
  <2>1. Bytes(p)' <= Bytes(p) /\ Bytes(p)' \in Nat /\ Owed(p)' = Owed(p)
    BY DEF Owed
  <2>2. Bytes(p) + 3 * Cardinality(Owed(p)) + Reserved(p) <= MaxBytes
    BY DEF IInv, NoteOffsFit
  <2>3. Bytes(p) \in Nat /\ Cardinality(Owed(p)) \in Nat /\ Reserved(p) \in Nat
    BY BytesNat, OwedFinite DEF IInv, Reserved
  <2>4. Reserved(p)' = 0 \/ Reserved(p)' = Reserved(p)
    OBVIOUS
  <2> QED
    BY <2>1, <2>2, <2>3, <2>4
<1> QED
  BY <1>1, <1>2 DEF IInv, NoteOffsFit

(* A step that leaves the queues alone keeps their lengths.                 *)
LEMMA SameBytes ==
    ASSUME TypeOK, UNCHANGED <<outgoing, cut>>
    PROVE  \A p \in Ports : Bytes(p)' \in Nat /\ Bytes(p)' <= Bytes(p)
<1>1. \A p \in Ports : Bytes(p)' = Bytes(p)
  BY DEF Bytes
<1>2. \A p \in Ports : Bytes(p) \in Nat
  BY BytesNat
<1> QED
  BY <1>1, <1>2

(* A strike: the note-offs it replaces and its own fit in what it reserved. *)
LEMMA HitStep ==
    ASSUME IInv, NEW t \in Tones, Hit(t)
    PROVE  IInv'
<1> PICK p \in Ports : p = selectedOutput
  BY DEF Hit, HasOutput
<1> DEFINE old == Replaced(p, t)
           offs == [i \in 1 .. Cardinality(old) |-> NoteOff(t)]
           q == offs \o <<NoteOn(t)>>
           new == OwedByStrike(t)
<1>1. /\ QueueSpace(p, 6) /\ Put(p, q) /\ cut' = cut
      /\ notes' = (notes \ old) \cup {new} /\ strikes' = strikes + 1
      /\ Cardinality(notes) < MaxNotes /\ strikes < MaxStrikes /\ pc = "command"
  BY DEF Hit, HasOutput
<1>2. UNCHANGED <<port, selectedOutput, pc, left, visit, then, stopping, passes,
                  plugged, stale, pulls, sounding>>
  BY DEF Hit, control, devices
<1>3. /\ TypeOK /\ IsFiniteSet(notes) /\ NoteOffsFit /\ OneTimer /\ ~failed
  BY DEF IInv, NoteOffsFit
<1>4. old \in SUBSET Owed(p)
  BY DEF Owed
<1>5. /\ IsFiniteSet(old) /\ Cardinality(old) \in Nat
      /\ Cardinality(old) <= Cardinality(Owed(p))
  BY <1>3, <1>4, OwedFinite, FS_Subset, FS_CardinalityType
<1>6. q \in Seq(Message) /\ Len(q) = Cardinality(old) + 1
  <2>1. NoteOn(t) \in Message /\ NoteOff(t) \in Message
    BY MessageTypes
  <2>2. offs \in Seq(Message) /\ Len(offs) = Cardinality(old)
    BY <2>1, <1>5, ConstantSeq
  <2>3. <<NoteOn(t)>> \in Seq(Message) /\ Len(<<NoteOn(t)>>) = 1
    BY <2>1
  <2> HIDE DEF offs
  <2> QED
    BY <2>2, <2>3, ConcatProperties
<1> HIDE DEF q, old
<1>7. /\ Bytes(p) \in Nat /\ Cardinality(Owed(p)) \in Nat /\ Cardinality(notes) \in Nat
      /\ Cardinality(Owed(p)) <= Cardinality(notes)
  BY <1>1, <1>3, BytesNat, OwedFinite
<1>8. Bytes(p) + 6 + 3 * Cardinality(notes) <= MaxBytes
  BY <1>1, <1>7 DEF QueueSpace
<1>9. Bytes(p) + 3 * Len(q) <= MaxBytes
  <2> DEFINE b == Bytes(p)
             k == Cardinality(notes)
             d == Cardinality(old)
  <2>1. /\ b \in Nat /\ k \in Nat /\ d \in Nat /\ MaxBytes \in Nat
        /\ d <= k /\ b + 6 + 3 * k <= MaxBytes
    BY <1>5, <1>7, <1>8, ConstantsAssumption
  <2>2. Len(q) = d + 1
    BY <1>6
  <2> HIDE DEF b, k, d
  <2>3. b + 3 * (d + 1) <= MaxBytes
    BY <2>1
  <2> QED
    BY <2>2, <2>3 DEF b
<1>10. /\ failed' = FALSE /\ outgoing' \in [Ports -> Seq(Message)]
       /\ \A r \in Ports : outgoing'[r] = <<>> => cut'[r] = 0
       /\ Bytes(p)' = Bytes(p) + 3 * Len(q)
       /\ \A r \in Ports \ {p} : Bytes(r)' = Bytes(r)
  BY <1>1, <1>3, <1>6, <1>9, PutFits
<1>11. new \in Note /\ new.port = p /\ new.tone = t
  BY <1>1, <1>3 DEF TypeOK, Note, OwedByStrike
<1> HIDE DEF new
<1>12. /\ IsFiniteSet(notes)' /\ Cardinality(notes') \in Nat
       /\ Cardinality(notes') <= Cardinality(notes) + 1
  <2>1. old \in SUBSET notes /\ new \notin notes \ old
    BY <1>11 DEF old
  <2>2. /\ IsFiniteSet((notes \ old) \cup {new})
        /\ Cardinality((notes \ old) \cup {new}) = Cardinality(notes) - Cardinality(old) + 1
        /\ Cardinality(old) <= Cardinality(notes)
    BY <1>3, <2>1, ReplaceOne
  <2> QED
    BY <2>2, <1>1, <1>5, <1>7
<1>13. TypeOK'
  <2>1. notes' \subseteq Note /\ Cardinality(notes') <= MaxNotes
    <3>1. notes' \subseteq Note
      BY <1>1, <1>3, <1>11 DEF TypeOK
    <3>2. Cardinality(notes') <= MaxNotes
      BY <1>1, <1>7, <1>12
    <3> QED
      BY <3>1, <3>2
  <2>2. left' \subseteq notes'
    BY <1>1, <1>2 DEF IInv
  <2>3. /\ port' \in [Ports -> {"absent", "closed", "open", "input"}]
        /\ cut' \in [Ports -> 0 .. 2]
        /\ selectedOutput' \in Ports \cup {None}
    BY <1>1, <1>2, <1>3 DEF TypeOK
  <2>4. /\ pc' \in {"command", "finish", "timers", "ports", "refresh", "stopped", "dead"}
        /\ visit' \subseteq Ports
        /\ then' \in [kind : {"config"}, out : Ports \cup {None}]
                       \cup [kind : {"panic", "stop"}]
    BY <1>1, <1>2, <1>3 DEF TypeOK
  <2>5. /\ stopping' \in BOOLEAN /\ failed' \in BOOLEAN
        /\ passes' \in 0 .. DrainPasses /\ strikes' \in 0 .. MaxStrikes
        /\ plugged' \subseteq Ports /\ stale' \subseteq Ports /\ pulls' \in 0 .. MaxUnplugs
        /\ sounding' \in [Ports -> SUBSET Tones]
    <3>1. strikes' \in 0 .. MaxStrikes
      BY <1>1, <1>3 DEF TypeOK
    <3>2. failed' \in BOOLEAN
      BY <1>10
    <3>3. stopping' \in BOOLEAN
      BY <1>2, <1>3 DEF TypeOK
    <3>4. passes' \in 0 .. DrainPasses /\ pulls' \in 0 .. MaxUnplugs
      BY <1>2, <1>3 DEF TypeOK
    <3>5. plugged' \subseteq Ports /\ stale' \subseteq Ports
      BY <1>2, <1>3 DEF TypeOK
    <3>6. sounding' \in [Ports -> SUBSET Tones]
      BY <1>2, <1>3 DEF TypeOK
    <3> QED
      BY <3>1, <3>2, <3>3, <3>4, <3>5, <3>6
  <2> QED
    BY <2>1, <2>2, <2>3, <2>4, <2>5, <1>10 DEF TypeOK
<1>14. Cardinality(Owed(p)') = Cardinality(Owed(p)) - Cardinality(old) + 1
  <2>1. Owed(p)' = (Owed(p) \ old) \cup {new}
    BY <1>1, <1>11 DEF Owed
  <2>2. new \notin Owed(p) \ old
    BY <1>11 DEF Owed, old
  <2>3. IsFiniteSet(Owed(p))
    BY <1>3, OwedFinite
  <2> QED
    BY <2>1, <2>2, <2>3, <1>4, ReplaceOne
<1>15. ASSUME NEW r \in Ports
       PROVE  (Bytes(r) + 3 * Cardinality(Owed(r)) + Reserved(r) <= MaxBytes)'
  <2>1. Reserved(r)' = 0
    BY <1>1, <1>2 DEF Reserved
  <2>2. CASE r = p
    <3>1. Bytes(p)' = Bytes(p) + 3 * (Cardinality(old) + 1)
      BY <1>6, <1>10
    <3>2. Bytes(p)' + 3 * Cardinality(Owed(p)') <= MaxBytes
      BY <3>1, <1>5, <1>7, <1>8, <1>14
    <3>3. Bytes(p)' \in Int /\ Cardinality(Owed(p)') \in Int
      BY <3>1, <1>5, <1>7, <1>14
    <3> QED
      BY <2>1, <2>2, <3>2, <3>3
  <2>3. CASE r # p
    <3>1. Owed(r)' = Owed(r)
      BY <2>3, <1>1, <1>11 DEF Owed, old
    <3>2. Bytes(r) + 3 * Cardinality(Owed(r)) + Reserved(r) <= MaxBytes
      BY <1>3 DEF NoteOffsFit
    <3>3. Reserved(r) = 0
      BY <1>1 DEF Reserved
    <3> QED
      BY <2>1, <2>3, <3>1, <3>2, <3>3, <1>10
  <2> QED
    BY <2>2, <2>3
<1>16. OneTimer'
  <2>1. \A n \in notes \ old : ~(n.port = p /\ n.tone = t)
    BY DEF old
  <2> QED
    BY <2>1, <1>1, <1>3, <1>11 DEF OneTimer
<1> QED
  BY <1>1, <1>2, <1>10, <1>12, <1>13, <1>15, <1>16 DEF IInv, NoteOffsFit

(* A note-off that is visited leaves the list and, at most, enters a queue. *)
LEMMA NoteOffStep ==
    ASSUME IInv, NEW n \in left, QueueNoteOff(n), pc' = pc, pc \in {"finish", "timers"}
    PROVE  IInv'
<1> DEFINE p == n.port
<1>1. /\ TypeOK /\ IsFiniteSet(notes) /\ NoteOffsFit /\ OneTimer /\ ~failed
  BY DEF IInv, NoteOffsFit
<1>2. n \in notes /\ n \in Note /\ p \in Ports /\ n.tone \in Tones
  BY <1>1 DEF TypeOK, Note
<1>3. /\ notes' = notes \ {n} /\ left' = left \ {n}
      /\ UNCHANGED <<port, cut, selectedOutput, visit, then, stopping, passes,
                     strikes, plugged, stale, pulls, sounding>>
  BY DEF QueueNoteOff, devices
<1>4. ASSUME NEW r \in Ports
      PROVE  /\ Owed(r)' = Owed(r) \ {n}
             /\ IsFiniteSet(Owed(r)) /\ Cardinality(Owed(r)) \in Nat
             /\ Cardinality(Owed(r)') \in Nat
             /\ Cardinality(Owed(r)') <= Cardinality(Owed(r))
             /\ r = p => Cardinality(Owed(r)) = Cardinality(Owed(r)') + 1
  <2>1. Owed(r)' = Owed(r) \ {n}
    BY <1>3 DEF Owed
  <2>2. IsFiniteSet(Owed(r)) /\ Cardinality(Owed(r)) \in Nat
    BY <1>1, OwedFinite
  <2>3. /\ IsFiniteSet(Owed(r) \ {n})
        /\ Cardinality(Owed(r) \ {n}) =
             IF n \in Owed(r) THEN Cardinality(Owed(r)) - 1 ELSE Cardinality(Owed(r))
    BY <2>2, FS_RemoveElement
  <2>4. Cardinality(Owed(r) \ {n}) \in Nat
    BY <2>3, FS_CardinalityType
  <2>5. r = p => n \in Owed(r)
    BY <1>2 DEF Owed
  <2> QED
    BY <2>1, <2>2, <2>3, <2>4, <2>5
<1>5. /\ failed' = FALSE /\ outgoing' \in [Ports -> Seq(Message)]
      /\ \A r \in Ports : outgoing'[r] = <<>> => cut'[r] = 0
      /\ \A r \in Ports : Bytes(r)' = Bytes(r) \/ (r = p /\ Bytes(r)' = Bytes(r) + 3)
  <2>1. CASE Connected(p)
    <3>1. Put(p, <<NoteOff(n.tone)>>)
      BY <2>1 DEF QueueNoteOff
    <3>2. <<NoteOff(n.tone)>> \in Seq(Message) /\ Len(<<NoteOff(n.tone)>>) = 1
      <4>1. NoteOff(n.tone) \in Message
        BY <1>2, MessageTypes
      <4> QED
        BY <4>1
    <3>3. Bytes(p) + 3 * Len(<<NoteOff(n.tone)>>) <= MaxBytes
      <4>1. Cardinality(Owed(p)) = Cardinality(Owed(p)') + 1 /\ Cardinality(Owed(p)') \in Nat
        BY <1>2, <1>4
      <4>2. Bytes(p) + 3 * Cardinality(Owed(p)) + Reserved(p) <= MaxBytes
        BY <1>1, <1>2 DEF NoteOffsFit
      <4>3. Bytes(p) \in Nat /\ Reserved(p) \in Nat
        BY <1>1, <1>2, BytesNat DEF Reserved
      <4> HIDE DEF p
      <4> QED
        BY <4>1, <4>2, <4>3, <3>2
    <3>4. /\ failed' = FALSE /\ outgoing' \in [Ports -> Seq(Message)]
          /\ \A r \in Ports : outgoing'[r] = <<>> => cut'[r] = 0
          /\ Bytes(p)' = Bytes(p) + 3 * Len(<<NoteOff(n.tone)>>)
          /\ \A r \in Ports \ {p} : Bytes(r)' = Bytes(r)
      BY <1>1, <1>2, <1>3, <3>1, <3>2, <3>3, PutFits
    <3> QED
      BY <3>2, <3>4
  <2>2. CASE ~Connected(p)
    <3>1. outgoing' = outgoing /\ failed' = failed /\ cut' = cut
      BY <2>2, <1>3 DEF QueueNoteOff
    <3>2. \A r \in Ports : Bytes(r)' = Bytes(r)
      BY <3>1 DEF Bytes
    <3>3. failed' = FALSE /\ outgoing' \in [Ports -> Seq(Message)]
      BY <3>1, <1>1 DEF TypeOK
    <3>4. \A r \in Ports : outgoing'[r] = <<>> => cut'[r] = 0
      BY <3>1, <1>1 DEF TypeOK
    <3> QED
      BY <3>2, <3>3, <3>4
  <2> QED
    BY <2>1, <2>2
<1> HIDE DEF p
<1>6. ASSUME NEW r \in Ports
      PROVE  (Bytes(r) + 3 * Cardinality(Owed(r)) + Reserved(r) <= MaxBytes)'
  <2>1. Reserved(r)' = Reserved(r) /\ Reserved(r) \in Nat
    BY <1>3 DEF Reserved
  <2>2. Bytes(r) + 3 * Cardinality(Owed(r)) + Reserved(r) <= MaxBytes /\ Bytes(r) \in Nat
    BY <1>1, BytesNat DEF NoteOffsFit
  <2>3. Bytes(r)' = Bytes(r) \/ (r = p /\ Bytes(r)' = Bytes(r) + 3)
    BY <1>5
  <2>4. /\ Cardinality(Owed(r)) \in Nat /\ Cardinality(Owed(r)') \in Nat
        /\ Cardinality(Owed(r)') <= Cardinality(Owed(r))
        /\ r = p => Cardinality(Owed(r)) = Cardinality(Owed(r)') + 1
    BY <1>4
  <2>5. CASE Bytes(r)' = Bytes(r)
    BY <2>1, <2>2, <2>4, <2>5
  <2>6. CASE r = p /\ Bytes(r)' = Bytes(r) + 3
    BY <2>1, <2>2, <2>4, <2>6
  <2> QED
    BY <2>3, <2>5, <2>6
<1>7. IsFiniteSet(notes)' /\ Cardinality(notes') <= MaxNotes
  <2>1. /\ IsFiniteSet(notes \ {n})
        /\ Cardinality(notes \ {n}) <= Cardinality(notes)
        /\ Cardinality(notes) \in Nat /\ Cardinality(notes \ {n}) \in Nat
    BY <1>1, FS_Subset, FS_CardinalityType
  <2>2. Cardinality(notes) <= MaxNotes
    BY <1>1 DEF TypeOK
  <2> QED
    BY <2>1, <2>2, <1>3
<1>8. TypeOK'
  <2>1. notes' \subseteq Note /\ left' \subseteq notes'
    BY <1>1, <1>3 DEF TypeOK
  <2>2. /\ port' \in [Ports -> {"absent", "closed", "open", "input"}]
        /\ cut' \in [Ports -> 0 .. 2] /\ selectedOutput' \in Ports \cup {None}
        /\ pc' \in {"command", "finish", "timers", "ports", "refresh", "stopped", "dead"}
    BY <1>1, <1>3 DEF TypeOK
  <2>3. /\ visit' \subseteq Ports
        /\ then' \in [kind : {"config"}, out : Ports \cup {None}]
                       \cup [kind : {"panic", "stop"}]
    BY <1>1, <1>3 DEF TypeOK
  <2>4. stopping' \in BOOLEAN /\ failed' \in BOOLEAN
    BY <1>1, <1>3, <1>5 DEF TypeOK
  <2>5. /\ passes' \in 0 .. DrainPasses /\ strikes' \in 0 .. MaxStrikes
        /\ plugged' \subseteq Ports /\ stale' \subseteq Ports /\ pulls' \in 0 .. MaxUnplugs
    BY <1>1, <1>3 DEF TypeOK
  <2>6. sounding' \in [Ports -> SUBSET Tones]
    BY <1>1, <1>3 DEF TypeOK
  <2> QED
    BY <2>1, <2>2, <2>3, <2>4, <2>5, <2>6, <1>5, <1>7 DEF TypeOK
<1>9. OneTimer'
  BY <1>1, <1>3 DEF OneTimer
<1>10. /\ (pc = "finish" /\ then.kind = "panic" => selectedOutput \in Ports)'
       /\ (pc \notin {"finish", "timers"} => left = {})'
  BY <1>3 DEF IInv
<1> QED
  BY <1>5, <1>6, <1>7, <1>8, <1>9, <1>10 DEF IInv, NoteOffsFit

(* The sixteen channels of a panic take the room it reserved.              *)
LEMMA PanicStep == IInv /\ FinishPanic => IInv'
<1> SUFFICES ASSUME IInv, FinishPanic PROVE IInv'
  OBVIOUS
<1>1. PICK p \in Ports : p = selectedOutput
  BY DEF IInv, FinishPanic
<1>2. /\ TypeOK /\ NoteOffsFit /\ ~failed /\ IsFiniteSet(notes)
      /\ pc = "finish" /\ then.kind = "panic" /\ left = {} /\ pc' = "command"
      /\ Put(p, PanicMessages)
  BY <1>1 DEF IInv, NoteOffsFit, FinishPanic
<1>3. UNCHANGED <<port, cut, notes, selectedOutput, left, visit, then, stopping,
                  passes, strikes, plugged, stale, pulls, sounding>>
  BY DEF FinishPanic, devices
<1>4. /\ Bytes(p) + 3 * Cardinality(Owed(p)) + 6 * Channels <= MaxBytes
      /\ Bytes(p) \in Nat /\ Cardinality(Owed(p)) \in Nat
  <2>1. Reserved(p) = 6 * Channels
    BY <1>1, <1>2 DEF Reserved
  <2> QED
    BY <2>1, <1>2, BytesNat, OwedFinite DEF NoteOffsFit
<1>5. Bytes(p) + 3 * Len(PanicMessages) <= MaxBytes
  BY <1>4, MessageTypes
<1>6. /\ failed' = FALSE /\ outgoing' \in [Ports -> Seq(Message)]
      /\ \A r \in Ports : outgoing'[r] = <<>> => cut'[r] = 0
      /\ Bytes(p)' = Bytes(p) + 3 * Len(PanicMessages)
      /\ \A r \in Ports \ {p} : Bytes(r)' = Bytes(r)
  BY <1>2, <1>3, <1>5, MessageTypes, PutFits
<1>7. TypeOK'
  <2>1. /\ port' \in [Ports -> {"absent", "closed", "open", "input"}]
        /\ cut' \in [Ports -> 0 .. 2] /\ notes' \subseteq Note
        /\ Cardinality(notes') <= MaxNotes /\ left' \subseteq notes'
        /\ selectedOutput' \in Ports \cup {None}
    BY <1>2, <1>3 DEF TypeOK
  <2>2. /\ visit' \subseteq Ports
        /\ then' \in [kind : {"config"}, out : Ports \cup {None}]
                       \cup [kind : {"panic", "stop"}]
        /\ stopping' \in BOOLEAN
    BY <1>2, <1>3 DEF TypeOK
  <2>3. /\ passes' \in 0 .. DrainPasses /\ strikes' \in 0 .. MaxStrikes
        /\ plugged' \subseteq Ports /\ stale' \subseteq Ports /\ pulls' \in 0 .. MaxUnplugs
        /\ sounding' \in [Ports -> SUBSET Tones]
    BY <1>2, <1>3 DEF TypeOK
  <2> QED
    BY <2>1, <2>2, <2>3, <1>2, <1>6 DEF TypeOK
<1>8. ASSUME NEW r \in Ports
      PROVE  (Bytes(r) + 3 * Cardinality(Owed(r)) + Reserved(r) <= MaxBytes)'
  <2>1. Owed(r)' = Owed(r) /\ Reserved(r)' = 0
    BY <1>2, <1>3 DEF Owed, Reserved
  <2>2. CASE r = p
    BY <2>1, <2>2, <1>4, <1>6, MessageTypes
  <2>3. CASE r # p
    <3>1. Bytes(r) + 3 * Cardinality(Owed(r)) + Reserved(r) <= MaxBytes
      BY <1>2 DEF NoteOffsFit
    <3>2. Reserved(r) = 0
      BY <2>3, <1>1 DEF Reserved
    <3> QED
      BY <2>1, <2>3, <3>1, <3>2, <1>6
  <2> QED
    BY <2>2, <2>3
<1>9. IsFiniteSet(notes)' /\ OneTimer'
  BY <1>3 DEF IInv, OneTimer
<1> QED
  BY <1>2, <1>3, <1>6, <1>7, <1>8, <1>9 DEF IInv, NoteOffsFit

(* Quotient and remainder of a division by three.                          *)
LEMMA ByThree ==
    ASSUME NEW x \in Nat
    PROVE  \E y \in Nat, z \in 0 .. 2 : y = x \div 3 /\ z = x % 3 /\ x = 3 * y + z
<1>1. PICK y \in Nat : y = x \div 3
  OBVIOUS
<1>2. 3 * y <= x /\ x < 3 * y + 3
  BY <1>1
<1>3. PICK z \in 0 .. 2 : x = 3 * y + z
  <2>1. x - 3 * y \in 0 .. 2 /\ x = 3 * y + (x - 3 * y)
    BY <1>2
  <2> QED
    BY <2>1
<1>4. x % 3 = z
  BY <1>3
<1> QED
  BY <1>1, <1>3, <1>4

(* What a write takes off a queue.                                         *)
LEMMA FlushShrinks ==
    ASSUME IInv, NEW p \in Ports, NEW n \in 1 .. Chunk, Flush(p, n)
    PROVE  /\ outgoing' \in [Ports -> Seq(Message)] /\ cut' \in [Ports -> 0 .. 2]
           /\ \A r \in Ports : outgoing'[r] = <<>> => cut'[r] = 0
           /\ \A r \in Ports : Bytes(r)' \in Nat /\ Bytes(r)' <= Bytes(r)
<1> DEFINE sent == (cut[p] + n) \div 3
           rest == SubSeq(outgoing[p], sent + 1, Len(outgoing[p]))
<1>1. TypeOK
  BY DEF IInv
<1>2. /\ outgoing[p] \in Seq(Message) /\ cut[p] \in 0 .. 2
      /\ Len(outgoing[p]) \in Nat /\ Bytes(p) \in Nat
  BY <1>1, BytesNat
<1>3. n <= Bytes(p) /\ n \in Nat
  BY DEF Flush
<1>4. /\ outgoing' = [outgoing EXCEPT ![p] = rest]
      /\ cut' = [cut EXCEPT ![p] = (cut[p] + n) % 3]
  BY DEF Flush
<1>5. PICK whole \in Nat, part \in 0 .. 2 :
         /\ whole = (cut[p] + n) \div 3 /\ part = (cut[p] + n) % 3
         /\ cut[p] + n = 3 * whole + part
  <2>1. cut[p] + n \in Nat
    BY <1>2, <1>3
  <2> QED
    BY <2>1, ByThree
<1>6. sent \in Nat /\ cut[p] + n = 3 * sent + part
  BY <1>5
<1> HIDE DEF sent
<1>7. 3 * sent + part <= 3 * Len(outgoing[p]) /\ sent <= Len(outgoing[p])
  BY <1>2, <1>3, <1>6 DEF Bytes
<1>8. rest \in Seq(Message) /\ Len(rest) = Len(outgoing[p]) - sent
  <2>1. \A i \in sent + 1 .. Len(outgoing[p]) : outgoing[p][i] \in Message
    BY <1>2, <1>6, ElementOfSeq
  <2>2. sent + 1 \in Int /\ Len(outgoing[p]) \in Int
    BY <1>2, <1>6
  <2> QED
    BY <2>1, <2>2, <1>2, <1>6, <1>7, SubSeqProperties
<1> HIDE DEF rest
<1>9. outgoing' \in [Ports -> Seq(Message)] /\ cut' \in [Ports -> 0 .. 2]
  BY <1>1, <1>4, <1>5, <1>8 DEF TypeOK
<1>10. outgoing'[p] = rest /\ cut'[p] = part
  BY <1>1, <1>4, <1>5 DEF TypeOK
<1>11. \A r \in Ports \ {p} : outgoing'[r] = outgoing[r] /\ cut'[r] = cut[r]
  BY <1>1, <1>4 DEF TypeOK
<1>12. rest = <<>> => cut'[p] = 0
  <2> SUFFICES ASSUME rest = <<>> PROVE cut'[p] = 0
    OBVIOUS
  <2>1. Len(rest) = 0
    OBVIOUS
  <2> QED
    BY <2>1, <1>2, <1>6, <1>7, <1>8, <1>10
<1>13. Bytes(p)' \in Nat /\ Bytes(p)' <= Bytes(p)
  <2>1. Bytes(p)' = 3 * Len(rest) - part
    BY <1>10 DEF Bytes
  <2>2. Bytes(p) = 3 * Len(outgoing[p]) - cut[p]
    BY DEF Bytes
  <2>3. part \in 0 .. 2 /\ 3 * Len(rest) - part = Bytes(p) - n
    <3> DEFINE length == Len(outgoing[p])
               c == cut[p]
    <3>1. /\ length \in Nat /\ c \in Nat /\ n \in Nat /\ sent \in Nat /\ part \in 0 .. 2
          /\ c + n = 3 * sent + part
      BY <1>2, <1>3, <1>6
    <3>2. Len(rest) = length - sent /\ Bytes(p) = 3 * length - c
      BY <1>8, <2>2
    <3> HIDE DEF length, c
    <3>3. 3 * (length - sent) - part = (3 * length - c) - n
      BY <3>1
    <3> QED
      BY <3>1, <3>2, <3>3
  <2> QED
    BY <2>1, <2>3, <1>2, <1>3
<1>14. \A r \in Ports \ {p} : Bytes(r)' = Bytes(r) /\ Bytes(r) \in Nat
  BY <1>1, <1>11, BytesNat DEF Bytes
<1>15. ASSUME NEW r \in Ports, outgoing'[r] = <<>> PROVE cut'[r] = 0
  <2>1. CASE r = p
    BY <2>1, <1>10, <1>12, <1>15
  <2>2. CASE r # p
    BY <2>2, <1>1, <1>11, <1>15 DEF TypeOK
  <2> QED
    BY <2>1, <2>2
<1>16. ASSUME NEW r \in Ports PROVE Bytes(r)' \in Nat /\ Bytes(r)' <= Bytes(r)
  BY <1>13, <1>14
<1> QED
  BY <1>9, <1>15, <1>16

(* A write, and the loss of a queue with its port.                         *)
LEMMA ServiceStep == IInv /\ Service => IInv'
<1> SUFFICES ASSUME IInv, Service PROVE IInv'
  OBVIOUS
<1> DEFINE Smaller == /\ outgoing' \in [Ports -> Seq(Message)]
                      /\ cut' \in [Ports -> 0 .. 2]
                      /\ \A r \in Ports : outgoing'[r] = <<>> => cut'[r] = 0
                      /\ \A r \in Ports : Bytes(r)' \in Nat /\ Bytes(r)' <= Bytes(r)
           Rest == /\ port' \in [Ports -> {"absent", "closed", "open", "input"}]
                   /\ visit' \subseteq Ports /\ stale' \subseteq Ports
                   /\ sounding' \in [Ports -> SUBSET Tones]
                   /\ failed' = failed /\ strikes' = strikes
                   /\ UNCHANGED <<notes, selectedOutput, pc, left, then, stopping,
                                  passes, plugged, pulls>>
<1>1. TypeOK
  BY DEF IInv
<1>2. \A p \in Ports : Connected(p) => port[p] \in {"open", "input"}
  BY DEF Connected
<1>3. ASSUME NEW p \in Ports, Disconnect(p) PROVE Smaller /\ pc = "ports"
  <2>1. /\ outgoing' = [outgoing EXCEPT ![p] = <<>>] /\ cut' = [cut EXCEPT ![p] = 0]
        /\ pc = "ports"
    BY <1>3 DEF Disconnect, Visiting
  <2>2. /\ outgoing' \in [Ports -> Seq(Message)] /\ cut' \in [Ports -> 0 .. 2]
    BY <2>1, <1>1 DEF TypeOK
  <2>3. Bytes(p)' = 0
    BY <2>1, <1>1 DEF TypeOK, Bytes
  <2>4. \A r \in Ports \ {p} : Bytes(r)' = Bytes(r)
    BY <2>1, <1>1 DEF TypeOK, Bytes
  <2>5. \A r \in Ports : Bytes(r) \in Nat
    BY <1>1, BytesNat
  <2>6. \A r \in Ports : outgoing'[r] = <<>> => cut'[r] = 0
    BY <2>1, <1>1 DEF TypeOK
  <2>7. ASSUME NEW r \in Ports PROVE Bytes(r)' \in Nat /\ Bytes(r)' <= Bytes(r)
    BY <2>3, <2>4, <2>5
  <2> QED
    BY <2>1, <2>2, <2>6, <2>7
<1>4. ASSUME NEW p \in Ports, Skip(p) PROVE Smaller /\ pc = "ports"
  BY <1>1, <1>4, SameBytes DEF Skip, Visiting, queues, TypeOK
<1>5. ASSUME NEW p \in Ports, NEW n \in 1 .. Chunk, Flush(p, n)
      PROVE  Smaller /\ pc = "ports"
  BY <1>5, FlushShrinks DEF Flush, Visiting
<1>6. ASSUME NEW p \in Ports, Disconnect(p) PROVE Rest
  BY <1>1, <1>6 DEF Disconnect, Visiting, Untouched, TypeOK
<1>7. ASSUME NEW p \in Ports, Skip(p) PROVE Rest
  BY <1>1, <1>7 DEF Skip, Visiting, Untouched, TypeOK
<1>8. ASSUME NEW p \in Ports, NEW n \in 1 .. Chunk, Flush(p, n) PROVE Rest
  <2>1. \A q, S : After(q, S) \subseteq Tones
    BY DEF After
  <2>2. sounding' \in [Ports -> SUBSET Tones]
    BY <2>1, <1>1, <1>8 DEF Flush, TypeOK
  <2> QED
    BY <2>2, <1>1, <1>8 DEF Flush, Visiting, Untouched, TypeOK
<1>9. Smaller /\ pc = "ports" /\ Rest
  BY <1>3, <1>4, <1>5, <1>6, <1>7, <1>8 DEF Service
<1>10. \A r \in Ports : Reserved(r)' = 0
  BY <1>9 DEF Reserved
<1>11. IsFiniteSet(notes)' /\ NoteOffsFit' /\ OneTimer'
  BY <1>9, <1>10, RoomKept
<1>12. TypeOK'
  <2>1. notes' \subseteq Note /\ Cardinality(notes') <= MaxNotes /\ left' \subseteq notes'
    BY <1>1, <1>9 DEF TypeOK
  <2>2. /\ selectedOutput' \in Ports \cup {None}
        /\ pc' \in {"command", "finish", "timers", "ports", "refresh", "stopped", "dead"}
        /\ then' \in [kind : {"config"}, out : Ports \cup {None}]
                       \cup [kind : {"panic", "stop"}]
    BY <1>1, <1>9 DEF TypeOK
  <2>3. /\ stopping' \in BOOLEAN /\ failed' \in BOOLEAN /\ passes' \in 0 .. DrainPasses
        /\ strikes' \in 0 .. MaxStrikes /\ plugged' \subseteq Ports /\ pulls' \in 0 .. MaxUnplugs
    BY <1>1, <1>9 DEF TypeOK
  <2> QED
    BY <2>1, <2>2, <2>3, <1>9 DEF TypeOK
<1> QED
  BY <1>9, <1>11, <1>12 DEF IInv

(* refreshPorts forgets the queues of the ports that are gone.             *)
LEMMA RefreshStep == IInv /\ Refresh => IInv'
<1> SUFFICES ASSUME IInv, Refresh PROVE IInv'
  OBVIOUS
<1>1. TypeOK /\ pc = "refresh" /\ pc' = "command"
  BY DEF IInv, Refresh
<1>2. /\ outgoing' = [p \in Ports |-> IF p \in plugged THEN outgoing[p] ELSE <<>>]
      /\ cut' = [p \in Ports |-> IF p \in plugged THEN cut[p] ELSE 0]
      /\ port' \in [Ports -> {"absent", "closed", "open", "input"}]
      /\ stale' = stale \cap plugged
  BY DEF Refresh
<1>3. UNCHANGED <<notes, selectedOutput, left, visit, then, stopping, passes,
                  failed, strikes, plugged, pulls, sounding>>
  BY DEF Refresh
<1>4. outgoing' \in [Ports -> Seq(Message)] /\ cut' \in [Ports -> 0 .. 2]
  BY <1>1, <1>2 DEF TypeOK
<1>5. \A p \in Ports : outgoing'[p] = <<>> => cut'[p] = 0
  BY <1>1, <1>2 DEF TypeOK
<1>6. ASSUME NEW p \in Ports PROVE Bytes(p)' \in Nat /\ Bytes(p)' <= Bytes(p)
  <2>1. Bytes(p) \in Nat
    BY <1>1, BytesNat
  <2>2. Bytes(p)' = Bytes(p) \/ Bytes(p)' = 0
    BY <1>2 DEF Bytes
  <2> QED
    BY <2>1, <2>2
<1>7. \A p \in Ports : Reserved(p)' = 0
  BY <1>1 DEF Reserved
<1>8. IsFiniteSet(notes)' /\ NoteOffsFit' /\ OneTimer'
  BY <1>3, <1>6, <1>7, RoomKept
<1>9. TypeOK'
  <2>1. /\ notes' \subseteq Note /\ Cardinality(notes') <= MaxNotes /\ left' \subseteq notes'
        /\ selectedOutput' \in Ports \cup {None} /\ visit' \subseteq Ports
        /\ then' \in [kind : {"config"}, out : Ports \cup {None}]
                       \cup [kind : {"panic", "stop"}]
    BY <1>1, <1>3 DEF TypeOK
  <2>2. /\ stopping' \in BOOLEAN /\ failed' \in BOOLEAN /\ passes' \in 0 .. DrainPasses
        /\ strikes' \in 0 .. MaxStrikes /\ plugged' \subseteq Ports /\ pulls' \in 0 .. MaxUnplugs
        /\ sounding' \in [Ports -> SUBSET Tones]
    BY <1>1, <1>3 DEF TypeOK
  <2>3. stale' \subseteq Ports
    BY <1>1, <1>2 DEF TypeOK
  <2> QED
    BY <2>1, <2>2, <2>3, <1>1, <1>2, <1>4, <1>5 DEF TypeOK
<1> QED
  BY <1>1, <1>3, <1>8, <1>9 DEF IInv

(* The other steps leave queues, notes and the failure flag as they are.   *)
LEMMA QuietStep ==
    ASSUME IInv, UNCHANGED <<port, outgoing, cut, notes, failed, strikes>>,
           /\ selectedOutput' \in Ports \cup {None} /\ visit' \subseteq Ports
           /\ pc' \in {"command", "finish", "timers", "ports", "refresh", "stopped", "dead"}
           /\ left' \subseteq notes
           /\ then' \in [kind : {"config"}, out : Ports \cup {None}]
                          \cup [kind : {"panic", "stop"}],
           /\ stopping' \in BOOLEAN /\ passes' \in 0 .. DrainPasses
           /\ plugged' \subseteq Ports /\ stale' \subseteq Ports /\ pulls' \in 0 .. MaxUnplugs
           /\ sounding' \in [Ports -> SUBSET Tones],
           pc' \notin {"finish", "timers"} => left' = {},
           pc' = "finish" /\ then'.kind = "panic" => selectedOutput' \in Ports,
           \A p \in Ports : Reserved(p)' = 0 \/ Reserved(p)' = Reserved(p)
    PROVE  IInv'
<1>1. TypeOK
  BY DEF IInv
<1>2. \A p \in Ports : Bytes(p)' \in Nat /\ Bytes(p)' <= Bytes(p)
  BY <1>1, SameBytes
<1>3. IsFiniteSet(notes)' /\ NoteOffsFit' /\ OneTimer'
  BY <1>2, RoomKept
<1>4. TypeOK'
  <2>1. /\ port' \in [Ports -> {"absent", "closed", "open", "input"}]
        /\ outgoing' \in [Ports -> Seq(Message)] /\ cut' \in [Ports -> 0 .. 2]
        /\ \A p \in Ports : outgoing'[p] = <<>> => cut'[p] = 0
    BY <1>1 DEF TypeOK
  <2>2. /\ notes' \subseteq Note /\ Cardinality(notes') <= MaxNotes /\ left' \subseteq notes'
        /\ failed' \in BOOLEAN /\ strikes' \in 0 .. MaxStrikes
    BY <1>1 DEF TypeOK
  <2> QED
    BY <2>1, <2>2 DEF TypeOK
<1> QED
  BY <1>3, <1>4 DEF IInv

----------------------------------------------------------------------------
(* The stopped service, and steps that change nothing.                     *)
LEMMA StutterStep == IInv /\ UNCHANGED vars => IInv'
<1> SUFFICES ASSUME IInv, UNCHANGED vars PROVE IInv'
  OBVIOUS
<1>1. /\ UNCHANGED <<port, outgoing, cut, notes, selectedOutput, pc, left, visit>>
      /\ UNCHANGED <<then, stopping, passes, failed, strikes, plugged, stale, pulls, sounding>>
  BY DEF vars, queues, control, devices
<1>2. \A p \in Ports : Reserved(p)' = Reserved(p)
  BY <1>1 DEF Reserved
<1> QED
  BY <1>1, <1>2, QuietStep DEF IInv, TypeOK

(* The commands, but for a strike, only start the loop over the notes.     *)
LEMMA CommandStep ==
    ASSUME IInv, (\E out \in Ports \cup {None} : Config(out)) \/ Panic \/ Stop
    PROVE  IInv'
<1>1. ASSUME NEW out \in Ports \cup {None}, Config(out) PROVE IInv'
  <2>1. \A p \in Ports : Reserved(p)' = 0
    BY <1>1 DEF Config, Reserved
  <2> QED
    BY <1>1, <2>1, QuietStep DEF Config, queues, devices, IInv, TypeOK
<1>2. CASE Panic
  <2>1. PICK q \in Ports : q = selectedOutput
    BY <1>2 DEF Panic, HasOutput
  <2>2. /\ pc = "command" /\ pc' = "finish" /\ left' = notes /\ then' = [kind |-> "panic"]
        /\ QueueSpace(q, 6 * Channels + 3 * Cardinality(notes))
    BY <1>2, <2>1 DEF Panic
  <2>3. UNCHANGED <<port, outgoing, cut, notes, selectedOutput, visit, stopping,
                    passes, failed, strikes, plugged, stale, pulls, sounding>>
    BY <1>2 DEF Panic, queues, devices
  <2>4. TypeOK /\ IsFiniteSet(notes) /\ NoteOffsFit
    BY DEF IInv
  <2>5. ASSUME NEW p \in Ports
        PROVE  (Bytes(p) + 3 * Cardinality(Owed(p)) + Reserved(p) <= MaxBytes)'
    <3>1. Bytes(p)' = Bytes(p) /\ Owed(p)' = Owed(p)
      BY <2>3 DEF Bytes, Owed
    <3>2. /\ Bytes(p) \in Nat /\ Cardinality(Owed(p)) \in Nat /\ Cardinality(notes) \in Nat
          /\ Cardinality(Owed(p)) <= Cardinality(notes)
      BY <2>4, BytesNat, OwedFinite
    <3>3. CASE p = q
      <4>1. Reserved(p)' = 6 * Channels
        BY <2>1, <2>2, <2>3, <3>3 DEF Reserved
      <4>2. Bytes(p) + 6 * Channels + 3 * Cardinality(notes) + 3 * Cardinality(notes) <= MaxBytes
        BY <2>2, <3>2, <3>3 DEF QueueSpace
      <4> QED
        BY <3>1, <3>2, <4>1, <4>2
    <3>4. CASE p # q
      <4>1. Reserved(p)' = 0 /\ Reserved(p) = 0
        BY <2>1, <2>2, <2>3, <3>4 DEF Reserved
      <4> QED
        BY <3>1, <3>2, <4>1, <2>4 DEF NoteOffsFit
    <3> QED
      BY <3>3, <3>4
  <2>6. TypeOK'
    <3>1. /\ port' \in [Ports -> {"absent", "closed", "open", "input"}]
          /\ outgoing' \in [Ports -> Seq(Message)] /\ cut' \in [Ports -> 0 .. 2]
          /\ \A p \in Ports : outgoing'[p] = <<>> => cut'[p] = 0
      BY <2>3, <2>4 DEF TypeOK
    <3>2. /\ notes' \subseteq Note /\ Cardinality(notes') <= MaxNotes /\ left' \subseteq notes'
          /\ failed' \in BOOLEAN /\ strikes' \in 0 .. MaxStrikes
      BY <2>2, <2>3, <2>4 DEF TypeOK
    <3>3. /\ selectedOutput' \in Ports \cup {None} /\ visit' \subseteq Ports
          /\ pc' \in {"command", "finish", "timers", "ports", "refresh", "stopped", "dead"}
          /\ then' \in [kind : {"panic", "stop"}]
      BY <2>2, <2>3, <2>4 DEF TypeOK
    <3>4. /\ stopping' \in BOOLEAN /\ passes' \in 0 .. DrainPasses
          /\ plugged' \subseteq Ports /\ stale' \subseteq Ports /\ pulls' \in 0 .. MaxUnplugs
          /\ sounding' \in [Ports -> SUBSET Tones]
      BY <2>3, <2>4 DEF TypeOK
    <3> QED
      BY <3>1, <3>2, <3>3, <3>4 DEF TypeOK
  <2>7. OneTimer' /\ IsFiniteSet(notes)' /\ ~failed'
    BY <2>3 DEF IInv, OneTimer, NoteOffsFit
  <2> QED
    BY <2>1, <2>2, <2>3, <2>5, <2>6, <2>7 DEF IInv, NoteOffsFit
<1>3. CASE Stop
  <2>1. \A p \in Ports : Reserved(p)' = 0
    BY <1>3 DEF Stop, Reserved
  <2> QED
    BY <1>3, <2>1, QuietStep DEF Stop, queues, devices, IInv, TypeOK
<1> QED
  BY <1>1, <1>2, <1>3

(* The turn of the loop between the handlers.                              *)
LEMMA TurnStep ==
    ASSUME IInv,
           \/ FinishConfig \/ FinishStop \/ EndTimers \/ EndTick \/ Drain
           \/ NoRefresh \/ StatusFails \/ \E due \in SUBSET notes : Tick(due)
    PROVE  IInv'
<1> USE DEF IInv, TypeOK, queues, devices
<1>1. CASE FinishConfig
  <2>1. \A p \in Ports : Reserved(p)' = 0
    BY <1>1 DEF FinishConfig, Reserved
  <2>2. selectedOutput' \in Ports \cup {None}
    BY <1>1 DEF FinishConfig
  <2> QED
    BY <1>1, <2>1, <2>2, QuietStep DEF FinishConfig
<1>2. CASE FinishStop
  <2>1. \A p \in Ports : Reserved(p)' = 0
    BY <1>2 DEF FinishStop, Reserved
  <2> QED
    BY <1>2, <2>1, QuietStep DEF FinishStop
<1>3. CASE EndTimers
  <2>1. \A p \in Ports : Reserved(p)' = 0
    BY <1>3 DEF EndTimers, Reserved
  <2> QED
    BY <1>3, <2>1, QuietStep DEF EndTimers
<1>4. CASE EndTick
  <2>1. \A p \in Ports : Reserved(p)' = 0
    BY <1>4 DEF EndTick, Reserved
  <2> QED
    BY <1>4, <2>1, QuietStep DEF EndTick
<1>5. CASE Drain
  <2>1. \A p \in Ports : Reserved(p)' = 0
    BY <1>5 DEF Drain, Reserved
  <2>2. passes' \in 0 .. DrainPasses
    BY <1>5 DEF Drain
  <2>3. left' = {} /\ pc' \in {"timers", "stopped"} /\ visit' \subseteq Ports
    BY <1>5 DEF Drain
  <2> QED
    BY <1>5, <2>1, <2>2, <2>3, QuietStep DEF Drain
<1>6. CASE NoRefresh
  <2>1. \A p \in Ports : Reserved(p)' = 0
    BY <1>6 DEF NoRefresh, Reserved
  <2> QED
    BY <1>6, <2>1, QuietStep DEF NoRefresh
<1>7. CASE StatusFails
  <2>1. \A p \in Ports : Reserved(p)' = 0
    BY <1>7 DEF StatusFails, Reserved
  <2> QED
    BY <1>7, <2>1, QuietStep DEF StatusFails
<1>8. ASSUME NEW due \in SUBSET notes, Tick(due) PROVE IInv'
  <2>1. \A p \in Ports : Reserved(p)' = 0
    BY <1>8 DEF Tick, Reserved
  <2> QED
    BY <1>8, <2>1, QuietStep DEF Tick
<1> QED
  BY <1>1, <1>2, <1>3, <1>4, <1>5, <1>6, <1>7, <1>8

(* The world pulls devices and brings them back.                           *)
LEMMA WorldStep ==
    ASSUME IInv, NEW p \in Ports, Unplug(p) \/ Plug(p)
    PROVE  IInv'
<1> USE DEF IInv, TypeOK, queues, control
<1>1. \A r \in Ports : Reserved(r)' = Reserved(r)
  BY DEF Unplug, Plug, Reserved
<1>2. CASE Unplug(p)
  <2>1. sounding' \in [Ports -> SUBSET Tones]
    BY <1>2 DEF Unplug
  <2>2. plugged' \subseteq Ports /\ stale' \subseteq Ports /\ pulls' \in 0 .. MaxUnplugs
    BY <1>2 DEF Unplug
  <2> QED
    BY <1>1, <1>2, <2>1, <2>2, QuietStep DEF Unplug
<1>3. CASE Plug(p)
  BY <1>1, <1>3, QuietStep DEF Plug
<1> QED
  BY <1>2, <1>3

(* Every step preserves the invariant.                                     *)
LEMMA NextIInv == IInv /\ [Next]_vars => IInv'
<1> SUFFICES ASSUME IInv, [Next]_vars PROVE IInv'
  OBVIOUS
<1>1. ASSUME NEW t \in Tones, Hit(t) PROVE IInv'
  BY <1>1, HitStep
<1>2. ASSUME NEW n \in left, QueueNoteOff(n), pc' = pc, pc \in {"finish", "timers"} PROVE IInv'
  BY <1>2, NoteOffStep
<1>3. CASE FinishNote \/ Expire
  BY <1>2, <1>3 DEF FinishNote, Expire
<1>4. CASE FinishPanic
  BY <1>4, PanicStep
<1>5. CASE Service
  BY <1>5, ServiceStep
<1>6. CASE Refresh
  BY <1>6, RefreshStep
<1>7. CASE (\E out \in Ports \cup {None} : Config(out)) \/ Panic \/ Stop
  BY <1>7, CommandStep
<1>8. CASE \/ FinishConfig \/ FinishStop \/ EndTimers \/ EndTick \/ Drain
           \/ NoRefresh \/ StatusFails \/ \E due \in SUBSET notes : Tick(due)
  BY <1>8, TurnStep
<1>9. CASE World
  BY <1>9, WorldStep DEF World
<1>10. CASE UNCHANGED vars
  BY <1>10, StutterStep
<1> QED
  BY <1>1, <1>3, <1>4, <1>5, <1>6, <1>7, <1>8, <1>9, <1>10
     DEF Next, Commands, Finish, Turn, Ended

(* The invariant holds: the reservation made when a note is struck, or a   *)
(* panic accepted, pays for every note-off, whatever ports do meanwhile.   *)
THEOREM Inductive == Spec => []IInv
<1>1. Init => IInv
  BY InitIInv
<1>2. IInv /\ [Next]_vars => IInv'
  BY NextIInv
<1> QED
  BY <1>1, <1>2, PTL DEF Spec

(* The variables of the service keep their types.                          *)
THEOREM ServiceTypes == Spec => []TypeOK
<1>1. IInv => TypeOK
  BY DEF IInv
<1> QED
  BY <1>1, Inductive, PTL

(* No enqueue of tick or of finishTestNotes throws: the loop of the        *)
(* service, which has no handler around them, is never ended by a full     *)
(* queue.                                                                  *)
THEOREM NoteOffsAlwaysFit == Spec => []NoteOffsFit
<1>1. IInv => NoteOffsFit
  BY DEF IInv
<1> QED
  BY <1>1, Inductive, PTL

(* A tone of a port has one timer, the one of its last strike: an older    *)
(* timer never cuts the new strike off.                                    *)
THEOREM OneTimerEach == Spec => []OneTimer
<1>1. IInv => OneTimer
  BY DEF IInv
<1> QED
  BY <1>1, Inductive, PTL

----------------------------------------------------------------------------
(* What an instrument plays after a queue.                                 *)
LEMMA AfterNone ==
    ASSUME NEW S \in SUBSET Tones
    PROVE  After(<<>>, S) = S
  BY DEF After

(* Messages behind a queue add nothing but what they strike.               *)
LEMMA AfterPut ==
    ASSUME NEW q \in Seq(Message), NEW m \in Seq(Message), NEW S,
           NEW t \in After(q \o m, S)
    PROVE  \/ t \in After(q, S)
           \/ \E i \in 1 .. Len(m) : m[i] = NoteOn(t)
<1>1. /\ Len(q) \in Nat /\ Len(m) \in Nat /\ Len(q \o m) = Len(q) + Len(m)
      /\ \A i \in 1 .. Len(q) : (q \o m)[i] = q[i]
      /\ \A i \in Len(q) + 1 .. Len(q) + Len(m) : (q \o m)[i] = m[i - Len(q)]
  BY ConcatProperties, LenProperties
<1>2. t \in Tones
  BY DEF After
<1>3. CASE t \in S /\ \A j \in 0 + 1 .. Len(q \o m) : ~Silences((q \o m)[j], t)
  <2>1. \A j \in 0 + 1 .. Len(q) : ~Silences(q[j], t)
    BY <1>1, <1>3
  <2> QED
    BY <1>2, <1>3, <2>1 DEF After
<1>4. ASSUME NEW i \in 1 .. Len(q \o m), (q \o m)[i] = NoteOn(t),
             \A j \in i + 1 .. Len(q \o m) : ~Silences((q \o m)[j], t)
      PROVE  \/ t \in After(q, S)
             \/ \E k \in 1 .. Len(m) : m[k] = NoteOn(t)
  <2>1. CASE i <= Len(q)
    <3>1. i \in 1 .. Len(q) /\ q[i] = NoteOn(t)
      BY <1>1, <1>4, <2>1
    <3>2. \A j \in i + 1 .. Len(q) : ~Silences(q[j], t)
      BY <1>1, <1>4, <3>1
    <3> QED
      BY <1>2, <3>1, <3>2 DEF After
  <2>2. CASE i > Len(q)
    <3>1. i - Len(q) \in 1 .. Len(m) /\ m[i - Len(q)] = NoteOn(t)
      BY <1>1, <1>4, <2>2
    <3> QED
      BY <3>1
  <2> QED
    BY <1>1, <2>1, <2>2
<1> QED
  BY <1>3, <1>4 DEF After

(* What one of them silences plays on only when it is struck behind it.    *)
LEMMA AfterSilence ==
    ASSUME NEW q \in Seq(Message), NEW m \in Seq(Message), NEW S,
           NEW t \in After(q \o m, S), NEW k \in 1 .. Len(m), Silences(m[k], t)
    PROVE  \E i \in 1 .. Len(m) : m[i] = NoteOn(t)
<1>1. /\ Len(q) \in Nat /\ Len(m) \in Nat /\ Len(q \o m) = Len(q) + Len(m)
      /\ \A i \in Len(q) + 1 .. Len(q) + Len(m) : (q \o m)[i] = m[i - Len(q)]
  BY ConcatProperties, LenProperties
<1>2. Len(q) + k \in 1 .. Len(q \o m) /\ (q \o m)[Len(q) + k] = m[k]
  <2>1. Len(q) + k \in Len(q) + 1 .. Len(q) + Len(m) /\ (Len(q) + k) - Len(q) = k
    BY <1>1
  <2> QED
    BY <1>1, <2>1
<1>3. PICK i \in 1 .. Len(q \o m) :
        (q \o m)[i] = NoteOn(t) /\ \A j \in i + 1 .. Len(q \o m) : ~Silences((q \o m)[j], t)
  <2>1. ~(\A j \in 0 + 1 .. Len(q \o m) : ~Silences((q \o m)[j], t))
    BY <1>2
  <2> QED
    BY <2>1 DEF After
<1>4. i >= Len(q) + k
  <2>1. Silences((q \o m)[Len(q) + k], t)
    BY <1>2
  <2>2. Len(q) + k \notin i + 1 .. Len(q \o m)
    BY <1>3, <2>1
  <2>3. i \in Int /\ Len(q) + k \in Int /\ Len(q) + k <= Len(q \o m)
    BY <1>1, <1>2
  <2>4. Len(q \o m) \in Int
    BY <1>1
  <2> QED
    BY <2>2, <2>3, <2>4
<1>5. i - Len(q) \in 1 .. Len(m) /\ (q \o m)[i] = m[i - Len(q)]
  BY <1>1, <1>3, <1>4
<1> QED
  BY <1>3, <1>5

(* A queue written in two parts does no more than the whole.               *)
LEMMA AfterParts ==
    ASSUME NEW q \in Seq(Message), NEW n \in 0 .. Len(q), NEW S,
           NEW t \in After(SubSeq(q, n + 1, Len(q)), After(SubSeq(q, 1, n), S))
    PROVE  t \in After(q, S)
<1> DEFINE a == SubSeq(q, 1, n)
           b == SubSeq(q, n + 1, Len(q))
<1>1. Len(q) \in Nat /\ n \in Nat /\ n <= Len(q) /\ t \in Tones
  BY LenProperties DEF After
<1>2. /\ Len(a) = n /\ Len(b) = Len(q) - n
      /\ \A i \in 1 .. n : a[i] = q[i]
      /\ \A i \in 1 .. Len(q) - n : b[i] = q[i + n]
  <2>1. \A i \in 1 .. Len(q) : q[i] \in Message
    BY ElementOfSeq
  <2>2. /\ Len(a) = IF 1 <= n THEN n ELSE 0
        /\ \A i \in 1 .. n : a[i] = q[1 + i - 1]
    BY <1>1, <2>1, SubSeqProperties
  <2>3. /\ Len(b) = IF n + 1 <= Len(q) THEN Len(q) - (n + 1) + 1 ELSE 0
        /\ \A i \in 1 .. Len(q) - n : b[i] = q[(n + 1) + i - 1]
    BY <1>1, <2>1, SubSeqProperties
  <2> HIDE DEF a, b
  <2>4. /\ \A i \in 1 .. n : 1 + i - 1 = i
        /\ \A i \in 1 .. Len(q) - n : (n + 1) + i - 1 = i + n
    BY <1>1
  <2>5. Len(a) = n /\ Len(b) = Len(q) - n
    BY <1>1, <2>2, <2>3
  <2>6. \A i \in 1 .. n : a[i] = q[i]
    BY <2>2, <2>4
  <2>7. \A i \in 1 .. Len(q) - n : b[i] = q[i + n]
    BY <2>3, <2>4
  <2> QED
    BY <2>5, <2>6, <2>7
<1> HIDE DEF a, b
<1>3. ASSUME \A j \in 1 .. Len(b) : ~Silences(b[j], t)
      PROVE  \A j \in n + 1 .. Len(q) : ~Silences(q[j], t)
  <2> TAKE j \in n + 1 .. Len(q)
  <2>1. j - n \in 1 .. Len(b) /\ b[j - n] = q[j]
    BY <1>1, <1>2
  <2> QED
    BY <1>3, <2>1
<1>4. CASE t \in After(a, S) /\ \A j \in 0 + 1 .. Len(b) : ~Silences(b[j], t)
  <2>1. \A j \in n + 1 .. Len(q) : ~Silences(q[j], t)
    BY <1>3, <1>4
  <2>2. CASE t \in S /\ \A j \in 0 + 1 .. Len(a) : ~Silences(a[j], t)
    <3>1. ASSUME NEW j \in 0 + 1 .. Len(q) PROVE ~Silences(q[j], t)
      <4>1. j \in 1 .. n \/ j \in n + 1 .. Len(q)
        BY <1>1
      <4>2. CASE j \in 1 .. n
        <5>1. a[j] = q[j] /\ j \in 0 + 1 .. Len(a)
          BY <1>2, <4>2
        <5> QED
          BY <2>2, <5>1
      <4> QED
        BY <2>1, <4>1, <4>2
    <3> QED
      BY <1>1, <2>2, <3>1 DEF After
  <2>3. ASSUME NEW i \in 1 .. Len(a), a[i] = NoteOn(t),
               \A j \in i + 1 .. Len(a) : ~Silences(a[j], t)
        PROVE  t \in After(q, S)
    <3>1. i \in 1 .. Len(q) /\ q[i] = NoteOn(t)
      BY <1>1, <1>2, <2>3
    <3>2. \A j \in i + 1 .. Len(q) : ~Silences(q[j], t)
      BY <1>1, <1>2, <2>1, <2>3
    <3> QED
      BY <1>1, <3>1, <3>2 DEF After
  <2> QED
    BY <1>4, <2>2, <2>3 DEF After
<1>5. ASSUME NEW i \in 1 .. Len(b), b[i] = NoteOn(t),
             \A j \in i + 1 .. Len(b) : ~Silences(b[j], t)
      PROVE  t \in After(q, S)
  <2>1. i + n \in 1 .. Len(q) /\ q[i + n] = NoteOn(t)
    BY <1>1, <1>2, <1>5
  <2>2. ASSUME NEW j \in (i + n) + 1 .. Len(q) PROVE ~Silences(q[j], t)
    <3>1. j - n \in i + 1 .. Len(b) /\ b[j - n] = q[j]
      BY <1>1, <1>2, <1>5
    <3> QED
      BY <1>5, <3>1
  <2> QED
    BY <1>1, <2>1, <2>2 DEF After
<1>6. t \in After(b, After(a, S))
  BY DEF a, b
<1> QED
  BY <1>4, <1>5, <1>6 DEF After

----------------------------------------------------------------------------
(* Unless a port fails under an instrument that stays powered, one that is  *)
(* not open for output plays nothing, and a port without a descriptor has   *)
(* an empty queue; so what a lost queue would have silenced is silent.      *)
Powered ==
    /\ \A p \in Ports : port[p] # "open" => sounding[p] = {}
    /\ \A p \in Ports : ~Connected(p) => outgoing[p] = <<>>
    /\ \A p \in Ports \ plugged : sounding[p] = {} /\ (Connected(p) => p \in stale)
    /\ \A p \in stale : sounding[p] = {}
    /\ pc = "finish" /\ then.kind = "panic" => Connected(selectedOutput)

LEMMA PutDone ==
    ASSUME IInv, IInv', NEW p \in Ports, NEW q, Put(p, q)
    PROVE  /\ outgoing' \in [Ports -> Seq(Message)]
           /\ outgoing'[p] = outgoing[p] \o q
           /\ \A r \in Ports \ {p} : outgoing'[r] = outgoing[r]
  BY DEF IInv, TypeOK, NoteOffsFit, Put

LEMMA QueueTypes ==
    ASSUME IInv
    PROVE  /\ outgoing \in [Ports -> Seq(Message)]
           /\ sounding \in [Ports -> SUBSET Tones]
           /\ port \in [Ports -> {"absent", "closed", "open", "input"}]
           /\ stale \subseteq Ports /\ left \subseteq notes /\ notes \subseteq Note
  BY DEF IInv, TypeOK

(* Steps that touch neither ports nor queues.                               *)
LEMMA PoweredAtRest ==
    ASSUME Powered, NoStuckNote,
           UNCHANGED <<port, outgoing, notes, plugged, stale, sounding>>,
           pc' = "finish" /\ then'.kind = "panic" => Connected(selectedOutput')
    PROVE  Powered' /\ NoStuckNote'
<1>1. \A p : Connected(p)' <=> Connected(p)
  BY DEF Connected
<1>2. Powered'
  BY <1>1 DEF Powered, Connected
<1>3. NoStuckNote'
  BY DEF NoStuckNote, Owed
<1> QED
  BY <1>2, <1>3

LEMMA HitCovered ==
    ASSUME IInv, IInv', Powered, NoStuckNote, NEW t \in Tones, Hit(t)
    PROVE  Powered' /\ NoStuckNote'
<1> PICK p \in Ports : p = selectedOutput /\ port[p] = "open"
  BY DEF Hit, HasOutput
<1> DEFINE old == Replaced(p, t)
           offs == [i \in 1 .. Cardinality(old) |-> NoteOff(t)]
           q == offs \o <<NoteOn(t)>>
<1>1. /\ Put(p, q) /\ notes' = (notes \ old) \cup {OwedByStrike(t)}
      /\ pc = "command"
      /\ UNCHANGED <<port, plugged, stale, sounding, pc>>
  BY DEF Hit, control, devices
<1>2. /\ q \in Seq(Message)
      /\ \A x \in Tones : (\E i \in 1 .. Len(q) : q[i] = NoteOn(x)) => x = t
  <2>1. NoteOn(t) \in Message /\ NoteOff(t) \in Message /\ Cardinality(old) \in Nat
    <3>1. IsFiniteSet(old)
      BY FS_Subset DEF IInv, old
    <3> QED
      BY <3>1, MessageTypes, FS_CardinalityType
  <2>2. offs \in Seq(Message) /\ Len(offs) = Cardinality(old)
    BY <2>1, ConstantSeq
  <2>3. <<NoteOn(t)>> \in Seq(Message) /\ Len(<<NoteOn(t)>>) = 1
    BY <2>1
  <2>4. \A i \in 1 .. Len(offs) : offs[i] = NoteOff(t)
    BY <2>2
  <2> HIDE DEF offs
  <2>5. /\ q \in Seq(Message) /\ Len(q) = Len(offs) + 1
        /\ \A i \in 1 .. Len(offs) : q[i] = NoteOff(t)
        /\ q[Len(offs) + 1] = NoteOn(t)
    <3>1. /\ q \in Seq(Message) /\ Len(q) = Len(offs) + 1 /\ Len(offs) \in Nat
          /\ \A i \in 1 .. Len(offs) : q[i] = offs[i]
          /\ q[Len(offs) + 1] = NoteOn(t)
      <4> DEFINE on == <<NoteOn(t)>>
      <4>1. on \in Seq(Message) /\ Len(on) = 1 /\ on[1] = NoteOn(t) /\ q = offs \o on
        BY <2>3
      <4> HIDE DEF on, q
      <4>2. /\ q \in Seq(Message) /\ Len(q) = Len(offs) + Len(on)
            /\ \A i \in 1 .. Len(offs) + Len(on) :
                 q[i] = IF i <= Len(offs) THEN offs[i] ELSE on[i - Len(offs)]
        BY <2>2, <4>1, ConcatProperties
      <4>3. /\ Len(offs) \in Nat /\ Len(offs) + 1 \in 1 .. Len(offs) + Len(on)
            /\ ~(Len(offs) + 1 <= Len(offs)) /\ (Len(offs) + 1) - Len(offs) = 1
            /\ \A i \in 1 .. Len(offs) : i \in 1 .. Len(offs) + Len(on) /\ i <= Len(offs)
        <5>1. Len(offs) \in Nat /\ Len(on) = 1
          BY <2>1, <2>2, <4>1
        <5> HIDE DEF offs
        <5> QED
          BY <5>1
      <4> QED
        BY <4>1, <4>2, <4>3
    <3> QED
      BY <2>4, <3>1
  <2>6. \A x \in Tones : NoteOff(t) # NoteOn(x) /\ (NoteOn(t) = NoteOn(x) => x = t)
    BY DEF NoteOn, NoteOff
  <2> HIDE DEF q
  <2> QED
    BY <2>1, <2>2, <2>5, <2>6
<1> HIDE DEF q
<1>3. /\ outgoing'[p] = outgoing[p] \o q
      /\ \A r \in Ports \ {p} : outgoing'[r] = outgoing[r]
  BY <1>1, PutDone
<1>4. Powered'
  <2>1. \A r \in Ports : ~Connected(r)' => r # p
    BY <1>1 DEF Connected
  <2> QED
    BY <1>1, <1>3, <2>1 DEF Powered, Connected
<1>5. ASSUME NEW r \in Ports \ stale', NEW x \in After(outgoing'[r], sounding'[r])
      PROVE  \E n \in Owed(r)' : n.tone = x
  <2>1. /\ x \in Tones
        /\ \A n \in Owed(r) : r # p \/ n.tone # t => n \in Owed(r)'
    BY <1>1 DEF After, Owed, old
  <2>2. r = p /\ x = t => OwedByStrike(t) \in Owed(r)' /\ OwedByStrike(t).tone = x
    BY <1>1 DEF Owed, OwedByStrike
  <2>3. CASE r = p /\ x # t
    <3>1. x \in After(outgoing[p] \o q, sounding[p]) /\ outgoing[p] \in Seq(Message)
      BY <1>1, <1>3, <1>5, <2>3, QueueTypes
    <3>2. x \in After(outgoing[p], sounding[p])
      BY <1>2, <2>1, <2>3, <3>1, AfterPut
    <3> QED
      BY <1>1, <1>5, <2>1, <2>3, <3>2 DEF NoStuckNote
  <2>4. CASE r # p
    BY <1>1, <1>3, <1>5, <2>1, <2>4 DEF NoStuckNote
  <2> QED
    BY <2>2, <2>3, <2>4
<1> QED
  BY <1>4, <1>5 DEF NoStuckNote

LEMMA NoteOffCovered ==
    ASSUME IInv, IInv', Powered, NoStuckNote, NEW n \in left, QueueNoteOff(n), pc' = pc
    PROVE  Powered' /\ NoStuckNote'
<1> DEFINE p == n.port
           q == <<NoteOff(n.tone)>>
<1>1. n \in notes /\ p \in Ports /\ n.tone \in Tones
  BY QueueTypes DEF Note
<1>2. /\ notes' = notes \ {n}
      /\ UNCHANGED <<port, plugged, stale, sounding, pc, then, selectedOutput>>
  BY DEF QueueNoteOff, devices
<1>3. /\ q \in Seq(Message) /\ Len(q) = 1
      /\ \A x : q[1] # NoteOn(x)
      /\ Silences(q[1], n.tone)
  <2>1. NoteOff(n.tone) \in Message
    BY <1>1, MessageTypes
  <2>2. q \in Seq(Message) /\ Len(q) = 1 /\ q[1] = NoteOff(n.tone)
    BY <2>1
  <2>3. Silences(NoteOff(n.tone), n.tone) /\ \A x : NoteOff(n.tone) # NoteOn(x)
    BY DEF Silences, NoteOff, NoteOn
  <2> HIDE DEF q
  <2> QED
    BY <2>2, <2>3
<1> HIDE DEF q
<1>4. \/ /\ Connected(p) /\ outgoing'[p] = outgoing[p] \o q
         /\ \A r \in Ports \ {p} : outgoing'[r] = outgoing[r]
      \/ ~Connected(p) /\ outgoing' = outgoing
  <2>1. CASE Connected(p)
    <3>1. Put(p, q)
      BY <2>1 DEF QueueNoteOff, q
    <3> QED
      BY <1>1, <2>1, <3>1, PutDone
  <2>2. CASE ~Connected(p)
    BY <2>2 DEF QueueNoteOff
  <2> QED
    BY <2>1, <2>2
<1> HIDE DEF p
<1>5. Powered'
  <2>1. \A r : Connected(r)' <=> Connected(r)
    BY <1>2 DEF Connected
  <2>2. \A r \in Ports : ~Connected(r)' => outgoing'[r] = outgoing[r]
    BY <1>4, <2>1
  <2> QED
    BY <1>2, <2>1, <2>2 DEF Powered
<1>6. ASSUME NEW r \in Ports \ stale', NEW x \in After(outgoing'[r], sounding'[r])
      PROVE  \E m \in Owed(r)' : m.tone = x
  <2>1. \A m \in Owed(r) : r # p \/ m.tone # n.tone => m \in Owed(r)'
    BY <1>2 DEF Owed, p
  <2>2. CASE outgoing'[r] = outgoing[r] /\ r # p
    BY <1>2, <1>6, <2>1, <2>2 DEF NoStuckNote
  <2>3. CASE r = p /\ Connected(p)
    <3>1. outgoing'[r] = outgoing[r] \o q
      BY <1>4, <2>3
    <3>2. x \in After(outgoing[r] \o q, sounding[r]) /\ outgoing[r] \in Seq(Message)
      BY <1>2, <1>6, <3>1, QueueTypes
    <3>3. x \in After(outgoing[r], sounding[r])
      <4>1. \A i \in 1 .. Len(q) : \A y : q[i] # NoteOn(y)
        BY <1>3
      <4> QED
        BY <1>3, <3>2, <4>1, AfterPut
    <3>4. x # n.tone
      <4>2. 1 \in 1 .. Len(q) /\ \A i \in 1 .. Len(q) : i = 1
        BY <1>3
      <4>3. ~Silences(q[1], x)
        BY <1>3, <3>2, <4>2, AfterSilence
      <4> QED
        BY <1>3, <4>3
    <3> QED
      BY <1>2, <1>6, <2>1, <3>3, <3>4 DEF NoStuckNote
  <2>4. CASE r = p /\ ~Connected(p)
    <3>1. outgoing'[r] = <<>> /\ sounding'[r] = {}
      BY <1>1, <1>2, <1>4, <2>4 DEF Powered, Connected
    <3> QED
      BY <1>6, <3>1, AfterNone
  <2> QED
    BY <1>4, <2>2, <2>3, <2>4
<1> QED
  BY <1>5, <1>6 DEF NoStuckNote

(* The last messages of a panic silence every channel.                     *)
LEMMA PanicMessagesSilence ==
    ASSUME NEW q \in Seq(Message), NEW S
    PROVE  After(q \o PanicMessages, S) = {}
<1>1. /\ PanicMessages \in Seq(Message) /\ Len(PanicMessages) = 2 * Channels
      /\ \A i \in 1 .. Len(PanicMessages) :
           PanicMessages[i] = [kind |-> "alloff", channel |-> (i - 1) \div 2]
  BY MessageTypes DEF PanicMessages
<1>2. \A x : \A i \in 1 .. Len(PanicMessages) : PanicMessages[i] # NoteOn(x)
  BY <1>1 DEF NoteOn
<1>3. ASSUME NEW t \in After(q \o PanicMessages, S) PROVE FALSE
  <2>1. t[1] \in 0 .. Channels - 1
    BY DEF After, Tones
  <2> DEFINE k == 2 * t[1] + 1
  <2>2. k \in 1 .. Len(PanicMessages) /\ (k - 1) \div 2 = t[1]
    BY <1>1, <2>1
  <2>3. Silences(PanicMessages[k], t)
    BY <1>1, <2>2 DEF Silences
  <2> HIDE DEF k
  <2>4. PanicMessages \in Seq(Message) /\ k \in 1 .. Len(PanicMessages)
    BY <1>1, <2>2
  <2>5. \E i \in 1 .. Len(PanicMessages) : PanicMessages[i] = NoteOn(t)
    BY <1>3, <2>3, <2>4, AfterSilence
  <2> QED
    BY <1>2, <2>5
<1> QED
  BY <1>3

LEMMA PanicCovered ==
    ASSUME IInv, IInv', Powered, NoStuckNote, FinishPanic
    PROVE  Powered' /\ NoStuckNote'
<1> PICK p \in Ports : p = selectedOutput /\ Connected(p)
  BY DEF IInv, FinishPanic, Powered
<1>1. /\ Put(p, PanicMessages) /\ pc' = "command"
      /\ UNCHANGED <<port, plugged, stale, sounding, notes>>
  BY DEF FinishPanic, devices
<1>2. /\ outgoing'[p] = outgoing[p] \o PanicMessages
      /\ \A r \in Ports \ {p} : outgoing'[r] = outgoing[r]
  BY <1>1, PutDone
<1>3. Powered'
  <2>1. \A r : Connected(r)' <=> Connected(r)
    BY <1>1 DEF Connected
  <2> QED
    BY <1>1, <1>2, <2>1 DEF Powered
<1>4. After(outgoing'[p], sounding'[p]) = {}
  BY <1>2, PanicMessagesSilence, QueueTypes
<1>5. ASSUME NEW r \in Ports \ stale', NEW x \in After(outgoing'[r], sounding'[r])
      PROVE  \E m \in Owed(r)' : m.tone = x
  <2>1. r # p
    BY <1>4, <1>5
  <2>2. x \in After(outgoing[r], sounding[r]) /\ Owed(r)' = Owed(r)
    BY <1>1, <1>2, <1>5, <2>1 DEF Owed
  <2> QED
    BY <1>1, <1>5, <2>2 DEF NoStuckNote
<1> QED
  BY <1>3, <1>5 DEF NoStuckNote

LEMMA ServiceCovered ==
    ASSUME IInv, IInv', Powered, NoStuckNote, Service, "io" \notin Faults
    PROVE  Powered' /\ NoStuckNote'
<1>0. /\ pc = "ports" /\ UNCHANGED <<notes, pc, plugged>>
      /\ \A r : Owed(r)' = Owed(r)
  <2>1. pc = "ports" /\ UNCHANGED <<notes, pc, plugged>>
    BY DEF Service, Disconnect, Skip, Flush, Visiting, Untouched
  <2> QED
    BY <2>1 DEF Owed
<1>1. ASSUME NEW p \in Ports, Disconnect(p) PROVE Powered' /\ NoStuckNote'
  <2>1. /\ port' = [port EXCEPT ![p] = "closed"] /\ outgoing' = [outgoing EXCEPT ![p] = <<>>]
        /\ stale' = stale \ {p} /\ UNCHANGED sounding
        /\ p \in stale \/ port[p] = "input"
    BY <1>1 DEF Disconnect
  <2>2. sounding[p] = {}
    BY <2>1 DEF Powered
  <2>3. /\ port'[p] = "closed" /\ outgoing'[p] = <<>>
        /\ \A r \in Ports \ {p} : port'[r] = port[r] /\ outgoing'[r] = outgoing[r]
    BY <2>1, QueueTypes
  <2>4. /\ ~Connected(p)'
        /\ \A r \in Ports \ {p} : Connected(r)' <=> Connected(r)
    BY <2>3 DEF Connected
  <2>5. Powered'
    BY <1>0, <2>1, <2>2, <2>3, <2>4 DEF Powered
  <2>6. ASSUME NEW r \in Ports \ stale', NEW x \in After(outgoing'[r], sounding'[r])
        PROVE  \E m \in Owed(r)' : m.tone = x
    <3>1. r # p
      BY <2>1, <2>2, <2>3, <2>6, AfterNone
    <3>2. x \in After(outgoing[r], sounding[r]) /\ r \notin stale
      BY <2>1, <2>3, <2>6, <3>1
    <3> QED
      BY <1>0, <2>6, <3>2 DEF NoStuckNote
  <2> QED
    BY <2>5, <2>6 DEF NoStuckNote
<1>2. ASSUME NEW p \in Ports, Skip(p) PROVE Powered' /\ NoStuckNote'
  <2>1. UNCHANGED <<port, outgoing, stale, sounding>>
    BY <1>2 DEF Skip, queues
  <2> QED
    BY <1>0, <2>1, PoweredAtRest
<1>3. ASSUME NEW p \in Ports, NEW n \in 1 .. Chunk, Flush(p, n) PROVE Powered' /\ NoStuckNote'
  <2> DEFINE sent == (cut[p] + n) \div 3
             q == outgoing[p]
  <2>1. /\ outgoing' = [outgoing EXCEPT ![p] = SubSeq(q, sent + 1, Len(q))]
        /\ sounding' = [sounding EXCEPT ![p] = After(SubSeq(q, 1, sent), sounding[p])]
        /\ UNCHANGED <<port, stale>> /\ port[p] = "open" /\ p \notin stale
        /\ n <= Bytes(p)
    BY <1>3 DEF Flush
  <2>2. /\ outgoing'[p] = SubSeq(q, sent + 1, Len(q))
        /\ sounding'[p] = After(SubSeq(q, 1, sent), sounding[p])
        /\ \A r \in Ports \ {p} : outgoing'[r] = outgoing[r] /\ sounding'[r] = sounding[r]
    BY <2>1, QueueTypes
  <2>3. q \in Seq(Message) /\ Len(q) \in Nat /\ cut[p] \in 0 .. 2
    BY BytesNat DEF IInv
  <2>4. sent \in 0 .. Len(q)
    <3>1. n \in Nat /\ cut[p] + n <= 3 * Len(q)
      BY <2>1, <2>3 DEF Bytes
    <3>2. PICK y \in Nat, z \in 0 .. 2 :
            y = (cut[p] + n) \div 3 /\ cut[p] + n = 3 * y + z
      <4>1. cut[p] + n \in Nat
        BY <2>3, <3>1
      <4> QED
        BY <4>1, ByThree
    <3>3. sent = y
      BY <3>2
    <3>4. y \in 0 .. Len(q)
      <4>1. 3 * y + z <= 3 * Len(q)
        BY <3>1, <3>2
      <4> HIDE DEF q
      <4>2. y <= Len(q)
        BY <2>3, <4>1
      <4> QED
        BY <2>3, <4>2
    <3> QED
      BY <3>3, <3>4
  <2> HIDE DEF sent
  <2>5. \A r : Connected(r)' <=> Connected(r)
    BY <2>1 DEF Connected
  <2>6. Connected(p) /\ p \in plugged
    BY <2>1 DEF Connected, Powered
  <2>7. Powered'
    <3>1. \A r \in Ports : port[r] # "open" \/ r \notin plugged \/ r \in stale => r # p
      BY <2>1, <2>6
    <3>2. \A r \in Ports : port'[r] # "open" => sounding'[r] = {}
      BY <2>1, <2>2, <3>1 DEF Powered
    <3>3. \A r \in Ports : ~Connected(r)' => outgoing'[r] = <<>>
      BY <2>2, <2>5, <2>6 DEF Powered
    <3>4. \A r \in Ports \ plugged' : sounding'[r] = {} /\ (Connected(r)' => r \in stale')
      BY <1>0, <2>1, <2>2, <2>5, <3>1 DEF Powered
    <3>5. \A r \in stale' : sounding'[r] = {}
      BY <2>1, <2>2, <3>1, QueueTypes DEF Powered
    <3> QED
      BY <1>0, <3>2, <3>3, <3>4, <3>5 DEF Powered
  <2>8. ASSUME NEW r \in Ports \ stale', NEW x \in After(outgoing'[r], sounding'[r])
        PROVE  \E m \in Owed(r)' : m.tone = x
    <3>1. x \in After(outgoing[r], sounding[r])
      <4>1. CASE r = p
        <5>1. x \in After(SubSeq(q, sent + 1, Len(q)), After(SubSeq(q, 1, sent), sounding[p]))
          BY <2>2, <2>8, <4>1
        <5>2. x \in After(q, sounding[p])
          BY <2>3, <2>4, <5>1, AfterParts
        <5> QED
          BY <4>1, <5>2
      <4>2. CASE r # p
        BY <2>2, <2>8, <4>2
      <4> QED
        BY <4>1, <4>2
    <3> QED
      BY <1>0, <2>1, <2>8, <3>1 DEF NoStuckNote
  <2> QED
    BY <2>7, <2>8 DEF NoStuckNote
<1> QED
  BY <1>1, <1>2, <1>3 DEF Service

LEMMA RefreshCovered ==
    ASSUME IInv, IInv', Powered, NoStuckNote, Refresh
    PROVE  Powered' /\ NoStuckNote'
<1>1. /\ \A p \in Ports : outgoing'[p] = IF p \in plugged THEN outgoing[p] ELSE <<>>
      /\ \A p \in Ports : port'[p] \in Refreshed(p)
      /\ stale' = stale \cap plugged /\ pc' = "command"
      /\ UNCHANGED <<notes, plugged, sounding>>
  BY DEF Refresh
<1>2. \A p \in Ports : /\ p \notin plugged => port'[p] = "absent"
                       /\ p \in plugged /\ Connected(p) => port'[p] = port[p]
  BY <1>1 DEF Refreshed
<1>3. ASSUME NEW p \in Ports
      PROVE  /\ port'[p] # "open" => sounding'[p] = {}
             /\ ~Connected(p)' => outgoing'[p] = <<>>
             /\ p \notin plugged' => sounding'[p] = {} /\ ~Connected(p)'
  <2>1. CASE p \notin plugged
    BY <1>1, <1>2, <2>1 DEF Powered, Connected
  <2>2. CASE p \in plugged /\ Connected(p)
    BY <1>1, <1>2, <2>2 DEF Powered, Connected
  <2>3. CASE p \in plugged /\ ~Connected(p)
    BY <1>1, <2>3 DEF Powered, Connected
  <2> QED
    BY <2>1, <2>2, <2>3
<1>4. Powered'
  BY <1>1, <1>3 DEF Powered
<1>5. ASSUME NEW r \in Ports \ stale', NEW x \in After(outgoing'[r], sounding'[r])
      PROVE  \E m \in Owed(r)' : m.tone = x
  <2>1. r \in plugged
    <3>1. r \notin plugged => outgoing'[r] = <<>> /\ sounding'[r] = {}
      BY <1>1 DEF Powered
    <3> QED
      BY <1>5, <3>1, AfterNone
  <2>2. r \notin stale /\ x \in After(outgoing[r], sounding[r]) /\ Owed(r)' = Owed(r)
    BY <1>1, <1>5, <2>1 DEF Owed
  <2> QED
    BY <2>2 DEF NoStuckNote
<1> QED
  BY <1>4, <1>5 DEF NoStuckNote

LEMMA WorldCovered ==
    ASSUME IInv, IInv', Powered, NoStuckNote, World
    PROVE  Powered' /\ NoStuckNote'
<1>0. /\ UNCHANGED <<port, outgoing, notes, pc, then, selectedOutput>>
      /\ \A r : Owed(r)' = Owed(r) /\ (Connected(r)' <=> Connected(r))
  <2>1. UNCHANGED <<port, outgoing, notes, pc, then, selectedOutput>>
    BY DEF World, Unplug, Plug, queues, control
  <2> QED
    BY <2>1 DEF Owed, Connected
<1>1. ASSUME NEW p \in Ports, Unplug(p) PROVE Powered' /\ NoStuckNote'
  <2>1. /\ plugged' = plugged \ {p}
        /\ stale' = IF Connected(p) THEN stale \cup {p} ELSE stale
        /\ sounding' = [sounding EXCEPT ![p] = {}]
    BY <1>1 DEF Unplug
  <2>2. sounding'[p] = {} /\ \A r \in Ports \ {p} : sounding'[r] = sounding[r]
    BY <2>1, QueueTypes
  <2>3. \A r \in Ports : sounding[r] = {} => sounding'[r] = {}
    BY <2>2
  <2>4. Powered'
    <3>1. \A r \in Ports : port'[r] # "open" => sounding'[r] = {}
      BY <1>0, <2>3 DEF Powered
    <3>2. \A r \in Ports : ~Connected(r)' => outgoing'[r] = <<>>
      BY <1>0 DEF Powered
    <3>3. \A r \in Ports \ plugged' : sounding'[r] = {} /\ (Connected(r)' => r \in stale')
      BY <1>0, <2>1, <2>2 DEF Powered
    <3>4. \A r \in stale' : sounding'[r] = {}
      BY <2>1, <2>2, <2>3, QueueTypes DEF Powered
    <3> QED
      BY <1>0, <3>1, <3>2, <3>3, <3>4 DEF Powered
  <2>5. ASSUME NEW r \in Ports \ stale', NEW x \in After(outgoing'[r], sounding'[r])
        PROVE  \E m \in Owed(r)' : m.tone = x
    <3>1. r # p
      <4>1. r = p => outgoing'[r] = <<>> /\ sounding'[r] = {}
        BY <1>0, <2>1, <2>2, <2>5 DEF Powered
      <4> QED
        BY <2>5, <4>1, AfterNone
    <3>2. x \in After(outgoing[r], sounding[r]) /\ r \notin stale
      BY <1>0, <2>1, <2>2, <2>5, <3>1
    <3> QED
      BY <1>0, <2>5, <3>2 DEF NoStuckNote
  <2> QED
    BY <2>4, <2>5 DEF NoStuckNote
<1>2. ASSUME NEW p \in Ports, Plug(p) PROVE Powered' /\ NoStuckNote'
  <2>1. plugged' = plugged \cup {p} /\ UNCHANGED <<stale, sounding>>
    BY <1>2 DEF Plug
  <2> QED
    BY <1>0, <2>1 DEF Powered, NoStuckNote
<1> QED
  BY <1>1, <1>2 DEF World

LEMMA NextCovered ==
    ASSUME IInv, IInv', Powered, NoStuckNote, [Next]_vars, "io" \notin Faults
    PROVE  Powered' /\ NoStuckNote'
<1> USE DEF queues, devices
<1>1. CASE \E t \in Tones : Hit(t)
  BY <1>1, HitCovered
<1>2. CASE FinishNote \/ Expire
  BY <1>2, NoteOffCovered DEF FinishNote, Expire
<1>3. CASE FinishPanic
  BY <1>3, PanicCovered
<1>4. CASE Service
  BY <1>4, ServiceCovered
<1>5. CASE Refresh
  BY <1>5, RefreshCovered
<1>6. CASE World
  BY <1>6, WorldCovered
<1>7. CASE (\E out \in Ports \cup {None} : Config(out)) \/ Stop \/ \E due \in SUBSET notes : Tick(due)
  BY <1>7, PoweredAtRest DEF Config, Stop, Tick
<1>8. CASE Panic
  BY <1>8, PoweredAtRest DEF Panic, HasOutput, Connected
<1>9. CASE \/ FinishConfig \/ FinishStop \/ EndTimers \/ EndTick \/ Drain
           \/ NoRefresh \/ StatusFails
  BY <1>9, PoweredAtRest DEF FinishConfig, FinishStop, EndTimers, EndTick, Drain, NoRefresh,
                             StatusFails
<1>10. CASE UNCHANGED vars
  BY <1>10, PoweredAtRest DEF vars, control, Powered
<1> QED
  BY <1>1, <1>2, <1>3, <1>4, <1>5, <1>6, <1>7, <1>8, <1>9, <1>10
     DEF Next, Commands, Finish, Turn, Ended

(* Unless a port fails under a powered instrument, whatever an instrument  *)
(* will be playing once its queue is written has a note-off owed to that    *)
(* very port, however ports were pulled, replaced and switched.             *)
THEOREM NothingStuck ==
    ASSUME "io" \notin Faults
    PROVE  Spec => []NoStuckNote
<1>1. Init => Powered /\ NoStuckNote
  <2> SUFFICES ASSUME Init PROVE Powered /\ NoStuckNote
    OBVIOUS
  <2>1. \A p \in Ports : outgoing[p] = <<>> /\ sounding[p] = {}
    BY DEF Init
  <2> QED
    BY <2>1, AfterNone DEF Init, Powered, NoStuckNote, Connected
<1>2. IInv /\ IInv' /\ Powered /\ NoStuckNote /\ [Next]_vars => Powered' /\ NoStuckNote'
  BY NextCovered
<1> QED
  BY <1>1, <1>2, Inductive, PTL DEF Spec

(* The loop over the owed notes visits them all, so that none is owed once  *)
(* it is over; a service that stopped in time has nothing queued.           *)
Finished ==
    /\ pc = "finish" => left = notes
    /\ stopping /\ pc # "finish" => notes = {}
    /\ pc = "stopped" => stopping
    /\ pc = "stopped" /\ passes < DrainPasses => \A p \in Ports : outgoing[p] = <<>>

LEMMA NextFinished ==
    ASSUME IInv, Finished, [Next]_vars
    PROVE  Finished'
<1> USE DEF Finished, queues, control, devices
<1>1. CASE \E t \in Tones : Hit(t)
  BY <1>1 DEF Hit
<1>2. CASE FinishNote \/ Expire
  <2>1. PICK n \in left : QueueNoteOff(n)
    BY <1>2 DEF FinishNote, Expire
  <2>2. /\ notes' = notes \ {n} /\ left' = left \ {n} /\ UNCHANGED stopping
        /\ pc \in {"finish", "timers"} /\ UNCHANGED pc
    BY <1>2, <2>1 DEF QueueNoteOff, FinishNote, Expire
  <2> QED
    BY <2>2
<1>3. CASE FinishPanic \/ FinishConfig \/ FinishStop
  BY <1>3 DEF FinishPanic, FinishConfig, FinishStop
<1>4. CASE Service
  BY <1>4 DEF Service, Disconnect, Skip, Flush, Visiting, Untouched
<1>5. CASE Refresh \/ NoRefresh \/ StatusFails
  BY <1>5 DEF Refresh, NoRefresh, StatusFails
<1>6. CASE World
  BY <1>6 DEF World, Unplug, Plug
<1>7. CASE \/ \E out \in Ports \cup {None} : Config(out)
           \/ Panic \/ Stop \/ \E due \in SUBSET notes : Tick(due)
  BY <1>7 DEF Config, Panic, Stop, Tick
<1>8. CASE EndTimers \/ EndTick
  BY <1>8 DEF EndTimers, EndTick
<1>9. CASE Drain
  <2>1. /\ pc = "ports" /\ stopping /\ UNCHANGED <<outgoing, notes, stopping>>
        /\ pc' \in {"timers", "stopped"}
    BY <1>9 DEF Drain
  <2>2. ASSUME pc' = "stopped", passes' < DrainPasses PROVE \A p \in Ports : outgoing[p] = <<>>
    <3>1. passes \in 0 .. DrainPasses
      BY DEF IInv, TypeOK
    <3>2. passes + 1 < DrainPasses
      BY <1>9, <2>2, <3>1 DEF Drain
    <3> QED
      BY <1>9, <2>2, <3>2 DEF Drain
  <2> QED
    BY <2>1, <2>2
<1>10. CASE UNCHANGED vars
  BY <1>10 DEF vars
<1> QED
  BY <1>1, <1>2, <1>3, <1>4, <1>5, <1>6, <1>7, <1>8, <1>9, <1>10
     DEF Next, Commands, Finish, Turn, Ended

LEMMA AllFinished == Spec => []Finished
<1>1. Init => Finished
  BY DEF Init, Finished
<1>2. IInv /\ Finished /\ [Next]_vars => Finished'
  BY NextFinished
<1> QED
  BY <1>1, <1>2, Inductive, PTL DEF Spec

(* A service that drained its queues within its passes leaves no instrument *)
(* playing, unless a port failed under a powered one.                       *)
THEOREM StopsSilent ==
    ASSUME "io" \notin Faults
    PROVE  Spec => []StoppedSilent
<1>1. IInv /\ Finished /\ NoStuckNote => StoppedSilent
  <2> SUFFICES ASSUME IInv, Finished, NoStuckNote, pc = "stopped", passes < DrainPasses,
                      NEW p \in Ports \ stale
               PROVE  sounding[p] = {}
    BY DEF StoppedSilent
  <2>1. outgoing[p] = <<>> /\ notes = {}
    BY DEF Finished
  <2>2. After(outgoing[p], sounding[p]) = sounding[p]
    BY <2>1, AfterNone, QueueTypes
  <2>3. Owed(p) = {}
    BY <2>1 DEF Owed
  <2> QED
    BY <2>2, <2>3 DEF NoStuckNote
<1> QED
  BY <1>1, Inductive, AllFinished, NothingStuck, PTL

(* An accepted panic leaves nothing to be played by the selected output,   *)
(* and no timer that could disturb it, whatever failed before.              *)
THEOREM PanicsSilence == Spec => PanicSilences
<1>1. IInv /\ IInv' /\ Finished /\ [Next]_vars =>
        [FinishPanic => /\ After(outgoing'[selectedOutput], sounding[selectedOutput]) = {}
                        /\ notes' = {}]_vars
  <2> SUFFICES ASSUME IInv, IInv', Finished, FinishPanic
               PROVE  /\ After(outgoing'[selectedOutput], sounding[selectedOutput]) = {}
                      /\ notes' = {}
    OBVIOUS
  <2>1. PICK p \in Ports : p = selectedOutput
    BY DEF IInv, FinishPanic
  <2>2. Put(p, PanicMessages) /\ notes' = notes /\ notes = {}
    BY <2>1 DEF FinishPanic, Finished
  <2>3. outgoing'[p] = outgoing[p] \o PanicMessages
    BY <2>2, PutDone
  <2>4. After(outgoing'[p], sounding[p]) = {}
    BY <2>3, PanicMessagesSilence, QueueTypes
  <2> QED
    BY <2>1, <2>2, <2>4
<1> QED
  BY <1>1, Inductive, AllFinished, PTL DEF Spec, PanicSilences

=============================================================================
