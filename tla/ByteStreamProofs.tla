--------------------------- MODULE ByteStreamProofs ---------------------------
(* The two readers of bytes in the MIDI service and the pad service.        *)
(*                                                                          *)
(* Commands are served one by one and as they were written, or refused:     *)
(* for any lengths of lines, buffer, reads and pipe, any writers, and any   *)
(* number of restarts. The MIDI parser emits what the bytes mean, for any   *)
(* input and any bound of an exclusive.                                     *)
EXTENDS CommandFifo, MidiStream, SequenceTheorems, FiniteSetTheorems, TLAPS

(* What was written and has not been looked at.                             *)
FifoUnread == fifoHand \o fifoPipe
FifoByteSet == [line : Nat, end : BOOLEAN]
FifoAnswer == [line : Nat, refused : BOOLEAN, text : Seq(Nat), fresh : BOOLEAN]

FifoTypeOK ==
    /\ fifoUp \in BOOLEAN /\ fifoOpen \subseteq FifoWriters
    /\ fifoPipe \in Seq(FifoByteSet) /\ fifoHand \in Seq(FifoByteSet)
    /\ fifoPending \in Seq(Nat)
    /\ fifoOverflow \in BOOLEAN /\ fifoFresh \in BOOLEAN
    /\ fifoLengths \in Seq(Nat)
    /\ fifoServed \in Seq(FifoAnswer)

(* From its i-th byte on, a run of bytes goes to the e-th and to the end of *)
(* one line.                                                                *)
FifoRun(bytes, i, e) ==
    \A k \in i..e : bytes[k].line = bytes[i].line /\ (bytes[k].end <=> k = e)

(* Bytes that are the last of the lines written: they end with the last of  *)
(* them, lines follow each other, every byte runs to the end of its line,   *)
(* and behind an end comes the next line, whole.                            *)
FifoLinesOf(bytes, lengths) ==
    /\ \A i \in 1..Len(bytes) :
         /\ bytes[i].line \in 1..Len(lengths)
         /\ \E e \in i..Len(bytes) : FifoRun(bytes, i, e)
    /\ \A i \in 1..(Len(bytes) - 1) : bytes[i].end =>
         /\ bytes[i + 1].line = bytes[i].line + 1
         /\ i + lengths[bytes[i + 1].line] + 1 <= Len(bytes)
         /\ FifoRun(bytes, i + 1, i + lengths[bytes[i + 1].line] + 1)
    /\ Len(bytes) > 0 => bytes[Len(bytes)].line = Len(lengths)
    /\ \A i, j \in 1..Len(bytes) : i < j =>
         /\ bytes[i].line <= bytes[j].line
         /\ bytes[i].end => bytes[i].line < bytes[j].line

(* The line in hand: what is pending are its bytes up to the unread ones,   *)
(* and when the service saw its beginning, all of them, or too many.        *)
FifoInHand(bytes) ==
    LET line == bytes[1].line
    IN  \E e \in 1..Len(bytes) :
          /\ FifoRun(bytes, 1, e)
          /\ fifoPending = FifoText(line, Len(fifoPending))
          /\ ~fifoFresh =>
               LET taken == fifoLengths[line] + 1 - e
               IN  IF fifoOverflow THEN taken > FifoLine ELSE taken = Len(fifoPending)

(* What was answered last, if anything was.                                 *)
FifoBehind(bytes) ==
    LET last == fifoServed[Len(fifoServed)].line
    IN  /\ fifoServed # <<>> =>
             /\ last \in 1..Len(fifoLengths)
             /\ \A i \in 1..Len(bytes) : bytes[i].line > last
        /\ ~fifoFresh =>
             /\ fifoServed # <<>>
             /\ bytes # <<>> => bytes[1].line = last + 1
             /\ bytes = <<>> => Len(fifoLengths) = last

FifoHeld ==
    /\ Len(fifoPending) <= FifoLine
    /\ fifoOverflow => fifoPending = <<>>
    /\ FifoUnread = <<>> => fifoPending = <<>> /\ ~fifoOverflow
    /\ ~fifoUp => fifoHand = <<>> /\ fifoPending = <<>> /\ ~fifoOverflow /\ fifoFresh

FifoInv ==
    /\ FifoTypeOK /\ FifoHeld
    /\ FifoLinesOf(FifoUnread, fifoLengths)
    /\ FifoUnread # <<>> => FifoInHand(FifoUnread)
    /\ FifoBehind(FifoUnread)
    /\ \A i \in DOMAIN fifoServed : fifoServed[i].line \in 1..Len(fifoLengths)
    /\ FifoExact
-----------------------------------------------------------------------------
(* Runs of bytes, when bytes before them are taken away.                    *)
LEMMA FifoDropped ==
  ASSUME NEW bytes \in Seq(FifoByteSet), NEW lengths \in Seq(Nat),
         FifoLinesOf(bytes, lengths),
         NEW m \in 0..Len(bytes), NEW rest \in Seq(FifoByteSet),
         Len(rest) = Len(bytes) - m, \A i \in 1..Len(rest) : rest[i] = bytes[m + i]
  PROVE  FifoLinesOf(rest, lengths)
<1>1. PICK N \in Nat, M \in Nat :
        N = Len(bytes) /\ M = Len(rest) /\ N = m + M /\ m \in Nat /\ Len(lengths) \in Nat
  OBVIOUS
<1>2. \A i \in 1..M : m + i \in 1..N /\ rest[i] = bytes[m + i]
  BY <1>1
<1>3. \A i, e \in Nat : i \in 1..M /\ m + e <= N /\ FifoRun(bytes, m + i, m + e)
        => FifoRun(rest, i, e)
  <2> SUFFICES ASSUME NEW i \in Nat, NEW e \in Nat, i \in 1..M, m + e <= N,
                      FifoRun(bytes, m + i, m + e), NEW k \in i..e
               PROVE  rest[k].line = rest[i].line /\ (rest[k].end <=> k = e)
    BY DEF FifoRun
  <2>1. m + k \in (m + i)..(m + e) /\ k \in 1..M /\ (m + k = m + e <=> k = e)
    BY <1>1
  <2>2. rest[k] = bytes[m + k] /\ rest[i] = bytes[m + i]
    BY <1>2, <2>1
  <2>3. bytes[m + k].line = bytes[m + i].line /\ (bytes[m + k].end <=> m + k = m + e)
    BY <2>1 DEF FifoRun
  <2>4. QED
    BY <2>1, <2>2, <2>3
<1>4. ASSUME NEW i \in 1..M
      PROVE  /\ rest[i].line \in 1..Len(lengths)
             /\ \E e \in i..M : FifoRun(rest, i, e)
  <2>1. m + i \in 1..N /\ rest[i] = bytes[m + i]
    BY <1>2
  <2>2. PICK e \in (m + i)..N : FifoRun(bytes, m + i, e)
    BY <1>1, <2>1 DEF FifoLinesOf
  <2>3. PICK d \in i..M : e = m + d
    <3>1. e - m \in i..M /\ e = m + (e - m)
      BY <1>1
    <3>2. QED
      BY <3>1
  <2>4. FifoRun(rest, i, d)
    BY <1>1, <1>3, <2>2, <2>3
  <2>5. QED
    BY <1>1, <2>1, <2>4 DEF FifoLinesOf
<1>5. ASSUME NEW i \in 1..(M - 1), rest[i].end
      PROVE  /\ rest[i + 1].line = rest[i].line + 1
             /\ i + lengths[rest[i + 1].line] + 1 <= M
             /\ FifoRun(rest, i + 1, i + lengths[rest[i + 1].line] + 1)
  <2>1. /\ i \in 1..M /\ i + 1 \in 1..M /\ m + i \in 1..(N - 1)
        /\ m + (i + 1) = (m + i) + 1
    BY <1>1
  <2>2. rest[i] = bytes[m + i] /\ rest[i + 1] = bytes[(m + i) + 1]
    <3>1. rest[i] = bytes[m + i] /\ rest[i + 1] = bytes[m + (i + 1)]
      BY <1>2, <2>1
    <3>2. QED
      BY <2>1, <3>1
  <2>3. rest[i + 1].line \in 1..Len(lengths)
    BY <1>4, <2>1
  <2>4. PICK length \in Nat : length = lengths[rest[i + 1].line]
    BY <2>3
  <2>5. /\ bytes[(m + i) + 1].line = bytes[m + i].line + 1
        /\ (m + i) + length + 1 <= N
        /\ FifoRun(bytes, (m + i) + 1, (m + i) + length + 1)
    BY <1>1, <1>5, <2>1, <2>2, <2>4 DEF FifoLinesOf
  <2>6. /\ i + length + 1 <= M /\ m + (i + length + 1) = (m + i) + length + 1
        /\ i + length + 1 \in Nat /\ m + (i + length + 1) <= N /\ i + 1 \in Nat
    <3>1. (m + i) + length + 1 <= N /\ i \in Nat
      BY <2>5
    <3>2. QED
      BY <1>1, <3>1
  <2>7. FifoRun(rest, i + 1, i + length + 1)
    BY <1>3, <2>1, <2>5, <2>6
  <2>8. QED
    BY <2>2, <2>4, <2>5, <2>6, <2>7
<1>6. M > 0 => rest[M].line = Len(lengths)
  <2>1. M > 0 => M \in 1..M /\ N > 0
    BY <1>1
  <2>2. N > 0 => bytes[N].line = Len(lengths)
    BY <1>1 DEF FifoLinesOf
  <2>3. QED
    BY <1>1, <1>2, <2>1, <2>2
<1>7. ASSUME NEW i \in 1..M, NEW j \in 1..M, i < j
      PROVE  /\ rest[i].line <= rest[j].line
             /\ rest[i].end => rest[i].line < rest[j].line
  <2>1. m + i \in 1..N /\ m + j \in 1..N /\ m + i < m + j
    BY <1>1, <1>7
  <2>2. rest[i] = bytes[m + i] /\ rest[j] = bytes[m + j]
    BY <1>2
  <2>3. QED
    BY <1>1, <2>1, <2>2 DEF FifoLinesOf
<1>8. QED
  BY <1>1, <1>4, <1>5, <1>6, <1>7 DEF FifoLinesOf

(* One more line is written behind them.                                    *)
LEMMA FifoNewBytes ==
  ASSUME NEW line \in Nat, NEW length \in Nat
  PROVE  /\ FifoBytes(line, length) \in Seq(FifoByteSet)
         /\ Len(FifoBytes(line, length)) = length + 1
         /\ \A k \in 1..(length + 1) :
              /\ FifoBytes(line, length)[k].line = line
              /\ (FifoBytes(line, length)[k].end <=> k = length + 1)
<1>1. \A k \in 1..(length + 1) : [line |-> line, end |-> k = length + 1] \in FifoByteSet
  BY DEF FifoByteSet
<1>2. FifoBytes(line, length) \in [1..(length + 1) -> FifoByteSet]
  BY <1>1 DEF FifoBytes
<1>3. FifoBytes(line, length) \in Seq(FifoByteSet) /\ Len(FifoBytes(line, length)) = length + 1
  BY <1>2
<1>4. QED
  BY <1>3 DEF FifoBytes

LEMMA FifoWritten ==
  ASSUME NEW bytes \in Seq(FifoByteSet), NEW lengths \in Seq(Nat),
         FifoLinesOf(bytes, lengths), NEW length \in Nat
  PROVE  FifoLinesOf(bytes \o FifoBytes(Len(lengths) + 1, length), Append(lengths, length))
<1>1. PICK N \in Nat, line \in Nat, last \in Nat :
        N = Len(bytes) /\ line = Len(lengths) + 1 /\ last = N + length + 1
  OBVIOUS
<1> DEFINE added == FifoBytes(line, length)
           all == bytes \o added
           more == Append(lengths, length)
<1>2. /\ added \in Seq(FifoByteSet) /\ Len(added) = length + 1
      /\ \A k \in 1..(length + 1) : added[k].line = line /\ (added[k].end <=> k = length + 1)
  <2>1. added \in Seq(FifoByteSet) /\ Len(added) = length + 1
    BY FifoNewBytes
  <2>2. ASSUME NEW k \in 1..(length + 1)
        PROVE  added[k].line = line /\ (added[k].end <=> k = length + 1)
    BY DEF FifoBytes
  <2>3. QED
    BY <2>1, <2>2
<1> HIDE DEF added
<1>3. /\ all \in Seq(FifoByteSet) /\ Len(all) = last
      /\ \A k \in 1..N : all[k] = bytes[k]
      /\ \A k \in (N + 1)..last : all[k] = added[k - N]
  <2>1. all \in Seq(FifoByteSet) /\ Len(all) = last
    <3>1. all \in Seq(FifoByteSet) /\ Len(all) = Len(bytes) + Len(added)
      BY <1>2, ConcatProperties
    <3>2. QED
      BY <1>1, <1>2, <3>1
  <2>2. \A k \in 1..N : all[k] = bytes[k]
    BY <1>1, <1>2
  <2>3. \A k \in (N + 1)..last : all[k] = added[k - N]
    BY <1>1, <1>2
  <2>4. QED
    BY <2>1, <2>2, <2>3
<1>4. /\ Len(more) = line /\ more[line] = length
      /\ \A n \in 1..(line - 1) : more[n] = lengths[n] /\ lengths[n] \in Nat
  BY <1>1
<1> HIDE DEF all, more
<1>5. \A k \in (N + 1)..last : all[k].line = line /\ (all[k].end <=> k = last)
  <2> TAKE k \in (N + 1)..last
  <2>1. k - N \in 1..(length + 1) /\ (k = last <=> k - N = length + 1)
    BY <1>1
  <2>2. all[k] = added[k - N]
    BY <1>3
  <2>3. QED
    BY <1>2, <2>1, <2>2
<1>6. \A i, e \in Nat : i \in 1..N /\ e <= N /\ FifoRun(bytes, i, e) => FifoRun(all, i, e)
  <2> SUFFICES ASSUME NEW i \in Nat, NEW e \in Nat, i \in 1..N, e <= N,
                      FifoRun(bytes, i, e)
               PROVE  FifoRun(all, i, e)
    OBVIOUS
  <2>1. ASSUME NEW k \in i..e
        PROVE  all[k].line = all[i].line /\ (all[k].end <=> k = e)
    <3>1. k \in 1..N
      BY <1>1
    <3>2. all[k] = bytes[k] /\ all[i] = bytes[i]
      BY <1>3, <3>1
    <3>3. QED
      BY <3>2 DEF FifoRun
  <2>2. QED
    BY <2>1 DEF FifoRun
<1>7. \A i \in (N + 1)..last : FifoRun(all, i, last)
  <2> SUFFICES ASSUME NEW i \in (N + 1)..last, NEW k \in i..last
               PROVE  all[k].line = all[i].line /\ (all[k].end <=> k = last)
    BY DEF FifoRun
  <2>1. k \in (N + 1)..last
    BY <1>1
  <2>2. QED
    BY <1>5, <2>1
<1>8. ASSUME NEW i \in 1..last
      PROVE  /\ all[i].line \in 1..line
             /\ \E e \in i..last : FifoRun(all, i, e)
  <2>1. CASE i \in 1..N
    <3>1. PICK e \in i..N : FifoRun(bytes, i, e) /\ bytes[i].line \in 1..(line - 1)
      BY <1>1, <2>1 DEF FifoLinesOf
    <3>2. FifoRun(all, i, e) /\ e \in i..last
      BY <1>1, <1>6, <2>1, <3>1
    <3>3. all[i] = bytes[i]
      BY <1>3, <2>1
    <3>4. QED
      BY <1>1, <3>1, <3>2, <3>3
  <2>2. CASE i \in (N + 1)..last
    BY <1>1, <1>5, <1>7, <2>2
  <2>3. QED
    BY <1>1, <2>1, <2>2
<1>9. ASSUME NEW i \in 1..(last - 1), all[i].end
      PROVE  /\ all[i + 1].line = all[i].line + 1
             /\ i + more[all[i + 1].line] + 1 <= last
             /\ FifoRun(all, i + 1, i + more[all[i + 1].line] + 1)
  <2>1. CASE i \in 1..(N - 1)
    <3>1. i \in 1..N /\ i + 1 \in 1..N
      BY <1>1, <2>1
    <3>2. all[i] = bytes[i] /\ all[i + 1] = bytes[i + 1]
      BY <1>3, <3>1
    <3>3. /\ bytes[i + 1].line = bytes[i].line + 1 /\ bytes[i + 1].line \in 1..(line - 1)
          /\ i + lengths[bytes[i + 1].line] + 1 <= N
          /\ FifoRun(bytes, i + 1, i + lengths[bytes[i + 1].line] + 1)
      <4>1. i \in 1..(Len(bytes) - 1) /\ i + 1 \in 1..Len(bytes) /\ bytes[i].end
        BY <1>1, <1>9, <2>1, <3>1, <3>2
      <4>2. /\ bytes[i + 1].line = bytes[i].line + 1 /\ bytes[i + 1].line \in 1..Len(lengths)
            /\ i + lengths[bytes[i + 1].line] + 1 <= Len(bytes)
            /\ FifoRun(bytes, i + 1, i + lengths[bytes[i + 1].line] + 1)
        BY <4>1 DEF FifoLinesOf
      <4>3. Len(lengths) = line - 1
        BY <1>1
      <4>4. QED
        BY <1>1, <4>2, <4>3
    <3>4. PICK l \in Nat : l = lengths[bytes[i + 1].line]
      BY <1>4, <3>3
    <3>5. l = more[all[i + 1].line]
      BY <1>4, <3>2, <3>3, <3>4
    <3>6. FifoRun(bytes, i + 1, i + l + 1) /\ i + l + 1 <= N
      BY <3>3, <3>4
    <3>7. FifoRun(all, i + 1, i + l + 1) /\ i + l + 1 <= last
      <4>1. i \in Nat /\ l \in Nat /\ i + l + 1 <= N
        BY <2>1, <3>4, <3>6
      <4>2. i + 1 \in Nat /\ i + l + 1 \in Nat /\ i + l + 1 <= last
        BY <1>1, <4>1
      <4>3. QED
        BY <1>6, <3>1, <3>6, <4>2
    <3>8. QED
      BY <3>2, <3>3, <3>5, <3>7
  <2>2. CASE i = N
    <3>1. N > 0 /\ N \in 1..N /\ N + 1 \in (N + 1)..last
      BY <1>1, <2>2
    <3>2. all[N].line = line - 1
      BY <1>1, <1>3, <3>1 DEF FifoLinesOf
    <3>3. all[N + 1].line = line /\ FifoRun(all, N + 1, last)
      BY <1>5, <1>7, <3>1
    <3>4. more[all[N + 1].line] = length
      BY <1>4, <3>3
    <3>5. QED
      BY <1>1, <2>2, <3>2, <3>3, <3>4
  <2>3. CASE i \in (N + 1)..(last - 1)
    <3>1. i \in (N + 1)..last /\ i # last
      BY <1>1, <2>3
    <3>2. QED
      BY <1>5, <1>9, <3>1
  <2>4. QED
    BY <1>1, <2>1, <2>2, <2>3
<1>10. all[last].line = line
  BY <1>1, <1>5
<1>11. ASSUME NEW i \in 1..last, NEW j \in 1..last, i < j
       PROVE  /\ all[i].line <= all[j].line
              /\ all[i].end => all[i].line < all[j].line
  <2>1. CASE j \in 1..N
    <3>1. i \in 1..N /\ all[i] = bytes[i] /\ all[j] = bytes[j]
      BY <1>1, <1>3, <1>11, <2>1
    <3>2. QED
      BY <1>1, <1>11, <2>1, <3>1 DEF FifoLinesOf
  <2>2. CASE i \in 1..N /\ j \in (N + 1)..last
    <3>1. all[i] = bytes[i] /\ bytes[i].line \in 1..(line - 1)
      BY <1>1, <1>3, <2>2 DEF FifoLinesOf
    <3>2. all[j].line = line
      BY <1>5, <2>2
    <3>3. QED
      BY <1>1, <3>1, <3>2
  <2>3. CASE i \in (N + 1)..last /\ j \in (N + 1)..last
    BY <1>1, <1>5, <1>11, <2>3
  <2>4. QED
    BY <1>1, <1>11, <2>1, <2>2, <2>3
<1>12. FifoLinesOf(all, more)
  BY <1>1, <1>3, <1>4, <1>8, <1>9, <1>10, <1>11 DEF FifoLinesOf
<1>13. QED
  BY <1>1, <1>12 DEF all, more, added

-----------------------------------------------------------------------------
(* A text of one line, and one byte more of it.                             *)
LEMMA FifoTexts ==
  ASSUME NEW line \in Nat, NEW n \in Nat
  PROVE  /\ FifoText(line, n) \in Seq(Nat) /\ Len(FifoText(line, n)) = n
         /\ Append(FifoText(line, n), line) = FifoText(line, n + 1)
         /\ FifoText(line, 0) = <<>>
<1>1. FifoText(line, n) \in [1..n -> Nat]
  BY DEF FifoText
<1>2. FifoText(line, n) \in Seq(Nat) /\ Len(FifoText(line, n)) = n
  BY <1>1
<1>3. Append(FifoText(line, n), line) = FifoText(line, n + 1)
  BY <1>2 DEF FifoText
<1>4. FifoText(line, 0) = <<>>
  BY DEF FifoText
<1>5. QED
  BY <1>2, <1>3, <1>4

(* The first state.                                                         *)
LEMMA FifoInitInv == FifoInit => FifoInv
<1> SUFFICES ASSUME FifoInit PROVE FifoInv
  OBVIOUS
<1> USE FifoAssumption DEF FifoInit
<1>1. FifoUnread = <<>>
  BY DEF FifoUnread
<1>2. FifoTypeOK
  <2>1. <<>> \in Seq(FifoByteSet) /\ <<>> \in Seq(Nat) /\ <<>> \in Seq(FifoAnswer)
    BY EmptySeq
  <2>2. QED
    BY <2>1 DEF FifoTypeOK
<1>3. FifoHeld
  BY DEF FifoHeld
<1>4. FifoLinesOf(FifoUnread, fifoLengths)
  BY <1>1 DEF FifoLinesOf
<1>5. FifoBehind(FifoUnread)
  BY <1>1 DEF FifoBehind
<1>6. FifoExact
  BY DEF FifoExact
<1>7. QED
  BY <1>1, <1>2, <1>3, <1>4, <1>5, <1>6 DEF FifoInv

(* What FifoInv says of what is unread needs no more than these.            *)
LEMMA FifoSame ==
  ASSUME FifoInv, FifoTypeOK', FifoHeld', FifoUnread' = FifoUnread,
         UNCHANGED <<fifoPending, fifoOverflow, fifoFresh, fifoLengths, fifoServed>>
  PROVE  FifoInv'
<1>1. FifoLinesOf(FifoUnread, fifoLengths)'
  BY DEF FifoInv, FifoLinesOf, FifoRun
<1>2. (FifoUnread # <<>> => FifoInHand(FifoUnread))'
  BY DEF FifoInv, FifoInHand, FifoText, FifoRun
<1>3. FifoBehind(FifoUnread)'
  BY DEF FifoInv, FifoBehind
<1>4. (\A i \in DOMAIN fifoServed : fifoServed[i].line \in 1..Len(fifoLengths))' /\ FifoExact'
  BY DEF FifoInv, FifoExact, FifoTail, FifoWhole, FifoText
<1>5. QED
  BY <1>1, <1>2, <1>3, <1>4 DEF FifoInv

(* The values of the unread bytes.                                          *)
LEMMA FifoTyped ==
  ASSUME FifoTypeOK
  PROVE  /\ fifoHand \in Seq(FifoByteSet) /\ fifoPipe \in Seq(FifoByteSet)
         /\ FifoUnread \in Seq(FifoByteSet) /\ Len(FifoUnread) \in Nat
         /\ FifoUnread = <<>> <=> Len(FifoUnread) = 0
         /\ fifoLengths \in Seq(Nat) /\ Len(fifoLengths) \in Nat
<1>1. fifoHand \in Seq(FifoByteSet) /\ fifoPipe \in Seq(FifoByteSet) /\ fifoLengths \in Seq(Nat)
  BY DEF FifoTypeOK
<1>2. FifoUnread \in Seq(FifoByteSet)
  BY <1>1, ConcatProperties DEF FifoUnread
<1>3. Len(FifoUnread) \in Nat /\ (FifoUnread = <<>> <=> Len(FifoUnread) = 0)
  BY <1>2, EmptySeq
<1>4. QED
  BY <1>1, <1>2, <1>3

LEMMA FifoBehindPipe ==
  ASSUME NEW x \in Seq(FifoByteSet), NEW y \in Seq(FifoByteSet), NEW z \in Seq(FifoByteSet)
  PROVE  x \o (y \o z) = (x \o y) \o z
BY ConcatAssociative, SMTT(20)

(* A command is written whole.                                              *)
LEMMA FifoWriteInv ==
  ASSUME FifoInv, NEW length \in Nat,
         fifoLengths' = Append(fifoLengths, length),
         fifoPipe' = fifoPipe \o FifoBytes(Len(fifoLengths'), length),
         fifoOpen' \subseteq fifoOpen, UNCHANGED <<fifoUp, fifoReader>>
  PROVE  FifoInv'
<1>1. PICK bytes \in Seq(FifoByteSet), N \in Nat, n \in Nat :
        bytes = FifoUnread /\ N = Len(bytes) /\ n = Len(fifoLengths)
  BY FifoTyped DEF FifoInv
<1>2. PICK added \in Seq(FifoByteSet) :
        /\ added = FifoBytes(n + 1, length) /\ Len(added) = length + 1
        /\ \A k \in 1..(length + 1) : added[k].line = n + 1 /\ (added[k].end <=> k = length + 1)
  <2>1. n + 1 \in Nat
    BY <1>1
  <2>2. FifoBytes(n + 1, length) \in Seq(FifoByteSet) /\ Len(FifoBytes(n + 1, length)) = length + 1
    <3>1. PICK line \in Nat : line = n + 1
      BY <2>1
    <3>2. FifoBytes(line, length) \in Seq(FifoByteSet) /\ Len(FifoBytes(line, length)) = length + 1
      BY FifoNewBytes
    <3>3. QED
      BY <3>1, <3>2
  <2>3. ASSUME NEW k \in 1..(length + 1)
        PROVE  /\ FifoBytes(n + 1, length)[k].line = n + 1
               /\ (FifoBytes(n + 1, length)[k].end <=> k = length + 1)
    BY DEF FifoBytes
  <2>4. QED
    BY <2>2, <2>3
<1>3. /\ Len(fifoLengths') = n + 1 /\ fifoLengths'[n + 1] = length
      /\ \A k \in 1..n : fifoLengths'[k] = fifoLengths[k] /\ fifoLengths[k] \in Nat
      /\ fifoLengths' \in Seq(Nat) /\ fifoPipe' = fifoPipe \o added
  <2>1. fifoLengths \in Seq(Nat) /\ n = Len(fifoLengths)
    BY <1>1, FifoTyped DEF FifoInv
  <2>2. Len(fifoLengths') = n + 1 /\ fifoLengths' \in Seq(Nat) /\ fifoLengths'[n + 1] = length
    BY <2>1
  <2>3. \A k \in 1..n : fifoLengths'[k] = fifoLengths[k] /\ fifoLengths[k] \in Nat
    BY <2>1
  <2>4. QED
    BY <1>2, <2>1, <2>2, <2>3
<1>4. PICK all \in Seq(FifoByteSet) : all = bytes \o added /\ all = FifoUnread'
  <2>1. fifoHand \o (fifoPipe \o added) = (fifoHand \o fifoPipe) \o added
    <3>1. fifoHand \in Seq(FifoByteSet) /\ fifoPipe \in Seq(FifoByteSet)
      BY FifoTyped DEF FifoInv
    <3>2. QED
      BY <3>1, FifoBehindPipe
  <2>2. FifoUnread' = bytes \o added
    BY <1>1, <1>3, <2>1 DEF FifoUnread, fifoReader
  <2>3. bytes \o added \in Seq(FifoByteSet)
    BY ConcatProperties
  <2>4. QED
    BY <2>2, <2>3
<1>5. FifoTypeOK'
  <2>1. fifoPipe' \in Seq(FifoByteSet)
    BY <1>3, ConcatProperties DEF FifoInv, FifoTypeOK
  <2>2. QED
    BY <1>3, <2>1 DEF FifoInv, FifoTypeOK, fifoReader
<1>6. FifoLinesOf(all, fifoLengths')
  <2>1. FifoLinesOf(bytes, fifoLengths) /\ fifoLengths \in Seq(Nat)
    BY <1>1 DEF FifoInv, FifoTypeOK
  <2>2. QED
    BY <1>1, <1>2, <1>4, <2>1, FifoWritten
<1>7. /\ Len(all) = N + length + 1
      /\ \A k \in 1..N : all[k] = bytes[k]
      /\ \A k \in (N + 1)..(N + length + 1) : all[k] = added[k - N]
  <2>1. Len(all) = N + length + 1
    <3>1. Len(all) = Len(bytes) + Len(added)
      BY <1>4, ConcatProperties
    <3>2. QED
      BY <1>1, <1>2, <3>1
  <2>2. \A k \in 1..N : all[k] = bytes[k]
    BY <1>1, <1>2, <1>4
  <2>3. \A k \in (N + 1)..(N + length + 1) : all[k] = added[k - N]
    BY <1>1, <1>2, <1>4
  <2>4. QED
    BY <2>1, <2>2, <2>3
<1>8. \A k \in (N + 1)..(N + length + 1) :
        all[k].line = n + 1 /\ (all[k].end <=> k = N + length + 1)
  <2> TAKE k \in (N + 1)..(N + length + 1)
  <2>1. k - N \in 1..(length + 1) /\ (k = N + length + 1 <=> k - N = length + 1)
    OBVIOUS
  <2>2. QED
    BY <1>2, <1>7, <2>1
<1>9. FifoHeld'
  <2>1. all # <<>>
    BY <1>1, <1>7
  <2>2. QED
    BY <1>4, <2>1 DEF FifoInv, FifoHeld, fifoReader
<1>10. ASSUME N > 0 PROVE all[1] = bytes[1] /\ FifoInHand(FifoUnread)'
  <2>1. PICK line \in 1..n : line = bytes[1].line
    <3>1. FifoLinesOf(bytes, fifoLengths) /\ 1 \in 1..N
      BY <1>1, <1>10 DEF FifoInv
    <3>2. QED
      BY <1>1, <3>1 DEF FifoLinesOf
  <2>2. PICK e \in 1..N :
          /\ FifoRun(bytes, 1, e)
          /\ fifoPending = FifoText(line, Len(fifoPending))
          /\ ~fifoFresh =>
               LET taken == fifoLengths[line] + 1 - e
               IN  IF fifoOverflow THEN taken > FifoLine ELSE taken = Len(fifoPending)
    BY <1>1, <1>10, <2>1 DEF FifoInv, FifoInHand
  <2>3. all[1] = bytes[1] /\ fifoLengths'[line] = fifoLengths[line] /\ e \in 1..Len(all)
    <3>1. 1 \in 1..N /\ e \in 1..(N + length + 1)
      BY <1>10
    <3>2. all[1] = bytes[1] /\ e \in 1..Len(all)
      BY <1>7, <3>1
    <3>3. QED
      BY <1>3, <2>1, <3>2
  <2>4. FifoRun(all, 1, e)
    <3>1. \A k \in 1..e : k \in 1..N
      OBVIOUS
    <3>2. \A k \in 1..N : all[k] = bytes[k]
      BY <1>7
    <3>3. \A k \in 1..e : all[k] = bytes[k]
      BY <3>1, <3>2, Zenon
    <3>4. QED
      BY <2>2, <2>3, <3>3 DEF FifoRun
  <2>5. QED
    BY <1>4, <2>1, <2>2, <2>3, <2>4 DEF FifoInHand, FifoText, fifoReader
<1>11. ASSUME N = 0 PROVE all[1].line = n + 1 /\ FifoInHand(FifoUnread)'
  <2>1. fifoPending = <<>> /\ ~fifoOverflow
    BY <1>1, <1>11, FifoTyped DEF FifoInv, FifoHeld
  <2>2. FifoRun(all, 1, length + 1) /\ all[1].line = n + 1
    BY <1>8, <1>11 DEF FifoRun
  <2>3. fifoPending = FifoText(n + 1, Len(fifoPending)) /\ Len(fifoPending) = 0
    BY <2>1, FifoTexts
  <2>4. fifoLengths'[n + 1] + 1 - (length + 1) = 0 /\ length + 1 \in 1..Len(all)
    BY <1>3, <1>7, <1>11
  <2>5. QED
    BY <1>4, <2>1, <2>2, <2>3, <2>4 DEF FifoInHand, FifoText, fifoReader
<1>12. FifoBehind(FifoUnread)'
  <2>1. PICK last : last = fifoServed[Len(fifoServed)].line
    OBVIOUS
  <2>2. fifoServed # <<>> => last \in 1..n /\ \A i \in 1..N : bytes[i].line > last
    BY <1>1, <2>1 DEF FifoInv, FifoBehind
  <2>3. ASSUME fifoServed # <<>>, NEW i \in 1..Len(all) PROVE all[i].line > last
    <3>1. CASE i \in 1..N
      BY <1>7, <2>2, <2>3, <3>1
    <3>2. CASE i \in (N + 1)..(N + length + 1)
      BY <1>8, <2>2, <2>3, <3>2
    <3>3. QED
      BY <1>7, <3>1, <3>2
  <2>4. ASSUME ~fifoFresh PROVE fifoServed # <<>> /\ all[1].line = last + 1
    <3>1. CASE N > 0
      BY <1>1, <1>10, <2>1, <2>4, <3>1 DEF FifoInv, FifoBehind
    <3>2. CASE N = 0
      <4>1. bytes = <<>> /\ all[1].line = n + 1
        BY <1>1, <1>11, <3>2, EmptySeq
      <4>2. fifoServed # <<>> /\ n = last
        BY <1>1, <2>1, <2>4, <4>1 DEF FifoInv, FifoBehind
      <4>3. QED
        BY <4>1, <4>2
    <3>3. QED
      BY <3>1, <3>2
  <2>5. all # <<>>
    BY <1>7
  <2>6. fifoServed # <<>> => last \in 1..(n + 1)
    BY <2>2
  <2>7. QED
    BY <1>3, <1>4, <2>1, <2>3, <2>4, <2>5, <2>6 DEF FifoBehind, fifoReader
<1>13. (\A i \in DOMAIN fifoServed : fifoServed[i].line \in 1..Len(fifoLengths))'
  <2>1. \A i \in DOMAIN fifoServed : fifoServed[i].line \in 1..n
    BY <1>1 DEF FifoInv
  <2>2. QED
    BY <1>3, <2>1 DEF fifoReader
<1>14. FifoExact'
  <2>1. \A i \in DOMAIN fifoServed :
          fifoLengths'[fifoServed[i].line] = fifoLengths[fifoServed[i].line]
    BY <1>1, <1>3 DEF FifoInv
  <2>2. ASSUME NEW i \in DOMAIN fifoServed, NEW s, s = fifoServed[i], FifoWhole(s)
        PROVE  FifoWhole(s)'
    <3>1. fifoLengths'[s.line] = fifoLengths[s.line]
      BY <2>1, <2>2
    <3>2. QED
      BY <2>2, <3>1 DEF FifoWhole, FifoText
  <2>3. ASSUME NEW s, FifoTail(s) PROVE FifoTail(s)'
    BY <2>3 DEF FifoTail, FifoText
  <2>4. fifoServed' = fifoServed
    BY DEF fifoReader
  <2>5. QED
    BY <2>2, <2>3, <2>4 DEF FifoInv, FifoExact
<1>15. QED
  <2>1. FifoInHand(FifoUnread)'
    BY <1>10, <1>11
  <2>2. FifoLinesOf(FifoUnread, fifoLengths)'
    BY <1>4, <1>6
  <2>3. QED
    BY <1>5, <1>9, <1>12, <1>13, <1>14, <2>1, <2>2 DEF FifoInv

(* What is in the pipe is lost, or what is in the hand: the service begins  *)
(* somewhere in a line, with nothing pending.                               *)
LEMMA FifoLostInv ==
  ASSUME FifoInv, FifoTypeOK', FifoHeld', NEW m \in 0..Len(FifoUnread),
         Len(FifoUnread') = Len(FifoUnread) - m,
         \A i \in 1..Len(FifoUnread') : FifoUnread'[i] = FifoUnread[m + i],
         fifoPending' = <<>>, fifoFresh' = TRUE, UNCHANGED <<fifoLengths, fifoServed>>
  PROVE  FifoInv'
<1>1. PICK bytes \in Seq(FifoByteSet), rest \in Seq(FifoByteSet) :
        bytes = FifoUnread /\ rest = FifoUnread'
  <2>1. FifoUnread \in Seq(FifoByteSet)
    BY FifoTyped DEF FifoInv
  <2>2. fifoHand' \in Seq(FifoByteSet) /\ fifoPipe' \in Seq(FifoByteSet)
    BY DEF FifoTypeOK
  <2>3. fifoHand' \o fifoPipe' \in Seq(FifoByteSet)
    BY <2>2, ConcatProperties
  <2>4. FifoUnread' \in Seq(FifoByteSet)
    BY <2>3 DEF FifoUnread
  <2>5. QED
    BY <2>1, <2>4
<1>2. FifoLinesOf(rest, fifoLengths)
  <2>1. FifoLinesOf(bytes, fifoLengths) /\ fifoLengths \in Seq(Nat)
    BY <1>1, FifoTyped DEF FifoInv
  <2>2. m \in 0..Len(bytes) /\ Len(rest) = Len(bytes) - m
        /\ \A i \in 1..Len(rest) : rest[i] = bytes[m + i]
    BY <1>1
  <2>3. QED
    BY <2>1, <2>2, FifoDropped
<1>3. rest # <<>> => FifoInHand(FifoUnread)'
  <2> SUFFICES ASSUME rest # <<>> PROVE FifoInHand(FifoUnread)'
    OBVIOUS
  <2>1. 1 \in 1..Len(rest)
    BY EmptySeq
  <2>2. PICK e \in 1..Len(rest) : FifoRun(rest, 1, e) /\ rest[1].line \in Nat
    BY <1>2, <2>1 DEF FifoLinesOf
  <2>3. fifoPending' = FifoText(rest[1].line, Len(fifoPending'))
    <3>1. Len(<<>>) = 0 /\ FifoText(rest[1].line, 0) = <<>>
      BY <2>2, FifoTexts
    <3>2. QED
      BY <3>1
  <2>4. QED
    BY <1>1, <2>2, <2>3 DEF FifoInHand, FifoText
<1>4. FifoBehind(FifoUnread)'
  <2>1. PICK last : last = fifoServed[Len(fifoServed)].line
    OBVIOUS
  <2>2. fifoServed # <<>> =>
          last \in 1..Len(fifoLengths) /\ \A i \in 1..Len(bytes) : bytes[i].line > last
    BY <1>1, <2>1 DEF FifoInv, FifoBehind
  <2>3. \A i \in 1..Len(rest) : m + i \in 1..Len(bytes) /\ rest[i] = bytes[m + i]
    <3>1. Len(rest) = Len(bytes) - m /\ Len(bytes) \in Nat /\ m \in 0..Len(bytes)
      BY <1>1, LenProperties
    <3>2. QED
      BY <1>1, <3>1
  <2>4. fifoServed # <<>> => \A i \in 1..Len(rest) : rest[i].line > last
    BY <2>2, <2>3
  <2>5. QED
    BY <1>1, <2>1, <2>2, <2>4 DEF FifoBehind
<1>5. (\A i \in DOMAIN fifoServed : fifoServed[i].line \in 1..Len(fifoLengths))' /\ FifoExact'
  BY DEF FifoInv, FifoExact, FifoTail, FifoWhole, FifoText
<1>6. QED
  BY <1>1, <1>2, <1>3, <1>4, <1>5 DEF FifoInv

(* The first byte of the hand is taken away.                                *)
LEMMA FifoTailed ==
  ASSUME NEW hand \in Seq(FifoByteSet), NEW pipe \in Seq(FifoByteSet), hand # <<>>
  PROVE  /\ Tail(hand) \in Seq(FifoByteSet) /\ Tail(hand) \o pipe \in Seq(FifoByteSet)
         /\ hand \o pipe \in Seq(FifoByteSet) /\ Len(hand \o pipe) \in Nat \ {0}
         /\ Len(Tail(hand) \o pipe) = Len(hand \o pipe) - 1
         /\ \A i \in 1..(Len(hand \o pipe) - 1) :
              (Tail(hand) \o pipe)[i] = (hand \o pipe)[1 + i]
         /\ (hand \o pipe)[1] = Head(hand)
<1>1. PICK h \in Nat, p \in Nat : h = Len(hand) /\ p = Len(pipe) /\ h > 0
  BY EmptySeq, LenProperties
<1>2. PICK tail \in Seq(FifoByteSet) :
        tail = Tail(hand) /\ Len(tail) = h - 1 /\ \A i \in 1..(h - 1) : tail[i] = hand[i + 1]
  <2>1. /\ Tail(hand) \in Seq(FifoByteSet) /\ Len(Tail(hand)) = Len(hand) - 1
        /\ \A i \in 1..Len(Tail(hand)) : Tail(hand)[i] = hand[i + 1]
    BY HeadTailProperties
  <2>2. QED
    BY <1>1, <2>1
<1>3. PICK all \in Seq(FifoByteSet) :
        /\ all = hand \o pipe /\ Len(all) = h + p
        /\ \A i \in 1..(h + p) : all[i] = IF i <= h THEN hand[i] ELSE pipe[i - h]
  <2>1. /\ hand \o pipe \in Seq(FifoByteSet) /\ Len(hand \o pipe) = Len(hand) + Len(pipe)
        /\ \A i \in 1..(Len(hand) + Len(pipe)) :
             (hand \o pipe)[i] = IF i <= Len(hand) THEN hand[i] ELSE pipe[i - Len(hand)]
    BY ConcatProperties
  <2>2. QED
    BY <1>1, <2>1
<1>4. PICK rest \in Seq(FifoByteSet) :
        /\ rest = tail \o pipe /\ Len(rest) = (h - 1) + p
        /\ \A i \in 1..((h - 1) + p) :
             rest[i] = IF i <= h - 1 THEN tail[i] ELSE pipe[i - (h - 1)]
  <2>1. PICK t \in Nat : t = Len(tail) /\ t = h - 1
    BY <1>1, <1>2, LenProperties
  <2>2. /\ tail \o pipe \in Seq(FifoByteSet) /\ Len(tail \o pipe) = t + p
        /\ \A i \in 1..(t + p) : (tail \o pipe)[i] = IF i <= t THEN tail[i] ELSE pipe[i - t]
    <3>1. /\ tail \o pipe \in Seq(FifoByteSet) /\ Len(tail \o pipe) = Len(tail) + Len(pipe)
          /\ \A i \in 1..(Len(tail) + Len(pipe)) :
               (tail \o pipe)[i] = IF i <= Len(tail) THEN tail[i] ELSE pipe[i - Len(tail)]
      BY ConcatProperties
    <3>2. t = Len(tail) /\ p = Len(pipe)
      BY <1>1, <2>1
    <3>3. QED
      BY <3>1, <3>2
  <2>3. QED
    BY <2>1, <2>2
<1>5. ASSUME NEW i \in 1..(h + p - 1) PROVE rest[i] = all[1 + i]
  <2>1. CASE i <= h - 1
    <3>1. i \in 1..((h - 1) + p) /\ i \in 1..(h - 1) /\ 1 + i \in 1..(h + p) /\ 1 + i <= h
          /\ i + 1 = 1 + i
      BY <1>1, <2>1
    <3>2. rest[i] = tail[i] /\ tail[i] = hand[i + 1] /\ all[1 + i] = hand[1 + i]
      BY <1>2, <1>3, <1>4, <2>1, <3>1
    <3>3. QED
      BY <3>1, <3>2
  <2>2. CASE i > h - 1
    <3>1. i \in 1..((h - 1) + p) /\ 1 + i \in 1..(h + p) /\ i - (h - 1) = (1 + i) - h
          /\ ~(i <= h - 1) /\ ~(1 + i <= h)
      BY <1>1, <2>2
    <3>2. rest[i] = pipe[i - (h - 1)]
      BY <1>4, <3>1
    <3>3. all[1 + i] = pipe[(1 + i) - h]
      BY <1>3, <3>1
    <3>4. QED
      BY <3>1, <3>2, <3>3
  <2>3. QED
    BY <1>1, <2>1, <2>2
<1>6. all[1] = Head(hand)
  <2>1. 1 \in 1..(h + p) /\ 1 <= h
    BY <1>1
  <2>2. QED
    BY <1>3, <2>1
<1>7. h + p \in Nat \ {0} /\ (h - 1) + p = (h + p) - 1
  BY <1>1
<1>8. QED
  BY <1>2, <1>3, <1>4, <1>5, <1>6, <1>7

(* A byte is looked at.                                                     *)
LEMMA FifoByteInv == FifoInv /\ FifoByte => FifoInv'
<1> SUFFICES ASSUME FifoInv, FifoByte PROVE FifoInv'
  OBVIOUS
<1>1. PICK bytes \in Seq(FifoByteSet), rest \in Seq(FifoByteSet), N \in Nat :
        /\ bytes = FifoUnread /\ rest = FifoUnread' /\ N = Len(bytes) /\ N > 0
        /\ Len(rest) = N - 1 /\ \A i \in 1..(N - 1) : rest[i] = bytes[1 + i]
        /\ bytes[1] = Head(fifoHand) /\ fifoHand' \in Seq(FifoByteSet)
  <2>1. /\ fifoHand \in Seq(FifoByteSet) /\ fifoPipe \in Seq(FifoByteSet)
        /\ fifoHand # <<>> /\ fifoHand' = Tail(fifoHand) /\ fifoPipe' = fifoPipe
    BY FifoTyped DEF FifoInv, FifoByte
  <2>2. FifoUnread = fifoHand \o fifoPipe /\ FifoUnread' = Tail(fifoHand) \o fifoPipe
    BY <2>1 DEF FifoUnread
  <2>3. PICK N \in Nat : N = Len(fifoHand \o fifoPipe) /\ N > 0
    BY <2>1, FifoTailed
  <2>4. /\ Tail(fifoHand) \in Seq(FifoByteSet) /\ fifoHand \o fifoPipe \in Seq(FifoByteSet)
        /\ Tail(fifoHand) \o fifoPipe \in Seq(FifoByteSet)
        /\ Len(Tail(fifoHand) \o fifoPipe) = N - 1
        /\ \A i \in 1..(N - 1) :
             (Tail(fifoHand) \o fifoPipe)[i] = (fifoHand \o fifoPipe)[1 + i]
        /\ (fifoHand \o fifoPipe)[1] = Head(fifoHand)
    BY <2>1, <2>3, FifoTailed
  <2>5. QED
    BY <2>1, <2>2, <2>3, <2>4
<1>2. PICK n \in Nat, line \in Nat, last \in Nat :
        /\ n = Len(fifoLengths) /\ line = bytes[1].line /\ line \in 1..n
        /\ fifoServed # <<>> => last = fifoServed[Len(fifoServed)].line
        /\ FifoLinesOf(bytes, fifoLengths) /\ fifoLengths \in Seq(Nat)
  <2>1. FifoLinesOf(bytes, fifoLengths) /\ fifoLengths \in Seq(Nat) /\ Len(fifoLengths) \in Nat
    BY <1>1, FifoTyped DEF FifoInv
  <2>2. bytes[1].line \in 1..Len(fifoLengths)
    BY <1>1, <2>1 DEF FifoLinesOf
  <2>3. fifoServed # <<>> => fifoServed[Len(fifoServed)].line \in Nat
    BY <1>1 DEF FifoInv, FifoBehind
  <2>4. QED
    BY <2>1, <2>2, <2>3
<1>3. PICK e \in 1..N :
        /\ FifoRun(bytes, 1, e)
        /\ fifoPending = FifoText(line, Len(fifoPending))
        /\ ~fifoFresh =>
             LET taken == fifoLengths[line] + 1 - e
             IN  IF fifoOverflow THEN taken > FifoLine ELSE taken = Len(fifoPending)
  <2>1. FifoUnread # <<>>
    BY <1>1, EmptySeq
  <2>2. QED
    BY <1>1, <1>2, <2>1 DEF FifoInv, FifoInHand
<1>4. bytes[1].end <=> e = 1
  <2>1. 1 \in 1..e
    OBVIOUS
  <2>2. bytes[1].end <=> 1 = e
    BY <1>3, <2>1 DEF FifoRun
  <2>3. QED
    BY <2>2
<1>5. FifoLinesOf(rest, fifoLengths)
  <2>1. 1 \in 0..Len(bytes) /\ Len(rest) = Len(bytes) - 1
        /\ \A i \in 1..Len(rest) : rest[i] = bytes[1 + i]
    BY <1>1
  <2>2. QED
    BY <1>2, <2>1, FifoDropped
<1>6. /\ \A i \in 1..N : fifoServed # <<>> => bytes[i].line > last
      /\ ~fifoFresh => fifoServed # <<>> /\ line = last + 1
      /\ fifoServed # <<>> => last \in 1..n
  <2>1. bytes # <<>>
    BY <1>1, EmptySeq
  <2>2. QED
    BY <1>1, <1>2, <2>1 DEF FifoInv, FifoBehind
<1>7. /\ fifoLengths[line] \in Nat /\ FifoLine \in Nat /\ FifoLine > 0
      /\ fifoPending \in Seq(Nat) /\ Len(fifoPending) \in Nat /\ Len(fifoPending) <= FifoLine
      /\ fifoOverflow \in BOOLEAN /\ fifoFresh \in BOOLEAN
      /\ fifoServed \in Seq(FifoAnswer) /\ Len(fifoServed) \in Nat
  <2>1. fifoLengths[line] \in Nat
    <3>1. fifoLengths \in Seq(Nat) /\ line \in 1..Len(fifoLengths)
      BY <1>2
    <3>2. QED
      BY <3>1
  <2>2. FifoLine \in Nat /\ FifoLine > 0
    BY FifoAssumption
  <2>3. /\ fifoPending \in Seq(Nat) /\ fifoOverflow \in BOOLEAN /\ fifoFresh \in BOOLEAN
        /\ fifoServed \in Seq(FifoAnswer) /\ Len(fifoPending) <= FifoLine
    BY DEF FifoInv, FifoTypeOK, FifoHeld
  <2>4. Len(fifoPending) \in Nat /\ Len(fifoServed) \in Nat
    BY <2>3, LenProperties
  <2>5. QED
    BY <2>1, <2>2, <2>3, <2>4
<1>8. /\ UNCHANGED <<fifoUp, fifoOpen, fifoPipe, fifoLengths>> /\ fifoUp
      /\ fifoHand' = Tail(fifoHand)
  BY DEF FifoByte
<1>9. CASE bytes[1].end
  <2>1. PICK answer \in FifoAnswer :
          /\ answer.line = line /\ answer.refused = fifoOverflow
          /\ answer.text = fifoPending /\ answer.fresh = fifoFresh
          /\ fifoServed' = Append(fifoServed, answer)
          /\ fifoPending' = <<>> /\ fifoOverflow' = FALSE /\ fifoFresh' = FALSE
    <3>1. [line |-> line, refused |-> fifoOverflow, text |-> fifoPending, fresh |-> fifoFresh]
            \in FifoAnswer
      BY <1>7 DEF FifoAnswer
    <3>2. /\ fifoServed' = Append(fifoServed, [line |-> line, refused |-> fifoOverflow,
                                               text |-> fifoPending, fresh |-> fifoFresh])
          /\ fifoPending' = <<>> /\ fifoOverflow' = FALSE /\ fifoFresh' = FALSE
      BY <1>1, <1>2, <1>9 DEF FifoByte
    <3>3. QED
      BY <3>1, <3>2
  <2>3. /\ fifoServed' \in Seq(FifoAnswer) /\ Len(fifoServed') = Len(fifoServed) + 1
        /\ fifoServed'[Len(fifoServed) + 1] = answer
        /\ \A i \in 1..Len(fifoServed) : fifoServed'[i] = fifoServed[i]
    BY <1>7, <2>1
  <2>4. FifoTypeOK'
    BY <1>1, <1>8, <2>1, <2>3, EmptySeq DEF FifoInv, FifoTypeOK
  <2>5. FifoHeld'
    BY <1>7, <1>8, <2>1, EmptySeq DEF FifoHeld
  <2>6. ASSUME N > 1
        PROVE  /\ rest[1].line = line + 1
               /\ FifoRun(rest, 1, fifoLengths[line + 1] + 1)
               /\ fifoLengths[line + 1] + 1 \in 1..Len(rest)
    <3>1. /\ bytes[2].line = line + 1 /\ 1 + fifoLengths[bytes[2].line] + 1 <= N
          /\ FifoRun(bytes, 2, 1 + fifoLengths[bytes[2].line] + 1)
      <4>1. 1 \in 1..(Len(bytes) - 1) /\ 1 + 1 = 2
        BY <1>1, <2>6
      <4>2. \A i \in 1..(Len(bytes) - 1) : bytes[i].end =>
              /\ bytes[i + 1].line = bytes[i].line + 1
              /\ i + fifoLengths[bytes[i + 1].line] + 1 <= Len(bytes)
              /\ FifoRun(bytes, i + 1, i + fifoLengths[bytes[i + 1].line] + 1)
        BY <1>2 DEF FifoLinesOf
      <4>3. /\ bytes[1 + 1].line = bytes[1].line + 1
            /\ 1 + fifoLengths[bytes[1 + 1].line] + 1 <= Len(bytes)
            /\ FifoRun(bytes, 1 + 1, 1 + fifoLengths[bytes[1 + 1].line] + 1)
        BY <1>9, <4>1, <4>2, Zenon
      <4>4. QED
        BY <1>1, <1>2, <4>1, <4>3
    <3>2. bytes[2].line \in 1..n
      <4>1. \A i \in 1..Len(bytes) : bytes[i].line \in 1..Len(fifoLengths)
        BY <1>2 DEF FifoLinesOf
      <4>2. 2 \in 1..Len(bytes)
        BY <1>1, <2>6
      <4>3. QED
        BY <1>2, <4>1, <4>2
    <3>3. PICK length \in Nat : length = fifoLengths[line + 1]
      <4>1. line + 1 \in 1..Len(fifoLengths) /\ fifoLengths \in Seq(Nat)
        BY <1>2, <3>1, <3>2
      <4>2. fifoLengths[line + 1] \in Nat
        BY <4>1
      <4>3. QED
        BY <4>2
    <3>4. length + 1 \in 1..(N - 1) /\ 1 \in 1..(N - 1) /\ FifoRun(bytes, 2, length + 2)
      <4>1. 1 + length + 1 <= N /\ FifoRun(bytes, 2, 1 + length + 1)
        BY <3>1, <3>3
      <4>2. 1 + length + 1 = length + 2 /\ length + 1 \in 1..(N - 1) /\ 1 \in 1..(N - 1)
        BY <2>6, <4>1
      <4>3. QED
        BY <4>1, <4>2
    <3>5. rest[1] = bytes[2]
      BY <1>1, <3>4
    <3>6. ASSUME NEW k \in 1..(length + 1)
          PROVE  rest[k].line = rest[1].line /\ (rest[k].end <=> k = length + 1)
      <4>1. k \in 1..(N - 1) /\ 1 + k \in 2..(length + 2) /\ (1 + k = length + 2 <=> k = length + 1)
        BY <3>4
      <4>2. rest[k] = bytes[1 + k]
        BY <1>1, <4>1
      <4>3. QED
        BY <3>4, <3>5, <4>1, <4>2 DEF FifoRun
    <3>7. FifoRun(rest, 1, length + 1)
      BY <3>6 DEF FifoRun
    <3>8. QED
      BY <1>1, <3>1, <3>3, <3>4, <3>5, <3>7
  <2>7. N > 1 => FifoInHand(FifoUnread)'
    <3>1. fifoPending' = FifoText(rest[1].line, Len(fifoPending')) /\ Len(fifoPending') = 0
      BY <2>1, FifoTexts DEF FifoText
    <3>2. ASSUME N > 1 PROVE FifoInHand(FifoUnread)'
      <4>1. PICK length \in Nat : length = fifoLengths[line + 1]
        <5>1. rest[1].line \in 1..n
          <6>1. 1 \in 1..Len(rest)
            BY <1>1, <3>2
          <6>2. QED
            BY <1>2, <1>5, <6>1 DEF FifoLinesOf
        <5>2. line + 1 \in 1..Len(fifoLengths) /\ fifoLengths \in Seq(Nat)
          BY <1>2, <2>6, <3>2, <5>1
        <5>3. fifoLengths[line + 1] \in Nat
          BY <5>2
        <5>4. QED
          BY <5>3
      <4>2. /\ rest[1].line = line + 1 /\ FifoRun(rest, 1, length + 1)
            /\ length + 1 \in 1..Len(rest) /\ length + 1 - (length + 1) = 0
        BY <2>6, <3>2, <4>1
      <4>3. fifoLengths'[line + 1] = length /\ ~fifoOverflow'
        BY <1>8, <2>1, <4>1
      <4>4. QED
        BY <1>1, <3>1, <4>2, <4>3 DEF FifoInHand, FifoText
    <3>3. QED
      BY <3>2
  <2>8. \A i \in 1..(N - 1) : rest[i].line > line
    <3> TAKE i \in 1..(N - 1)
    <3>1. 1 \in 1..N /\ 1 + i \in 1..N /\ 1 < 1 + i /\ rest[i] = bytes[1 + i]
      BY <1>1
    <3>2. QED
      BY <1>1, <1>2, <1>9, <3>1 DEF FifoLinesOf
  <2>9. N = 1 => line = n
    BY <1>1, <1>2 DEF FifoLinesOf
  <2>10. fifoServed'[Len(fifoServed')].line = line /\ fifoServed' # <<>>
    <3>1. fifoServed'[Len(fifoServed) + 1] = answer /\ answer.line = line
      BY <2>1, <2>3
    <3>2. Len(fifoServed') = Len(fifoServed) + 1 /\ Len(fifoServed') > 0
      BY <1>7, <2>3
    <3>3. fifoServed' # <<>>
      BY <3>2, EmptySeq
    <3>4. QED
      BY <3>1, <3>2, <3>3
  <2>11. FifoBehind(FifoUnread)'
    <3>1. rest # <<>> <=> N > 1
      BY <1>1, EmptySeq
    <3>2. QED
      BY <1>1, <1>2, <1>8, <2>6, <2>8, <2>9, <2>10, <3>1 DEF FifoBehind
  <2>12. (\A i \in DOMAIN fifoServed : fifoServed[i].line \in 1..Len(fifoLengths))'
    <3>1. \A i \in 1..Len(fifoServed) : fifoServed[i].line \in 1..n
      BY <1>2, <1>7 DEF FifoInv
    <3>2. answer.line \in 1..n
      BY <1>2, <2>1
    <3>3. DOMAIN fifoServed' = 1..(Len(fifoServed) + 1)
      BY <2>3
    <3>4. QED
      <4>1. \A i \in 1..(Len(fifoServed) + 1) :
              i \in 1..Len(fifoServed) \/ i = Len(fifoServed) + 1
        BY <1>7
      <4>2. ASSUME NEW i \in 1..(Len(fifoServed) + 1) PROVE fifoServed'[i].line \in 1..n
        BY <2>3, <3>1, <3>2, <4>1
      <4>3. QED
        BY <1>2, <1>8, <3>3, <4>2
  <2>13. IF answer.fresh THEN FifoTail(answer) ELSE FifoWhole(answer)
    <3>1. fifoPending = FifoText(line, Len(fifoPending))
      BY <1>3
    <3>2. ASSUME ~fifoFresh PROVE FifoWhole(answer)
      <4>1. fifoLengths[line] + 1 - e = fifoLengths[line]
        BY <1>4, <1>7, <1>9
      <4>2. IF fifoOverflow THEN fifoLengths[line] > FifoLine
            ELSE fifoLengths[line] = Len(fifoPending)
        BY <1>3, <3>2, <4>1
      <4>3. CASE fifoOverflow
        BY <1>7, <2>1, <4>2, <4>3 DEF FifoWhole
      <4>4. CASE ~fifoOverflow
        <5>1. ~(fifoLengths[line] > FifoLine) /\ fifoPending = FifoText(line, fifoLengths[line])
          BY <1>7, <3>1, <4>2, <4>4
        <5>2. QED
          BY <2>1, <4>4, <5>1 DEF FifoWhole
      <4>5. QED
        BY <4>3, <4>4
    <3>3. FifoTail(answer)
      BY <2>1, <3>1 DEF FifoTail
    <3>4. QED
      BY <2>1, <3>2, <3>3
  <2>14. FifoExact'
    <3>1. PICK K \in Nat : K = Len(fifoServed) /\ DOMAIN fifoServed = 1..K
      BY <1>7
    <3>2. Len(fifoServed') = K + 1 /\ DOMAIN fifoServed' = 1..(K + 1)
      BY <2>3, <3>1
    <3>3. ASSUME NEW i \in 1..(K + 1), NEW s, s = fifoServed'[i]
          PROVE  /\ IF s.fresh THEN FifoTail(s) ELSE FifoWhole(s)
                 /\ i > 1 => IF s.fresh THEN s.line > fifoServed'[i - 1].line
                                        ELSE s.line = fifoServed'[i - 1].line + 1
      <4>1. CASE i \in 1..K
        <5>1. s = fifoServed[i] /\ i \in DOMAIN fifoServed
          BY <2>3, <3>1, <3>3, <4>1
        <5>2. i > 1 => fifoServed'[i - 1] = fifoServed[i - 1]
          BY <2>3, <3>1, <4>1
        <5>3. IF s.fresh THEN FifoTail(s) ELSE FifoWhole(s)
          BY <5>1 DEF FifoInv, FifoExact
        <5>4. i > 1 => IF s.fresh THEN s.line > fifoServed[i - 1].line
                                  ELSE s.line = fifoServed[i - 1].line + 1
          BY <5>1 DEF FifoInv, FifoExact
        <5>5. QED
          BY <5>2, <5>3, <5>4
      <4>2. CASE i = K + 1
        <5>1. s = answer
          BY <2>3, <3>1, <3>3, <4>2
        <5>2. i > 1 => /\ fifoServed'[i - 1] = fifoServed[K] /\ fifoServed # <<>>
          BY <1>7, <2>3, <3>1, <4>2, EmptySeq
        <5>3. i > 1 => line > fifoServed[K].line
          <6>1. 1 \in 1..N
            BY <1>1
          <6>2. QED
            BY <1>2, <1>6, <3>1, <5>2, <6>1
        <5>4. i > 1 /\ ~fifoFresh => line = fifoServed[K].line + 1
          BY <1>2, <1>6, <3>1, <5>2
        <5>5. QED
          BY <2>1, <2>13, <5>1, <5>2, <5>3, <5>4
      <4>3. QED
        BY <3>1, <4>1, <4>2
    <3>4. ASSUME NEW s, FifoWhole(s) PROVE FifoWhole(s)'
      BY <1>8, <3>4 DEF FifoWhole, FifoText
    <3>5. ASSUME NEW s, FifoTail(s) PROVE FifoTail(s)'
      BY <3>5 DEF FifoTail, FifoText
    <3>6. QED
      <4>1. SUFFICES ASSUME NEW i \in DOMAIN fifoServed', NEW s, s = fifoServed'[i]
                     PROVE  /\ IF s.fresh THEN FifoTail(s)' ELSE FifoWhole(s)'
                            /\ i > 1 => IF s.fresh THEN s.line > fifoServed'[i - 1].line
                                                   ELSE s.line = fifoServed'[i - 1].line + 1
        BY DEF FifoExact
      <4>2. i \in 1..(K + 1)
        BY <3>2, <4>1
      <4>3. QED
        BY <3>3, <3>4, <3>5, <4>1, <4>2
  <2>15. QED
    BY <1>1, <1>5, <1>8, <2>4, <2>5, <2>7, <2>11, <2>12, <2>14, EmptySeq DEF FifoInv
<1>10. CASE ~bytes[1].end
  <2>1. e \in 2..N /\ N > 1
    BY <1>1, <1>4, <1>10
  <2>2. UNCHANGED <<fifoServed, fifoFresh>>
    BY <1>1, <1>10 DEF FifoByte
  <2>3. /\ fifoPending' = FifoText(line, Len(fifoPending'))
        /\ ~fifoFresh => IF fifoOverflow' THEN fifoLengths[line] + 1 - (e - 1) > FifoLine
                         ELSE fifoLengths[line] + 1 - (e - 1) = Len(fifoPending')
        /\ FifoHeld' /\ FifoTypeOK'
    <3>1. CASE FifoFits
      <4>1. fifoPending' = Append(fifoPending, line) /\ fifoOverflow' = fifoOverflow
        BY <1>1, <1>2, <1>10, <3>1 DEF FifoByte
      <4>2. ~fifoOverflow /\ Len(fifoPending) < FifoLine
        BY <3>1 DEF FifoFits
      <4>3. PICK t \in Nat : t = Len(fifoPending)
        BY <1>7
      <4>4. /\ fifoPending' \in Seq(Nat) /\ Len(fifoPending') = t + 1
            /\ fifoPending' = FifoText(line, t + 1)
        <5>1. fifoPending = FifoText(line, t) /\ line \in Nat
          BY <1>3, <4>3
        <5>2. fifoPending' = FifoText(line, t + 1)
          BY <4>1, <5>1, FifoTexts
        <5>3. FifoText(line, t + 1) \in Seq(Nat) /\ Len(FifoText(line, t + 1)) = t + 1
          <6>1. t + 1 \in Nat /\ line \in Nat
            OBVIOUS
          <6>2. QED
            BY <6>1, FifoTexts
        <5>4. QED
          BY <5>2, <5>3
      <4>5. ASSUME ~fifoFresh PROVE fifoLengths[line] + 1 - (e - 1) = t + 1
        <5>1. fifoLengths[line] + 1 - e = t
          BY <1>3, <4>2, <4>3, <4>5
        <5>2. PICK l \in Nat : l = fifoLengths[line]
          BY <1>7
        <5>3. l + 1 - e = t => l + 1 - (e - 1) = t + 1
          OBVIOUS
        <5>4. QED
          BY <5>1, <5>2, <5>3
      <4>6. FifoHeld' /\ FifoTypeOK'
        <5>1. t + 1 <= FifoLine /\ rest # <<>>
          BY <1>1, <1>7, <2>1, <4>2, <4>3, EmptySeq
        <5>2. FifoHeld'
          BY <1>1, <1>8, <4>1, <4>2, <4>4, <5>1 DEF FifoHeld
        <5>3. FifoTypeOK'
          BY <1>1, <1>8, <2>2, <4>1, <4>4 DEF FifoInv, FifoTypeOK
        <5>4. QED
          BY <5>2, <5>3
      <4>7. QED
        BY <4>1, <4>2, <4>4, <4>5, <4>6
    <3>2. CASE ~FifoFits
      <4>1. fifoPending' = <<>> /\ fifoOverflow' = TRUE
        BY <1>1, <1>10, <3>2 DEF FifoByte, FifoOverrun
      <4>2. fifoPending' = FifoText(line, Len(fifoPending')) /\ Len(fifoPending') = 0
        BY <4>1, FifoTexts, EmptySeq
      <4>3. PICK l \in Nat, t \in Nat : l = fifoLengths[line] /\ t = Len(fifoPending)
        BY <1>7
      <4>4. ASSUME ~fifoFresh PROVE l + 1 - (e - 1) > FifoLine
        <5>1. CASE fifoOverflow
          <6>1. l + 1 - e > FifoLine
            BY <1>3, <4>3, <4>4, <5>1
          <6>2. QED
            BY <1>7, <6>1
        <5>2. CASE ~fifoOverflow
          <6>1. l + 1 - e = t /\ t >= FifoLine
            BY <1>3, <1>7, <3>2, <4>3, <4>4, <5>2 DEF FifoFits
          <6>2. QED
            BY <1>7, <6>1
        <5>3. QED
          BY <5>1, <5>2
      <4>5. rest # <<>>
        BY <1>1, <2>1, EmptySeq
      <4>6. FifoHeld'
        BY <1>1, <1>7, <1>8, <4>1, <4>2, <4>5 DEF FifoHeld
      <4>7. FifoTypeOK'
        BY <1>1, <1>8, <2>2, <4>1, EmptySeq DEF FifoInv, FifoTypeOK
      <4>8. QED
        BY <4>1, <4>2, <4>3, <4>4, <4>6, <4>7
    <3>3. QED
      BY <3>1, <3>2
  <2>4. rest[1].line = line /\ FifoRun(rest, 1, e - 1) /\ e - 1 \in 1..Len(rest)
    <3>1. /\ 1 \in 1..(e - 1) /\ e - 1 \in 1..(N - 1) /\ 1 \in 1..(N - 1)
          /\ 2 \in 1..e /\ rest[1] = bytes[2]
      BY <1>1, <2>1
    <3>2. bytes[2].line = line
      BY <1>2, <1>3, <3>1 DEF FifoRun
    <3>3. ASSUME NEW k \in 1..(e - 1)
          PROVE  rest[k].line = rest[1].line /\ (rest[k].end <=> k = e - 1)
      <4>1. 1 + k \in 1..e /\ k \in 1..(N - 1) /\ (1 + k = e <=> k = e - 1)
        BY <1>1, <2>1
      <4>2. rest[k] = bytes[1 + k]
        BY <1>1, <4>1
      <4>3. bytes[1 + k].line = line /\ (bytes[1 + k].end <=> 1 + k = e)
        BY <1>2, <1>3, <4>1 DEF FifoRun
      <4>4. QED
        BY <3>1, <3>2, <4>1, <4>2, <4>3
    <3>4. FifoRun(rest, 1, e - 1)
      BY <3>3 DEF FifoRun
    <3>5. QED
      BY <1>1, <3>1, <3>2, <3>4
  <2>5. FifoInHand(FifoUnread)'
    <3>1. PICK d \in 1..Len(rest) : d = e - 1
      BY <2>4
    <3>2. fifoLengths' = fifoLengths /\ fifoFresh' = fifoFresh
      BY <1>8, <2>2
    <3>3. QED
      BY <1>1, <2>3, <2>4, <3>1, <3>2 DEF FifoInHand, FifoText
  <2>6. FifoBehind(FifoUnread)'
    <3>1. \A i \in 1..(N - 1) : 1 + i \in 1..N /\ rest[i] = bytes[1 + i]
      BY <1>1
    <3>2. fifoServed # <<>> => \A i \in 1..(N - 1) : rest[i].line > last
      BY <1>6, <3>1
    <3>3. rest # <<>>
      BY <1>1, <2>1, EmptySeq
    <3>4. QED
      BY <1>1, <1>2, <1>6, <1>8, <2>2, <2>4, <3>2, <3>3 DEF FifoBehind
  <2>7. (\A i \in DOMAIN fifoServed : fifoServed[i].line \in 1..Len(fifoLengths))' /\ FifoExact'
    BY <1>8, <2>2 DEF FifoInv, FifoExact, FifoTail, FifoWhole, FifoText
  <2>8. QED
    BY <1>1, <1>5, <1>8, <2>3, <2>5, <2>6, <2>7 DEF FifoInv
<1>11. QED
  BY <1>9, <1>10

(* Losing the hand, or all of it, takes bytes away in front.                *)
LEMMA FifoGone ==
  ASSUME NEW hand \in Seq(FifoByteSet), NEW pipe \in Seq(FifoByteSet),
         NEW left \in Seq(FifoByteSet), left = pipe \/ left = <<>>
  PROVE  \E m \in 0..Len(hand \o pipe) :
           /\ Len(left) = Len(hand \o pipe) - m
           /\ \A i \in 1..Len(left) : left[i] = (hand \o pipe)[m + i]
<1>1. PICK h \in Nat, p \in Nat : h = Len(hand) /\ p = Len(pipe)
  BY LenProperties
<1>2. PICK all \in Seq(FifoByteSet) :
        /\ all = hand \o pipe /\ Len(all) = h + p
        /\ \A i \in 1..(h + p) : all[i] = IF i <= h THEN hand[i] ELSE pipe[i - h]
  <2>1. /\ hand \o pipe \in Seq(FifoByteSet) /\ Len(hand \o pipe) = Len(hand) + Len(pipe)
        /\ \A i \in 1..(Len(hand) + Len(pipe)) :
             (hand \o pipe)[i] = IF i <= Len(hand) THEN hand[i] ELSE pipe[i - Len(hand)]
    BY ConcatProperties
  <2>2. QED
    BY <1>1, <2>1
<1>3. CASE left = pipe
  <2>1. h \in 0..(h + p) /\ p = (h + p) - h
    BY <1>1
  <2>2. ASSUME NEW i \in 1..p PROVE left[i] = all[h + i]
    <3>1. h + i \in 1..(h + p) /\ ~(h + i <= h) /\ (h + i) - h = i
      BY <1>1
    <3>2. QED
      BY <1>2, <1>3, <3>1
  <2>3. QED
    BY <1>1, <1>2, <1>3, <2>1, <2>2
<1>4. CASE left = <<>>
  <2>1. Len(left) = 0 /\ h + p \in 0..(h + p) /\ 0 = (h + p) - (h + p)
    BY <1>1, <1>4, EmptySeq
  <2>2. QED
    BY <1>2, <2>1
<1>5. QED
  BY <1>3, <1>4

(* A step of any kind.                                                      *)
LEMMA FifoReadInv == FifoInv /\ FifoRead => FifoInv'
<1> SUFFICES ASSUME FifoInv, FifoRead PROVE FifoInv'
  OBVIOUS
<1>1. /\ fifoPipe \in Seq(FifoByteSet) /\ fifoHand = <<>> /\ fifoPipe # <<>> /\ fifoUp
      /\ FifoChunk \in Nat /\ FifoChunk > 0
  BY FifoTyped, FifoAssumption DEF FifoInv, FifoRead
<1>2. PICK p \in Nat : p = Len(fifoPipe) /\ p > 0
  BY <1>1, EmptySeq
<1>3. PICK amount \in 0..p :
        /\ fifoHand' = SubSeq(fifoPipe, 1, amount)
        /\ fifoPipe' = SubSeq(fifoPipe, amount + 1, p)
  <2>1. Min({FifoChunk, p}) \in 0..p
    <3>1. CASE FifoChunk <= p
      <4>1. Min({FifoChunk, p}) = FifoChunk
        BY <1>1, <1>2, <3>1 DEF Min
      <4>2. QED
        BY <1>1, <1>2, <3>1, <4>1
    <3>2. CASE ~(FifoChunk <= p)
      <4>1. Min({FifoChunk, p}) = p
        BY <1>1, <1>2, <3>2 DEF Min
      <4>2. QED
        BY <1>2, <4>1
    <3>3. QED
      BY <3>1, <3>2
  <2>2. QED
    BY <1>2, <2>1 DEF FifoRead
<1>4. SubSeq(fifoPipe, 1, amount) \o SubSeq(fifoPipe, amount + 1, p) = fifoPipe
  <2>1. 1 \in 1..(p + 1) /\ amount \in (1 - 1)..p /\ p \in amount..p
    BY <1>2, <1>3
  <2>2. SubSeq(fifoPipe, 1, amount) \o SubSeq(fifoPipe, amount + 1, p) = SubSeq(fifoPipe, 1, p)
    BY <1>1, <1>2, <2>1, ConcatAdjacentSubSeq
  <2>3. SubSeq(fifoPipe, 1, p) = fifoPipe
    BY <1>1, <1>2
  <2>4. QED
    BY <2>2, <2>3
<1>5. FifoUnread' = FifoUnread
  <2>1. FifoUnread = fifoPipe
    BY <1>1, ConcatEmptySeq DEF FifoUnread
  <2>2. QED
    BY <1>3, <1>4, <2>1 DEF FifoUnread
<1>6. fifoHand' \in Seq(FifoByteSet) /\ fifoPipe' \in Seq(FifoByteSet)
  <2>1. \A i \in 1..p : fifoPipe[i] \in FifoByteSet
    BY <1>1, <1>2
  <2>2. SubSeq(fifoPipe, 1, amount) \in Seq(FifoByteSet)
    BY <1>2, <1>3, <2>1, SubSeqProperties
  <2>3. SubSeq(fifoPipe, amount + 1, p) \in Seq(FifoByteSet)
    BY <1>2, <1>3, <2>1, SubSeqProperties
  <2>4. QED
    BY <1>3, <2>2, <2>3
<1>7. UNCHANGED <<fifoUp, fifoOpen, fifoPending, fifoOverflow, fifoFresh, fifoLengths, fifoServed>>
  BY DEF FifoRead
<1>8. FifoTypeOK'
  BY <1>6, <1>7 DEF FifoInv, FifoTypeOK
<1>9. FifoHeld'
  BY <1>1, <1>5, <1>7 DEF FifoInv, FifoHeld
<1>10. QED
  BY <1>5, <1>7, <1>8, <1>9, FifoSame

(* Who has it open, and whether the service runs, is nothing to the bytes.  *)
LEMMA FifoOpenInv ==
  ASSUME FifoInv, fifoUp' \in BOOLEAN, fifoUp => fifoUp', fifoOpen' \subseteq FifoWriters,
         UNCHANGED <<fifoPipe, fifoLengths, fifoReader>>
  PROVE  FifoInv'
<1>1. FifoUnread' = FifoUnread
  BY DEF FifoUnread, fifoReader
<1>2. FifoTypeOK'
  BY DEF FifoInv, FifoTypeOK, fifoReader
<1>3. FifoHeld'
  BY <1>1 DEF FifoInv, FifoHeld, fifoReader
<1>4. QED
  BY <1>1, <1>2, <1>3, FifoSame DEF fifoReader

(* The last to close takes what nobody has read.                            *)
LEMMA FifoLeftInv ==
  ASSUME FifoInv, fifoUp' \in BOOLEAN, fifoOpen' \subseteq FifoWriters, ~fifoUp',
         fifoPipe' = fifoPipe \/ fifoPipe' = <<>>,
         fifoHand' = <<>>, fifoPending' = <<>>, fifoOverflow' = FALSE, fifoFresh' = TRUE,
         UNCHANGED <<fifoLengths, fifoServed>>
  PROVE  FifoInv'
<1>1. fifoHand \in Seq(FifoByteSet) /\ fifoPipe \in Seq(FifoByteSet)
  BY FifoTyped DEF FifoInv
<1>2. FifoUnread = fifoHand \o fifoPipe /\ FifoUnread' = <<>> \o fifoPipe'
  BY DEF FifoUnread
<1>3. PICK m \in 0..Len(FifoUnread) :
        /\ Len(FifoUnread') = Len(FifoUnread) - m
        /\ \A i \in 1..Len(FifoUnread') : FifoUnread'[i] = FifoUnread[m + i]
  <2>1. PICK hand \in Seq(FifoByteSet), pipe \in Seq(FifoByteSet), left \in Seq(FifoByteSet) :
          hand = fifoHand /\ pipe = fifoPipe /\ left = fifoPipe' /\ (left = pipe \/ left = <<>>)
    BY <1>1, EmptySeq
  <2>2. \E m \in 0..Len(hand \o pipe) :
          /\ Len(left) = Len(hand \o pipe) - m
          /\ \A i \in 1..Len(left) : left[i] = (hand \o pipe)[m + i]
    <3>1. left = pipe \/ left = <<>>
      BY <2>1
    <3>2. QED
      BY <3>1, FifoGone, Zenon
  <2>3. <<>> \o left = left
    BY ConcatEmptySeq
  <2>4. QED
    BY <1>2, <2>1, <2>2, <2>3
<1>4. FifoTypeOK'
  <2>1. fifoPipe' \in Seq(FifoByteSet)
    BY <1>1, EmptySeq
  <2>2. <<>> \in Seq(FifoByteSet) /\ <<>> \in Seq(Nat)
    BY EmptySeq
  <2>3. QED
    BY <2>1, <2>2 DEF FifoInv, FifoTypeOK
<1>5. FifoHeld'
  BY FifoAssumption, EmptySeq DEF FifoHeld
<1>6. QED
  BY <1>3, <1>4, <1>5, FifoLostInv

LEMMA FifoWritesInv == FifoInv /\ FifoWrite => FifoInv'
<1> SUFFICES ASSUME FifoInv, NEW w \in fifoOpen,
                    \/ \E length \in 0..FifoLongest :
                         /\ fifoUp /\ Len(fifoLengths) < FifoLines
                         /\ Len(fifoPipe) + length < FifoRoom
                         /\ fifoLengths' = Append(fifoLengths, length)
                         /\ fifoPipe' = fifoPipe \o FifoBytes(Len(fifoLengths'), length)
                         /\ fifoOpen' = fifoOpen \ ({w} \ FifoKeepers)
                         /\ UNCHANGED <<fifoUp, fifoReader>>
                    \/ /\ ~fifoUp \/ Len(fifoPipe) + FifoLongest >= FifoRoom
                       /\ fifoOpen' = fifoOpen \ {w}
                       /\ fifoPipe' = FifoLeft(fifoUp, fifoOpen', fifoPipe)
                       /\ UNCHANGED <<fifoUp, fifoLengths, fifoReader>>
             PROVE  FifoInv'
  BY DEF FifoWrite
<1>1. FifoLongest \in Nat /\ fifoOpen \subseteq FifoWriters /\ fifoUp \in BOOLEAN
  BY FifoAssumption DEF FifoInv, FifoTypeOK
<1>2. ASSUME NEW length \in 0..FifoLongest,
             fifoLengths' = Append(fifoLengths, length),
             fifoPipe' = fifoPipe \o FifoBytes(Len(fifoLengths'), length),
             fifoOpen' = fifoOpen \ ({w} \ FifoKeepers), UNCHANGED <<fifoUp, fifoReader>>
      PROVE  FifoInv'
  <2>1. length \in Nat /\ fifoOpen' \subseteq fifoOpen
    BY <1>1, <1>2
  <2>2. QED
    BY <1>2, <2>1, FifoWriteInv
<1>3. ASSUME fifoOpen' = fifoOpen \ {w}, fifoPipe' = FifoLeft(fifoUp, fifoOpen', fifoPipe),
             UNCHANGED <<fifoUp, fifoLengths, fifoReader>>
      PROVE  FifoInv'
  <2>1. CASE fifoPipe' = fifoPipe
    BY <1>1, <1>3, <2>1, FifoOpenInv
  <2>2. CASE fifoPipe' # fifoPipe
    <3>1. ~fifoUp /\ fifoPipe' = <<>>
      BY <1>3, <2>2 DEF FifoLeft
    <3>2. fifoHand = <<>> /\ fifoPending = <<>> /\ ~fifoOverflow /\ fifoFresh
      BY <3>1 DEF FifoInv, FifoHeld
    <3>3. fifoOverflow = FALSE /\ fifoFresh = TRUE
      BY <3>2 DEF FifoInv, FifoTypeOK
    <3>4. QED
      BY <1>1, <1>3, <3>1, <3>2, <3>3, FifoLeftInv DEF fifoReader
  <2>3. QED
    BY <2>1, <2>2
<1>4. QED
  BY <1>2, <1>3

LEMMA FifoNextInv == FifoInv /\ [FifoNext]_fifoVars => FifoInv'
<1> SUFFICES ASSUME FifoInv, [FifoNext]_fifoVars PROVE FifoInv'
  OBVIOUS
<1>1. fifoOpen \subseteq FifoWriters /\ fifoUp \in BOOLEAN
  BY DEF FifoInv, FifoTypeOK
<1>2. CASE FifoConnect
  <2>1. /\ fifoOpen' \subseteq FifoWriters /\ fifoUp' = fifoUp
        /\ UNCHANGED <<fifoPipe, fifoLengths, fifoReader>>
    BY <1>1, <1>2 DEF FifoConnect
  <2>2. QED
    BY <1>1, <2>1, FifoOpenInv
<1>3. CASE FifoWrite
  BY <1>3, FifoWritesInv
<1>4. CASE FifoRead
  BY <1>4, FifoReadInv
<1>5. CASE FifoByte
  BY <1>5, FifoByteInv
<1>6. CASE FifoStop
  <2>1. fifoPipe' = fifoPipe \/ fifoPipe' = <<>>
    BY <1>6 DEF FifoStop, FifoLeft
  <2>2. /\ fifoUp' = FALSE /\ fifoHand' = <<>> /\ fifoPending' = <<>>
        /\ fifoOverflow' = FALSE /\ fifoFresh' = TRUE
        /\ UNCHANGED <<fifoOpen, fifoLengths, fifoServed>>
    BY <1>6 DEF FifoStop
  <2>3. fifoUp' \in BOOLEAN /\ fifoOpen' \subseteq FifoWriters /\ ~fifoUp'
    BY <1>1, <2>2
  <2>4. QED
    BY <2>1, <2>2, <2>3, FifoLeftInv
<1>7. CASE FifoStart
  <2>1. fifoUp' = TRUE /\ UNCHANGED <<fifoOpen, fifoPipe, fifoLengths, fifoReader>>
    BY <1>7 DEF FifoStart
  <2>2. QED
    BY <1>1, <2>1, FifoOpenInv
<1>8. CASE UNCHANGED fifoVars
  <2>1. UNCHANGED <<fifoUp, fifoOpen, fifoPipe, fifoLengths, fifoReader>>
    BY <1>8 DEF fifoVars, fifoReader
  <2>2. QED
    BY <1>1, <2>1, FifoOpenInv
<1>9. QED
  BY <1>2, <1>3, <1>4, <1>5, <1>6, <1>7, <1>8 DEF FifoNext

-----------------------------------------------------------------------------
(* What the FIFO holds is always the last of the lines written, in their    *)
(* order and whole but for the first, and what is pending the beginning of  *)
(* that one: CommandFifo's reading in pieces and its writers never put a    *)
(* byte of one command into another.                                        *)
THEOREM FifoInvariant == FifoSpec => []FifoInv
<1>1. FifoInit => FifoInv
  BY FifoInitInv
<1>2. FifoInv /\ [FifoNext]_fifoVars => FifoInv'
  BY FifoNextInv
<1>3. QED
  BY <1>1, <1>2, PTL DEF FifoSpec

(* Every command is answered in turn and once, carried out as it was        *)
(* written or refused for its length; only the first after a restart may    *)
(* lack its beginning. The loop of PadService::run over its FIFO.           *)
THEOREM CommandsAreExact == FifoSpec => []FifoExact
<1>1. FifoInv => FifoExact
  BY DEF FifoInv
<1>2. QED
  BY <1>1, FifoInvariant, PTL

(* The buffer of a command never holds more than it may, nor anything of a  *)
(* command that is being discarded, and a service that starts begins empty. *)
THEOREM BufferIsBounded == FifoSpec => []FifoHeld
<1>1. FifoInv => FifoHeld
  BY DEF FifoInv
<1>2. QED
  BY <1>1, FifoInvariant, PTL

-----------------------------------------------------------------------------
(* The MIDI parser.                                                         *)

(* s is the status that i belongs to; and m is the message of s that ends   *)
(* with i.                                                                  *)
Owner(s, i) == s \in Statuses /\ s < i /\ \A t \in Statuses : t < i => t <= s
Says(m, s, i) ==
    \/ streamIn[i] = "data" /\ Ends(s, i) /\ m = LastOf(s, i)
    \/ /\ streamIn[i] = "end" /\ streamIn[s] = "begin"
       /\ Cardinality(RunOf(s, i)) < StreamMax
       /\ m = InOrderOf({s} \cup RunOf(s, i))

(* The last status, and its bytes.                                          *)
LastStatus(c) == c \in Statuses /\ \A t \in Statuses : t <= c
StreamTail(c) == {i \in Plain : c < i}

(* Every byte behind a status has an owner, and every status but the last   *)
(* one has a next.                                                          *)
StreamOwners ==
    /\ streamIn \in Seq(Byte)
    /\ Statuses # {} => \E c \in Statuses : LastStatus(c)
    /\ \A i \in 1..Len(streamIn) : Owned(i) => \E s \in Statuses : Owner(s, i)
    /\ \A s \in Statuses : (\E u \in Statuses : s < u) => NextStatus(s) # {}

(* What Meant says, position by position.                                   *)
StreamSaid ==
    \A m : m \in Meant <=>
      \E i \in 1..Len(streamIn) :
        \/ streamIn[i] \in {"clock", "tune"} /\ m = <<i>>
        \/ \E s \in Statuses : Owner(s, i) /\ Says(m, s, i)

LEMMA OwnerIs ==
  ASSUME NEW s, NEW i \in Nat, Owner(s, i), Statuses \subseteq Nat
  PROVE  Owned(i) /\ OwnerOf(i) = s
<1> DEFINE P(x) == x < i /\ \A t \in Statuses : t < i => t <= x
<1>1. s \in Statuses /\ P(s)
  BY DEF Owner
<1>2. OwnerOf(i) \in Statuses /\ P(OwnerOf(i))
  BY <1>1 DEF OwnerOf
<1>3. OwnerOf(i) <= s /\ s <= OwnerOf(i)
  BY <1>1, <1>2
<1>4. s \in Nat /\ OwnerOf(i) \in Nat
  BY <1>1, <1>2
<1>5. QED
  BY <1>1, <1>3, <1>4 DEF Owned

LEMMA StatusesAreNaturals ==
  ASSUME streamIn \in Seq(Byte) PROVE Statuses \subseteq Nat /\ Statuses \subseteq 1..Len(streamIn)
BY LenProperties DEF Statuses, Positions

LEMMA MeantSaid == StreamOwners => StreamSaid
<1> SUFFICES ASSUME StreamOwners, NEW m
    PROVE  m \in Meant <=>
             \E i \in 1..Len(streamIn) :
               \/ streamIn[i] \in {"clock", "tune"} /\ m = <<i>>
               \/ \E s \in Statuses : Owner(s, i) /\ Says(m, s, i)
  BY DEF StreamSaid
<1>1. Statuses \subseteq Nat /\ Len(streamIn) \in Nat
  BY StatusesAreNaturals, LenProperties DEF StreamOwners
<1>2. ASSUME NEW i \in 1..Len(streamIn)
      PROVE  /\ Owned(i) => Owner(OwnerOf(i), i)
             /\ \A s \in Statuses : Owner(s, i) => Owned(i) /\ OwnerOf(i) = s
  BY <1>1, OwnerIs DEF StreamOwners
<1>3. m \in Meant <=>
        \E i \in 1..Len(streamIn) :
          \/ streamIn[i] \in {"clock", "tune"} /\ m = <<i>>
          \/ Owned(i) /\ Says(m, OwnerOf(i), i)
  BY DEF Meant, Positions, Says
<1>4. ASSUME NEW i \in 1..Len(streamIn)
      PROVE  (Owned(i) /\ Says(m, OwnerOf(i), i))
               <=> \E s \in Statuses : Owner(s, i) /\ Says(m, s, i)
  <2>1. ASSUME Owned(i), Says(m, OwnerOf(i), i)
        PROVE  \E s \in Statuses : Owner(s, i) /\ Says(m, s, i)
    BY <1>2, <2>1 DEF Owner
  <2>2. ASSUME NEW s \in Statuses, Owner(s, i), Says(m, s, i)
        PROVE  Owned(i) /\ Says(m, OwnerOf(i), i)
    BY <1>2, <2>2
  <2>3. QED
    BY <2>1, <2>2
<1>5. QED
  BY <1>3, <1>4

LEMMA MeantSaidNext == StreamOwners' => StreamSaid'
BY MeantSaid, PTL

-----------------------------------------------------------------------------
(* A byte is read: what is said of the bytes before stays as it is.         *)
Reads(byte, N) ==
    /\ streamIn \in Seq(Byte) /\ byte \in Byte
    /\ N = Len(streamIn) /\ streamIn' = Append(streamIn, byte)

LEMMA InputGrows ==
  ASSUME NEW byte, NEW N, Reads(byte, N)
  PROVE  /\ N \in Nat /\ Len(streamIn') = N + 1 /\ streamIn' \in Seq(Byte)
         /\ streamIn'[N + 1] = byte
         /\ \A i \in 1..N : streamIn'[i] = streamIn[i]
BY AppendProperties, LenProperties DEF Reads

LEMMA PositionsGrow ==
  ASSUME NEW byte, NEW N, Reads(byte, N), NEW B
  PROVE  /\ Positions(B) \subseteq 1..N
         /\ Positions(B)' = IF byte \in B THEN Positions(B) \cup {N + 1} ELSE Positions(B)
<1>1. 1..(N + 1) = 1..N \cup {N + 1} /\ N + 1 \notin 1..N
  BY InputGrows
<1>2. QED
  BY <1>1, InputGrows DEF Positions, Reads

LEMMA SetsGrow ==
  ASSUME NEW byte, NEW N, Reads(byte, N)
  PROVE  /\ Plain \subseteq 1..N /\ Statuses \subseteq Plain
         /\ Plain' = IF byte \in RealTime THEN Plain ELSE Plain \cup {N + 1}
         /\ Statuses' = IF byte \in RealTime \cup {"data"} THEN Statuses
                        ELSE Statuses \cup {N + 1}
<1>1. byte \in Byte
  BY DEF Reads
<1>2. /\ Plain \subseteq 1..N
      /\ Plain' = IF byte \in Byte \ RealTime THEN Plain \cup {N + 1} ELSE Plain
  BY PositionsGrow DEF Plain
<1>3. Statuses' = IF byte \in Byte \ (RealTime \cup {"data"})
                 THEN Statuses \cup {N + 1} ELSE Statuses
  BY PositionsGrow DEF Statuses
<1>4. Statuses \subseteq Plain
  BY DEF Statuses, Plain, Positions
<1>5. QED
  BY <1>1, <1>2, <1>3, <1>4

LEMMA OldRuns ==
  ASSUME NEW byte, NEW N, Reads(byte, N), NEW i \in 1..N
  PROVE  /\ \A s : RunOf(s, i)' = RunOf(s, i)
         /\ \A s : Owner(s, i)' <=> Owner(s, i)
         /\ Owned(i)' <=> Owned(i)
<1>1. N \in Nat /\ Plain \subseteq 1..N /\ Statuses \subseteq 1..N
  BY InputGrows, SetsGrow
<1>2. Plain' = Plain \/ Plain' = Plain \cup {N + 1}
  BY SetsGrow
<1>3. Statuses' = Statuses \/ Statuses' = Statuses \cup {N + 1}
  BY SetsGrow
<1>4. Statuses \subseteq Statuses' /\ \A t \in Statuses' : t < i => t \in Statuses
  BY <1>1, <1>3
<1>5. \A s : RunOf(s, i)' = RunOf(s, i)
  BY <1>1, <1>2 DEF RunOf
<1>6. \A s : Owner(s, i)' <=> Owner(s, i)
  BY <1>4, Zenon DEF Owner
<1>7. Owned(i)' <=> Owned(i)
  BY <1>4, Zenon DEF Owned
<1>8. QED
  BY <1>5, <1>6, <1>7

LEMMA OldSays ==
  ASSUME NEW byte, NEW N, Reads(byte, N), NEW i \in 1..N, NEW s \in 1..N, NEW m
  PROVE  Says(m, s, i)' <=> Says(m, s, i)
<1>1. streamIn'[i] = streamIn[i] /\ streamIn'[s] = streamIn[s]
  BY InputGrows
<1>2. RunOf(s, i)' = RunOf(s, i)
  BY OldRuns
<1>3. DataOf(s)' = DataOf(s)
  BY <1>1 DEF DataOf
<1>4. Ends(s, i)' <=> Ends(s, i)
  BY <1>1, <1>2, <1>3 DEF Ends
<1>5. LastOf(s, i)' = LastOf(s, i)
  BY <1>2, <1>3 DEF LastOf
<1>6. QED
  BY <1>1, <1>2, <1>4, <1>5 DEF Says

LEMMA NewOwner ==
  ASSUME NEW byte, NEW N, Reads(byte, N), NEW s
  PROVE  Owner(s, N + 1)' <=> LastStatus(s)
<1>1. N \in Nat /\ Statuses \subseteq 1..N
  BY InputGrows, SetsGrow
<1>2. Statuses' = Statuses \/ Statuses' = Statuses \cup {N + 1}
  BY SetsGrow
<1>3. /\ Statuses \subseteq Statuses' /\ \A t \in Statuses' : t < N + 1 => t \in Statuses
      /\ \A t \in Statuses : t < N + 1
  BY <1>1, <1>2
<1>4. QED
  BY <1>3, Zenon DEF Owner, LastStatus

(* Of the messages that are meant only the one that ends with the new byte  *)
(* is new.                                                                  *)
LEMMA MeantGrows ==
  ASSUME NEW byte, NEW N, Reads(byte, N), StreamOwners, StreamOwners', NEW m
  PROVE  m \in Meant' <=>
           \/ m \in Meant
           \/ byte \in {"clock", "tune"} /\ m = <<N + 1>>
           \/ \E s \in Statuses : LastStatus(s) /\ Says(m, s, N + 1)'
<1>1. N \in Nat /\ Statuses \subseteq 1..N /\ Statuses \subseteq Statuses'
  BY InputGrows, SetsGrow
<1>2. 1..(N + 1) = 1..N \cup {N + 1}
  BY <1>1
<1>3. m \in Meant <=>
        \E i \in 1..N :
          \/ streamIn[i] \in {"clock", "tune"} /\ m = <<i>>
          \/ \E s \in Statuses : Owner(s, i) /\ Says(m, s, i)
  BY MeantSaid DEF StreamSaid, Reads
<1>4. m \in Meant' <=>
        \E i \in 1..(N + 1) :
          \/ streamIn'[i] \in {"clock", "tune"} /\ m = <<i>>
          \/ \E s \in Statuses' : Owner(s, i)' /\ Says(m, s, i)'
  BY MeantSaidNext, InputGrows DEF StreamSaid
<1>5. ASSUME NEW i \in 1..N
      PROVE  (\E s \in Statuses' : Owner(s, i)' /\ Says(m, s, i)')
               <=> \E s \in Statuses : Owner(s, i) /\ Says(m, s, i)
  <2>1. ASSUME NEW s, Owner(s, i) PROVE s \in Statuses /\ (Says(m, s, i)' <=> Says(m, s, i))
    BY <1>1, <2>1, OldSays DEF Owner
  <2>2. \A s : Owner(s, i)' <=> Owner(s, i)
    BY OldRuns
  <2>3. QED
    BY <1>1, <2>1, <2>2
<1>6. \A i \in 1..N : streamIn'[i] = streamIn[i]
  BY InputGrows
<1>7. streamIn'[N + 1] = byte
  BY InputGrows
<1>8. (\E s \in Statuses' : Owner(s, N + 1)' /\ Says(m, s, N + 1)')
        <=> \E s \in Statuses : LastStatus(s) /\ Says(m, s, N + 1)'
  <2>1. \A s : Owner(s, N + 1)' <=> LastStatus(s)
    BY NewOwner
  <2>2. \A s : LastStatus(s) => s \in Statuses
    BY DEF LastStatus
  <2>3. QED
    BY <1>1, <2>1, <2>2
<1>9. QED
  BY <1>2, <1>3, <1>4, <1>5, <1>6, <1>7, <1>8

(* The bytes of the last status.                                            *)
LEMMA LastRun ==
  ASSUME NEW byte, NEW N, Reads(byte, N), NEW c, LastStatus(c)
  PROVE  /\ c \in 1..N /\ streamIn'[c] = streamIn[c]
         /\ StreamTail(c) \subseteq 1..N
         /\ StreamTail(c)' = IF byte \in RealTime THEN StreamTail(c) ELSE StreamTail(c) \cup {N + 1}
         /\ RunOf(c, N + 1)' = IF byte \in RealTime THEN StreamTail(c) ELSE StreamTail(c) \cup {N + 1}
<1>1. N \in Nat /\ Plain \subseteq 1..N /\ Statuses \subseteq 1..N
  BY InputGrows, SetsGrow
<1>2. c \in 1..N
  BY <1>1 DEF LastStatus
<1>3. streamIn'[c] = streamIn[c]
  BY <1>2, InputGrows
<1>4. StreamTail(c) \subseteq 1..N
  BY <1>1 DEF StreamTail
<1>5. Plain' = IF byte \in RealTime THEN Plain ELSE Plain \cup {N + 1}
  BY SetsGrow
<1>6. StreamTail(c)' = IF byte \in RealTime THEN StreamTail(c) ELSE StreamTail(c) \cup {N + 1}
  BY <1>1, <1>2, <1>5 DEF StreamTail
<1>7. RunOf(c, N + 1)' = IF byte \in RealTime THEN StreamTail(c) ELSE StreamTail(c) \cup {N + 1}
  <2>1. RunOf(c, N + 1)' = {j \in Plain' : c < j /\ j <= N + 1}
    BY DEF RunOf
  <2>2. StreamTail(c)' = {j \in Plain' : c < j}
    BY DEF StreamTail
  <2>3. \A j \in Plain' : j <= N + 1
    BY <1>1, <1>5
  <2>4. RunOf(c, N + 1)' = StreamTail(c)'
    BY <2>1, <2>2, <2>3
  <2>5. QED
    BY <1>6, <2>4
<1>8. QED
  BY <1>2, <1>3, <1>4, <1>6, <1>7

-----------------------------------------------------------------------------
(* What is lost.                                                            *)
Loses(s) ==
    LET n == Cardinality(Until(s))
    IN  IF streamIn[s] = "begin"
        THEN n >= StreamMax \/ \E t \in NextStatus(s) : ~Closes(s, t)
        ELSE /\ NextStatus(s) # {} /\ MessageBytes(streamIn[s]) > 1
             /\ IF streamIn[s] \in Channel THEN n % DataOf(s) # 0
                ELSE n \in 1..(DataOf(s) - 1)

LEMMA LostAre == Lost = {s \in Statuses : Loses(s)} /\ Lost' = {s \in Statuses' : Loses(s)'}
BY DEF Lost, Loses

(* A status that has a next one keeps it.                                   *)
LEMMA OldNext ==
  ASSUME NEW byte, NEW N, Reads(byte, N), StreamOwners, NEW s \in Statuses, ~LastStatus(s)
  PROVE  \E t \in 1..N : s < t /\ NextStatus(s) = {t} /\ NextStatus(s)' = {t}
<1>1. N \in Nat /\ Plain \subseteq 1..N /\ Statuses \subseteq 1..N /\ s \in 1..N
  BY InputGrows, SetsGrow
<1>2. Statuses' = Statuses \/ Statuses' = Statuses \cup {N + 1}
  BY SetsGrow
<1>4. \E u \in Statuses : s < u
  BY <1>1 DEF LastStatus
<1>5. PICK t \in NextStatus(s) : TRUE
  BY <1>4 DEF StreamOwners
<1>6. t \in Statuses /\ s < t /\ t \in 1..N /\ \A u \in Statuses : s < u => t <= u
  BY <1>1, <1>5 DEF NextStatus
<1>7. NextStatus(s) = {t}
  <2>1. ASSUME NEW x \in NextStatus(s) PROVE x = t
    <3>1. x \in 1..N /\ x <= t /\ t <= x
      BY <1>1, <1>6, <2>1 DEF NextStatus
    <3>2. QED
      BY <1>6, <3>1
  <2>2. QED
    BY <1>5, <2>1
<1>8. NextStatus(s)' = {t}
  <2>1. ASSUME NEW x \in NextStatus(s)' PROVE x = t
    <3>1. x \in Statuses' /\ x <= t /\ s < x
      BY <1>2, <1>6, <2>1 DEF NextStatus
    <3>2. x \in Statuses
      BY <1>1, <1>2, <1>6, <3>1
    <3>3. QED
      BY <1>1, <1>6, <3>1, <3>2
  <2>2. \A u \in Statuses' : s < u => t <= u
    <3>1. t <= N + 1 /\ \A u \in Statuses : s < u => t <= u
      BY <1>1, <1>6
    <3>2. QED
      BY <1>2, <3>1
  <2>3. t \in NextStatus(s)'
    BY <1>2, <1>6, <2>2 DEF NextStatus
  <2>4. QED
    BY <2>1, <2>3
<1>9. QED
  BY <1>6, <1>7, <1>8

(* And it has all its bytes.                                                *)
LEMMA OldLoses ==
  ASSUME NEW byte, NEW N, Reads(byte, N), StreamOwners, NEW s \in Statuses, ~LastStatus(s)
  PROVE  Loses(s)' <=> Loses(s)
<1>1. N \in Nat /\ Plain \subseteq 1..N /\ Statuses \subseteq 1..N /\ s \in 1..N
  BY InputGrows, SetsGrow
<1>3. Plain' = Plain \/ Plain' = Plain \cup {N + 1}
  BY SetsGrow
<1>6. PICK t \in 1..N : s < t /\ NextStatus(s) = {t} /\ NextStatus(s)' = {t}
  BY OldNext
<1>9. streamIn'[s] = streamIn[s] /\ streamIn'[t] = streamIn[t]
  BY <1>1, <1>6, InputGrows
<1>10. (Closes(s, t)' <=> Closes(s, t)) /\ DataOf(s)' = DataOf(s)
  BY <1>9 DEF Closes, DataOf
<1>11. Until(s)' = Until(s)
  <2>1. Until(s) = {i \in Plain : s < i /\ (i < t \/ (i = t /\ Closes(s, t)))}
    BY <1>6 DEF Until
  <2>2. Until(s)' = {i \in Plain' : s < i /\ (i < t \/ (i = t /\ Closes(s, t)'))}
    BY <1>6 DEF Until
  <2>3. QED
    BY <1>1, <1>3, <1>6, <1>10, <2>1, <2>2
<1>12. QED
  BY <1>6, <1>9, <1>10, <1>11 DEF Loses

(* The last status has no next.                                             *)
LastOwns ==
    \A c : LastStatus(c) =>
      Loses(c) <=> streamIn[c] = "begin" /\ Cardinality(StreamTail(c)) >= StreamMax

LEMMA LastLoses == StreamOwners => LastOwns
<1> SUFFICES ASSUME StreamOwners, NEW c, LastStatus(c)
    PROVE  Loses(c) <=> streamIn[c] = "begin" /\ Cardinality(StreamTail(c)) >= StreamMax
  BY DEF LastOwns
<1>1. Statuses \subseteq Nat
  BY StatusesAreNaturals DEF StreamOwners
<1>2. NextStatus(c) = {}
  <2>1. \A t \in Statuses : ~(c < t)
    BY <1>1 DEF LastStatus
  <2>2. QED
    BY <2>1 DEF NextStatus
<1>3. Until(c) = StreamTail(c)
  BY <1>2 DEF Until, StreamTail
<1>4. QED
  BY <1>2, <1>3 DEF Loses

LEMMA LastLosesNext == StreamOwners' => LastOwns'
BY LastLoses, PTL

(* A status ends the one before.                                            *)
LEMMA ClosedNext ==
  ASSUME NEW byte, NEW N, Reads(byte, N), byte \notin RealTime \cup {"data"},
         NEW c, LastStatus(c)
  PROVE  NextStatus(c)' = {N + 1}
<1>1. N \in Nat /\ Plain \subseteq 1..N /\ Statuses \subseteq 1..N
  BY InputGrows, SetsGrow
<1>2. Plain' = Plain \cup {N + 1} /\ Statuses' = Statuses \cup {N + 1}
  BY SetsGrow
<1>3. c \in 1..N /\ streamIn'[c] = streamIn[c] /\ streamIn'[N + 1] = byte
  BY LastRun, InputGrows
<1>4. NextStatus(c)' = {N + 1}
  <2>1. \A x \in Statuses : ~(c < x)
    BY <1>1, <1>3 DEF LastStatus
  <2>2. NextStatus(c)' = {x \in Statuses \cup {N + 1} :
                            c < x /\ \A u \in Statuses \cup {N + 1} : c < u => x <= u}
    BY <1>2 DEF NextStatus
  <2>3. c < N + 1 /\ N + 1 <= N + 1
    BY <1>1, <1>3
  <2>4. QED
    BY <2>1, <2>2, <2>3
<1>5. QED
  BY <1>4

LEMMA ClosedLoses ==
  ASSUME NEW byte, NEW N, Reads(byte, N), byte \notin RealTime \cup {"data"},
         NEW c, LastStatus(c)
  PROVE  Loses(c)' <=>
           IF streamIn[c] = "begin"
           THEN byte = "end" => Cardinality(StreamTail(c) \cup {N + 1}) >= StreamMax
           ELSE LET n == Cardinality(StreamTail(c))
                IN  /\ MessageBytes(streamIn[c]) > 1
                    /\ IF streamIn[c] \in Channel THEN n % DataOf(c) # 0
                       ELSE n \in 1..(DataOf(c) - 1)
<1>1. N \in Nat /\ Plain \subseteq 1..N /\ Statuses \subseteq 1..N
  BY InputGrows, SetsGrow
<1>2. Plain' = Plain \cup {N + 1} /\ Statuses' = Statuses \cup {N + 1}
  BY SetsGrow
<1>3. c \in 1..N /\ streamIn'[c] = streamIn[c] /\ streamIn'[N + 1] = byte
  BY LastRun, InputGrows
<1>4. NextStatus(c)' = {N + 1}
  BY ClosedNext
<1>5. Closes(c, N + 1)' <=> streamIn[c] = "begin" /\ byte = "end"
  BY <1>3 DEF Closes
<1>6. DataOf(c)' = DataOf(c)
  BY <1>3 DEF DataOf
<1>7. Until(c)' = IF streamIn[c] = "begin" /\ byte = "end" THEN StreamTail(c) \cup {N + 1}
                  ELSE StreamTail(c)
  <2>1. Until(c)' = {i \in Plain \cup {N + 1} :
                       c < i /\ (i < N + 1 \/ (i = N + 1 /\ Closes(c, N + 1)'))}
    BY <1>2, <1>4 DEF Until
  <2>2. c < N + 1 /\ ~(N + 1 < N + 1) /\ \A i \in Plain : i < N + 1
    BY <1>1, <1>3
  <2>3. QED
    BY <1>5, <2>1, <2>2 DEF StreamTail
<1>8. QED
  BY <1>3, <1>4, <1>5, <1>6, <1>7 DEF Loses

LEMMA OwnersKept ==
  ASSUME NEW byte, NEW N, Reads(byte, N), StreamOwners
  PROVE  StreamOwners'
<1>1. N \in Nat /\ Statuses \subseteq 1..N /\ Len(streamIn') = N + 1 /\ streamIn' \in Seq(Byte)
  BY InputGrows, SetsGrow
<1>2. Statuses' = IF byte \in RealTime \cup {"data"} THEN Statuses ELSE Statuses \cup {N + 1}
  BY SetsGrow
<1>3. ASSUME byte \in RealTime \cup {"data"}, NEW c PROVE LastStatus(c)' <=> LastStatus(c)
  BY <1>2, <1>3 DEF LastStatus
<1>4. ASSUME byte \notin RealTime \cup {"data"} PROVE LastStatus(N + 1)'
  <2>1. Statuses' = Statuses \cup {N + 1} /\ \A t \in Statuses : t <= N + 1
    BY <1>1, <1>2, <1>4
  <2>2. QED
    BY <1>1, <2>1 DEF LastStatus
<1>5. Statuses' # {} => \E c \in Statuses' : LastStatus(c)'
  <2>1. CASE byte \in RealTime \cup {"data"}
    BY <1>2, <1>3, <2>1 DEF StreamOwners
  <2>2. CASE byte \notin RealTime \cup {"data"}
    BY <1>2, <1>4, <2>2
  <2>3. QED
    BY <2>1, <2>2
<1>6. ASSUME NEW i \in 1..(N + 1), Owned(i)' PROVE \E s \in Statuses' : Owner(s, i)'
  <2>1. CASE i \in 1..N
    <3>1. Owned(i)
      BY <1>6, <2>1, OldRuns
    <3>2. PICK s \in Statuses : Owner(s, i)
      BY <2>1, <3>1 DEF StreamOwners, Reads
    <3>3. Owner(s, i)'
      BY <2>1, <3>2, OldRuns
    <3>4. QED
      BY <1>2, <3>3
  <2>2. CASE i = N + 1
    <3>1. PICK u \in Statuses' : u < N + 1
      BY <1>6, <2>2 DEF Owned
    <3>2. Statuses # {}
      BY <1>1, <1>2, <3>1
    <3>3. PICK c \in Statuses : LastStatus(c)
      BY <3>2 DEF StreamOwners
    <3>4. Owner(c, N + 1)'
      BY <3>3, NewOwner
    <3>5. QED
      BY <1>2, <2>2, <3>4
  <2>3. QED
    BY <1>1, <2>1, <2>2
<1>7. ASSUME NEW s \in Statuses', NEW u \in Statuses', s < u PROVE NextStatus(s)' # {}
  <2>1. s \in Statuses
    <3>1. u <= N + 1 /\ u \in Nat
      BY <1>1, <1>2
    <3>2. s # N + 1
      BY <1>1, <1>7, <3>1
    <3>3. QED
      BY <1>2, <3>2
  <2>2. CASE ~LastStatus(s)
    BY <2>1, <2>2, OldNext
  <2>3. CASE LastStatus(s)
    <3>1. u \notin Statuses
      BY <1>1, <1>7, <2>1, <2>3 DEF LastStatus
    <3>2. byte \notin RealTime \cup {"data"}
      BY <1>2, <3>1
    <3>3. QED
      BY <2>3, <3>2, ClosedNext
  <2>4. QED
    BY <2>2, <2>3
<1>8. QED
  BY <1>1, <1>5, <1>6, <1>7 DEF StreamOwners

(* What is lost changes with what becomes of the last status.               *)
LEMMA LostGrows ==
  ASSUME NEW byte, NEW N, Reads(byte, N), StreamOwners, StreamMax \in Nat \ {0}, NEW s
  PROVE  s \in Lost' <=> (s \in Lost /\ ~LastStatus(s)) \/ (LastStatus(s) /\ Loses(s)')
<1>1. N \in Nat /\ Statuses \subseteq 1..N /\ Plain \subseteq 1..N
  BY InputGrows, SetsGrow
<1>2. Statuses' = IF byte \in RealTime \cup {"data"} THEN Statuses ELSE Statuses \cup {N + 1}
  BY SetsGrow
<1>3. s \in Lost' <=> s \in Statuses' /\ Loses(s)'
  BY LostAre
<1>4. s \in Lost <=> s \in Statuses /\ Loses(s)
  BY LostAre
<1>5. CASE s \in Statuses
  BY <1>2, <1>3, <1>4, <1>5, OldLoses
<1>6. CASE s \notin Statuses /\ s \notin Statuses'
  BY <1>3, <1>4, <1>6 DEF LastStatus
<1>7. CASE s \notin Statuses /\ s \in Statuses'
  <2>1. s = N + 1 /\ Statuses' = Statuses \cup {N + 1} /\ byte \notin RealTime
    BY <1>2, <1>7
  <2>2. LastStatus(N + 1)'
    <3>1. \A t \in Statuses' : t <= N + 1
      BY <1>1, <2>1
    <3>2. QED
      BY <2>1, <3>1 DEF LastStatus
  <2>3. Loses(N + 1)' <=> streamIn'[N + 1] = "begin" /\ Cardinality(StreamTail(N + 1))' >= StreamMax
    BY <2>2, OwnersKept, LastLosesNext DEF LastOwns
  <2>4. StreamTail(N + 1)' = {}
    <3>1. Plain' = Plain \cup {N + 1}
      BY <2>1, SetsGrow
    <3>2. \A i \in Plain' : ~(N + 1 < i)
      BY <1>1, <3>1
    <3>3. QED
      BY <3>2 DEF StreamTail
  <2>5. Cardinality(StreamTail(N + 1))' = 0
    BY <2>4, FS_EmptySet
  <2>6. ~Loses(N + 1)'
    BY <2>3, <2>5
  <2>7. QED
    BY <1>3, <1>4, <1>7, <2>1, <2>6 DEF LastStatus
<1>8. QED
  BY <1>5, <1>6, <1>7

LEMMA LostCounts ==
  ASSUME NEW byte, NEW N, Reads(byte, N), StreamOwners, StreamMax \in Nat \ {0}
  PROVE  /\ IsFiniteSet(Lost)
         /\ Statuses = {} => Lost' = {}
         /\ \A c : LastStatus(c) /\ (Loses(c) => Loses(c)') =>
              Cardinality(Lost)' = Cardinality(Lost) + IF ~Loses(c) /\ Loses(c)' THEN 1 ELSE 0
<1>1. N \in Nat /\ Statuses \subseteq 1..N
  BY InputGrows, SetsGrow
<1>2. IsFiniteSet(Lost)
  <2>1. IsFiniteSet(1..N)
    BY <1>1, FS_Interval
  <2>2. Lost \in SUBSET (1..N)
    BY <1>1, LostAre
  <2>3. QED
    BY <2>1, <2>2, FS_Subset
<1>3. \A s : s \in Lost' <=> (s \in Lost /\ ~LastStatus(s)) \/ (LastStatus(s) /\ Loses(s)')
  BY LostGrows
<1>4. Statuses = {} => Lost' = {}
  BY <1>3, LostAre DEF LastStatus
<1>5. ASSUME NEW c, LastStatus(c), Loses(c) => Loses(c)'
      PROVE  Cardinality(Lost)' = Cardinality(Lost) + IF ~Loses(c) /\ Loses(c)' THEN 1 ELSE 0
  <2>1. \A s : LastStatus(s) <=> s = c
    <3>1. ASSUME NEW s, LastStatus(s) PROVE s = c
      <4>1. s \in 1..N /\ c \in 1..N /\ s <= c /\ c <= s
        BY <1>1, <1>5, <3>1 DEF LastStatus
      <4>2. QED
        BY <4>1
    <3>2. QED
      BY <1>5, <3>1
  <2>2. c \in Lost <=> Loses(c)
    BY <1>5, LostAre DEF LastStatus
  <2>3. Lost' = IF Loses(c)' THEN Lost \cup {c} ELSE Lost
    BY <1>3, <1>5, <2>1, <2>2
  <2>4. Cardinality(Lost)' = Cardinality(Lost')
    OBVIOUS
  <2>5. CASE Loses(c)'
    BY <1>2, <2>2, <2>3, <2>4, <2>5, FS_AddElement, FS_CardinalityType
  <2>6. CASE ~Loses(c)'
    BY <1>2, <2>3, <2>4, <2>6, FS_CardinalityType
  <2>7. QED
    BY <2>5, <2>6
<1>6. QED
  BY <1>2, <1>4, <1>5

-----------------------------------------------------------------------------
(* Sets of positions in order.                                              *)
UpTo(S, x) == {y \in S : y <= x}
Enumerates(p, S) ==
    /\ p \in Seq(Nat) /\ Len(p) = Cardinality(S)
    /\ \A k \in 1..Len(p) : p[k] \in S /\ Cardinality(UpTo(S, p[k])) = k

LEMMA NthIs ==
  ASSUME NEW S \in SUBSET Nat, IsFiniteSet(S), NEW x \in S
  PROVE  Nth(S, Cardinality(UpTo(S, x))) = x
<1>1. PICK k : k = Cardinality(UpTo(S, x))
  OBVIOUS
<1>2. Nth(S, k) = CHOOSE z \in S : Cardinality(UpTo(S, z)) = k
  BY DEF Nth, UpTo
<1>3. PICK z \in S : z = Nth(S, k) /\ Cardinality(UpTo(S, z)) = k
  BY <1>1, <1>2
<1>4. ASSUME NEW a \in S, NEW b \in S, a <= b, Cardinality(UpTo(S, a)) = Cardinality(UpTo(S, b))
      PROVE  a = b
  <2>1. UpTo(S, a) \subseteq UpTo(S, b) /\ UpTo(S, b) \in SUBSET S
    <3>1. \A y \in S : y <= a => y <= b
      BY <1>4
    <3>2. QED
      BY <3>1, Zenon DEF UpTo
  <2>2. IsFiniteSet(UpTo(S, b))
    BY <2>1, FS_Subset
  <2>3. UpTo(S, a) = UpTo(S, b)
    BY <1>4, <2>1, <2>2, FS_Subset
  <2>4. b \in UpTo(S, a)
    BY <2>3 DEF UpTo
  <2>5. QED
    BY <1>4, <2>4 DEF UpTo
<1>5. x <= z \/ z <= x
  OBVIOUS
<1>6. z = x
  BY <1>1, <1>3, <1>4, <1>5
<1>7. QED
  BY <1>1, <1>3, <1>6

(* A position above all others is the last.                                 *)
LEMMA Above ==
  ASSUME NEW S \in SUBSET Nat, IsFiniteSet(S), NEW at \in Nat, \A y \in S : y < at
  PROVE  /\ IsFiniteSet(S \cup {at}) /\ Cardinality(S) \in Nat
         /\ Cardinality(S \cup {at}) = Cardinality(S) + 1
         /\ UpTo(S \cup {at}, at) = S \cup {at}
         /\ \A x \in S : UpTo(S \cup {at}, x) = UpTo(S, x)
         /\ \A x \in S : (\A y \in S : y <= x) => UpTo(S, x) = S
<1>1. at \notin S
  OBVIOUS
<1>2. /\ IsFiniteSet(S \cup {at}) /\ Cardinality(S) \in Nat
      /\ Cardinality(S \cup {at}) = Cardinality(S) + 1
  BY <1>1, FS_AddElement, FS_CardinalityType
<1>3. UpTo(S \cup {at}, at) = S \cup {at}
  <2>1. \A y \in S \cup {at} : y <= at
    OBVIOUS
  <2>2. QED
    BY <2>1, Zenon DEF UpTo
<1>4. \A x \in S : UpTo(S \cup {at}, x) = UpTo(S, x)
  BY DEF UpTo
<1>5. \A x \in S : (\A y \in S : y <= x) => UpTo(S, x) = S
  BY DEF UpTo
<1>6. QED
  BY <1>2, <1>3, <1>4, <1>5

LEMMA EnumeratesOrder ==
  ASSUME NEW S \in SUBSET Nat, IsFiniteSet(S), NEW p, Enumerates(p, S)
  PROVE  InOrderOf(S) = p
<1>1. \A k \in 1..Len(p) : Nth(S, k) = p[k]
  BY NthIs DEF Enumerates
<1>2. p = [k \in 1..Len(p) |-> p[k]]
  BY DEF Enumerates
<1>3. QED
  BY <1>1, <1>2 DEF InOrderOf, Enumerates

LEMMA EnumeratesOne == ASSUME NEW c \in Nat PROVE Enumerates(<<c>>, {c})
<1>1. UpTo({c}, c) = {c} /\ Cardinality({c}) = 1
  BY FS_Singleton DEF UpTo
<1>2. QED
  BY <1>1 DEF Enumerates

LEMMA EnumeratesMore ==
  ASSUME NEW S \in SUBSET Nat, IsFiniteSet(S), NEW at \in Nat, \A y \in S : y < at,
         NEW p, Enumerates(p, S)
  PROVE  Enumerates(Append(p, at), S \cup {at})
<1>1. PICK q : q = Append(p, at)
  OBVIOUS
<1>2. PICK n \in Nat : n = Len(p)
  BY LenProperties DEF Enumerates
<1>3. q \in Seq(Nat) /\ Len(q) = n + 1 /\ q[n + 1] = at /\ \A k \in 1..n : q[k] = p[k]
  BY <1>1, <1>2, AppendProperties DEF Enumerates
<1>4. n = Cardinality(S) /\ Cardinality(S \cup {at}) = n + 1
  BY <1>2, Above DEF Enumerates
<1>5. UpTo(S \cup {at}, at) = S \cup {at} /\ \A x \in S : UpTo(S \cup {at}, x) = UpTo(S, x)
  BY Above
<1>6. ASSUME NEW k \in 1..(n + 1)
      PROVE  q[k] \in S \cup {at} /\ Cardinality(UpTo(S \cup {at}, q[k])) = k
  <2>1. CASE k = n + 1
    BY <1>3, <1>4, <1>5, <2>1
  <2>2. CASE k \in 1..n
    <3>1. q[k] = p[k] /\ p[k] \in S /\ Cardinality(UpTo(S, p[k])) = k
      BY <1>2, <1>3, <2>2 DEF Enumerates
    <3>2. QED
      BY <1>5, <3>1
  <2>3. QED
    BY <1>2, <2>1, <2>2
<1>7. QED
  BY <1>1, <1>3, <1>4, <1>6 DEF Enumerates

LEMMA Joined ==
  ASSUME NEW a \in Nat, NEW b \in Nat, NEW c \in Nat
  PROVE  <<a>> \o <<b>> = <<a, b>> /\ <<a>> \o <<b, c>> = <<a, b, c>>
<1>1. /\ <<a>> \in Seq(Nat) /\ <<b>> \in Seq(Nat) /\ <<b, c>> \in Seq(Nat)
      /\ Len(<<a>>) = 1 /\ Len(<<b>>) = 1 /\ Len(<<b, c>>) = 2
  OBVIOUS
<1>2. PICK s : s = <<a>> \o <<b>>
  OBVIOUS
<1>3. PICK t : t = <<a>> \o <<b, c>>
  OBVIOUS
<1>4. s \in Seq(Nat) /\ Len(s) = 2 /\ s[1] = a /\ s[2] = b
  BY <1>1, <1>2, ConcatProperties
<1>5. t \in Seq(Nat) /\ Len(t) = 3 /\ t[1] = a /\ t[2] = b /\ t[3] = c
  BY <1>1, <1>3, ConcatProperties
<1>6. s = <<a, b>>
  BY <1>4
<1>7. t = <<a, b, c>>
  BY <1>5
<1>8. QED
  BY <1>2, <1>3, <1>6, <1>7

(* The last one and the last two of a set, behind a status.                 *)
LastFew(c, S, n, few) == <<c>> \o [k \in 1..few |-> Nth(S, n - few + k)]

LEMMA LastOnes ==
  ASSUME NEW S \in SUBSET Nat, IsFiniteSet(S), NEW at \in Nat, \A y \in S : y < at, NEW c \in Nat
  PROVE  LET T == S \cup {at}
             n == Cardinality(T)
         IN  /\ LastFew(c, T, n, 1) = <<c, at>>
             /\ \A x \in S : (\A y \in S : y <= x) => LastFew(c, T, n, 2) = <<c, x, at>>
<1>1. PICK T : T = S \cup {at}
  OBVIOUS
<1>2. PICK n \in Nat : n = Cardinality(S)
  BY Above
<1>3. Cardinality(T) = n + 1 /\ T \in SUBSET Nat /\ IsFiniteSet(T)
  BY <1>1, <1>2, Above
<1>4. Nth(T, n + 1) = at
  BY <1>1, <1>3, Above, NthIs
<1>5. ASSUME NEW x \in S, \A y \in S : y <= x PROVE Nth(T, n) = x
  <2>1. Cardinality(UpTo(T, x)) = n
    BY <1>1, <1>2, <1>5, Above
  <2>2. QED
    BY <1>1, <1>3, <2>1, NthIs
<1>6. <<c>> \o [k \in 1..1 |-> Nth(T, (n + 1) - 1 + k)] = <<c, at>>
  <2>1. [k \in 1..1 |-> Nth(T, (n + 1) - 1 + k)] = <<at>>
    BY <1>4
  <2>2. <<c>> \o <<at>> = <<c, at>>
    BY Joined
  <2>3. QED
    BY <2>1, <2>2
<1>7. ASSUME NEW x \in S, \A y \in S : y <= x
      PROVE  <<c>> \o [k \in 1..2 |-> Nth(T, (n + 1) - 2 + k)] = <<c, x, at>>
  <2>1. [k \in 1..2 |-> Nth(T, (n + 1) - 2 + k)] = <<x, at>>
    <3>1. (n + 1) - 2 + 1 = n /\ (n + 1) - 2 + 2 = n + 1
      OBVIOUS
    <3>2. Nth(T, (n + 1) - 2 + 1) = x /\ Nth(T, (n + 1) - 2 + 2) = at
      BY <1>4, <1>5, <1>7, <3>1
    <3>3. QED
      BY <3>2
  <2>2. <<c>> \o <<x, at>> = <<c, x, at>>
    BY Joined
  <2>3. QED
    BY <2>1, <2>2
<1>8. /\ LastFew(c, T, n + 1, 1) = <<c, at>>
      /\ \A x \in S : (\A y \in S : y <= x) => LastFew(c, T, n + 1, 2) = <<c, x, at>>
  BY <1>6, <1>7 DEF LastFew
<1>9. QED
  BY <1>1, <1>3, <1>8

-----------------------------------------------------------------------------
(* The parser has in hand what the last status and its bytes leave open:    *)
(* for an exclusive all of them, or nothing that counts when they are too   *)
(* many; for another message the status alone, the status and one byte, or  *)
(* nothing when it is complete.                                             *)
Open(byte, n) ==
    LET data == MessageBytes(byte) - 1
    IN  IF byte \in Channel THEN n % data # 0 ELSE n \in 1..(data - 1)
HandOf(c, byte, run) ==
    LET n == Cardinality(run)
    IN  /\ streamSysEx <=> byte = "begin"
        /\ streamRunning = IF byte \in Channel THEN c ELSE 0
        /\ IF byte = "begin"
           THEN /\ streamDropping <=> n >= StreamMax
                /\ ~streamDropping => Enumerates(streamPending, {c} \cup run)
           ELSE /\ ~streamDropping
                /\ IF MessageBytes(byte) > 1
                   THEN /\ streamExpected = MessageBytes(byte)
                        /\ n = 0 => streamPending = <<c>>
                        /\ n > 0 /\ Open(byte, n) =>
                             \E x \in run : (\A y \in run : y <= x) /\ streamPending = <<c, x>>
                        /\ n > 0 /\ ~Open(byte, n) => streamPending = <<>>
                   ELSE streamPending = <<>>
StreamHand == \A c \in Statuses : LastStatus(c) => HandOf(c, streamIn[c], StreamTail(c))

StreamInv ==
    /\ StreamOwners /\ StreamFaithful
    /\ streamPending \in Seq(Nat)
    /\ Statuses = {} => /\ ~streamSysEx /\ ~streamDropping
                        /\ streamPending = <<>> /\ streamRunning = 0
    /\ StreamHand

LEMMA HandNext ==
  ASSUME NEW c, NEW byte, NEW run, byte = streamIn'[c], run = StreamTail(c)',
         HandOf(c, byte, run)'
  PROVE  HandOf(c, streamIn[c], StreamTail(c))'
BY DEF HandOf, Open

LEMMA MessageBytesAre ==
  /\ \A byte \in Byte : MessageBytes(byte) \in {0, 1, 2, 3}
  /\ MessageBytes("note") = 3 /\ MessageBytes("position") = 3
  /\ MessageBytes("program") = 2 /\ MessageBytes("tune") = 1
  /\ MessageBytes("begin") = 0 /\ MessageBytes("end") = 0 /\ MessageBytes("undefined") = 0
  /\ MessageBytes("data") = 0
BY DEF MessageBytes, Byte, Channel, Common, RealTime

LEMMA StreamInitInv == StreamInit => StreamInv
<1> SUFFICES ASSUME StreamInit PROVE StreamInv
  OBVIOUS
<1>1. streamIn = <<>> /\ streamIn \in Seq(Byte) /\ Len(streamIn) = 0 /\ streamPending \in Seq(Nat)
  BY EmptySeq DEF StreamInit
<1>2. \A B : Positions(B) = {}
  BY <1>1 DEF Positions
<1>3. Statuses = {} /\ Plain = {}
  BY <1>2 DEF Statuses, Plain
<1>4. StreamOwners
  BY <1>1, <1>3 DEF StreamOwners
<1>5. Meant = {}
  BY <1>2 DEF Meant
<1>6. Lost = {} /\ Cardinality(Lost) = 0
  BY <1>3, FS_EmptySet DEF Lost
<1>7. StreamFaithful
  BY <1>5, <1>6 DEF StreamFaithful, StreamInit
<1>8. StreamHand
  BY <1>3 DEF StreamHand, LastStatus
<1>9. QED
  BY <1>1, <1>4, <1>7, <1>8 DEF StreamInv, StreamInit

(* The last status of the new input.                                        *)
LEMMA LastNext ==
  ASSUME NEW byte, NEW N, Reads(byte, N)
  PROVE  /\ byte \in RealTime \cup {"data"} =>
              Statuses' = Statuses /\ \A c : LastStatus(c)' <=> LastStatus(c)
         /\ byte \notin RealTime \cup {"data"} =>
              /\ N + 1 \in Statuses' /\ \A c : LastStatus(c)' <=> c = N + 1
              /\ StreamTail(N + 1)' = {} /\ streamIn'[N + 1] = byte
<1>1. N \in Nat /\ Statuses \subseteq 1..N /\ Plain \subseteq 1..N
  BY InputGrows, SetsGrow
<1>2. Statuses' = IF byte \in RealTime \cup {"data"} THEN Statuses ELSE Statuses \cup {N + 1}
  BY SetsGrow
<1>3. ASSUME byte \in RealTime \cup {"data"}
      PROVE  Statuses' = Statuses /\ \A c : LastStatus(c)' <=> LastStatus(c)
  BY <1>2, <1>3 DEF LastStatus
<1>4. ASSUME byte \notin RealTime \cup {"data"}
      PROVE  /\ N + 1 \in Statuses' /\ \A c : LastStatus(c)' <=> c = N + 1
             /\ StreamTail(N + 1)' = {} /\ streamIn'[N + 1] = byte
  <2>1. Statuses' = Statuses \cup {N + 1} /\ \A t \in Statuses' : t <= N + 1
    BY <1>1, <1>2, <1>4
  <2>2. ASSUME NEW c, LastStatus(c)' PROVE c = N + 1
    <3>1. c \in Statuses' /\ N + 1 <= c
      BY <2>1, <2>2 DEF LastStatus
    <3>2. QED
      BY <1>1, <2>1, <3>1
  <2>3. LastStatus(N + 1)'
    BY <2>1 DEF LastStatus
  <2>4. Plain' = Plain \cup {N + 1}
    BY <1>4, SetsGrow
  <2>5. \A i \in Plain' : ~(N + 1 < i)
    BY <1>1, <2>4
  <2>6. StreamTail(N + 1)' = {}
    BY <2>5 DEF StreamTail
  <2>7. QED
    BY <2>1, <2>2, <2>3, <2>6, InputGrows
<1>5. QED
  BY <1>3, <1>4

LEMMA LastKnown ==
  ASSUME NEW byte, NEW N, Reads(byte, N), StreamInv, NEW c, LastStatus(c)
  PROVE  /\ N \in Nat /\ c \in Nat /\ c # 0 /\ c < N + 1 /\ c \notin StreamTail(c)
         /\ StreamTail(c) \in SUBSET Nat /\ IsFiniteSet(StreamTail(c))
         /\ \A y \in StreamTail(c) : y < N + 1
         /\ Cardinality(StreamTail(c)) \in Nat
         /\ Cardinality(StreamTail(c)) = 0 <=> StreamTail(c) = {}
         /\ streamIn[c] \in Channel \cup Common \cup {"begin", "end"}
         /\ HandOf(c, streamIn[c], StreamTail(c))
<1>1. N \in Nat /\ c \in 1..N /\ StreamTail(c) \subseteq 1..N
  BY InputGrows, LastRun
<1>2. IsFiniteSet(StreamTail(c))
  <2>1. IsFiniteSet(1..N)
    BY <1>1, FS_Interval
  <2>2. QED
    BY <1>1, <2>1, FS_Subset
<1>3. Cardinality(StreamTail(c)) \in Nat /\ (Cardinality(StreamTail(c)) = 0 <=> StreamTail(c) = {})
  BY <1>2, FS_CardinalityType, FS_EmptySet
<1>4. c \in Statuses
  BY DEF LastStatus
<1>5. streamIn[c] \in Byte \ (RealTime \cup {"data"})
  BY <1>4 DEF Statuses, Positions
<1>6. streamIn[c] \in Channel \cup Common \cup {"begin", "end"}
  BY <1>5 DEF Byte
<1>7. HandOf(c, streamIn[c], StreamTail(c))
  BY <1>4 DEF StreamInv, StreamHand
<1>8. c \notin StreamTail(c)
  BY <1>1 DEF StreamTail
<1>9. \A y \in 1..N : y \in Nat /\ y < N + 1 /\ y # 0
  BY <1>1
<1>10. QED
  BY <1>1, <1>2, <1>3, <1>6, <1>7, <1>8, <1>9

(* The messages that a byte makes.                                          *)
LEMMA NewSays ==
  ASSUME NEW byte, NEW N, Reads(byte, N), StreamInv, NEW c, LastStatus(c), NEW m
  PROVE  LET run == StreamTail(c) \cup {N + 1}
             n == Cardinality(run)
             data == DataOf(c)
         IN  /\ byte \notin {"data", "end"} => ~Says(m, c, N + 1)'
             /\ byte = "data" =>
                  (Says(m, c, N + 1)' <=>
                     /\ MessageBytes(streamIn[c]) > 1
                     /\ IF streamIn[c] \in Channel THEN n % data = 0 ELSE n = data
                     /\ m = LastFew(c, run, n, data))
             /\ byte = "end" =>
                  (Says(m, c, N + 1)' <=>
                     /\ streamIn[c] = "begin" /\ n < StreamMax
                     /\ m = InOrderOf({c} \cup run))
<1>1. streamIn'[N + 1] = byte /\ streamIn'[c] = streamIn[c]
  BY InputGrows, LastRun
<1>2. DataOf(c)' = DataOf(c)
  BY <1>1 DEF DataOf
<1>3. CASE byte \notin {"data", "end"}
  BY <1>1, <1>3 DEF Says
<1>4. CASE byte \in {"data", "end"}
  <2>1. RunOf(c, N + 1)' = StreamTail(c) \cup {N + 1}
    BY <1>4, LastRun DEF RealTime
  <2>2. QED
    BY <1>1, <1>2, <1>4, <2>1 DEF Says, Ends, LastOf, LastFew
<1>5. QED
  BY <1>3, <1>4

LEMMA MeantNow ==
  ASSUME NEW byte, NEW N, Reads(byte, N), StreamInv, NEW m
  PROVE  /\ \A c : LastStatus(c) =>
              (m \in Meant' <=> \/ m \in streamOut
                                \/ byte \in {"clock", "tune"} /\ m = <<N + 1>>
                                \/ Says(m, c, N + 1)')
         /\ Statuses = {} =>
              (m \in Meant' <=> \/ m \in streamOut
                                \/ byte \in {"clock", "tune"} /\ m = <<N + 1>>)
<1>1. m \in Meant' <=>
        \/ m \in streamOut
        \/ byte \in {"clock", "tune"} /\ m = <<N + 1>>
        \/ \E s \in Statuses : LastStatus(s) /\ Says(m, s, N + 1)'
  BY OwnersKept, MeantGrows DEF StreamInv, StreamFaithful
<1>2. \A c, s : LastStatus(c) /\ LastStatus(s) => c = s
  <2>1. Statuses \subseteq Nat
    BY StatusesAreNaturals DEF Reads
  <2>2. ASSUME NEW c, NEW s, LastStatus(c), LastStatus(s) PROVE c = s
    <3>1. c \in Nat /\ s \in Nat /\ c <= s /\ s <= c
      BY <2>1, <2>2 DEF LastStatus
    <3>2. QED
      BY <3>1
  <2>3. QED
    BY <2>2
<1>3. \A c : LastStatus(c) => c \in Statuses
  BY DEF LastStatus
<1>4. QED
  BY <1>1, <1>2, <1>3

Idle == ~streamSysEx /\ ~streamDropping /\ streamPending = <<>> /\ streamRunning = 0

LEMMA StreamNow ==
  ASSUME NEW byte, NEW N, Reads(byte, N), StreamInv,
         streamPending' \in Seq(Nat),
         \A m : m \in streamOut' <=> m \in Meant',
         streamDiscarded' = Cardinality(Lost)',
         Statuses' = {} => Idle',
         \A c : LastStatus(c)' => HandOf(c, streamIn[c], StreamTail(c))'
  PROVE  StreamInv'
<1>1. StreamOwners'
  BY OwnersKept DEF StreamInv
<1>2. streamOut' = Meant'
  OBVIOUS
<1>3. StreamFaithful'
  BY <1>2 DEF StreamFaithful
<1>4. StreamHand'
  BY DEF StreamHand
<1>5. QED
  BY <1>1, <1>3, <1>4 DEF StreamInv, Idle

(* Statuses: either there is a last one, or nothing is in hand.             *)
LEMMA LastIs == ASSUME StreamInv PROVE (Statuses = {} /\ Idle) \/ \E c : LastStatus(c)
BY DEF StreamInv, StreamOwners, Idle

LEMMA LostNow ==
  ASSUME NEW byte, NEW N, Reads(byte, N), StreamInv
  PROVE  /\ streamDiscarded \in Nat
         /\ Statuses = {} => Cardinality(Lost)' = streamDiscarded
         /\ \A c : LastStatus(c) /\ (Loses(c) => Loses(c)') =>
              Cardinality(Lost)'
                = streamDiscarded + (IF ~Loses(c) /\ Loses(c)' THEN 1 ELSE 0)
<1>1. StreamOwners /\ streamDiscarded = Cardinality(Lost)
  BY DEF StreamInv, StreamFaithful
<1>2. IsFiniteSet(Lost)
  BY <1>1, LostCounts, StreamAssumption
<1>3. ASSUME Statuses = {} PROVE Cardinality(Lost)' = streamDiscarded
  <2>1. Lost = {}
    BY <1>3, LostAre
  <2>2. Lost' = {}
    BY <1>1, <1>3, LostCounts, StreamAssumption
  <2>3. QED
    BY <1>1, <2>1, <2>2
<1>4. QED
  BY <1>1, <1>2, <1>3, LostCounts, StreamAssumption, FS_CardinalityType

(* Real-time bytes.                                                         *)
LEMMA PushRealTimeInv ==
  ASSUME NEW byte, NEW N, Reads(byte, N), StreamInv,
         byte \in RealTime, PushRealTime(byte, N + 1)
  PROVE  StreamInv'
<1>1. UNCHANGED <<streamPending, streamRunning, streamExpected, streamSysEx,
                  streamDropping, streamDiscarded>>
  BY DEF PushRealTime
<1>2. Statuses' = Statuses /\ \A c : LastStatus(c)' <=> LastStatus(c)
  BY LastNext
<1>3. byte \notin {"data", "end"} /\ (byte \in {"clock", "tune"} <=> byte = "clock")
  BY DEF RealTime
<1>4. \A m : m \in streamOut' <=> m \in streamOut \/ (byte = "clock" /\ m = <<N + 1>>)
  BY DEF PushRealTime, Emit
<1>5. CASE Statuses = {} /\ Idle
  <2>1. \A m : m \in streamOut' <=> m \in Meant'
    BY <1>3, <1>4, <1>5, MeantNow
  <2>2. streamDiscarded' = Cardinality(Lost)'
    BY <1>1, <1>5, LostNow
  <2>3. Idle' /\ \A c : ~LastStatus(c)'
    BY <1>1, <1>2, <1>5 DEF Idle, LastStatus
  <2>4. QED
    BY <1>1, <2>1, <2>2, <2>3, StreamNow DEF StreamInv
<1>6. ASSUME NEW c, LastStatus(c) PROVE StreamInv'
  <2>1. \A m : ~Says(m, c, N + 1)'
    BY <1>3, <1>6, NewSays
  <2>2. \A m : m \in streamOut' <=> m \in Meant'
    BY <1>3, <1>4, <1>6, <2>1, MeantNow
  <2>3. StreamTail(c)' = StreamTail(c) /\ streamIn'[c] = streamIn[c]
    BY <1>6, LastRun
  <2>4. Loses(c)' <=> Loses(c)
    <3>1. StreamOwners /\ StreamOwners' /\ LastStatus(c)'
      BY <1>2, <1>6, OwnersKept DEF StreamInv
    <3>2. QED
      BY <1>6, <2>3, <3>1, LastLoses, LastLosesNext DEF LastOwns
  <2>5. streamDiscarded' = Cardinality(Lost)'
    BY <1>1, <1>6, <2>4, LostNow
  <2>6. ASSUME NEW d, LastStatus(d)' PROVE HandOf(d, streamIn[d], StreamTail(d))'
    <3>1. LastStatus(d)
      BY <1>2, <2>6
    <3>2. StreamTail(d)' = StreamTail(d) /\ streamIn'[d] = streamIn[d]
      BY <3>1, LastRun
    <3>3. HandOf(d, streamIn[d], StreamTail(d))
      BY <3>1, LastKnown
    <3>4. QED
      BY <1>1, <3>2, <3>3 DEF HandOf, Open
  <2>7. Statuses' # {}
    BY <1>2, <1>6 DEF LastStatus
  <2>8. QED
    BY <1>1, <2>2, <2>5, <2>6, <2>7, StreamNow DEF StreamInv
<1>7. QED
  BY <1>5, <1>6, LastIs

(* A status closes what is in hand.                                         *)
LEMMA PushStatusInv ==
  ASSUME NEW byte, NEW N, Reads(byte, N), StreamInv,
         byte \notin RealTime \cup {"data"}, ~(streamSysEx /\ byte = "end"),
         PushStatus(byte, N + 1)
  PROVE  StreamInv'
<1>1. byte \in Byte /\ byte \notin {"data", "clock"} /\ N + 1 \in Nat
  BY InputGrows DEF Reads, RealTime
<1>2. (MessageBytes(byte) = 1 <=> byte = "tune") /\ (byte = "begin" => MessageBytes(byte) = 0)
  BY <1>1 DEF MessageBytes, Byte, Channel, Common, RealTime
<1>3. \A m : m \in streamOut' <=> m \in streamOut \/ (byte \in {"clock", "tune"} /\ m = <<N + 1>>)
  BY <1>1, <1>2 DEF PushStatus, Emit
<1>4. /\ N + 1 \in Statuses' /\ StreamTail(N + 1)' = {} /\ streamIn'[N + 1] = byte
      /\ \A c : LastStatus(c)' <=> c = N + 1
  BY LastNext
<1>5. streamPending' \in Seq(Nat)
  <2>1. <<>> \in Seq(Nat) /\ <<N + 1>> \in Seq(Nat)
    BY <1>1
  <2>2. QED
    BY <2>1 DEF PushStatus
<1>6. HandOf(N + 1, byte, {})'
  <2>1. Cardinality({}) = 0 /\ {N + 1} \cup {} = {N + 1} /\ Enumerates(<<N + 1>>, {N + 1})
    BY <1>1, FS_EmptySet, EnumeratesOne
  <2>2. /\ ~streamDropping' /\ (streamSysEx' <=> byte = "begin")
        /\ streamRunning' = (IF byte \in Channel THEN N + 1 ELSE 0)
        /\ streamExpected' = MessageBytes(byte)
        /\ streamPending' = (IF byte = "begin" \/ MessageBytes(byte) > 1 THEN <<N + 1>> ELSE <<>>)
    BY DEF PushStatus
  <2>3. CASE byte = "begin"
    <3>1. ~(Cardinality({}) >= StreamMax)
      BY <2>1, StreamAssumption
    <3>2. streamPending' = <<N + 1>>
      BY <2>2, <2>3
    <3>3. Enumerates(streamPending', {N + 1} \cup {})
      BY <2>1, <3>2
    <3>4. QED
      BY <2>2, <2>3, <3>1, <3>3, Zenon DEF HandOf, Enumerates
  <2>4. CASE byte # "begin"
    <3>1. MessageBytes(byte) > 1 => streamPending' = <<N + 1>>
      BY <2>2
    <3>2. ~(MessageBytes(byte) > 1) => streamPending' = <<>>
      BY <2>2, <2>4
    <3>3. ~(Cardinality({}) > 0)
      BY <2>1
    <3>4. QED
      BY <2>2, <2>4, <3>1, <3>2, <3>3, Zenon DEF HandOf
  <2>5. QED
    BY <2>3, <2>4
<1>7. \A c : LastStatus(c)' => HandOf(c, streamIn[c], StreamTail(c))'
  BY <1>4, <1>6, HandNext
<1>8. CASE Statuses = {} /\ Idle
  <2>1. \A m : m \in streamOut' <=> m \in Meant'
    BY <1>3, <1>8, MeantNow
  <2>2. streamDiscarded' = Cardinality(Lost)'
    <3>1. Len(streamPending) = 0
      BY <1>8 DEF Idle
    <3>2. QED
      BY <1>8, <3>1, LostNow DEF Idle, PushStatus
  <2>3. QED
    BY <1>4, <1>5, <1>7, <2>1, <2>2, StreamNow
<1>9. ASSUME NEW c, LastStatus(c) PROVE StreamInv'
  <2>1. PICK n : n = Cardinality(StreamTail(c))
    OBVIOUS
  <2>2. /\ n \in Nat /\ (n = 0 <=> StreamTail(c) = {})
        /\ HandOf(c, streamIn[c], StreamTail(c))
        /\ streamIn[c] \in Channel \cup Common \cup {"begin", "end"}
    BY <1>9, <2>1, LastKnown
  <2>3. streamSysEx <=> streamIn[c] = "begin"
    BY <2>2 DEF HandOf
  <2>4. \A m : ~Says(m, c, N + 1)'
    BY <1>1, <1>9, <2>3, NewSays
  <2>5. \A m : m \in streamOut' <=> m \in Meant'
    BY <1>3, <1>9, <2>4, MeantNow
  <2>6. Loses(c) <=> streamIn[c] = "begin" /\ n >= StreamMax
    BY <1>9, <2>1, LastLoses DEF LastOwns, StreamInv
  <2>7. Loses(c)' <=> IF streamIn[c] = "begin" THEN byte # "end" \/ Loses(c)'
                      ELSE MessageBytes(streamIn[c]) > 1 /\ Open(streamIn[c], n)
    BY <1>9, <2>1, ClosedLoses DEF Open, DataOf
  <2>8. streamIn[c] = "begin" => Loses(c)'
    BY <1>9, <2>3, ClosedLoses
  <2>9. CASE streamIn[c] = "begin"
    <3>1. streamDropping <=> Loses(c)
      BY <2>1, <2>2, <2>6, <2>9 DEF HandOf
    <3>2. streamDiscarded' = streamDiscarded + (IF ~Loses(c) /\ Loses(c)' THEN 1 ELSE 0)
      BY <2>3, <2>8, <2>9, <3>1 DEF PushStatus
    <3>3. streamDiscarded' = Cardinality(Lost)'
      BY <1>9, <2>8, <2>9, <3>2, LostNow
    <3>4. QED
      BY <1>4, <1>5, <1>7, <2>5, <3>3, StreamNow
  <2>10. CASE streamIn[c] # "begin"
    <3>1. ~Loses(c) /\ (Loses(c)' <=> MessageBytes(streamIn[c]) > 1 /\ Open(streamIn[c], n))
      BY <2>6, <2>7, <2>10
    <3>2. Len(streamPending) > 1 <=> MessageBytes(streamIn[c]) > 1 /\ Open(streamIn[c], n)
      <4>1. CASE ~(MessageBytes(streamIn[c]) > 1)
        BY <2>2, <2>10, <4>1 DEF HandOf
      <4>2. CASE MessageBytes(streamIn[c]) > 1 /\ n = 0
        <5>1. streamPending = <<c>>
          BY <2>1, <2>2, <2>10, <4>2 DEF HandOf
        <5>2. ~Open(streamIn[c], n)
          BY <2>2, <4>2, MessageBytesAre DEF Open, Channel, Common
        <5>3. QED
          BY <5>1, <5>2
      <4>3. CASE MessageBytes(streamIn[c]) > 1 /\ n > 0
        BY <2>1, <2>2, <2>10, <4>3 DEF HandOf
      <4>4. QED
        BY <2>2, <4>1, <4>2, <4>3
    <3>3. streamDiscarded' = streamDiscarded + (IF ~Loses(c) /\ Loses(c)' THEN 1 ELSE 0)
      BY <2>3, <2>10, <3>1, <3>2 DEF PushStatus
    <3>4. streamDiscarded' = Cardinality(Lost)'
      BY <1>9, <3>1, <3>3, LostNow
    <3>5. QED
      BY <1>4, <1>5, <1>7, <2>5, <3>4, StreamNow
  <2>11. QED
    BY <2>9, <2>10
<1>10. QED
  BY <1>8, <1>9, LastIs

(* A byte of an exclusive.                                                  *)
LEMMA PushSysExInv ==
  ASSUME NEW byte, NEW N, Reads(byte, N), StreamInv,
         streamSysEx, byte \in {"data", "end"}, PushSysEx(byte, N + 1)
  PROVE  StreamInv'
<1>1. PICK c : LastStatus(c)
  BY LastIs DEF Idle
<1>2. PICK S : S = StreamTail(c)
  OBVIOUS
<1>3. PICK n : n = Cardinality(S)
  OBVIOUS
<1>4. PICK at : at = N + 1
  OBVIOUS
<1>5. /\ c \in Nat /\ c < at /\ c \notin S /\ at \in Nat
      /\ S \in SUBSET Nat /\ IsFiniteSet(S) /\ \A y \in S : y < at
      /\ n \in Nat /\ HandOf(c, streamIn[c], S)
  BY <1>1, <1>2, <1>3, <1>4, LastKnown
<1>6. streamIn[c] = "begin"
  BY <1>5 DEF HandOf
<1>7. /\ streamRunning = 0
      /\ streamDropping <=> n >= StreamMax
      /\ ~streamDropping => Enumerates(streamPending, {c} \cup S)
  BY <1>3, <1>5, <1>6 DEF HandOf, Channel
<1>8. PICK C : C = {c} \cup S
  OBVIOUS
<1>9. /\ C \in SUBSET Nat /\ IsFiniteSet(C) /\ \A y \in C : y < at
      /\ Cardinality(C) = n + 1
  <2>1. C = S \cup {c}
    BY <1>8
  <2>2. QED
    BY <1>3, <1>5, <2>1, FS_AddElement
<1>10. PICK run : run = S \cup {at}
  OBVIOUS
<1>11. Cardinality(run) = n + 1 /\ {c} \cup run = C \cup {at}
  BY <1>3, <1>5, <1>8, <1>10, Above
<1>12. ~streamDropping => Len(streamPending) = n + 1
  BY <1>7, <1>8, <1>9 DEF Enumerates
<1>13. PICK dropping \in BOOLEAN : dropping <=> n + 1 >= StreamMax
  OBVIOUS
<1>14. (streamDropping \/ (~streamDropping /\ Len(streamPending) = StreamMax)) <=> dropping
  BY <1>5, <1>7, <1>12, <1>13, StreamAssumption
<1>15. PICK message : message = IF dropping THEN streamPending ELSE Append(streamPending, at)
  OBVIOUS
<1>16. message \in Seq(Nat) /\ (~dropping => Enumerates(message, C \cup {at}))
  <2>1. CASE dropping
    BY <1>15, <2>1 DEF StreamInv
  <2>2. CASE ~dropping
    <3>1. ~streamDropping /\ Enumerates(streamPending, C)
      BY <1>7, <1>8, <1>14, <2>2
    <3>2. Enumerates(message, C \cup {at})
      BY <1>5, <1>9, <1>15, <2>2, <3>1, EnumeratesMore
    <3>3. QED
      BY <3>2 DEF Enumerates
  <2>3. QED
    BY <1>13, <2>1, <2>2
<1>17. /\ streamSysEx' = (byte # "end")
       /\ streamDropping' <=> dropping /\ byte # "end"
       /\ streamPending' = IF byte = "end" THEN <<>> ELSE message
       /\ UNCHANGED <<streamRunning, streamExpected>>
       /\ IF byte = "end" /\ ~dropping THEN streamOut' = streamOut \cup {message}
          ELSE UNCHANGED streamOut
       /\ streamDiscarded' = streamDiscarded
            + (IF ~streamDropping /\ Len(streamPending) = StreamMax THEN 1 ELSE 0)
  BY <1>4, <1>14, <1>15 DEF PushSysEx, Emit
<1>18. streamPending' \in Seq(Nat)
  BY <1>16, <1>17, EmptySeq
<1>19. \A m : m \in streamOut' <=> m \in Meant'
  <2> TAKE m
  <2>1. m \in Meant' <=> m \in streamOut \/ Says(m, c, N + 1)'
    BY <1>1, MeantNow
  <2>2. CASE byte = "data"
    <3>1. ~(MessageBytes(streamIn[c]) > 1)
      BY <1>6, MessageBytesAre
    <3>2. ~Says(m, c, N + 1)'
      BY <1>1, <2>2, <3>1, NewSays
    <3>3. QED
      BY <1>17, <2>1, <2>2, <3>2
  <2>3. CASE byte = "end"
    <3>1. Says(m, c, N + 1)' <=> Cardinality(run) < StreamMax /\ m = InOrderOf({c} \cup run)
      BY <1>1, <1>2, <1>4, <1>6, <1>10, <2>3, NewSays
    <3>2. Cardinality(run) < StreamMax <=> ~dropping
      BY <1>5, <1>11, <1>13, StreamAssumption
    <3>3. ~dropping => InOrderOf({c} \cup run) = message
      <4>1. C \cup {at} \in SUBSET Nat /\ IsFiniteSet(C \cup {at})
        BY <1>5, <1>9, Above
      <4>2. QED
        BY <1>11, <1>16, <4>1, EnumeratesOrder
    <3>4. QED
      BY <1>17, <2>1, <2>3, <3>1, <3>2, <3>3
  <2>4. QED
    BY <2>2, <2>3
<1>20. streamIn'[c] = streamIn[c] /\ StreamTail(c)' = run
  <2>1. byte \notin RealTime
    BY DEF RealTime
  <2>2. QED
    BY <1>1, <1>2, <1>4, <1>10, <2>1, LastRun
<1>21. (Loses(c) <=> n >= StreamMax) /\ (Loses(c)' <=> dropping)
  <2>1. Loses(c) <=> n >= StreamMax
    BY <1>1, <1>2, <1>3, <1>6, LastLoses DEF LastOwns, StreamInv
  <2>2. CASE byte = "data"
    <3>1. LastStatus(c)' /\ StreamOwners'
      BY <1>1, <2>2, LastNext, OwnersKept DEF StreamInv
    <3>2. Loses(c)' <=> streamIn'[c] = "begin" /\ Cardinality(StreamTail(c))' >= StreamMax
      BY <3>1, LastLosesNext DEF LastOwns
    <3>3. QED
      BY <1>6, <1>11, <1>13, <1>20, <2>1, <3>2
  <2>3. CASE byte = "end"
    <3>1. byte \notin RealTime \cup {"data"}
      BY <2>3 DEF RealTime
    <3>2. Loses(c)' <=> Cardinality(run) >= StreamMax
      BY <1>1, <1>2, <1>4, <1>6, <1>10, <2>3, <3>1, ClosedLoses
    <3>3. QED
      BY <1>11, <1>13, <2>1, <3>2
  <2>4. QED
    BY <2>2, <2>3
<1>22. streamDiscarded' = Cardinality(Lost)'
  <2>1. Loses(c) => Loses(c)'
    BY <1>5, <1>13, <1>21, StreamAssumption
  <2>2. (~streamDropping /\ Len(streamPending) = StreamMax) <=> ~Loses(c) /\ Loses(c)'
    BY <1>5, <1>7, <1>12, <1>13, <1>21, StreamAssumption
  <2>3. QED
    BY <1>1, <1>17, <2>1, <2>2, LostNow
<1>23. CASE byte = "data"
  <2>1. HandOf(c, "begin", run)'
    <3>1. streamDropping' <=> Cardinality(run) >= StreamMax
      BY <1>11, <1>13, <1>17, <1>23
    <3>2. ~streamDropping' => Enumerates(streamPending', {c} \cup run)
      BY <1>11, <1>16, <1>17, <1>23
    <3>3. streamSysEx' /\ streamRunning' = 0
      BY <1>7, <1>17, <1>23
    <3>4. QED
      BY <3>1, <3>2, <3>3 DEF HandOf, Channel, Enumerates
  <2>2. \A d : LastStatus(d)' => d = c
    <3>1. \A d : LastStatus(d)' => LastStatus(d)
      BY <1>23, LastNext
    <3>2. Statuses \subseteq Nat
      BY StatusesAreNaturals DEF Reads
    <3>3. ASSUME NEW d, LastStatus(d) PROVE d = c
      <4>1. d \in Nat /\ c <= d /\ d <= c
        BY <1>1, <3>2, <3>3 DEF LastStatus
      <4>2. QED
        BY <1>5, <4>1
    <3>4. QED
      BY <3>1, <3>3
  <2>3. HandOf(c, streamIn[c], StreamTail(c))'
    BY <1>6, <1>20, <2>1, HandNext
  <2>4. Statuses' # {}
    BY <1>1, <1>23, LastNext DEF LastStatus
  <2>5. QED
    BY <1>18, <1>19, <1>22, <2>2, <2>3, <2>4, StreamNow
<1>24. CASE byte = "end"
  <2>1. /\ N + 1 \in Statuses' /\ StreamTail(N + 1)' = {} /\ streamIn'[N + 1] = "end"
        /\ \A d : LastStatus(d)' <=> d = N + 1
    <3>1. byte \notin RealTime \cup {"data"}
      BY <1>24 DEF RealTime
    <3>2. QED
      BY <1>24, <3>1, LastNext
  <2>2. HandOf(N + 1, "end", {})'
    <3>1. ~streamSysEx' /\ ~streamDropping' /\ streamPending' = <<>> /\ streamRunning' = 0
      BY <1>7, <1>17, <1>24
    <3>2. QED
      BY <3>1, MessageBytesAre DEF HandOf, Channel
  <2>3. HandOf(N + 1, streamIn[N + 1], StreamTail(N + 1))'
    BY <2>1, <2>2, HandNext
  <2>4. QED
    BY <1>18, <1>19, <1>22, <2>1, <2>3, StreamNow
<1>25. QED
  BY <1>23, <1>24

LEMMA Appended ==
  ASSUME NEW a \in Nat, NEW b \in Nat, NEW c \in Nat
  PROVE  /\ Append(<<a>>, b) = <<a, b>> /\ Len(<<a, b>>) = 2
         /\ Append(<<a, b>>, c) = <<a, b, c>> /\ Len(<<a, b, c>>) = 3
<1>1. /\ <<a>> \in Seq(Nat) /\ <<a, b>> \in Seq(Nat)
      /\ Len(<<a>>) = 1 /\ Len(<<a, b>>) = 2 /\ Len(<<a, b, c>>) = 3
  OBVIOUS
<1>2. PICK s : s = Append(<<a>>, b)
  OBVIOUS
<1>3. PICK t : t = Append(<<a, b>>, c)
  OBVIOUS
<1>4. s \in Seq(Nat) /\ Len(s) = 2 /\ s[1] = a /\ s[2] = b
  BY <1>1, <1>2, AppendProperties
<1>5. t \in Seq(Nat) /\ Len(t) = 3 /\ t[1] = a /\ t[2] = b /\ t[3] = c
  BY <1>1, <1>3, AppendProperties
<1>6. s = <<a, b>> /\ t = <<a, b, c>>
  BY <1>4, <1>5
<1>7. QED
  BY <1>1, <1>2, <1>3, <1>6

(* What a data byte does: it is ignored, becomes the second byte of a       *)
(* message, which may complete it, or the third, which does.                *)
LEMMA PushDataDoes ==
  ASSUME NEW at \in Nat, PushData(at), streamPending \in Seq(Nat)
  PROVE  /\ streamPending = <<>> /\ streamRunning = 0 =>
              streamPending' = <<>> /\ UNCHANGED <<streamOut, streamExpected>>
         /\ \A c \in Nat \ {0} :
              LET bytes == MessageBytes(streamIn[c])
              IN  (bytes \in {2, 3} /\ \/ streamPending = <<>> /\ streamRunning = c
                                       \/ streamPending = <<c>> /\ streamExpected = bytes) =>
                    /\ streamExpected' = bytes
                    /\ IF bytes = 2 THEN Emit(<<c, at>>) /\ streamPending' = <<>>
                       ELSE streamPending' = <<c, at>> /\ UNCHANGED streamOut
         /\ \A c, x \in Nat : streamPending = <<c, x>> /\ streamExpected = 3 =>
              /\ streamExpected' = 3
              /\ Emit(<<c, x, at>>) /\ streamPending' = <<>>
         /\ UNCHANGED <<streamRunning, streamSysEx, streamDropping, streamDiscarded>>
<1>1. ASSUME streamPending = <<>>, streamRunning = 0
      PROVE  streamPending' = <<>> /\ UNCHANGED <<streamOut, streamExpected>>
  BY <1>1 DEF PushData
<1>2. ASSUME NEW c \in Nat \ {0}, NEW bytes \in {2, 3}, bytes = MessageBytes(streamIn[c]),
             streamPending = <<>> /\ streamRunning = c
      PROVE  /\ streamExpected' = bytes
             /\ IF bytes = 2 THEN Emit(<<c, at>>) /\ streamPending' = <<>>
                ELSE streamPending' = <<c, at>> /\ UNCHANGED streamOut
  <2>1. Len(<<c, at>>) = 2
    OBVIOUS
  <2>2. QED
    BY <1>2, <2>1 DEF PushData
<1>3. ASSUME NEW c \in Nat \ {0}, NEW bytes \in {2, 3}, bytes = MessageBytes(streamIn[c]),
             streamPending = <<c>> /\ streamExpected = bytes
      PROVE  /\ streamExpected' = bytes
             /\ IF bytes = 2 THEN Emit(<<c, at>>) /\ streamPending' = <<>>
                ELSE streamPending' = <<c, at>> /\ UNCHANGED streamOut
  <2>1. Append(<<c>>, at) = <<c, at>> /\ Len(<<c, at>>) = 2
    BY Appended
  <2>2. streamPending # <<>>
    BY <1>3
  <2>3. QED
    BY <1>3, <2>1, <2>2 DEF PushData
<1>4. ASSUME NEW c \in Nat, NEW x \in Nat, streamPending = <<c, x>>, streamExpected = 3
      PROVE  /\ streamExpected' = 3
             /\ Emit(<<c, x, at>>) /\ streamPending' = <<>>
  <2>1. Append(<<c, x>>, at) = <<c, x, at>> /\ Len(<<c, x, at>>) = 3
    BY Appended
  <2>2. streamPending # <<>>
    BY <1>4
  <2>3. QED
    BY <1>4, <2>1, <2>2 DEF PushData
<1>5. UNCHANGED <<streamRunning, streamSysEx, streamDropping, streamDiscarded>>
  BY DEF PushData
<1>6. QED
  BY <1>1, <1>2, <1>3, <1>4, <1>5

(* What the last status and its bytes mean when one more comes: the message *)
(* it completes, if any, is the one that was in hand with that byte.        *)
LEMMA PushDataMeans ==
  ASSUME NEW byte, NEW N, Reads(byte, N), StreamInv, NEW c, LastStatus(c),
         ~streamSysEx, byte = "data", PushData(N + 1)
  PROVE  /\ \A m : m \in streamOut' <=> m \in streamOut \/ Says(m, c, N + 1)'
         /\ streamPending' \in Seq(Nat)
         /\ HandOf(c, streamIn[c], StreamTail(c))'
<1>1. PICK S : S = StreamTail(c)
  OBVIOUS
<1>2. PICK n : n = Cardinality(S)
  OBVIOUS
<1>3. PICK at : at = N + 1
  OBVIOUS
<1>4. PICK status : status = streamIn[c]
  OBVIOUS
<1>5. /\ c \in Nat \ {0} /\ c < at /\ at \in Nat
      /\ S \in SUBSET Nat /\ IsFiniteSet(S) /\ \A y \in S : y < at
      /\ n \in Nat /\ HandOf(c, status, S)
      /\ status \in Channel \cup Common \cup {"begin", "end"}
  BY <1>1, <1>2, <1>3, <1>4, LastKnown
<1>6. PICK run : run = S \cup {at}
  OBVIOUS
<1>7. Cardinality(run) = n + 1 /\ at \in run /\ \A y \in run : y <= at
  <2>1. Cardinality(run) = n + 1
    BY <1>2, <1>5, <1>6, Above
  <2>2. at \in run /\ \A y \in run : y <= at
    BY <1>5, <1>6
  <2>3. QED
    BY <2>1, <2>2
<1>8. streamIn'[c] = status /\ StreamTail(c)' = run
  <2>1. byte \notin RealTime
    BY DEF RealTime
  <2>2. QED
    BY <1>1, <1>3, <1>4, <1>6, <2>1, LastRun
<1>9. PICK bytes : bytes = MessageBytes(status)
  OBVIOUS
<1>10. PICK d, more : d = DataOf(c) /\ more = Cardinality(run) /\ d = bytes - 1 /\ more = n + 1
  BY <1>4, <1>7, <1>9 DEF DataOf
<1>11. \A m : Says(m, c, N + 1)' <=>
         /\ bytes > 1
         /\ IF status \in Channel THEN more % d = 0 ELSE more = d
         /\ m = LastFew(c, run, more, d)
  <2> TAKE m
  <2>1. PICK set : set = StreamTail(c) \cup {N + 1}
    OBVIOUS
  <2>2. set = run
    BY <1>1, <1>3, <1>6, <2>1
  <2>3. Says(m, c, N + 1)' <=>
          /\ MessageBytes(streamIn[c]) > 1
          /\ IF streamIn[c] \in Channel THEN Cardinality(set) % DataOf(c) = 0
             ELSE Cardinality(set) = DataOf(c)
          /\ m = LastFew(c, set, Cardinality(set), DataOf(c))
    BY <2>1, NewSays
  <2>4. QED
    BY <1>4, <1>9, <1>10, <2>2, <2>3
<1>12. /\ S \in SUBSET Nat /\ IsFiniteSet(S) /\ at \in Nat /\ \A y \in S : y < at
       /\ c \in Nat
  BY <1>5
<1>13. LastFew(c, run, more, 1) = <<c, at>>
  <2>1. LastFew(c, S \cup {at}, Cardinality(S \cup {at}), 1) = <<c, at>>
    BY <1>12, LastOnes
  <2>2. QED
    BY <1>6, <1>10, <2>1
<1>14. ASSUME NEW x \in S, \A y \in S : y <= x PROVE LastFew(c, run, more, 2) = <<c, x, at>>
  <2>1. LastFew(c, S \cup {at}, Cardinality(S \cup {at}), 2) = <<c, x, at>>
    BY <1>12, <1>14, LastOnes
  <2>2. QED
    BY <1>6, <1>10, <2>1
<1>15. /\ ~streamDropping /\ status # "begin"
       /\ streamRunning = IF status \in Channel THEN c ELSE 0
       /\ bytes > 1 =>
            /\ streamExpected = bytes
            /\ n = 0 => streamPending = <<c>>
            /\ n > 0 /\ Open(status, n) =>
                 \E x \in S : (\A y \in S : y <= x) /\ streamPending = <<c, x>>
            /\ n > 0 /\ ~Open(status, n) => streamPending = <<>>
       /\ ~(bytes > 1) => streamPending = <<>>
  BY <1>2, <1>5, <1>9 DEF HandOf
<1>16. streamPending \in Seq(Nat) /\ PushData(at)
  BY <1>3 DEF StreamInv
<1>17. UNCHANGED <<streamRunning, streamSysEx, streamDropping, streamDiscarded>>
  BY <1>5, <1>16, PushDataDoes
<1>18. (status \in Channel => bytes \in {2, 3}) /\ (status \notin Channel => bytes \in {0, 1, 3})
  BY <1>5, <1>9, MessageBytesAre DEF Channel, Common
<1>19. /\ <<>> \in Seq(Nat) /\ <<c, at>> \in Seq(Nat)
       /\ \A x \in Nat : Emit(<<c, x, at>>) => \A m : m \in streamOut' <=> m \in streamOut \/ m = <<c, x, at>>
       /\ Emit(<<c, at>>) => \A m : m \in streamOut' <=> m \in streamOut \/ m = <<c, at>>
  BY <1>5 DEF Emit
(* What is left to show, in the values of this step.                        *)
<1>20. ASSUME streamPending' \in Seq(Nat),
              bytes > 1 =>
                /\ streamExpected' = bytes
                /\ Open(status, n + 1) =>
                     \E x \in run : (\A y \in run : y <= x) /\ streamPending' = <<c, x>>
                /\ ~Open(status, n + 1) => streamPending' = <<>>,
              ~(bytes > 1) => streamPending' = <<>>,
              \A m : m \in streamOut' <=> m \in streamOut \/ Says(m, c, N + 1)'
       PROVE  /\ \A m : m \in streamOut' <=> m \in streamOut \/ Says(m, c, N + 1)'
              /\ streamPending' \in Seq(Nat)
              /\ HandOf(c, streamIn[c], StreamTail(c))'
  <2>1. Cardinality(run) > 0 /\ Cardinality(run) # 0
    BY <1>5, <1>7
  <2>2. HandOf(c, status, run)'
    BY <1>7, <1>9, <1>15, <1>17, <1>20, <2>1 DEF HandOf, Open
  <2>3. QED
    BY <1>8, <1>20, <2>2, HandNext
<1>21. CASE ~(bytes > 1)
  <2>1. status \notin Channel
    BY <1>18, <1>21
  <2>2. streamPending = <<>> /\ streamRunning = 0
    BY <1>15, <1>21, <2>1
  <2>3. streamPending' = <<>> /\ streamOut' = streamOut
    BY <1>5, <1>16, <2>2, PushDataDoes
  <2>4. QED
    BY <1>11, <1>19, <1>20, <1>21, <2>3
<1>22. ASSUME status \in Channel, n = 0 \/ ~Open(status, n)
       PROVE  /\ streamExpected' = bytes
              /\ IF bytes = 2 THEN Emit(<<c, at>>) /\ streamPending' = <<>>
                 ELSE streamPending' = <<c, at>> /\ UNCHANGED streamOut
  <2>1. /\ bytes \in {2, 3} /\ bytes = MessageBytes(streamIn[c])
        /\ \/ streamPending = <<>> /\ streamRunning = c
           \/ streamPending = <<c>> /\ streamExpected = bytes
    BY <1>4, <1>5, <1>9, <1>15, <1>18, <1>22
  <2>2. QED
    BY <1>5, <1>16, <2>1, PushDataDoes
<1>23. CASE status \in Channel /\ bytes = 2
  <2>1. d = 1 /\ more % d = 0 /\ ~Open(status, n + 1) /\ ~Open(status, n)
    BY <1>5, <1>9, <1>10, <1>23 DEF Open
  <2>2. streamExpected' = bytes /\ Emit(<<c, at>>) /\ streamPending' = <<>>
    BY <1>22, <1>23, <2>1
  <2>3. \A m : Says(m, c, N + 1)' <=> m = <<c, at>>
    BY <1>11, <1>13, <1>23, <2>1
  <2>4. \A m : m \in streamOut' <=> m \in streamOut \/ Says(m, c, N + 1)'
    BY <1>19, <2>2, <2>3
  <2>5. QED
    BY <1>19, <1>20, <1>23, <2>1, <2>2, <2>4
<1>24. CASE status \in Channel /\ bytes = 3
  <2>1. d = 2 /\ (Open(status, n + 1) <=> more % d # 0) /\ (more % d = 0 <=> n % 2 # 0)
        /\ (Open(status, n) <=> n % 2 # 0)
    BY <1>5, <1>9, <1>10, <1>24 DEF Open
  <2>2. CASE n % 2 = 0
    <3>1. streamExpected' = bytes /\ streamPending' = <<c, at>> /\ UNCHANGED streamOut
      BY <1>22, <1>24, <2>1, <2>2
    <3>2. \A m : ~Says(m, c, N + 1)'
      BY <1>11, <1>24, <2>1, <2>2
    <3>3. QED
      BY <1>7, <1>19, <1>20, <1>24, <2>1, <2>2, <3>1, <3>2
  <2>3. CASE n % 2 # 0
    <3>1. n > 0 /\ streamExpected = 3
      BY <1>5, <1>15, <1>24, <2>3
    <3>2. PICK x \in S : (\A y \in S : y <= x) /\ streamPending = <<c, x>>
      BY <1>15, <1>24, <2>1, <2>3, <3>1
    <3>3. streamExpected' = 3 /\ Emit(<<c, x, at>>) /\ streamPending' = <<>>
      BY <1>5, <1>16, <3>1, <3>2, PushDataDoes
    <3>4. \A m : Says(m, c, N + 1)' <=> m = <<c, x, at>>
      BY <1>11, <1>14, <1>24, <2>1, <2>3, <3>2
    <3>5. \A m : m \in streamOut' <=> m \in streamOut \/ Says(m, c, N + 1)'
      BY <1>5, <1>19, <3>2, <3>3, <3>4
    <3>6. QED
      BY <1>19, <1>20, <1>24, <2>1, <2>3, <3>3, <3>5
  <2>4. QED
    BY <2>2, <2>3
<1>25. CASE status \notin Channel /\ bytes = 3
  <2>1. d = 2 /\ (Open(status, n + 1) <=> n = 0) /\ (Open(status, n) <=> n = 1)
        /\ (more = d <=> n = 1) /\ streamRunning = 0
    BY <1>5, <1>9, <1>10, <1>15, <1>25 DEF Open
  <2>2. CASE n = 0
    <3>1. streamPending = <<c>> /\ streamExpected = 3
      BY <1>15, <1>25, <2>2
    <3>2. bytes \in {2, 3} /\ bytes = MessageBytes(streamIn[c]) /\ bytes # 2
      BY <1>4, <1>9, <1>25
    <3>3. streamExpected' = bytes /\ streamPending' = <<c, at>> /\ UNCHANGED streamOut
      BY <1>5, <1>16, <1>25, <3>1, <3>2, PushDataDoes
    <3>4. \A m : ~Says(m, c, N + 1)'
      BY <1>11, <1>25, <2>1, <2>2
    <3>5. QED
      BY <1>7, <1>19, <1>20, <1>25, <2>1, <2>2, <3>3, <3>4
  <2>3. CASE n = 1
    <3>1. n > 0 /\ streamExpected = 3
      BY <1>15, <1>25, <2>3
    <3>2. PICK x \in S : (\A y \in S : y <= x) /\ streamPending = <<c, x>>
      BY <1>15, <1>25, <2>1, <2>3, <3>1
    <3>3. streamExpected' = 3 /\ Emit(<<c, x, at>>) /\ streamPending' = <<>>
      BY <1>5, <1>16, <3>1, <3>2, PushDataDoes
    <3>4. \A m : Says(m, c, N + 1)' <=> m = <<c, x, at>>
      BY <1>11, <1>14, <1>25, <2>1, <2>3, <3>2
    <3>5. \A m : m \in streamOut' <=> m \in streamOut \/ Says(m, c, N + 1)'
      BY <1>5, <1>19, <3>2, <3>3, <3>4
    <3>6. QED
      BY <1>19, <1>20, <1>25, <2>1, <2>3, <3>3, <3>5
  <2>4. CASE n > 1
    <3>1. streamPending = <<>> /\ streamExpected = 3
      BY <1>5, <1>15, <1>25, <2>1, <2>4
    <3>2. streamPending' = <<>> /\ UNCHANGED <<streamOut, streamExpected>>
      BY <1>5, <1>16, <2>1, <3>1, PushDataDoes
    <3>3. \A m : ~Says(m, c, N + 1)'
      BY <1>11, <1>25, <2>1, <2>4
    <3>4. ~Open(status, n + 1)
      BY <2>1, <2>4
    <3>5. QED
      BY <1>19, <1>20, <1>25, <3>1, <3>2, <3>3, <3>4
  <2>5. QED
    BY <1>5, <2>2, <2>3, <2>4
<1>26. QED
  BY <1>18, <1>21, <1>23, <1>24, <1>25

LEMMA PushDataInv ==
  ASSUME NEW byte, NEW N, Reads(byte, N), StreamInv,
         ~streamSysEx, byte = "data", PushData(N + 1)
  PROVE  StreamInv'
<1>1. UNCHANGED <<streamRunning, streamSysEx, streamDropping, streamDiscarded>>
  BY DEF PushData
<1>2. Statuses' = Statuses /\ \A c : LastStatus(c)' <=> LastStatus(c)
  BY LastNext
<1>3. byte \notin {"clock", "tune"}
  OBVIOUS
<1>4. CASE Statuses = {} /\ Idle
  <2>1. streamPending' = <<>> /\ streamOut' = streamOut
    BY <1>4 DEF PushData, Idle
  <2>2. \A m : m \in streamOut' <=> m \in Meant'
    BY <1>3, <1>4, <2>1, MeantNow
  <2>3. streamDiscarded' = Cardinality(Lost)'
    BY <1>1, <1>4, LostNow
  <2>4. Idle' /\ \A c : ~LastStatus(c)'
    BY <1>1, <1>2, <1>4, <2>1 DEF Idle, LastStatus
  <2>5. streamPending' \in Seq(Nat)
    BY <2>1
  <2>6. QED
    BY <2>2, <2>3, <2>4, <2>5, StreamNow
<1>5. ASSUME NEW c, LastStatus(c) PROVE StreamInv'
  <2>1. /\ \A m : m \in streamOut' <=> m \in streamOut \/ Says(m, c, N + 1)'
        /\ streamPending' \in Seq(Nat)
        /\ HandOf(c, streamIn[c], StreamTail(c))'
    BY <1>5, PushDataMeans
  <2>2. \A m : m \in streamOut' <=> m \in Meant'
    BY <1>3, <1>5, <2>1, MeantNow
  <2>3. streamIn[c] # "begin" /\ streamIn'[c] = streamIn[c]
    <3>1. HandOf(c, streamIn[c], StreamTail(c))
      BY <1>5, LastKnown
    <3>2. streamIn'[c] = streamIn[c]
      BY <1>5, LastRun
    <3>3. QED
      BY <3>1, <3>2 DEF HandOf
  <2>4. ~Loses(c) /\ ~Loses(c)'
    <3>1. StreamOwners /\ StreamOwners' /\ LastStatus(c)'
      BY <1>2, <1>5, OwnersKept DEF StreamInv
    <3>2. QED
      BY <1>5, <2>3, <3>1, LastLoses, LastLosesNext DEF LastOwns
  <2>5. streamDiscarded' = Cardinality(Lost)'
    BY <1>1, <1>5, <2>4, LostNow
  <2>6. \A d : LastStatus(d)' => d = c
    <3>1. Statuses \subseteq Nat
      BY StatusesAreNaturals DEF Reads
    <3>2. ASSUME NEW d, LastStatus(d)' PROVE d = c
      <4>1. LastStatus(d)
        BY <1>2, <3>2
      <4>2. d \in Nat /\ c \in Nat /\ d <= c /\ c <= d
        BY <1>5, <3>1, <4>1 DEF LastStatus
      <4>3. QED
        BY <4>2
    <3>3. QED
      BY <3>2
  <2>7. Statuses' # {}
    BY <1>2, <1>5 DEF LastStatus
  <2>8. QED
    BY <2>1, <2>2, <2>5, <2>6, <2>7, StreamNow
<1>6. QED
  BY <1>4, <1>5, LastIs

LEMMA StreamInitNext == StreamInit' => StreamInv'
BY StreamInitInv, PTL

(* The invariant is stated over the variables alone.                        *)
LEMMA StreamStill == StreamInv /\ UNCHANGED streamVars => StreamInv'
<1> SUFFICES ASSUME StreamInv, UNCHANGED streamVars PROVE StreamInv'
  OBVIOUS
<1>1. UNCHANGED <<streamIn, streamOut, streamPending, streamRunning, streamExpected,
                  streamSysEx, streamDropping, streamDiscarded>>
  BY DEF streamVars
<1>2. \A B : Positions(B)' = Positions(B)
  BY <1>1 DEF Positions
<1>3. Statuses' = Statuses /\ Plain' = Plain
  BY <1>2 DEF Statuses, Plain
<1>4. \A s : NextStatus(s)' = NextStatus(s)
  BY <1>3 DEF NextStatus
<1>5. /\ \A c : LastStatus(c)' <=> LastStatus(c)
      /\ \A c : StreamTail(c)' = StreamTail(c)
      /\ \A s, i : Owner(s, i)' <=> Owner(s, i)
      /\ \A i : Owned(i)' <=> Owned(i)
      /\ \A s, i : RunOf(s, i)' = RunOf(s, i)
  BY <1>3 DEF LastStatus, StreamTail, Owner, Owned, RunOf
<1>6. StreamOwners'
  BY <1>1, <1>3, <1>4, <1>5 DEF StreamInv, StreamOwners
<1>7. StreamHand'
  <2>1. ASSUME NEW c \in Statuses, LastStatus(c) PROVE HandOf(c, streamIn[c], StreamTail(c))'
    <3>1. HandOf(c, streamIn[c], StreamTail(c))
      BY <2>1 DEF StreamInv, StreamHand
    <3>2. streamIn'[c] = streamIn[c] /\ StreamTail(c)' = StreamTail(c)
      BY <1>1, <1>5
    <3>3. QED
      BY <1>1, <3>1, <3>2 DEF HandOf, Open
  <2>2. QED
    BY <1>3, <1>5, <2>1 DEF StreamHand
<1>8. Meant' = Meant
  BY <1>1 DEF Meant, OwnerOf, Owned, Ends, LastOf, InOrderOf, RunOf, DataOf,
              Positions, Plain, Statuses
<1>9. Lost' = Lost
  BY <1>1 DEF Lost, Until, NextStatus, Closes, DataOf, Positions, Plain, Statuses
<1>10. StreamFaithful'
  BY <1>1, <1>8, <1>9 DEF StreamInv, StreamFaithful
<1>11. QED
  BY <1>1, <1>3, <1>6, <1>7, <1>10 DEF StreamInv

LEMMA StreamPushInv == StreamInv /\ StreamPush => StreamInv'
<1> SUFFICES ASSUME StreamInv, StreamPush PROVE StreamInv'
  OBVIOUS
<1>1. PICK N : N = Len(streamIn)
  OBVIOUS
<1>2. PICK byte \in Byte :
        /\ streamIn' = Append(streamIn, byte)
        /\ \/ byte \in RealTime /\ PushRealTime(byte, N + 1)
           \/ streamSysEx /\ byte \in {"data", "end"} /\ PushSysEx(byte, N + 1)
           \/ ~streamSysEx /\ byte = "data" /\ PushData(N + 1)
           \/ /\ byte \notin RealTime \cup {"data"}
              /\ ~(streamSysEx /\ byte = "end")
              /\ PushStatus(byte, N + 1)
  BY <1>1 DEF StreamPush
<1>3. Reads(byte, N)
  BY <1>1, <1>2 DEF Reads, StreamInv, StreamOwners
<1>4. CASE byte \in RealTime /\ PushRealTime(byte, N + 1)
  BY <1>3, <1>4, PushRealTimeInv
<1>5. CASE streamSysEx /\ byte \in {"data", "end"} /\ PushSysEx(byte, N + 1)
  BY <1>3, <1>5, PushSysExInv
<1>6. CASE ~streamSysEx /\ byte = "data" /\ PushData(N + 1)
  BY <1>3, <1>6, PushDataInv
<1>7. CASE /\ byte \notin RealTime \cup {"data"}
           /\ ~(streamSysEx /\ byte = "end")
           /\ PushStatus(byte, N + 1)
  BY <1>3, <1>7, PushStatusInv
<1>8. QED
  BY <1>2, <1>4, <1>5, <1>6, <1>7

(* In every state of the parser its hand is what the last status and the    *)
(* bytes behind it leave open, and everything before them has been dealt    *)
(* with.                                                                    *)
THEOREM StreamInvariant == StreamSpec => []StreamInv
<1>1. StreamInv /\ [StreamNext]_streamVars => StreamInv'
  <2>1. StreamReset => StreamInit'
    BY DEF StreamReset, StreamInit
  <2>2. QED
    BY <2>1, StreamInitNext, StreamPushInv, StreamStill DEF StreamNext
<1>2. QED
  BY <1>1, StreamInitInv, PTL DEF StreamSpec

(* push emits exactly the messages the bytes mean and counts every message  *)
(* that is lost once, for any bytes in any order, any bound of an exclusive *)
(* and any length of the input.                                             *)
THEOREM MessagesAreMeant == StreamSpec => []StreamFaithful
<1>1. StreamInv => StreamFaithful
  BY DEF StreamInv
<1>2. QED
  BY <1>1, StreamInvariant, PTL
=============================================================================
