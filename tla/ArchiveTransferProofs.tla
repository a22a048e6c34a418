------------------------ MODULE ArchiveTransferProofs ------------------------
(* Proofs about ArchiveTransfer, for any sessions and recordings, and for  *)
(* deaths of either side between any two steps.                            *)
EXTENDS ArchiveTransfer, SequenceTheorems, TLAPS

USE TransferAssumption DEF MaySeal, MayReceipt, SameAsSource, SourceGone

----------------------------------------------------------------------------
(* A line read from the FIFO, and one written to it.                       *)
LEMMA ReadLine ==
    ASSUME NEW c \in Seq(Command), c # <<>>, NEW P,
           \A i \in 1 .. Len(c) : c[i][1] = "ack" => c[i][2] \in P
    PROVE  /\ Head(c) \in Command /\ Tail(c) \in Seq(Command)
           /\ Head(c)[1] = "ack" => Head(c)[2] \in P
           /\ \A i \in 1 .. Len(Tail(c)) : Tail(c)[i][1] = "ack" => Tail(c)[i][2] \in P
<1>1. /\ Head(c) \in Command /\ Head(c) = c[1] /\ Tail(c) \in Seq(Command)
      /\ Len(Tail(c)) = Len(c) - 1
      /\ \A i \in 1 .. Len(Tail(c)) : Tail(c)[i] = c[i + 1]
  BY HeadTailProperties
<1>2. Len(c) \in Nat /\ Len(c) >= 1
  BY EmptySeq, LenProperties
<1>3. Head(c)[1] = "ack" => Head(c)[2] \in P
  BY <1>1, <1>2
<1>4. ASSUME NEW i \in 1 .. Len(Tail(c)), Tail(c)[i][1] = "ack" PROVE Tail(c)[i][2] \in P
  <2>1. i + 1 \in 1 .. Len(c) /\ Tail(c)[i] = c[i + 1]
    BY <1>1, <1>2
  <2> QED
    BY <2>1, <1>4
<1> QED
  BY <1>1, <1>3, <1>4

LEMMA WriteLine ==
    ASSUME NEW c \in Seq(Command), NEW line \in Command, NEW P,
           \A i \in 1 .. Len(c) : c[i][1] = "ack" => c[i][2] \in P,
           line[1] = "ack" => line[2] \in P
    PROVE  /\ Append(c, line) \in Seq(Command)
           /\ \A i \in 1 .. Len(Append(c, line)) :
                 Append(c, line)[i][1] = "ack" => Append(c, line)[i][2] \in P
<1>1. /\ Append(c, line) \in Seq(Command) /\ Len(Append(c, line)) = Len(c) + 1
      /\ \A i \in 1 .. Len(c) : Append(c, line)[i] = c[i]
      /\ Append(c, line)[Len(c) + 1] = line
  BY AppendProperties
<1>2. Len(c) \in Nat
  BY LenProperties
<1>3. \A i \in 1 .. Len(c) + 1 : i \in 1 .. Len(c) \/ i = Len(c) + 1
  BY <1>2
<1> QED
  BY <1>1, <1>3

LEMMA InitIInv == Init => IInv
<1> SUFFICES ASSUME Init PROVE IInv
  OBVIOUS
<1> USE DEF Init
<1>1. commands \in Seq(Command) /\ Len(commands) = 0
  OBVIOUS
<1>2. TypeOK
  BY <1>1 DEF TypeOK
<1>3. AcksPublished
  BY <1>1 DEF AcksPublished
<1>4. TransferInHand
  BY DEF TransferInHand
<1>5. /\ open \cap published = {} /\ ArchiveComplete /\ ReceiptTruthful
      /\ \A s \in Sessions \ published : files[s] = recorded[s]
  BY DEF ArchiveComplete, ReceiptTruthful
<1> QED
  BY <1>2, <1>3, <1>4, <1>5 DEF IInv

----------------------------------------------------------------------------
(* The steps of the service.                                               *)
LEMMA SessionStep ==
    ASSUME IInv, NEW s \in Sessions, NEW r \in Recordings, Record(s, r)
    PROVE  IInv'
<1> USE DEF IInv, TypeOK, AcksPublished, TransferInHand, ArchiveComplete, ReceiptTruthful,
            service, mac, receiver
<1>1. /\ s \in open /\ s \notin published
      /\ files' = [files EXCEPT ![s] = @ \cup {r}]
      /\ recorded' = [recorded EXCEPT ![s] = @ \cup {r}]
  BY DEF Record
<1>2. TypeOK'
  BY <1>1 DEF Record
<1>3. AcksPublished' /\ TransferInHand'
  BY <1>1 DEF Record
<1>4. ArchiveComplete' /\ ReceiptTruthful' /\ (open \cap published = {})'
  BY <1>1 DEF Record
<1>5. \A t \in Sessions \ published : files'[t] = recorded'[t]
  BY <1>1
<1> QED
  BY <1>2, <1>3, <1>4, <1>5 DEF Record

LEMMA LeaveStep ==
    ASSUME IInv, NEW s \in Sessions, NEW sealed \in BOOLEAN, Leave(s, sealed)
    PROVE  IInv'
BY DEF Leave, IInv, TypeOK, AcksPublished, TransferInHand, ArchiveComplete, ReceiptTruthful,
       service, mac, receiver

LEMMA ServeStep == IInv /\ Serve => IInv'
<1> SUFFICES ASSUME IInv, Serve PROVE IInv'
  OBVIOUS
<1> USE DEF IInv, TypeOK, AcksPublished, TransferInHand, ArchiveComplete, ReceiptTruthful,
            mac, receiver
<1>1. commands # <<>> =>
        /\ Head(commands) \in Command /\ Tail(commands) \in Seq(Command)
        /\ Head(commands)[1] = "ack" => Head(commands)[2] \in published
        /\ \A i \in 1 .. Len(Tail(commands)) :
              Tail(commands)[i][1] = "ack" => Tail(commands)[i][2] \in published
  BY ReadLine
<1>2. CASE Seal
  BY <1>1, <1>2 DEF Seal
<1>3. CASE Ack
  <2>1. Head(commands)[2] \in published
    BY <1>1, <1>3 DEF Ack
  <2> QED
    BY <1>1, <1>3, <2>1 DEF Ack, Acknowledged, Refused
<1>4. CASE \E r \in Recordings : RemoveFile(r)
  BY <1>4 DEF RemoveFile, service
<1>5. CASE RemoveReady
  BY <1>5 DEF RemoveReady, service
<1>6. CASE RemoveDirectory
  BY <1>6 DEF RemoveDirectory, service
<1>7. CASE WriteReceipt
  BY <1>7 DEF WriteReceipt
<1> QED
  BY <1>2, <1>3, <1>4, <1>5, <1>6, <1>7 DEF Serve

----------------------------------------------------------------------------
(* The steps of the receiver.                                              *)
LEMMA LoopStep ==
    ASSUME IInv, BeginPass \/ (\E s \in Sessions : Visit(s)) \/ EndPass \/ Look
    PROVE  IInv'
<1> USE DEF IInv, TypeOK, AcksPublished, TransferInHand, ArchiveComplete, ReceiptTruthful,
            card, service, mac
<1>1. CASE BeginPass
  BY <1>1 DEF BeginPass
<1>2. CASE \E s \in Sessions : Visit(s)
  BY <1>2 DEF Visit
<1>3. CASE EndPass
  BY <1>3 DEF EndPass, Pause
<1>4. CASE Look
  BY <1>4 DEF Look
<1> QED
  BY <1>1, <1>2, <1>3, <1>4

LEMMA CopyStep ==
    ASSUME IInv, Sums \/ SumsFail \/ Scp \/ Recheck \/ RecheckFails \/ Publish
    PROVE  IInv'
<1> USE DEF IInv, TypeOK, AcksPublished, TransferInHand, ArchiveComplete, ReceiptTruthful,
            card, service, mac
<1>1. CASE Sums
  BY <1>1 DEF Sums
<1>2. CASE SumsFail
  BY <1>2 DEF SumsFail, Pause
<1>3. CASE Scp
  <2>1. staged' \subseteq expected /\ faults' \in 0 .. MaxFaults
    BY <1>3 DEF Scp
  <2> QED
    BY <1>3, <2>1 DEF Scp
<1>4. CASE Recheck
  BY <1>4 DEF Recheck
<1>5. CASE RecheckFails
  BY <1>5 DEF RecheckFails, Pause
<1>6. CASE Publish
  BY <1>6 DEF Publish
<1> QED
  BY <1>1, <1>2, <1>3, <1>4, <1>5, <1>6

(* The steps that write a line to the FIFO of the service, and those that  *)
(* look for the receipt.                                                   *)
LEMMA CommandStep == ASSUME IInv, Identities \/ Release PROVE IInv'
<1> USE DEF IInv, TypeOK, AcksPublished, TransferInHand, ArchiveComplete, ReceiptTruthful,
            card, mac
<1>1. CASE Identities
  <2>1. CASE UNCHANGED commands
    BY <1>1, <2>1 DEF Identities
  <2>2. CASE \E s \in dir : commands' = Append(commands, <<"seal", s>>)
    <3>1. PICK s \in dir : commands' = Append(commands, <<"seal", s>>)
      BY <2>2
    <3>2. <<"seal", s>> \in Command /\ <<"seal", s>>[1] # "ack"
      BY DEF Command
    <3>3. /\ commands' \in Seq(Command)
          /\ \A i \in 1 .. Len(commands') : commands'[i][1] = "ack" => commands'[i][2] \in published
      BY <3>1, <3>2, WriteLine
    <3> QED
      BY <1>1, <3>3 DEF Identities
  <2> QED
    BY <1>1, <2>1, <2>2 DEF Identities
<1>2. CASE Release
  <2>1. <<"ack", current>> \in Command /\ current \in published
    BY <1>2 DEF Release, Command
  <2>2. /\ commands' \in Seq(Command)
        /\ \A i \in 1 .. Len(commands') : commands'[i][1] = "ack" => commands'[i][2] \in published
    BY <1>2, <2>1, WriteLine DEF Release
  <2> QED
    BY <1>2, <2>1, <2>2 DEF Release
<1> QED
  BY <1>1, <1>2

LEMMA PollStep == ASSUME IInv, Released \/ PollEnds PROVE IInv'
<1> USE DEF IInv, TypeOK, AcksPublished, TransferInHand, ArchiveComplete, ReceiptTruthful,
            card, service, mac
<1>1. CASE Released
  BY <1>1 DEF Released
<1>2. CASE PollEnds
  BY <1>2 DEF PollEnds, Pause
<1> QED
  BY <1>1, <1>2

(* A death of either side.                                                 *)
LEMMA FaultStep == ASSUME IInv, Crash \/ Interrupted PROVE IInv'
<1> USE DEF IInv, TypeOK, AcksPublished, TransferInHand, ArchiveComplete, ReceiptTruthful,
            card, service, mac, receiver
<1>1. CASE Crash
  <2>1. commands' \in Seq(Command) /\ Len(commands') = 0
    BY <1>1 DEF Crash
  <2>2. faults' \in 0 .. MaxFaults
    BY <1>1 DEF Crash
  <2> QED
    BY <1>1, <2>1, <2>2 DEF Crash
<1>2. CASE Interrupted
  <2>1. faults' \in 0 .. MaxFaults
    BY <1>2 DEF Interrupted
  <2> QED
    BY <1>2, <2>1 DEF Interrupted, Pause
<1> QED
  BY <1>1, <1>2

LEMMA NextIInv == IInv /\ [Next]_vars => IInv'
<1> SUFFICES ASSUME IInv, [Next]_vars PROVE IInv'
  OBVIOUS
<1>1. CASE \E s \in Sessions, r \in Recordings : Record(s, r)
  BY <1>1, SessionStep
<1>2. CASE \E s \in Sessions, sealed \in BOOLEAN : Leave(s, sealed)
  <2>1. PICK s \in Sessions, sealed \in BOOLEAN : Leave(s, sealed)
    BY <1>2
  <2> QED
    BY <2>1, LeaveStep
<1>3. CASE Serve
  BY <1>3, ServeStep
<1>4. CASE Receive
  BY <1>4, LoopStep, CopyStep, CommandStep, PollStep DEF Receive
<1>5. CASE Crash \/ Interrupted
  BY <1>5, FaultStep
<1>6. CASE UNCHANGED vars
  BY <1>6 DEF vars, card, service, mac, receiver, IInv, TypeOK, AcksPublished,
              TransferInHand, ArchiveComplete, ReceiptTruthful
<1> QED
  BY <1>1, <1>2, <1>3, <1>4, <1>5, <1>6 DEF Next

----------------------------------------------------------------------------
(* IInv is an inductive invariant of the transfer: acknowledgments are     *)
(* about published sessions, and what is verified for publication is all   *)
(* the session was given.                                                  *)
THEOREM Inductive == Spec => []IInv
<1> QED
  BY InitIInv, NextIInv, PTL DEF Spec

(* Every variable of the service, the receiver and the card keeps its      *)
(* type.                                                                   *)
THEOREM TransferTypes == Spec => []TypeOK
<1>1. IInv => TypeOK
  BY DEF IInv
<1> QED
  BY <1>1, Inductive, PTL

(* No recording is lost, whichever side dies between which two steps and   *)
(* whatever copy comes out wrong: archiveSession removes what archive()    *)
(* has verified, and nothing else.                                         *)
THEOREM RecordingsKept == Spec => []NothingLost
<1>1. IInv => NothingLost
  BY DEF IInv, ArchiveComplete, NothingLost
<1> QED
  BY <1>1, Inductive, PTL

(* A published archive holds every recording of its session, also when the *)
(* receiver has sessions sealed while others record.                       *)
THEOREM ArchivesAreComplete == Spec => []ArchiveComplete
<1>1. IInv => ArchiveComplete
  BY DEF IInv
<1> QED
  BY <1>1, Inductive, PTL

(* A receipt of archiveSession, and the device_captures_removed of a       *)
(* report, are never there before the directory is gone, and the directory *)
(* never comes back.                                                       *)
THEOREM ReceiptsAreTruthful == Spec => []ReceiptTruthful
<1>1. IInv => ReceiptTruthful
  BY DEF IInv
<1> QED
  BY <1>1, Inductive, PTL
=============================================================================
