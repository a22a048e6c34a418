--------------------------- MODULE ArchiveTransfer ---------------------------
(***************************************************************************)
(* How a finished recording session leaves the module: the service seals   *)
(* its directory on the SD card, the receiver on the Mac copies it,        *)
(* verifies the copy, publishes it and acknowledges; the service then      *)
(* removes the files one by one and leaves a receipt.  The receiver works  *)
(* through ssh, the acknowledgment is a line in the FIFO of the service,   *)
(* and either side may die between any two of its steps.                   *)
(*                                                                         *)
(* That a sealed session receives no further recording is what PadService  *)
(* is about, and is taken for granted here.                                *)
(***************************************************************************)
EXTENDS Naturals, Sequences, FiniteSets

CONSTANTS
    Sessions,
    None,             \* not a session
    Recordings,       \* files a session may hold, ready.json apart
    ImportExisting,   \* the receiver asks for sessions to be sealed
    Faults,           \* "crash": the service dies; "gap": even in the gap
                      \* below; "quit": the receiver dies; "ssh": a remote
                      \* command fails; "corrupt": a copy comes out different
    MaxFaults,        \* bound of the model: faults in a behaviour
    MaxCommands       \* bound of the model: lines in the FIFO

ASSUME TransferAssumption ==
    None \notin Sessions /\ MaxFaults \in Nat /\ MaxCommands \in Nat

VARIABLES
    open,             \* sessions that may still record
    recorded,         \* the recordings each session was given, ever
    dir,              \* sessions whose directory is on the card
    files,            \* the recordings in it
    ready,            \* sessions with a ready.json
    receipt,          \* sessions with a receipt
    commands,         \* the FIFO of the service
    serving,          \* the session whose files are being removed, or None
    published,        \* sessions with a directory under measurements/
    copy,             \* the recordings verified in it (verified_files)
    removed,          \* sessions whose report says device_captures_removed
    rpc,              \* where the receiver is
    phase,            \* which loop of its pass: pending or identities
    todo,             \* sessions that loop has yet to visit
    current,          \* the session in hand
    expected,         \* checksums read from the card
    staged,           \* what is in the staging directory
    faults            \* faults so far

card     == <<open, recorded, dir, files, ready, receipt>>
service  == <<commands, serving>>
mac      == <<published, copy, removed>>
receiver == <<rpc, phase, todo, current, expected, staged>>
vars == <<card, service, mac, receiver, faults>>

Command == {"seal", "ack"} \X Sessions

TypeOK ==
    /\ open \subseteq dir /\ dir \subseteq Sessions
    /\ ready \subseteq dir \ open /\ receipt \subseteq Sessions
    /\ recorded \in [Sessions -> SUBSET Recordings]
    /\ files \in [Sessions -> SUBSET Recordings]
    /\ \A s \in Sessions \ dir : files[s] = {}
    /\ commands \in Seq(Command) /\ serving \in Sessions \cup {None}
    /\ published \subseteq Sessions /\ removed \subseteq published
    /\ copy \in [Sessions -> SUBSET Recordings]
    /\ rpc \in {"pause", "next", "look", "sums", "scp", "recheck", "publish",
                "release", "poll"}
    /\ phase \in {"pending", "identities"}
    /\ todo \subseteq Sessions /\ current \in Sessions \cup {None}
    /\ expected \subseteq Recordings /\ staged \subseteq Recordings
    /\ faults \in 0 .. MaxFaults

Init ==
    /\ open = Sessions /\ dir = Sessions /\ ready = {} /\ receipt = {}
    /\ recorded = [s \in Sessions |-> {}] /\ files = [s \in Sessions |-> {}]
    /\ commands = <<>> /\ serving = None
    /\ published = {} /\ copy = [s \in Sessions |-> {}] /\ removed = {}
    /\ rpc = "pause" /\ phase = "pending" /\ todo = {} /\ current = None
    /\ expected = {} /\ staged = {} /\ faults = 0

----------------------------------------------------------------------------
(* The service.  A session records (the writer thread publishes the files) *)
(* and is sealed when its calibration completes, or left unsealed when it  *)
(* is stopped.                                                             *)
Record(s, r) ==
    /\ s \in open /\ r \notin files[s]
    /\ files' = [files EXCEPT ![s] = @ \cup {r}]
    /\ recorded' = [recorded EXCEPT ![s] = @ \cup {r}]
    /\ UNCHANGED <<open, dir, ready, receipt, service, mac, receiver, faults>>

Leave(s, sealed) ==
    /\ s \in open /\ serving = None /\ (sealed => files[s] # {})
    /\ open' = open \ {s}
    /\ ready' = IF sealed THEN ready \cup {s} ELSE ready
    /\ UNCHANGED <<recorded, dir, files, receipt, service, mac, receiver, faults>>

(* archive-seal, read from the FIFO: refused while the session records, and *)
(* when a death left an unpublished file in its directory.  A session that *)
(* is sealed between two stages records no more: for the model it was left *)
(* just before.                                                            *)
StillThere == dir
MaySeal == dir \ open
Seal ==
    /\ serving = None /\ commands # <<>> /\ Head(commands)[1] = "seal"
    /\ \/ UNCHANGED ready
       \/ Head(commands)[2] \in MaySeal /\ ready' = ready \cup {Head(commands)[2]}
    /\ commands' = Tail(commands)
    /\ UNCHANGED <<open, recorded, dir, files, receipt, serving, mac, receiver, faults>>

(* archive-ack: a directory that is gone gets its receipt, one that is not *)
(* sealed is refused, and a sealed one is removed.                         *)
Acknowledged(s) == s \notin dir
Refused(s)      == s \in open \/ s \in dir \ ready

Ack ==
    /\ serving = None /\ commands # <<>> /\ Head(commands)[1] = "ack"
    /\ LET s == Head(commands)[2]
       IN  \/ Acknowledged(s) /\ receipt' = receipt \cup {s} /\ UNCHANGED serving
           \/ ~Acknowledged(s) /\ Refused(s) /\ UNCHANGED <<receipt, serving>>
           \/ ~Acknowledged(s) /\ ~Refused(s) /\ serving' = s /\ UNCHANGED receipt
    /\ commands' = Tail(commands)
    /\ UNCHANGED <<open, recorded, dir, files, ready, mac, receiver, faults>>

RemoveFile(r) ==
    /\ serving # None /\ r \in files[serving]
    /\ files' = [files EXCEPT ![serving] = @ \ {r}]
    /\ UNCHANGED <<open, recorded, dir, ready, receipt, service, mac, receiver, faults>>

RemoveReady ==
    /\ serving \in ready /\ files[serving] = {}
    /\ ready' = ready \ {serving}
    /\ UNCHANGED <<open, recorded, dir, files, receipt, service, mac, receiver, faults>>

RemoveDirectory ==
    /\ serving \in dir \ ready
    /\ dir' = dir \ {serving}
    /\ UNCHANGED <<open, recorded, files, ready, receipt, service, mac, receiver, faults>>

ReceiptFirst == serving # None /\ files[serving] = {}
MayReceipt == serving # None /\ serving \notin dir
WriteReceipt ==
    /\ MayReceipt
    /\ receipt' = receipt \cup {serving} /\ serving' = None
    /\ UNCHANGED <<open, recorded, dir, files, ready, commands, mac, receiver, faults>>

(* The service dies and is started again: the FIFO is empty, sessions that *)
(* were recording are never continued.  The gap is where the directory is  *)
(* empty and unsealed.                                                     *)
InTheGap == serving \in dir \ ready
Crash ==
    /\ "crash" \in Faults /\ (InTheGap => "gap" \in Faults)
    /\ faults < MaxFaults
    /\ faults' = faults + 1
    /\ commands' = <<>> /\ serving' = None /\ open' = {}
    /\ UNCHANGED <<recorded, dir, files, ready, receipt, mac, receiver>>

----------------------------------------------------------------------------
(* The receiver.  Anything that goes wrong pauses it, and the pass starts  *)
(* again from its first loop.                                              *)
Pause ==
    /\ rpc' = "pause" /\ current' = None
    /\ todo' = {} /\ expected' = {} /\ staged' = {} /\ phase' = "pending"

(* Published sessions the card has not been released from come first.      *)
BeginPass ==
    /\ rpc = "pause"
    /\ rpc' = "next" /\ phase' = "pending"
    /\ todo' = published \ removed
    /\ UNCHANGED <<card, service, mac, current, expected, staged, faults>>

Visit(s) ==
    /\ rpc = "next" /\ s \in todo
    /\ current' = s /\ todo' = todo \ {s} /\ rpc' = "look"
    /\ UNCHANGED <<card, service, mac, phase, expected, staged, faults>>

(* identities: when asked to, have sessions sealed; list the sealed ones.  *)
Identities ==
    /\ rpc = "next" /\ todo = {} /\ phase = "pending"
    /\ phase' = "identities" /\ todo' = ready
    /\ \/ UNCHANGED commands
       \/ /\ ImportExisting /\ Len(commands) < MaxCommands
          /\ \E s \in dir : commands' = Append(commands, <<"seal", s>>)
    /\ UNCHANGED <<card, serving, mac, rpc, current, expected, staged, faults>>

EndPass ==
    /\ rpc = "next" /\ todo = {} /\ phase = "identities"
    /\ Pause
    /\ UNCHANGED <<card, service, mac, faults>>

(* archive: an archive whose source is gone only lacks its receipt.        *)
NothingToRead == {}
SourceGone == published \ dir
Look ==
    /\ rpc = "look"
    /\ rpc' = IF current \in SourceGone THEN "release" ELSE "sums"
    /\ UNCHANGED <<card, service, mac, phase, todo, current, expected, staged, faults>>

(* checksums of the source; an existing archive must contain them all.     *)
Sums ==
    /\ rpc = "sums" /\ current \in ready
    /\ IF current \notin published THEN rpc' = "scp" /\ expected' = files[current]
       ELSE files[current] \subseteq copy[current]
            /\ rpc' = "release" /\ UNCHANGED expected
    /\ UNCHANGED <<card, service, mac, phase, todo, current, staged, faults>>

(* "session is not sealed", no such directory, or "existing archive        *)
(* conflicts with the module".                                             *)
SumsFail ==
    /\ rpc = "sums"
    /\ \/ current \notin ready
       \/ current \in published /\ ~files[current] \subseteq copy[current]
    /\ Pause
    /\ UNCHANGED <<card, service, mac, faults>>

(* scp into the staging directory; a copy may come out different.          *)
Scp ==
    /\ rpc = "scp"
    /\ \/ staged' = expected /\ UNCHANGED faults
       \/ /\ "corrupt" \in Faults /\ faults < MaxFaults
          /\ staged' \in SUBSET expected /\ faults' = faults + 1
    /\ rpc' = "recheck"
    /\ UNCHANGED <<card, service, mac, phase, todo, current, expected>>

(* The source is read again and the staged files are verified.             *)
SourceUnchanged == current \in ready /\ files[current] = expected
SameAsSource == current \in ready /\ files[current] = expected /\ staged = expected
Recheck ==
    /\ rpc = "recheck" /\ SameAsSource
    /\ rpc' = "publish"
    /\ UNCHANGED <<card, service, mac, phase, todo, current, expected, staged, faults>>

RecheckFails ==
    /\ rpc = "recheck" /\ ~SameAsSource
    /\ Pause
    /\ UNCHANGED <<card, service, mac, faults>>

(* Flush, write the report and rename the staging directory.               *)
Publish ==
    /\ rpc = "publish"
    /\ published' = published \cup {current}
    /\ copy' = [copy EXCEPT ![current] = staged]
    /\ rpc' = "release"
    /\ UNCHANGED <<card, service, removed, phase, todo, current, expected, staged, faults>>

(* acknowledge: the local archive is verified and archive-ack is sent.     *)
Release ==
    /\ rpc = "release" /\ Len(commands) < MaxCommands
    /\ commands' = Append(commands, <<"ack", current>>)
    /\ rpc' = "poll"
    /\ UNCHANGED <<card, serving, mac, phase, todo, current, expected, staged, faults>>

Released ==
    /\ rpc = "poll" /\ current \in receipt
    /\ removed' = removed \cup {current}
    /\ rpc' = "next" /\ current' = None /\ expected' = {} /\ staged' = {}
    /\ UNCHANGED <<card, service, published, copy, phase, todo, faults>>

(* Fifty looks at the receipt and none is there.                           *)
PollEnds ==
    /\ rpc = "poll" /\ current \notin receipt
    /\ Pause
    /\ UNCHANGED <<card, service, mac, faults>>

(* The connection drops, or the receiver is stopped and started again.     *)
Interrupted ==
    /\ Faults \cap {"ssh", "quit"} # {} /\ faults < MaxFaults /\ rpc # "pause"
    /\ faults' = faults + 1
    /\ Pause
    /\ UNCHANGED <<card, service, mac>>

----------------------------------------------------------------------------
Serve == Seal \/ Ack \/ (\E r \in Recordings : RemoveFile(r)) \/ RemoveReady
           \/ RemoveDirectory \/ WriteReceipt
Receive == BeginPass \/ (\E s \in Sessions : Visit(s)) \/ Identities \/ EndPass
             \/ Look \/ Sums \/ SumsFail \/ Scp \/ Recheck \/ RecheckFails
             \/ Publish \/ Release \/ Released \/ PollEnds

Next ==
    \/ \E s \in Sessions, r \in Recordings : Record(s, r)
    \/ \E s \in Sessions, sealed \in BOOLEAN : Leave(s, sealed)
    \/ Serve \/ Receive \/ Crash \/ Interrupted

Spec == Init /\ [][Next]_vars

(* The service reads its FIFO and the receiver goes on with its pass; a    *)
(* receipt that is there is found by one of its polls.                     *)
FairSpec == Spec /\ WF_vars(Serve) /\ WF_vars(Receive) /\ SF_vars(Released)

----------------------------------------------------------------------------
(* No recording is lost: what a session was given is on the card or in the *)
(* verified archive, whatever dies and whatever copy comes out wrong.      *)
NothingLost ==
    \A s \in Sessions :
        recorded[s] \subseteq files[s] \cup (IF s \in published THEN copy[s] ELSE {})

(* What is published is the whole session: no recording follows the seal   *)
(* into an archive that is already taken.                                  *)
ArchiveComplete == \A s \in published : copy[s] = recorded[s]

(* A receipt, and with it the device_captures_removed of a report, says    *)
(* that the directory of the session is gone from the card for good.       *)
ReceiptTruthful == receipt \cap dir = {} /\ removed \subseteq receipt

(* The inductive invariant behind these: an acknowledgment, from the line  *)
(* in the FIFO to the last file removed, is about a published session; the *)
(* directory that loses its ready.json is already empty.                   *)
AcksPublished ==
    /\ \A i \in 1 .. Len(commands) : commands[i][1] = "ack" => commands[i][2] \in published
    /\ serving \in published \cup {None}
    /\ serving \in Sessions \ ready => files[serving] = {}
    /\ rpc \in {"release", "poll"} => current \in published

TransferInHand ==
    /\ rpc \notin {"pause", "next"} => current \in Sessions
    /\ rpc \in {"scp", "recheck", "publish"} => current \notin published
    /\ rpc = "publish" => current \notin open /\ staged = recorded[current]

IInv ==
    /\ TypeOK /\ AcksPublished /\ TransferInHand
    /\ open \cap published = {}
    /\ \A s \in Sessions \ published : files[s] = recorded[s]
    /\ ArchiveComplete /\ ReceiptTruthful

(* A published session is released from the card: "Interrupted             *)
(* acknowledgments can be retried from the durable verified Mac archive."  *)
AcknowledgmentRetried == \A s \in Sessions : s \in published ~> s \in removed

(* Every sealed session ends up on the Mac.                                *)
SealedArchived == \A s \in Sessions : s \in ready ~> s \in published
=============================================================================
