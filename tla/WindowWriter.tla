---------------------------- MODULE WindowWriter ----------------------------
(***************************************************************************)
(* The background writer of the pad service (class WindowWriter and        *)
(* ExclusiveOutputFile).  The service thread hands capture windows over a  *)
(* bounded queue; one worker thread saves each of them as a raw file and a *)
(* JSON manifest and pushes a result the service thread later takes.       *)
(*                                                                         *)
(* A trial is named by an identifier of Trials; jobs carry a serial number *)
(* so that the contents of two windows with one identifier differ.  File   *)
(* contents are abstracted to the job that wrote them.  Every step of a    *)
(* save may fail where Faults allows it, and the process may die and       *)
(* restart between any two steps; what is on disk survives.                *)
(***************************************************************************)
EXTENDS Naturals, Sequences

CONSTANTS
  Trials,    (* trial identifiers (newIdentifier)                          *)
  Capacity,  (* queue slots; 8 in the code                                 *)
  MaxJobs,   (* bound of the model: windows ever enqueued                  *)
  Faults     (* the steps of a save that may fail                          *)

Steps == {"directory", "space", "raw", "write", "manifest", "text", "rename",
          "stat", "remove"}

ASSUME WriterAssumption ==
  /\ Trials # {}
  /\ Capacity \in Nat \ {0}
  /\ MaxJobs \in Nat
  /\ Faults \subseteq Steps

VARIABLES
  queue,     (* windows waiting, oldest first                              *)
  results,   (* results not yet taken                                      *)
  working,   (* the worker holds a window                                  *)
  ending,    (* the destructor has run                                     *)
  pc,        (* where the worker is in run() and save()                    *)
  job,       (* the window the worker holds, meaningful while working      *)
  made,      (* what createdRaw, createdMetadata, publishedMetadata record *)
  raw,       (* <id>.omadc or <id>.omseq                                   *)
  pending,   (* <id>.json.pending: the job that wrote it, 0 if absent      *)
  final,     (* <id>.json: the job that published it, 0 if absent          *)
  accepted,  (* history: serial number of the last window enqueued         *)
  answered   (* history: last serial number taken, or lost in a restart    *)

disk == <<raw, pending, final>>
handover == <<queue, results, working, ending, accepted, answered>>
vars == <<queue, results, working, ending, pc, job, made, raw, pending, final,
          accepted, answered>>

Jobs == [id : Trials, n : Nat]
Results == [id : Trials, n : Nat, ok : BOOLEAN]
RawFiles == [n : Nat, state : {"absent", "open", "closed"}]
Labels == {"waiting", "check", "raw", "write", "manifest", "text", "rename",
           "stat", "dropRaw", "dropPending", "dropFinal", "push", "exited"}

NoFile == [n |-> 0, state |-> "absent"]

\* The job number and identifier the save in progress works on.
Id == job.id
MayFail(step) == step \in Faults

\* pendingJobs().
PendingJobs == Len(queue) + (IF working THEN 1 ELSE 0)

\* enqueue() refuses a ninth window.
Room == Len(queue) < Capacity

\* run() takes the window at the front; the mutant the one at the back.
Newest == queue[Len(queue)]
Oldest == Head(queue)

\* run() returns once it is ending and nothing is queued; one mutant drops the
\* queue, one waits for results nobody takes any more.
EndsAtOnce == ending
EndsWhenTaken == ending /\ queue = <<>> /\ results = <<>>
MayEnd == ending /\ queue = <<>>

\* What a raw file is after close().
Closed(n) == [n |-> n, state |-> "closed"]

\* Whether the result carries no error; the mutant loses the error.
SavedAlways == TRUE
Saved == "final" \in made

\* A trial a reader of the directory can rely on: manifest and closed raw file
\* of one and the same window.
Complete(t) == final[t] # 0 /\ raw[t] = [n |-> final[t], state |-> "closed"]
-----------------------------------------------------------------------------
Idle == /\ queue = <<>> /\ results = <<>> /\ working = FALSE /\ ending = FALSE
        /\ pc = "waiting" /\ made = {}

Init ==
  /\ Idle
  /\ job \in [id : Trials, n : {0}]
  /\ raw = [t \in Trials |-> NoFile]
  /\ pending = [t \in Trials |-> 0]
  /\ final = [t \in Trials |-> 0]
  /\ accepted = 0
  /\ answered = 0
-----------------------------------------------------------------------------
(* The service thread. *)

\* enqueue(); with a full queue it throws and changes nothing.
Enqueue(t) ==
  /\ ~ending
  /\ accepted < MaxJobs
  /\ Room
  /\ accepted' = accepted + 1
  /\ queue' = Append(queue, [id |-> t, n |-> accepted + 1])
  /\ UNCHANGED <<results, working, ending, pc, job, made, disk, answered>>

TakeResults ==
  /\ ~ending
  /\ results # <<>>
  /\ answered' = answered + Len(results)
  /\ results' = <<>>
  /\ UNCHANGED <<queue, working, ending, pc, job, made, disk, accepted>>

\* ~WindowWriter(): the destructor then waits for the worker to return.
Shutdown ==
  /\ ~ending
  /\ ending' = TRUE
  /\ UNCHANGED <<queue, results, working, pc, job, made, disk, accepted, answered>>

\* The process dies at any point, or has ended, and the service is started again.
Restart ==
  /\ queue # <<>> \/ results # <<>> \/ working \/ ending
  /\ queue' = <<>> /\ results' = <<>> /\ working' = FALSE /\ ending' = FALSE
  /\ pc' = "waiting" /\ made' = {}
  /\ answered' = accepted
  /\ UNCHANGED <<job, disk, accepted>>
-----------------------------------------------------------------------------
(* The worker: run() and save(). *)

Dequeue ==
  /\ pc = "waiting"
  /\ queue # <<>>
  /\ job' = Oldest
  /\ queue' = Tail(queue)
  /\ working' = TRUE
  /\ made' = {}
  /\ pc' = "check"
  /\ UNCHANGED <<results, ending, disk, accepted, answered>>

Exit ==
  /\ pc = "waiting"
  /\ MayEnd
  /\ pc' = "exited"
  /\ UNCHANGED <<handover, job, made, disk>>

\* A failing step enters the catch block, which undoes what the flags record.
Abort == pc' = "dropRaw" /\ UNCHANGED <<handover, job, made, disk>>

\* create_directories is outside the try block: run() reports the error.
NoDirectory ==
  /\ pc = "check" /\ MayFail("directory")
  /\ pc' = "push"
  /\ UNCHANGED <<handover, job, made, disk>>

\* The names must be unused and 16 MiB must remain free.
Check ==
  /\ pc = "check"
  /\ \/ /\ final[Id] # 0 \/ pending[Id] # 0 \/ MayFail("space")
        /\ Abort
     \/ /\ final[Id] = 0 /\ pending[Id] = 0
        /\ pc' = "raw"
        /\ UNCHANGED <<handover, job, made, disk>>

\* fopen "wbx": an existing file makes the exclusive creation fail.
CreateRaw ==
  /\ pc = "raw"
  /\ \/ /\ raw[Id] # NoFile \/ MayFail("raw")
        /\ Abort
     \/ /\ raw[Id] = NoFile
        /\ raw' = [raw EXCEPT ![Id] = [n |-> job.n, state |-> "open"]]
        /\ made' = made \cup {"raw"}
        /\ pc' = "write"
        /\ UNCHANGED <<handover, job, pending, final>>

WriteRaw ==
  /\ pc = "write"
  /\ \/ MayFail("write") /\ Abort
     \/ /\ raw' = [raw EXCEPT ![Id] = Closed(job.n)]
        /\ pc' = "manifest"
        /\ UNCHANGED <<handover, job, made, pending, final>>

CreateManifest ==
  /\ pc = "manifest"
  /\ \/ /\ pending[Id] # 0 \/ MayFail("manifest")
        /\ Abort
     \/ /\ pending[Id] = 0
        /\ pending' = [pending EXCEPT ![Id] = job.n]
        /\ made' = made \cup {"pending"}
        /\ pc' = "text"
        /\ UNCHANGED <<handover, job, raw, final>>

WriteManifest ==
  /\ pc = "text"
  /\ \/ MayFail("text") /\ Abort
     \/ pc' = "rename" /\ UNCHANGED <<handover, job, made, disk>>

Publish ==
  /\ pc = "rename"
  /\ \/ MayFail("rename") /\ Abort
     \/ /\ final' = [final EXCEPT ![Id] = pending[Id]]
        /\ pending' = [pending EXCEPT ![Id] = 0]
        /\ made' = made \cup {"final"}
        /\ pc' = "stat"
        /\ UNCHANGED <<handover, job, raw>>

\* file_size of both files, added to the data set's size under the lock.
Account ==
  /\ pc = "stat"
  /\ \/ MayFail("stat") /\ Abort
     \/ pc' = "push" /\ UNCHANGED <<handover, job, made, disk>>

\* The catch block removes what its flags say this save has made; errors of
\* remove() are ignored. The mutant forgets the flags.
UndoAny(file, removal) == removal \/ (MayFail("remove") /\ UNCHANGED disk)
Undo(file, removal) ==
  \/ file \in made /\ removal
  \/ file \notin made /\ UNCHANGED disk
  \/ MayFail("remove") /\ UNCHANGED disk

DropRaw ==
  /\ pc = "dropRaw"
  /\ Undo("raw", raw' = [raw EXCEPT ![Id] = NoFile] /\ UNCHANGED <<pending, final>>)
  /\ pc' = "dropPending"
  /\ UNCHANGED <<handover, job, made>>

DropPending ==
  /\ pc = "dropPending"
  /\ Undo("pending", pending' = [pending EXCEPT ![Id] = 0] /\ UNCHANGED <<raw, final>>)
  /\ pc' = "dropFinal"
  /\ UNCHANGED <<handover, job, made>>

DropFinal ==
  /\ pc = "dropFinal"
  /\ Undo("final", final' = [final EXCEPT ![Id] = 0] /\ UNCHANGED <<raw, pending>>)
  /\ made' = {}
  /\ pc' = "push"
  /\ UNCHANGED <<handover, job>>

\* The result and the end of the work become visible under one lock.
Push ==
  /\ pc = "push"
  /\ results' = Append(results, [id |-> Id, n |-> job.n, ok |-> Saved])
  /\ working' = FALSE
  /\ made' = {}
  /\ pc' = "waiting"
  /\ UNCHANGED <<queue, ending, job, disk, accepted, answered>>
-----------------------------------------------------------------------------
Save ==
  \/ NoDirectory \/ Check \/ CreateRaw \/ WriteRaw \/ CreateManifest
  \/ WriteManifest \/ Publish \/ Account \/ DropRaw \/ DropPending \/ DropFinal

Worker == Dequeue \/ Save \/ Push \/ Exit

Next ==
  \/ \E t \in Trials : Enqueue(t)
  \/ TakeResults \/ Shutdown \/ Restart
  \/ Worker

Spec == Init /\ [][Next]_vars

\* The worker is a running thread; the service thread promises nothing.
FairSpec == Spec /\ WF_vars(Worker)
-----------------------------------------------------------------------------
TypeOK ==
  /\ queue \in Seq(Jobs)
  /\ results \in Seq(Results)
  /\ working \in BOOLEAN /\ ending \in BOOLEAN
  /\ pc \in Labels
  /\ job \in Jobs
  /\ made \subseteq {"raw", "pending", "final"}
  /\ raw \in [Trials -> RawFiles]
  /\ pending \in [Trials -> Nat]
  /\ final \in [Trials -> Nat]
  /\ accepted \in Nat /\ answered \in Nat

\* Every window accepted is answered once and in order: taken, waiting among
\* the results, held by the worker, or queued (WindowWriter::enqueue, run,
\* takeResults).  A restart answers for what it loses.
InOrder ==
  LET inflight == IF working THEN 1 ELSE 0
      first == answered + Len(results) + inflight
  IN /\ Len(queue) <= Capacity
     /\ \A i \in 1..Len(results) : results[i].n = answered + i
     /\ working => job.n = answered + Len(results) + 1
     /\ \A i \in 1..Len(queue) : queue[i].n = first + i
     /\ accepted = first + Len(queue)

\* A manifest in the directory names a closed raw file of the same window, in
\* every state a crash may leave, as long as stat does not fail after the rename
\* (WindowWriter::save and its catch block).
PublishedComplete == \A t \in Trials : final[t] # 0 => Complete(t)

Truthful(r) == IF r.ok THEN Complete(r.id) /\ final[r.id] = r.n ELSE final[r.id] # r.n

\* What the service is told agrees with the disk: success means a complete
\* trial of that very window, failure means no manifest of that window
\* (WindowWriter::save returning result.error).
ResultsTruthful == \A i \in DOMAIN results : Truthful(results[i])

\* A worker that returned left no window unsaved (the destructor drains).
DrainedAtExit ==
  pc = "exited" => /\ queue = <<>>
                   /\ accepted = answered + Len(results)

\* What a save in progress has made and left on disk, by where the worker is:
\* the link between the created flags of save() and the files its catch block
\* removes. The invariants above need it to be inductive.
Has(file) == file \in made

SaveConsistent ==
  /\ working <=> pc \notin {"waiting", "exited"}
  /\ pc = "exited" => ending /\ queue = <<>>
  /\ pc \in {"waiting", "exited", "check", "raw"} => ~Has("raw")
  /\ pc \in {"waiting", "exited", "check", "raw", "write", "manifest"} => ~Has("pending")
  /\ pc \notin {"stat", "dropRaw", "dropPending", "dropFinal", "push"} => ~Has("final")
  /\ pc \in {"write", "manifest", "text", "rename", "stat"} => Has("raw")
  /\ pc \in {"text", "rename"} => Has("pending") /\ pending[Id] = job.n
  /\ pc = "write" => raw[Id] = [n |-> job.n, state |-> "open"]
  /\ pc \in {"manifest", "text", "rename", "stat"} =>
       raw[Id] = [n |-> job.n, state |-> "closed"]
  /\ pc \in {"raw", "write", "manifest", "text", "rename"} => final[Id] = 0
  /\ pc = "stat" => Has("final") /\ final[Id] = job.n
  /\ pc \in {"dropRaw", "dropPending", "dropFinal"} =>
       IF Has("final") THEN "stat" \in Faults /\ final[Id] = job.n ELSE final[Id] # job.n
  /\ pc = "dropRaw" /\ Has("raw") =>
       /\ raw[Id].n = job.n
       /\ ~Has("final") => final[Id] = 0
  /\ pc = "dropRaw" /\ Has("final") => Has("raw")
  /\ pc \in {"dropPending", "dropFinal"} /\ Has("final") /\ "remove" \notin Faults =>
       raw[Id] = NoFile
  /\ pc = "push" =>
       /\ Has("final") => Complete(Id) /\ final[Id] = job.n
       /\ ~Has("final") /\ ~({"stat", "remove"} \subseteq Faults) => final[Id] # job.n

\* No manifest names a window that is still to be saved.
ManifestsOld ==
  \A t \in Trials :
    \/ final[t] <= answered + Len(results)
    \/ /\ working /\ t = Id /\ final[t] = job.n
       /\ pc \in {"stat", "dropRaw", "dropPending", "dropFinal", "push"}

IInv == TypeOK /\ InOrder /\ SaveConsistent /\ ManifestsOld

\* A manifest appears only once the raw file of the same window is closed
\* ("The final manifest is published only after the raw file closes").
PublishAfterClose ==
  [][\A t \in Trials : final'[t] # 0 /\ final'[t] # final[t]
        => raw[t] = [n |-> final'[t], state |-> "closed"]]_vars

\* A save that meets an identifier already on disk leaves the trial found there
\* alone, whatever fails (exclusive creation and the created flags of save()).
TrialsKept ==
  [][\A t \in Trials :
        Complete(t) /\ ~(working /\ job = [id |-> t, n |-> final[t]])
          => UNCHANGED <<final[t], raw[t]>>]_vars

\* While pendingJobs() is 0 the worker touches no file: archive-seal lists a
\* directory on the strength of it.
QuietWhenIdle == [][PendingJobs = 0 => UNCHANGED disk]_vars

\* The writer implements TrialStore: files and steps of a save hide behind
\* trials that appear at once (Publish) or not at all.
Unanswered == IF working THEN <<job>> \o queue ELSE queue
CompleteTrials == [t \in Trials |-> IF Complete(t) THEN final[t] ELSE 0]

Store == INSTANCE TrialStore WITH
  waiting <- Unanswered, answers <- results, trials <- CompleteTrials

ImplementsTrialStore == Store!Spec

\* A window accepted is answered unless the process dies (run() keeps working
\* through the queue, also while the destructor waits).
EveryJobAnswered ==
  \A n \in 1..MaxJobs : (accepted >= n) ~> (answered + Len(results) >= n)

\* The destructor's join returns.
WorkerExits == ending ~> (pc = "exited" \/ ~ending)
=============================================================================
