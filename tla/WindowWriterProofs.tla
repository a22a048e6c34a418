------------------------- MODULE WindowWriterProofs -------------------------
(* Proofs about WindowWriter, for every set of identifiers, every capacity    *)
(* and every number of windows.                                               *)
EXTENDS WindowWriter, TLAPS

USE WriterAssumption DEF Room, Oldest, MayEnd, Closed, Saved, Undo, MayFail

LEMMA InitIInv == Init => IInv
<1> SUFFICES ASSUME Init PROVE IInv
  OBVIOUS
<1> USE DEF Init, Idle, NoFile
<1>1. TypeOK
  <2>1. queue \in Seq(Jobs) /\ results \in Seq(Results)
    OBVIOUS
  <2>2. pc \in Labels /\ job \in Jobs /\ raw \in [Trials -> RawFiles]
    BY DEF Labels, Jobs, RawFiles
  <2> QED
    BY <2>1, <2>2 DEF TypeOK
<1>2. InOrder
  BY DEF InOrder
<1>3. SaveConsistent
  BY DEF SaveConsistent, Has
<1>4. ManifestsOld
  <2>1. \A t \in Trials : final[t] = 0
    OBVIOUS
  <2>2. answered + Len(results) = 0
    OBVIOUS
  <2>3. ASSUME NEW t \in Trials PROVE final[t] <= answered + Len(results)
    <3>1. final[t] = 0
      BY <2>1
    <3> QED
      BY <3>1, <2>2, 0 <= 0
  <2> HIDE DEF Init, Idle, NoFile
  <2> QED
    BY <2>3 DEF ManifestsOld
<1> QED
  BY <1>1, <1>2, <1>3, <1>4 DEF IInv

LEMMA TypeStep == TypeOK /\ InOrder /\ [Next]_vars => TypeOK'
<1> SUFFICES ASSUME TypeOK, InOrder, [Next]_vars PROVE TypeOK'
  OBVIOUS
<1> USE DEF TypeOK, Jobs, Results, RawFiles, Labels, NoFile, Id,
            disk, handover, Abort
<1>1. ASSUME NEW t \in Trials, Enqueue(t) PROVE TypeOK'
  BY <1>1 DEF Enqueue
<1>2. CASE TakeResults
  <2>1. queue' \in Seq(Jobs) /\ results' \in Seq(Results)
    BY <1>2 DEF TakeResults
  <2>2. working' \in BOOLEAN /\ ending' \in BOOLEAN
    BY <1>2 DEF TakeResults
  <2>3. pc' \in Labels /\ made' \subseteq {"raw", "pending", "final"} /\ job' \in Jobs
    BY <1>2 DEF TakeResults
  <2>4. raw' \in [Trials -> RawFiles]
    BY <1>2 DEF TakeResults
  <2>5. pending' \in [Trials -> Nat]
    BY <1>2 DEF TakeResults
  <2>6. final' \in [Trials -> Nat]
    BY <1>2 DEF TakeResults
  <2>7. accepted' \in Nat /\ answered' \in Nat
    BY <1>2 DEF TakeResults
  <2> QED
    BY <2>1, <2>2, <2>3, <2>4, <2>5, <2>6, <2>7
<1>3. CASE Shutdown
  BY <1>3 DEF Shutdown
<1>4. CASE Restart
  <2>1. queue' \in Seq(Jobs) /\ results' \in Seq(Results)
    BY <1>4 DEF Restart
  <2>2. working' \in BOOLEAN /\ ending' \in BOOLEAN
    BY <1>4 DEF Restart
  <2>3. pc' \in Labels /\ made' \subseteq {"raw", "pending", "final"} /\ job' \in Jobs
    BY <1>4 DEF Restart
  <2>4. raw' \in [Trials -> RawFiles]
    BY <1>4 DEF Restart
  <2>5. pending' \in [Trials -> Nat]
    BY <1>4 DEF Restart
  <2>6. final' \in [Trials -> Nat]
    BY <1>4 DEF Restart
  <2>7. accepted' \in Nat /\ answered' \in Nat
    BY <1>4 DEF Restart
  <2> QED
    BY <2>1, <2>2, <2>3, <2>4, <2>5, <2>6, <2>7
<1>5. CASE Dequeue
  <2>1. queue' \in Seq(Jobs) /\ results' \in Seq(Results)
    BY <1>5 DEF Dequeue
  <2>2. working' \in BOOLEAN /\ ending' \in BOOLEAN
    BY <1>5 DEF Dequeue
  <2>3. pc' \in Labels /\ made' \subseteq {"raw", "pending", "final"}
    BY <1>5 DEF Dequeue
  <2>8. job' \in Jobs
    <3>1. queue \in Seq(Jobs) /\ queue # <<>> /\ job' = Head(queue)
      BY <1>5 DEF Dequeue
    <3> HIDE DEF Jobs, TypeOK
    <3> QED
      BY <3>1
  <2>4. raw' \in [Trials -> RawFiles]
    BY <1>5 DEF Dequeue
  <2>5. pending' \in [Trials -> Nat]
    BY <1>5 DEF Dequeue
  <2>6. final' \in [Trials -> Nat]
    BY <1>5 DEF Dequeue
  <2>7. accepted' \in Nat /\ answered' \in Nat
    BY <1>5 DEF Dequeue
  <2> QED
    BY <2>1, <2>2, <2>3, <2>4, <2>5, <2>6, <2>7, <2>8
<1>6. CASE Exit
  BY <1>6 DEF Exit
<1>7. CASE NoDirectory
  BY <1>7 DEF NoDirectory
<1>8. CASE Check
  BY <1>8 DEF Check
<1>9. CASE CreateRaw
  <2>1. queue' \in Seq(Jobs) /\ results' \in Seq(Results)
    BY <1>9 DEF CreateRaw
  <2>2. working' \in BOOLEAN /\ ending' \in BOOLEAN
    BY <1>9 DEF CreateRaw
  <2>3. pc' \in Labels /\ made' \subseteq {"raw", "pending", "final"} /\ job' \in Jobs
    BY <1>9 DEF CreateRaw
  <2>4. raw' \in [Trials -> RawFiles]
    <3>1. [n |-> job.n, state |-> "open"] \in RawFiles
      OBVIOUS
    <3>2. \/ raw' = raw
          \/ raw' = [raw EXCEPT ![Id] = [n |-> job.n, state |-> "open"]]
      BY <1>9, Zenon DEF CreateRaw
    <3>3. raw \in [Trials -> RawFiles]
      OBVIOUS
    <3> HIDE DEF RawFiles
    <3> QED
      BY <3>1, <3>2, <3>3
  <2>5. pending' \in [Trials -> Nat]
    BY <1>9 DEF CreateRaw
  <2>6. final' \in [Trials -> Nat]
    BY <1>9 DEF CreateRaw
  <2>7. accepted' \in Nat /\ answered' \in Nat
    BY <1>9 DEF CreateRaw
  <2> QED
    BY <2>1, <2>2, <2>3, <2>4, <2>5, <2>6, <2>7
<1>10. CASE WriteRaw
  <2>1. queue' \in Seq(Jobs) /\ results' \in Seq(Results)
    BY <1>10 DEF WriteRaw
  <2>2. working' \in BOOLEAN /\ ending' \in BOOLEAN
    BY <1>10 DEF WriteRaw
  <2>3. pc' \in Labels /\ made' \subseteq {"raw", "pending", "final"} /\ job' \in Jobs
    BY <1>10 DEF WriteRaw
  <2>4. raw' \in [Trials -> RawFiles]
    <3>1. [n |-> job.n, state |-> "closed"] \in RawFiles
      OBVIOUS
    <3>2. \/ raw' = raw
          \/ raw' = [raw EXCEPT ![Id] = [n |-> job.n, state |-> "closed"]]
      BY <1>10, Zenon DEF WriteRaw
    <3>3. raw \in [Trials -> RawFiles]
      OBVIOUS
    <3> HIDE DEF RawFiles
    <3> QED
      BY <3>1, <3>2, <3>3
  <2>5. pending' \in [Trials -> Nat]
    BY <1>10 DEF WriteRaw
  <2>6. final' \in [Trials -> Nat]
    BY <1>10 DEF WriteRaw
  <2>7. accepted' \in Nat /\ answered' \in Nat
    BY <1>10 DEF WriteRaw
  <2> QED
    BY <2>1, <2>2, <2>3, <2>4, <2>5, <2>6, <2>7
<1>11. CASE CreateManifest
  BY <1>11 DEF CreateManifest
<1>12. CASE WriteManifest
  BY <1>12 DEF WriteManifest
<1>13. CASE Publish
  <2>1. queue' \in Seq(Jobs) /\ results' \in Seq(Results)
    BY <1>13 DEF Publish
  <2>2. working' \in BOOLEAN /\ ending' \in BOOLEAN
    BY <1>13 DEF Publish
  <2>3. pc' \in Labels /\ made' \subseteq {"raw", "pending", "final"} /\ job' \in Jobs
    BY <1>13 DEF Publish
  <2>4. raw' \in [Trials -> RawFiles]
    BY <1>13 DEF Publish
  <2>5. pending' \in [Trials -> Nat]
    <3>1. pending' = pending \/ pending' = [pending EXCEPT ![Id] = 0]
      BY <1>13 DEF Publish
    <3>2. pending \in [Trials -> Nat]
      OBVIOUS
    <3> HIDE DEF TypeOK, Id
    <3> QED
      BY <3>1, <3>2
  <2>6. final' \in [Trials -> Nat]
    BY <1>13 DEF Publish
  <2>7. accepted' \in Nat /\ answered' \in Nat
    BY <1>13 DEF Publish
  <2> QED
    BY <2>1, <2>2, <2>3, <2>4, <2>5, <2>6, <2>7
<1>14. CASE Account
  BY <1>14 DEF Account
<1>15. CASE DropRaw
  BY <1>15 DEF DropRaw
<1>16. CASE DropPending
  <2>1. queue' \in Seq(Jobs) /\ results' \in Seq(Results)
    BY <1>16 DEF DropPending
  <2>2. working' \in BOOLEAN /\ ending' \in BOOLEAN
    BY <1>16 DEF DropPending
  <2>3. pc' \in Labels /\ made' \subseteq {"raw", "pending", "final"} /\ job' \in Jobs
    BY <1>16 DEF DropPending
  <2>4. raw' \in [Trials -> RawFiles] /\ final' \in [Trials -> Nat]
    BY <1>16 DEF DropPending
  <2>5. pending' \in [Trials -> Nat]
    BY <1>16 DEF DropPending
  <2>6. accepted' \in Nat /\ answered' \in Nat
    BY <1>16 DEF DropPending
  <2> QED
    BY <2>1, <2>2, <2>3, <2>4, <2>5, <2>6
<1>17. CASE DropFinal
  <2>1. queue' \in Seq(Jobs) /\ results' \in Seq(Results)
    BY <1>17 DEF DropFinal
  <2>2. working' \in BOOLEAN /\ ending' \in BOOLEAN
    BY <1>17 DEF DropFinal
  <2>3. pc' \in Labels /\ made' \subseteq {"raw", "pending", "final"} /\ job' \in Jobs
    BY <1>17 DEF DropFinal
  <2>4. raw' \in [Trials -> RawFiles]
    BY <1>17 DEF DropFinal
  <2>5. pending' \in [Trials -> Nat]
    BY <1>17 DEF DropFinal
  <2>6. final' \in [Trials -> Nat]
    BY <1>17 DEF DropFinal
  <2>7. accepted' \in Nat /\ answered' \in Nat
    BY <1>17 DEF DropFinal
  <2> QED
    BY <2>1, <2>2, <2>3, <2>4, <2>5, <2>6, <2>7
<1>18. CASE Push
  <2>1. [id |-> Id, n |-> job.n, ok |-> "final" \in made] \in Results
    BY <1>18 DEF Push
  <2>2. queue' \in Seq(Jobs) /\ results' \in Seq(Results)
    BY <1>18, <2>1 DEF Push
  <2>3. working' \in BOOLEAN /\ ending' \in BOOLEAN
    BY <1>18 DEF Push
  <2>4. pc' \in Labels /\ made' \subseteq {"raw", "pending", "final"} /\ job' \in Jobs
    BY <1>18 DEF Push
  <2>5. raw' \in [Trials -> RawFiles] /\ pending' \in [Trials -> Nat] /\ final' \in [Trials -> Nat]
    BY <1>18 DEF Push
  <2>6. accepted' \in Nat /\ answered' \in Nat
    BY <1>18 DEF Push
  <2> QED
    BY <2>1, <2>2, <2>3, <2>4, <2>5, <2>6
<1>19. CASE UNCHANGED vars
  BY <1>19 DEF vars
<1> QED
  BY <1>1, <1>2, <1>3, <1>4, <1>5, <1>6, <1>7, <1>8, <1>9, <1>10, <1>11, <1>12, <1>13, <1>14,
     <1>15, <1>16, <1>17, <1>18, <1>19 DEF Next, Worker, Save

(* No step of a save touches what the two threads share. *)
LEMMA SaveShares == Save => UNCHANGED <<queue, results, working, ending, accepted, answered, job>>
<1> USE DEF Abort, handover
<1> QED
  BY DEF Save, NoDirectory, Check, CreateRaw, WriteRaw, CreateManifest, WriteManifest,
         Publish, Account, DropRaw, DropPending, DropFinal

(* The windows keep their order through queue, worker and results. *)
LEMMA InOrderStep == TypeOK /\ InOrder /\ (pc = "push" => working) /\ (pc = "waiting" => ~working) /\ [Next]_vars => InOrder'
<1> SUFFICES ASSUME TypeOK, InOrder, pc = "push" => working, pc = "waiting" => ~working, [Next]_vars
             PROVE  InOrder'
  OBVIOUS
<1>0. /\ queue \in Seq(Jobs) /\ results \in Seq(Results) /\ job \in Jobs
      /\ answered \in Nat /\ accepted \in Nat /\ working \in BOOLEAN
      /\ Capacity \in Nat
  BY DEF TypeOK
<1>1. ASSUME NEW t \in Trials, Enqueue(t) PROVE InOrder'
  <2>1. [id |-> t, n |-> accepted + 1] \in Jobs
    BY <1>0 DEF Jobs
  <2>2. /\ queue' = Append(queue, [id |-> t, n |-> accepted + 1])
        /\ Len(queue') = Len(queue) + 1 /\ Len(queue) < Capacity
        /\ accepted' = accepted + 1
        /\ UNCHANGED <<results, working, job, answered>>
    BY <1>0, <1>1, <2>1 DEF Enqueue
  <2>3. \A i \in 1..Len(queue') :
          queue'[i].n = IF i <= Len(queue) THEN queue[i].n ELSE accepted + 1
    BY <1>0, <2>1, <2>2
  <2> QED
    BY <1>0, <2>2, <2>3 DEF InOrder
<1>2. CASE TakeResults
  BY <1>0, <1>2 DEF TakeResults, InOrder, Jobs
<1>3. CASE Shutdown
  BY <1>0, <1>3 DEF Shutdown, InOrder, Jobs
<1>4. CASE Restart
  BY <1>0, <1>4 DEF Restart, InOrder, Jobs
<1>5. CASE Dequeue
  <2>1. /\ job' = Head(queue) /\ queue' = Tail(queue) /\ queue # <<>>
        /\ ~working /\ working' = TRUE
        /\ UNCHANGED <<results, accepted, answered>>
    BY <1>0, <1>5 DEF Dequeue, Oldest
  <2>2. /\ Len(queue) \in Nat /\ Len(queue) >= 1 /\ Len(queue') = Len(queue) - 1
        /\ job' = queue[1]
        /\ \A i \in 1..Len(queue') : queue'[i] = queue[i + 1]
    BY <1>0, <2>1
  <2>3. Len(results) \in Nat
    BY <1>0
  <2> QED
    BY <1>0, <2>1, <2>2, <2>3 DEF InOrder
<1>6. CASE Exit
  BY <1>0, <1>6 DEF Exit, InOrder, handover
<1>7. CASE Save
  BY <1>7, SaveShares DEF InOrder
<1>8. CASE Push
  <2>1. [id |-> Id, n |-> job.n, ok |-> "final" \in made] \in Results
    BY <1>0 DEF Jobs, Results, Id
  <2>2. /\ results' = Append(results, [id |-> Id, n |-> job.n, ok |-> "final" \in made])
        /\ Len(results') = Len(results) + 1
        /\ working /\ ~working'
        /\ UNCHANGED <<queue, job, accepted, answered>>
    BY <1>0, <1>8, <2>1 DEF Push
  <2>3. \A i \in 1..Len(results') :
          results'[i].n = IF i <= Len(results) THEN results[i].n ELSE job.n
    BY <1>0, <2>1, <2>2
  <2>4. job.n = answered + Len(results) + 1
    BY <2>2 DEF InOrder
  <2> QED
    BY <1>0, <2>2, <2>3, <2>4 DEF InOrder
<1>9. CASE UNCHANGED vars
  BY <1>9 DEF vars, InOrder
<1> QED
  BY <1>1, <1>2, <1>3, <1>4, <1>5, <1>6, <1>7, <1>8, <1>9 DEF Next, Worker

(* What a save has made agrees with the disk, step by step. *)
LEMMA SaveStep == TypeOK /\ InOrder /\ SaveConsistent /\ ManifestsOld /\ [Next]_vars => SaveConsistent'
<1> SUFFICES ASSUME TypeOK, InOrder, SaveConsistent, ManifestsOld, [Next]_vars
             PROVE  SaveConsistent'
  OBVIOUS
<1>0. /\ job \in Jobs /\ Id \in Trials /\ job.n \in Nat
      /\ raw \in [Trials -> RawFiles] /\ pending \in [Trials -> Nat] /\ final \in [Trials -> Nat]
      /\ answered \in Nat /\ working \in BOOLEAN /\ pc \in Labels
      /\ queue \in Seq(Jobs) /\ results \in Seq(Results)
  BY DEF TypeOK, Jobs, Id
<1>a. pc \notin {"waiting", "exited"} => job.n # 0
  BY <1>0 DEF InOrder, SaveConsistent
<1>b. pc = "check" => final[Id] # job.n
  BY <1>0 DEF InOrder, SaveConsistent, ManifestsOld
<1>c. ASSUME Abort, pc \in {"check", "raw", "write", "manifest", "text", "rename", "stat"},
             pc = "stat" => MayFail("stat")
      PROVE  SaveConsistent'
  BY <1>0, <1>a, <1>b, <1>c
     DEF Abort, SaveConsistent, handover, disk, Id, Has, MayFail
<1>1. ASSUME NEW t \in Trials, Enqueue(t) PROVE SaveConsistent'
  BY <1>0, <1>a, <1>b, <1>1 DEF Enqueue, SaveConsistent, disk, Id, Has, Complete
<1>2. CASE TakeResults
  BY <1>2 DEF TakeResults, SaveConsistent, disk, Id, Has, Complete
<1>3. CASE Shutdown
  BY <1>3 DEF Shutdown, SaveConsistent, disk, Id, Has, Complete
<1>4. CASE Restart
  BY <1>4 DEF Restart, SaveConsistent, Has
<1>5. CASE Dequeue
  BY <1>0, <1>a, <1>b, <1>5 DEF Dequeue, SaveConsistent, disk, Has
<1>6. CASE Exit
  BY <1>0, <1>a, <1>b, <1>6 DEF Exit, SaveConsistent, handover, disk, Has
<1>7. CASE NoDirectory
  BY <1>0, <1>a, <1>b, <1>7 DEF NoDirectory, SaveConsistent, handover, disk, Id, Has
<1>8. CASE Check
  BY <1>0, <1>a, <1>b, <1>8 DEF Check, Abort, SaveConsistent, handover, disk, Id, Has
<1>9. CASE CreateRaw
  <2>1. CASE Abort
    BY <1>c, <1>9, <2>1 DEF CreateRaw
  <2>2. CASE ~Abort
    <3>1. /\ pc = "raw" /\ pc' = "write" /\ UNCHANGED <<queue, working, ending, job, pending, final, Id>>
          /\ raw'[Id] = [n |-> job.n, state |-> "open"]
          /\ Has("raw")' /\ ~Has("pending")' /\ ~Has("final")'
      BY <1>0, <1>9, <2>2 DEF CreateRaw, SaveConsistent, Has, handover, disk, Id
    <3> QED
      BY <1>0, <1>a, <3>1 DEF SaveConsistent, Has
  <2> QED
    BY <2>1, <2>2
<1>10. CASE WriteRaw
  <2>1. CASE Abort
    BY <1>c, <1>10, <2>1 DEF WriteRaw
  <2>2. CASE ~Abort
    <3>1. /\ pc = "write" /\ pc' = "manifest" /\ UNCHANGED <<queue, working, ending, job, made, pending, final, Id>>
          /\ raw'[Id] = [n |-> job.n, state |-> "closed"]
      BY <1>0, <1>10, <2>2 DEF WriteRaw, SaveConsistent, Has, handover, disk, Id
    <3> QED
      BY <1>0, <1>a, <3>1 DEF SaveConsistent, Has
  <2> QED
    BY <2>1, <2>2
<1>11. CASE CreateManifest
  <2>1. CASE Abort
    BY <1>c, <1>11, <2>1 DEF CreateManifest
  <2>2. CASE ~Abort
    <3>1. /\ pc = "manifest" /\ pc' = "text" /\ UNCHANGED <<queue, working, ending, job, raw, final, Id>>
          /\ pending'[Id] = job.n
          /\ Has("raw")' /\ Has("pending")' /\ ~Has("final")'
      BY <1>0, <1>11, <2>2 DEF CreateManifest, SaveConsistent, Has, handover, disk, Id
    <3> QED
      BY <1>0, <1>a, <3>1 DEF SaveConsistent, Has
  <2> QED
    BY <2>1, <2>2
<1>12. CASE WriteManifest
  <2>1. CASE Abort
    BY <1>c, <1>12, <2>1 DEF WriteManifest
  <2>2. CASE ~Abort
    <3>1. /\ pc = "text" /\ pc' = "rename"
          /\ UNCHANGED <<queue, working, ending, job, made, raw, pending, final, Id>>
      BY <1>0, <1>12, <2>2 DEF WriteManifest, SaveConsistent, Has, handover, disk, Id
    <3> QED
      BY <1>0, <1>a, <3>1 DEF SaveConsistent, Has
  <2> QED
    BY <2>1, <2>2
<1>13. CASE Publish
  <2>1. CASE Abort
    BY <1>c, <1>13, <2>1 DEF Publish
  <2>2. CASE ~Abort
    <3>1. /\ pc = "rename" /\ pc' = "stat" /\ UNCHANGED <<queue, working, ending, job, raw, Id>>
          /\ final'[Id] = job.n
          /\ Has("raw")' /\ Has("final")'
      BY <1>0, <1>13, <2>2 DEF Publish, SaveConsistent, Has, handover, disk, Id
    <3> QED
      BY <1>0, <1>a, <3>1 DEF SaveConsistent, Has
  <2> QED
    BY <2>1, <2>2
<1>14. CASE Account
  <2>1. CASE Abort
    BY <1>c, <1>14, <2>1 DEF Account, Abort
  <2>2. CASE ~Abort
    <3>1. /\ pc = "stat" /\ pc' = "push"
          /\ UNCHANGED <<queue, working, ending, job, made, raw, pending, final, Id>>
      BY <1>0, <1>14, <2>2 DEF Account, SaveConsistent, Has, handover, disk, Id
    <3>2. Complete(Id)' = Complete(Id)
      BY <3>1 DEF Complete
    <3>3. raw[Id] = [n |-> job.n, state |-> "closed"] /\ final[Id] = job.n /\ Has("final")
      BY <3>1 DEF SaveConsistent
    <3>4. Complete(Id)
      BY <1>a, <3>1, <3>3 DEF Complete
    <3> QED
      BY <1>0, <1>a, <3>1, <3>2, <3>3, <3>4 DEF SaveConsistent, Has
  <2> QED
    BY <2>1, <2>2
<1>15. CASE DropRaw
  <2>1. /\ pc = "dropRaw" /\ pc' = "dropPending"
        /\ UNCHANGED <<queue, working, ending, job, made, pending, final, Id>>
        /\ \/ raw'[Id] = NoFile
           \/ ~Has("raw")
           \/ "remove" \in Faults
    BY <1>0, <1>15 DEF DropRaw, MayFail, Has, handover, disk, Id
  <2> QED
    BY <1>0, <1>a, <2>1 DEF SaveConsistent, Has
<1>16. CASE DropPending
  BY <1>0, <1>a, <1>b, <1>16 DEF DropPending, SaveConsistent, handover, disk, Id, Has
<1>17. CASE DropFinal
  <2>1. /\ pc = "dropFinal" /\ pc' = "push"
        /\ UNCHANGED <<queue, working, ending, job, Id>>
        /\ ~Has("raw")' /\ ~Has("pending")' /\ ~Has("final")'
        /\ \/ Has("final") /\ final'[Id] = 0
           \/ ~Has("final") /\ final' = final
           \/ "remove" \in Faults /\ final' = final
    BY <1>0, <1>17 DEF DropFinal, MayFail, Has, handover, disk, Id
  <2>2. ~({"stat", "remove"} \subseteq Faults) => final'[Id] # job.n
    BY <1>a, <2>1 DEF SaveConsistent
  <2> QED
    BY <1>0, <1>a, <2>1, <2>2 DEF SaveConsistent
<1>18. CASE Push
  BY <1>0, <1>a, <1>b, <1>18 DEF Push, SaveConsistent, Has
<1>19. CASE UNCHANGED vars
  BY <1>19 DEF vars, SaveConsistent, Has, Id, Complete
<1> QED
  BY <1>1, <1>2, <1>3, <1>4, <1>5, <1>6, <1>7, <1>8, <1>9, <1>10, <1>11, <1>12, <1>13, <1>14,
     <1>15, <1>16, <1>17, <1>18, <1>19 DEF Next, Worker, Save

(* No manifest names a window that is still to be saved. *)
LEMMA ManifestsStep == TypeOK /\ InOrder /\ SaveConsistent /\ ManifestsOld /\ [Next]_vars => ManifestsOld'
<1> SUFFICES ASSUME TypeOK, InOrder, SaveConsistent, ManifestsOld, [Next]_vars
             PROVE  ManifestsOld'
  OBVIOUS
<1>0. /\ job \in Jobs /\ Id \in Trials /\ job.n \in Nat
      /\ pending \in [Trials -> Nat] /\ final \in [Trials -> Nat]
      /\ accepted \in Nat /\ answered \in Nat /\ working \in BOOLEAN
      /\ Len(results) \in Nat /\ Len(queue) \in Nat /\ results \in Seq(Results)
      /\ queue \in Seq(Jobs)
  BY DEF TypeOK, Jobs, Id
<1>1. ASSUME NEW t \in Trials, Enqueue(t) PROVE ManifestsOld'
  BY <1>1 DEF Enqueue, ManifestsOld, disk, Id
<1>2. CASE TakeResults
  BY <1>0, <1>2 DEF TakeResults, ManifestsOld, disk, Id
<1>3. CASE Shutdown
  BY <1>3 DEF Shutdown, ManifestsOld, disk, Id
<1>4. CASE Restart
  BY <1>0, <1>4 DEF Restart, ManifestsOld, disk, InOrder, SaveConsistent
<1>5. CASE Dequeue
  BY <1>0, <1>5 DEF Dequeue, ManifestsOld, disk
<1>6. CASE Exit
  BY <1>6 DEF Exit, ManifestsOld, handover, disk
<1>7. CASE Save
  <2>1. UNCHANGED <<results, working, answered, job, Id>>
    BY <1>7, SaveShares DEF Id
  <2>2. working
    BY <1>7 DEF Save, NoDirectory, Check, CreateRaw, WriteRaw, CreateManifest, WriteManifest,
                Publish, Account, DropRaw, DropPending, DropFinal, SaveConsistent
  <2>3. CASE Publish /\ ~Abort
    <3>1. /\ pc' = "stat"
          /\ final' = [final EXCEPT ![Id] = pending[Id]]
          /\ pending[Id] = job.n
      BY <2>3 DEF Publish, SaveConsistent
    <3> QED
      BY <1>0, <2>1, <2>2, <3>1 DEF ManifestsOld
  <2>4. CASE DropFinal
    <3>1. final' = [final EXCEPT ![Id] = 0] \/ final' = final
      BY <2>4 DEF DropFinal, disk
    <3>2. pc' = "push"
      BY <2>4 DEF DropFinal
    <3> QED
      BY <1>0, <2>1, <2>2, <3>1, <3>2 DEF ManifestsOld
  <2>5. CASE ~(Publish /\ ~Abort) /\ ~DropFinal
    <3>1. final' = final
      BY <1>7, <2>5 DEF Save, NoDirectory, Check, CreateRaw, WriteRaw, CreateManifest,
                        WriteManifest, Publish, Account, DropRaw, DropPending, Abort, disk
    <3>2. pc \in {"stat", "dropRaw", "dropPending", "dropFinal", "push"} =>
            pc' \in {"dropRaw", "dropPending", "dropFinal", "push"}
      BY <1>7, <2>5 DEF Save, NoDirectory, Check, CreateRaw, WriteRaw, CreateManifest,
                        WriteManifest, Publish, Account, DropRaw, DropPending, Abort
    <3> QED
      BY <2>1, <2>2, <3>1, <3>2 DEF ManifestsOld
  <2> QED
    BY <2>3, <2>4, <2>5
<1>18. CASE Push
  <2>1. /\ job.n = answered + Len(results) + 1
        /\ Len(results') = Len(results) + 1
        /\ UNCHANGED <<final, answered>>
    BY <1>0, <1>18 DEF Push, disk, InOrder, SaveConsistent
  <2>2. \A t \in Trials : final[t] <= answered + Len(results) \/ final[t] = job.n
    BY DEF ManifestsOld
  <2>3. ASSUME NEW t \in Trials PROVE final[t] <= answered + (Len(results) + 1)
    <3>1. final[t] \in Nat /\ answered \in Nat /\ Len(results) \in Nat
      BY <1>0
    <3> QED
      BY <2>1, <2>2, <3>1
  <2> QED
    BY <2>1, <2>3 DEF ManifestsOld
<1>19. CASE UNCHANGED vars
  BY <1>19 DEF vars, ManifestsOld, Id
<1> QED
  BY <1>1, <1>2, <1>3, <1>4, <1>5, <1>6, <1>7, <1>18, <1>19 DEF Next, Worker

(* IInv is an inductive invariant of the writer, whatever may fail. *)
THEOREM Inductive == Spec => []IInv
<1>1. IInv /\ [Next]_vars => IInv'
  <2>1. IInv /\ [Next]_vars => (pc = "push" => working) /\ (pc = "waiting" => ~working)
    BY DEF IInv, SaveConsistent
  <2> QED
    BY <2>1, TypeStep, InOrderStep, SaveStep, ManifestsStep DEF IInv
<1> QED
  BY <1>1, InitIInv, PTL DEF Spec

(* Every variable keeps its type. *)
THEOREM WriterTypes == Spec => []TypeOK
<1>1. IInv => TypeOK
  BY DEF IInv
<1> QED
  BY <1>1, Inductive, PTL

(* A window handed to the writer is answered once and in order, and no queue  *)
(* exceeds its capacity.                                                      *)
THEOREM WindowsInOrder == Spec => []InOrder
<1>1. IInv => InOrder
  BY DEF IInv
<1> QED
  BY <1>1, Inductive, PTL

(* The destructor returns with nothing unsaved. *)
THEOREM ExitDrains == Spec => []DrainedAtExit
<1>1. IInv => DrainedAtExit
  <2> SUFFICES ASSUME IInv, pc = "exited"
               PROVE  queue = <<>> /\ accepted = answered + Len(results)
    BY DEF DrainedAtExit
  <2>1. queue = <<>> /\ ~working
    BY DEF IInv, SaveConsistent
  <2>2. accepted = answered + Len(results)
    BY <2>1 DEF IInv, InOrder, TypeOK
  <2> QED
    BY <2>1, <2>2
<1> QED
  BY <1>1, Inductive, PTL

(* With no window pending nobody touches the directory. *)
THEOREM IdleIsQuiet == Spec => QuietWhenIdle
<1>1. IInv /\ [Next]_vars => (PendingJobs = 0 => UNCHANGED disk)
  <2> SUFFICES ASSUME IInv, [Next]_vars, PendingJobs = 0 PROVE UNCHANGED disk
    OBVIOUS
  <2>1. ~working
    BY DEF PendingJobs, IInv, TypeOK
  <2>2. pc \in {"waiting", "exited"}
    BY <2>1 DEF IInv, SaveConsistent
  <2>3. ~Save
    BY <2>2 DEF Save, NoDirectory, Check, CreateRaw, WriteRaw, CreateManifest, WriteManifest,
                Publish, Account, DropRaw, DropPending, DropFinal
  <2> QED
    BY <2>3 DEF Next, Worker, Enqueue, TakeResults, Shutdown, Restart, Dequeue, Exit, Push,
                vars, disk
<1>2. [][PendingJobs = 0 => UNCHANGED disk]_vars <=> QuietWhenIdle
  BY PTL DEF QuietWhenIdle
<1> QED
  BY <1>1, <1>2, Inductive, PTL DEF Spec

(* What a step may do to the files of one identifier: nothing, unless it is a  *)
(* step of a save under that identifier.                                       *)
LEMMA OnlySavesWrite ==
  ASSUME TypeOK, [Next]_vars, NEW t \in Trials, ~(Save /\ t = Id)
  PROVE  raw'[t] = raw[t] /\ final'[t] = final[t]
<1>0. Id \in Trials /\ raw \in [Trials -> RawFiles] /\ final \in [Trials -> Nat]
  BY DEF TypeOK, Jobs, Id
<1>1. CASE Save
  <2>1. t # Id
    BY <1>1
  <2>2. \/ raw' = raw
        \/ raw' = [raw EXCEPT ![Id] = [n |-> job.n, state |-> "open"]]
        \/ raw' = [raw EXCEPT ![Id] = [n |-> job.n, state |-> "closed"]]
        \/ raw' = [raw EXCEPT ![Id] = NoFile]
    BY <1>1, Zenon DEF Save, NoDirectory, Check, CreateRaw, WriteRaw, CreateManifest, WriteManifest,
                Publish, Account, DropRaw, DropPending, DropFinal, Abort, disk
  <2>3. \/ final' = final
        \/ final' = [final EXCEPT ![Id] = pending[Id]]
        \/ final' = [final EXCEPT ![Id] = 0]
    BY <1>1, Zenon DEF Save, NoDirectory, Check, CreateRaw, WriteRaw, CreateManifest, WriteManifest,
                Publish, Account, DropRaw, DropPending, DropFinal, Abort, disk
  <2> QED
    BY <1>0, <2>1, <2>2, <2>3
<1>2. CASE ~Save
  BY <1>2 DEF Next, Worker, Enqueue, TakeResults, Shutdown, Restart, Dequeue, Exit, Push,
              vars, disk
<1> QED
  BY <1>1, <1>2

(* A complete trial survives every step that is not undoing the very window it *)
(* holds.                                                                      *)
LEMMA TrialStays ==
  ASSUME IInv, [Next]_vars, NEW t \in Trials, Complete(t),
         ~(working /\ t = Id /\ final[t] = job.n)
  PROVE  raw'[t] = raw[t] /\ final'[t] = final[t]
<1> USE DEF IInv
<1>0. Id \in Trials /\ raw \in [Trials -> RawFiles] /\ final \in [Trials -> Nat]
  BY DEF TypeOK, Jobs, Id
<1>1. CASE ~(Save /\ t = Id)
  BY <1>1, OnlySavesWrite
<1>2. CASE Save /\ t = Id
  <2>0. working
    BY <1>2 DEF Save, NoDirectory, Check, CreateRaw, WriteRaw, CreateManifest, WriteManifest,
                Publish, Account, DropRaw, DropPending, DropFinal, SaveConsistent
  <2>1. final[Id] # job.n /\ final[Id] # 0 /\ raw[Id] = [n |-> final[Id], state |-> "closed"]
    BY <1>2, <2>0 DEF Complete
  <2>2. pc \notin {"raw", "write", "manifest", "text", "rename", "stat"}
    BY <2>1 DEF SaveConsistent
  <2>3. ~Has("final")
    BY <1>2, <2>1, <2>2 DEF SaveConsistent, Save, NoDirectory, Check, CreateRaw, WriteRaw,
          CreateManifest, WriteManifest, Publish, Account, DropRaw, DropPending, DropFinal
  <2>4. pc = "dropRaw" => ~Has("raw")
    BY <2>1, <2>3 DEF SaveConsistent
  <2>5. raw' = raw /\ final' = final
    BY <1>2, <2>2, <2>3, <2>4 DEF Save, NoDirectory, Check, CreateRaw, WriteRaw,
          CreateManifest, WriteManifest, Publish, Account, DropRaw, DropPending, DropFinal,
          Abort, disk, Has
  <2> QED
    BY <2>5
<1> QED
  BY <1>1, <1>2

(* A save leaves the trials it finds alone, whatever fails. *)
THEOREM TrialsAreKept == Spec => TrialsKept
<1> DEFINE Kept == \A t \in Trials :
             Complete(t) /\ ~(working /\ job = [id |-> t, n |-> final[t]])
               => UNCHANGED <<final[t], raw[t]>>
<1>1. IInv /\ [Next]_vars => Kept
  <2> SUFFICES ASSUME IInv, [Next]_vars, NEW t \in Trials, Complete(t),
                      ~(working /\ job = [id |-> t, n |-> final[t]])
               PROVE  final'[t] = final[t] /\ raw'[t] = raw[t]
    OBVIOUS
  <2>1. job \in [id : Trials, n : Nat]
    BY DEF IInv, TypeOK, Jobs
  <2>2. ~(working /\ t = Id /\ final[t] = job.n)
    BY <2>1 DEF Id
  <2> QED
    BY <2>2, TrialStays
<1>2. TrialsKept <=> [][Kept]_vars
  BY PTL DEF TrialsKept
<1> QED
  BY <1>1, <1>2, Inductive, PTL DEF Spec

(* Where a manifest may appear or vanish, and what a save needs for it. *)
LEMMA ManifestMoves ==
  ASSUME IInv, [Next]_vars, NEW t \in Trials, final'[t] # final[t]
  PROVE  /\ t = Id /\ working
         /\ \/ /\ Publish /\ final'[t] = job.n /\ final[t] = 0
               /\ raw[t] = [n |-> job.n, state |-> "closed"] /\ raw' = raw
               /\ pc' = "stat"
            \/ DropFinal /\ final'[t] = 0 /\ Has("final")
<1> USE DEF IInv
<1>0. Id \in Trials /\ final \in [Trials -> Nat]
  BY DEF TypeOK, Jobs, Id
<1>1. Save /\ t = Id
  BY OnlySavesWrite
<1>2. working
  BY <1>1 DEF Save, NoDirectory, Check, CreateRaw, WriteRaw, CreateManifest, WriteManifest,
              Publish, Account, DropRaw, DropPending, DropFinal, SaveConsistent
<1>3. Publish \/ DropFinal
  BY <1>1 DEF Save, NoDirectory, Check, CreateRaw, WriteRaw, CreateManifest, WriteManifest,
              Account, DropRaw, DropPending, Abort, disk
<1>4. CASE Publish
  <2>1. /\ pc = "rename" /\ pc' = "stat" /\ raw' = raw
        /\ final' = [final EXCEPT ![Id] = pending[Id]]
    BY <1>4 DEF Publish, Abort, disk
  <2>2. pending[Id] = job.n /\ final[Id] = 0 /\ raw[Id] = [n |-> job.n, state |-> "closed"]
    BY <2>1 DEF SaveConsistent
  <2> QED
    BY <1>0, <1>1, <1>2, <1>4, <2>1, <2>2
<1>5. CASE DropFinal
  <2>1. Has("final") /\ final' = [final EXCEPT ![Id] = 0]
    BY <1>5 DEF DropFinal, disk, Has
  <2> QED
    BY <1>0, <1>1, <1>2, <1>5, <2>1
<1> QED
  BY <1>3, <1>4, <1>5

(* A manifest appears only after its raw file is closed. *)
THEOREM PublishesAfterClose == Spec => PublishAfterClose
<1> DEFINE ClosedFirst == \A t \in Trials : final'[t] # 0 /\ final'[t] # final[t]
                       => raw[t] = [n |-> final'[t], state |-> "closed"]
<1>1. IInv /\ [Next]_vars => ClosedFirst
  <2> SUFFICES ASSUME IInv, [Next]_vars, NEW t \in Trials,
                      final'[t] # 0, final'[t] # final[t]
               PROVE  raw[t] = [n |-> final'[t], state |-> "closed"]
    OBVIOUS
  <2> QED
    BY ManifestMoves
<1>2. PublishAfterClose <=> [][ClosedFirst]_vars
  BY PTL DEF PublishAfterClose
<1> QED
  BY <1>1, <1>2, Inductive, PTL DEF Spec

(* save() names a manifest only when the raw file is whole, and removes it    *)
(* before the raw file.                                                       *)
LEMMA CompleteStep ==
  ASSUME IInv, PublishedComplete, [Next]_vars, "stat" \notin Faults
  PROVE  PublishedComplete'
<1> SUFFICES ASSUME NEW t \in Trials, final'[t] # 0
             PROVE  Complete(t)'
  BY DEF PublishedComplete
<1>1. CASE final'[t] # final[t]
  <2>1. /\ raw[t] = [n |-> job.n, state |-> "closed"] /\ raw' = raw
        /\ final'[t] = job.n
    BY <1>1, ManifestMoves
  <2> QED
    BY <2>1 DEF Complete
<1>2. CASE final'[t] = final[t]
  <2>1. Complete(t)
    BY <1>2 DEF PublishedComplete
  <2>2. raw'[t] = raw[t]
    <3>1. CASE ~(working /\ t = Id /\ final[t] = job.n)
      BY <2>1, <3>1, TrialStays
    <3>2. CASE working /\ t = Id /\ final[t] = job.n
      <4>1. pc \in {"stat", "push"}
        BY <2>1, <3>2 DEF IInv, TypeOK, Labels, SaveConsistent, InOrder, ManifestsOld, Complete
      <4>2. Save => raw' = raw
        BY <4>1 DEF Save, NoDirectory, Check, CreateRaw, WriteRaw, CreateManifest,
              WriteManifest, Publish, Account, DropRaw, DropPending, DropFinal, Abort, disk
      <4> QED
        BY <4>2, OnlySavesWrite DEF IInv
    <3> QED
      BY <3>1, <3>2
  <2> QED
    BY <1>2, <2>1, <2>2 DEF Complete
<1> QED
  BY <1>1, <1>2

(* A manifest always names a complete trial, as long as the sizes of the two  *)
(* files can be read back.                                                    *)
THEOREM ManifestsAreComplete == ASSUME "stat" \notin Faults PROVE Spec => []PublishedComplete
<1>1. Init => PublishedComplete
  BY DEF Init, PublishedComplete
<1>2. IInv /\ PublishedComplete /\ [Next]_vars => PublishedComplete'
  BY CompleteStep
<1> QED
  BY <1>1, <1>2, Inductive, PTL DEF Spec

(* What the service is told of a window agrees with the disk: it stays true    *)
(* of an answer already given,                                                *)
LEMMA AnswerStaysTrue ==
  ASSUME IInv, [Next]_vars, NEW CONSTANT r, r.id \in Trials, Truthful(r),
         r.n # 0, working => job.n # r.n
  PROVE  Truthful(r)'
<1>1. CASE r.ok
  <2>1. Complete(r.id) /\ final[r.id] = r.n
    BY <1>1 DEF Truthful
  <2>2. raw'[r.id] = raw[r.id] /\ final'[r.id] = final[r.id]
    BY <2>1, TrialStays
  <2> QED
    BY <1>1, <2>1, <2>2 DEF Truthful, Complete
<1>2. CASE ~r.ok
  <2>1. final[r.id] # r.n
    BY <1>2 DEF Truthful
  <2>2. CASE final'[r.id] # final[r.id]
    <3>1. working /\ (final'[r.id] = job.n \/ final'[r.id] = 0)
      BY <2>2, ManifestMoves
    <3> QED
      BY <1>2, <3>1 DEF Truthful
  <2> QED
    BY <1>2, <2>1, <2>2 DEF Truthful
<1> QED
  BY <1>1, <1>2

(* and true of the one being given.                                           *)
LEMMA TruthStep ==
  ASSUME IInv, ResultsTruthful, [Next]_vars, ~({"stat", "remove"} \subseteq Faults)
  PROVE  ResultsTruthful'
<1> USE DEF IInv
<1>0. /\ results \in Seq(Results) /\ job \in Jobs /\ Id \in Trials /\ answered \in Nat
      /\ final \in [Trials -> Nat] /\ job.n \in Nat
  BY DEF TypeOK, Jobs, Id
<1>1. ASSUME NEW CONSTANT i, i \in DOMAIN results, NEW CONSTANT r, r = results[i]
      PROVE  Truthful(r)'
  <2>1. r \in Results /\ i \in 1..Len(results)
    BY <1>0, <1>1
  <2>2. r.id \in Trials /\ r.n = answered + i
    BY <1>1, <2>1 DEF Results, InOrder
  <2>3. r.n # 0
    BY <1>0, <2>1, <2>2
  <2>4. working => job.n # r.n
    BY <1>0, <2>1, <2>2 DEF InOrder
  <2>5. Truthful(r)
    BY <1>1 DEF ResultsTruthful
  <2> QED
    BY <2>2, <2>3, <2>4, <2>5, AnswerStaysTrue
<1>2. CASE results' = results
  BY <1>1, <1>2 DEF ResultsTruthful, Truthful, Complete
<1>3. CASE results' = <<>>
  BY <1>3 DEF ResultsTruthful
<1>4. CASE Push
  <2> DEFINE new == [id |-> Id, n |-> job.n, ok |-> Has("final")]
  <2>1. results' = Append(results, new) /\ UNCHANGED <<raw, final>> /\ pc = "push"
    BY <1>4 DEF Push, disk, Has
  <2>2. new \in Results
    BY <1>0 DEF Results, Has
  <2>3. Truthful(new)
    BY <2>1 DEF SaveConsistent, Truthful
  <2> HIDE DEF new
  <2>4. SUFFICES ASSUME NEW CONSTANT i, i \in DOMAIN results', NEW CONSTANT r, r = results'[i]
                 PROVE  Truthful(r)'
    BY DEF ResultsTruthful, Truthful, Complete
  <2>5. CASE i \in DOMAIN results
    <3>1. r = results[i]
      BY <1>0, <2>1, <2>2, <2>4, <2>5
    <3> QED
      BY <1>1, <2>5, <3>1
  <2>6. CASE i \notin DOMAIN results
    <3>1. r = new
      BY <1>0, <2>1, <2>2, <2>4, <2>6
    <3> QED
      BY <2>1, <2>3, <3>1 DEF Truthful, Complete
  <2> QED
    BY <2>5, <2>6
<1> QED
  BY <1>2, <1>3, <1>4, SaveShares
     DEF Next, Worker, Enqueue, TakeResults, Shutdown, Restart, Dequeue, Exit, vars, handover

(* Success means a complete trial of that window, failure that there is none,  *)
(* unless both the size check and the removals that answer it fail.            *)
THEOREM ResultsAreTruthful ==
  ASSUME ~({"stat", "remove"} \subseteq Faults) PROVE Spec => []ResultsTruthful
<1>1. Init => ResultsTruthful
  BY DEF Init, Idle, ResultsTruthful
<1>2. IInv /\ ResultsTruthful /\ [Next]_vars => ResultsTruthful'
  BY TruthStep
<1> QED
  BY <1>1, <1>2, Inductive, PTL DEF Spec

(* Steps that leave the files and the windows alone are stutters of the store. *)
LEMMA TrialsSame ==
  ASSUME \A t \in Trials : Complete(t)' = Complete(t) /\ (Complete(t) => final'[t] = final[t])
  PROVE  CompleteTrials' = CompleteTrials
BY DEF CompleteTrials

LEMMA UnansweredHead ==
  ASSUME queue \in Seq(Jobs), job \in Jobs, working
  PROVE  /\ Unanswered \in Seq(Jobs) /\ Unanswered # <<>>
         /\ Len(Unanswered) = Len(queue) + 1
         /\ Head(Unanswered) = job /\ Tail(Unanswered) = queue
<1> HIDE DEF Jobs
<1> QED
  BY DEF Unanswered

(* The steps of a save: a trial appears in Publish, and is withdrawn in        *)
(* DropRaw if its size could not be read.                                      *)
LEMMA SaveRefines ==
  ASSUME IInv, Save, ~({"stat", "remove"} \subseteq Faults)
  PROVE  Store!Next \/ CompleteTrials' = CompleteTrials
<1> USE DEF IInv
<1>0. /\ Id \in Trials /\ job \in Jobs /\ raw \in [Trials -> RawFiles]
      /\ final \in [Trials -> Nat] /\ queue \in Seq(Jobs) /\ job.n \in Nat
  BY DEF TypeOK, Jobs, Id
<1>1. working /\ job.n # 0
  BY <1>0 DEF Save, NoDirectory, Check, CreateRaw, WriteRaw, CreateManifest, WriteManifest,
              Publish, Account, DropRaw, DropPending, DropFinal, SaveConsistent, InOrder, TypeOK
<1>2. /\ Unanswered # <<>> /\ Head(Unanswered) = job /\ Unanswered' = Unanswered
      /\ UNCHANGED <<results, accepted, Id>>
  BY <1>0, <1>1, UnansweredHead, SaveShares DEF Unanswered, Id
<1>3. ASSUME NEW t \in Trials, t # Id
      PROVE  raw'[t] = raw[t] /\ final'[t] = final[t]
  BY <1>3, OnlySavesWrite DEF Next, Worker
<1>4. CASE raw' = raw /\ final' = final
  BY <1>4, TrialsSame DEF Complete
<1>5. CASE ~Complete(Id) /\ ~Complete(Id)'
  <2>1. ASSUME NEW t \in Trials
        PROVE  Complete(t)' = Complete(t) /\ (Complete(t) => final'[t] = final[t])
    BY <1>2, <1>3, <1>5 DEF Complete
  <2> QED
    BY <2>1, TrialsSame
<1>6. CASE CreateRaw \/ WriteRaw
  <2>1. (raw' = raw \/ final[Id] = 0) /\ final' = final
    BY <1>6 DEF CreateRaw, WriteRaw, Abort, disk, SaveConsistent
  <2> QED
    BY <1>2, <1>4, <1>5, <2>1 DEF Complete
<1>7. CASE Publish /\ ~Abort
  <2>1. /\ raw[Id] = [n |-> job.n, state |-> "closed"] /\ raw' = raw
        /\ final[Id] = 0 /\ final'[Id] = job.n
    BY <1>0, <1>7 DEF Publish, disk, SaveConsistent
  <2>2. CompleteTrials[Id] = 0 /\ CompleteTrials'[Id] = job.n
    BY <1>0, <1>1, <2>1 DEF CompleteTrials, Complete
  <2>3. ASSUME NEW t \in Trials, t # Id PROVE CompleteTrials'[t] = CompleteTrials[t]
    BY <1>3, <2>3 DEF CompleteTrials, Complete
  <2>4. CompleteTrials' = [CompleteTrials EXCEPT ![Id] = job.n]
    BY <1>0, <2>2, <2>3 DEF CompleteTrials
  <2> QED
    BY <1>2, <2>2, <2>4 DEF Store!Next, Store!Appear, Id
<1>8. CASE DropRaw
  <2>1. final' = final
    BY <1>8 DEF DropRaw, disk
  <2>2. CASE raw' # raw
    <3>1. raw' = [raw EXCEPT ![Id] = NoFile] /\ Has("raw")
      BY <1>8, <2>2 DEF DropRaw, disk, Has
    <3>2. ~Complete(Id)'
      BY <1>0, <1>2, <2>1, <3>1 DEF Complete, NoFile
    <3>3. CASE Has("final")
      <4>1. final[Id] = job.n
        BY <1>8, <3>3 DEF DropRaw, SaveConsistent
      <4>2. CASE Complete(Id)
        <5>1. CompleteTrials[Id] = job.n /\ CompleteTrials'[Id] = 0
          BY <1>0, <1>2, <3>2, <4>1, <4>2 DEF CompleteTrials
        <5>2. ASSUME NEW t \in Trials, t # Id PROVE CompleteTrials'[t] = CompleteTrials[t]
          BY <1>3, <5>2 DEF CompleteTrials, Complete
        <5>3. CompleteTrials' = [CompleteTrials EXCEPT ![Id] = 0]
          BY <1>0, <5>1, <5>2 DEF CompleteTrials
        <5> QED
          BY <1>2, <5>1, <5>3 DEF Store!Next, Store!Withdraw, Id
      <4> QED
        BY <1>5, <3>2, <4>2
    <3>4. CASE ~Has("final")
      <4>1. final[Id] = 0
        BY <1>8, <3>1, <3>4 DEF DropRaw, SaveConsistent
      <4> QED
        BY <1>5, <3>2, <4>1 DEF Complete
    <3> QED
      BY <3>3, <3>4
  <2> QED
    BY <1>4, <2>1, <2>2
<1>9. CASE DropFinal
  <2>1. raw' = raw
    BY <1>9 DEF DropFinal, disk
  <2>2. CASE final' # final
    <3>1. Has("final") /\ final' = [final EXCEPT ![Id] = 0]
      BY <1>9, <2>2 DEF DropFinal, disk, Has
    <3>2. raw[Id] = NoFile /\ final[Id] = job.n
      BY <1>9, <3>1 DEF DropFinal, SaveConsistent
    <3> QED
      BY <1>0, <1>2, <1>5, <2>1, <3>1, <3>2 DEF Complete, NoFile
  <2> QED
    BY <1>4, <2>1, <2>2
<1>10. CASE ~(CreateRaw \/ WriteRaw \/ (Publish /\ ~Abort) \/ DropRaw \/ DropFinal)
  BY <1>4, <1>10 DEF Save, NoDirectory, Check, CreateManifest, WriteManifest, Publish, Account,
                    DropPending, Abort, disk
<1> QED
  BY <1>6, <1>7, <1>8, <1>9, <1>10

(* Every step of the writer is a step of the store or changes nothing of it.   *)
LEMMA StepRefines ==
  ASSUME IInv, [Next]_vars, ~({"stat", "remove"} \subseteq Faults)
  PROVE  [Store!Next]_Store!vars
<1> USE DEF IInv
<1>0. /\ Id \in Trials /\ job \in Jobs /\ queue \in Seq(Jobs) /\ results \in Seq(Results)
      /\ final \in [Trials -> Nat] /\ job.n \in Nat /\ working \in BOOLEAN /\ accepted \in Nat
  BY DEF TypeOK, Jobs, Id
<1>1. UNCHANGED disk => CompleteTrials' = CompleteTrials
  BY DEF disk, CompleteTrials, Complete
<1>2. ASSUME NEW t \in Trials, Enqueue(t) PROVE Store!Next
  <2> DEFINE new == [id |-> t, n |-> accepted + 1]
  <2>1. /\ queue' = Append(queue, new) /\ Len(queue) < Capacity
        /\ UNCHANGED <<results, working, job, disk>> /\ accepted' = accepted + 1
    BY <1>2 DEF Enqueue
  <2>2. new \in Jobs
    BY <1>0 DEF Jobs
  <2> HIDE DEF new, Jobs, IInv
  <2>3. Unanswered' = Append(Unanswered, new) /\ Len(Unanswered) <= Capacity
    <3>1. CASE working
      <4>1. Unanswered = <<job>> \o queue /\ Unanswered' = <<job>> \o Append(queue, new)
        BY <2>1, <3>1 DEF Unanswered
      <4>2. <<job>> \o Append(queue, new) = Append(<<job>> \o queue, new)
        BY <1>0, <2>2
      <4>3. Len(<<job>> \o queue) = 1 + Len(queue) /\ Len(queue) \in Nat
        BY <1>0
      <4> QED
        BY <2>1, <4>1, <4>2, <4>3
    <3>2. CASE ~working
      <4>1. Unanswered = queue /\ Unanswered' = Append(queue, new)
        BY <2>1, <3>2 DEF Unanswered
      <4>2. Len(queue) \in Nat
        BY <1>0
      <4> QED
        BY <2>1, <4>1, <4>2
    <3> QED
      BY <3>1, <3>2
  <2> QED
    BY <1>1, <2>1, <2>3 DEF Store!Next, Store!Accept, new
<1>3. CASE TakeResults
  BY <1>1, <1>3 DEF TakeResults, Unanswered, Store!Next, Store!Take
<1>4. CASE Shutdown
  BY <1>1, <1>4 DEF Shutdown, Unanswered, Store!vars
<1>5. CASE Restart
  BY <1>1, <1>5 DEF Restart, Unanswered, Store!Next, Store!Stop
<1>6. CASE Dequeue
  <2>1. ~working /\ working' /\ queue # <<>> /\ job' = Head(queue) /\ queue' = Tail(queue)
    BY <1>0, <1>6 DEF Dequeue, SaveConsistent
  <2> HIDE DEF Jobs, IInv
  <2>2. queue = <<Head(queue)>> \o Tail(queue)
    BY <1>0, <2>1
  <2>3. Unanswered' = Unanswered
    BY <2>1, <2>2 DEF Unanswered
  <2> QED
    BY <1>1, <1>6, <2>3 DEF Dequeue, Store!vars
<1>7. CASE Exit
  BY <1>1, <1>7 DEF Exit, Unanswered, handover, Store!vars
<1>8. CASE Save
  BY <1>8, SaveRefines, SaveShares DEF Store!vars, Unanswered
<1>9. CASE Push
  <2>1. working /\ ~working' /\ pc = "push" /\ UNCHANGED <<queue, disk, accepted>>
    BY <1>0, <1>9 DEF Push, SaveConsistent
  <2>2. /\ Unanswered # <<>> /\ Head(Unanswered) = job /\ Tail(Unanswered) = queue
        /\ Unanswered' = queue
    BY <1>0, <2>1, UnansweredHead DEF Unanswered
  <2>3. job.n # 0
    BY <1>0, <2>1 DEF InOrder, TypeOK
  <2>4. ("final" \in made) = (CompleteTrials[Id] = job.n)
    BY <1>0, <2>1, <2>3 DEF SaveConsistent, CompleteTrials, Complete, Has
  <2>5. results' = Append(results, [id |-> job.id, n |-> job.n, ok |-> CompleteTrials[job.id] = job.n])
    BY <1>9, <2>4, Zenon DEF Push, Id
  <2> QED
    BY <1>1, <2>1, <2>2, <2>5 DEF Store!Next, Store!Answer
<1>10. CASE UNCHANGED vars
  BY <1>1, <1>10 DEF vars, disk, Unanswered, Store!vars
<1> QED
  BY <1>2, <1>3, <1>4, <1>5, <1>6, <1>7, <1>8, <1>9, <1>10 DEF Next, Worker

(* The writer implements the trial store: to the service, a trial is there     *)
(* complete or not at all, and windows are answered in order and truthfully.   *)
THEOREM Refines ==
  ASSUME ~({"stat", "remove"} \subseteq Faults) PROVE Spec => ImplementsTrialStore
<1>1. Init => Store!Init
  <2> SUFFICES ASSUME Init PROVE Store!Init
    OBVIOUS
  <2>1. queue = <<>> /\ ~working /\ results = <<>> /\ accepted = 0
    BY DEF Init, Idle
  <2>2. CompleteTrials = [t \in Trials |-> 0]
    BY DEF Init, CompleteTrials, Complete
  <2> QED
    BY <2>1, <2>2 DEF Store!Init, Unanswered
<1>2. IInv /\ [Next]_vars => [Store!Next]_Store!vars
  BY StepRefines
<1> QED
  BY <1>1, <1>2, Inductive, PTL DEF Spec, Store!Spec, ImplementsTrialStore
=============================================================================
