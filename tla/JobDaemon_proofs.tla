--------------------------- MODULE JobDaemon_proofs ---------------------------
(***************************************************************************)
(* Proofs about JobDaemon, for any number of jobs, priorities and kills.   *)
(***************************************************************************)
EXTENDS JobDaemon, SequenceTheorems, TLAPS

-----------------------------------------------------------------------------
(* The operators on job sequences.                                         *)

(* Requeue maps a sequence of jobs to one of the same length.              *)
LEMMA RequeueType ==
  ASSUME NEW js \in Seq(Job)
  PROVE  /\ Requeue(js) \in Seq(Job)
         /\ Len(Requeue(js)) = Len(js)
         /\ DOMAIN Requeue(js) = DOMAIN js
         /\ \A i \in DOMAIN js : Requeue(js)[i].id = js[i].id
         /\ \A i \in DOMAIN js : Requeue(js)[i].state # "Running"
<1>1. ASSUME NEW i \in DOMAIN js
      PROVE  /\ Requeue(js)[i] \in Job
             /\ Requeue(js)[i].id = js[i].id
             /\ Requeue(js)[i].state # "Running"
  <2>1. js[i] \in Job
    OBVIOUS
  <2>2. Requeue(js)[i] = IF js[i].state = "Running" THEN [js[i] EXCEPT !.state = "Queued"]
                                                    ELSE js[i]
    BY DEF Requeue
  <2> QED
    BY <2>1, <2>2 DEF Job, States
<1>2. DOMAIN Requeue(js) = 1 .. Len(js) /\ Len(js) \in Nat
  BY DEF Requeue
<1>3. Requeue(js) \in [1 .. Len(js) -> Job]
  BY <1>1, <1>2 DEF Requeue
<1>4. Requeue(js) \in Seq(Job) /\ Len(Requeue(js)) = Len(js)
  BY <1>2, <1>3, SeqDef
<1> QED
  BY <1>1, <1>2, <1>4

(* The place from which the older text's objects are kept is one of it.    *)
LEMMA FirstKeptType == ASSUME NEW n \in Nat PROVE FirstKept(n) \subseteq Nat \ {0}
BY JobDaemonAssumption DEF FirstKept, JobDaemonAssumption

(* Texts in step: the older text's next object is found or lost.           *)
LEMMA FirstKeptInStep ==
  ASSUME MaxSlack = 0, NEW n \in Nat, NEW k \in FirstKept(n)
  PROVE  \E d \in {0, 1} : k = n + 1 + d
BY DEF FirstKept

(* Writing one text over another gives a sequence of jobs again.           *)
LEMMA OverlayType ==
  ASSUME NEW c \in Seq(Job), NEW f \in Seq(Job), NEW k \in Nat \ {0}
  PROVE  Overlay(c, f, k) \in Seq(Job)
<1>1. CASE k <= Len(f)
  BY <1>1 DEF Overlay
<1>2. CASE k > Len(f)
  BY <1>2 DEF Overlay
<1> QED
  BY <1>1, <1>2

(* A write through the worker's reference keeps the vector typed.          *)
LEMMA WriteBestType ==
  ASSUME jobs \in Seq(Job), wbest \in 1 .. Len(jobs), NEW state \in States,
         WriteBest(state)
  PROVE  jobs' \in Seq(Job) /\ Len(jobs') = Len(jobs)
<1>1. CASE stale
  BY <1>1 DEF WriteBest
<1>2. CASE ~stale
  <2> DEFINE job == [jobs[wbest] EXCEPT !.state = state]
  <2>1. jobs' = [jobs EXCEPT ![wbest] = job]
    BY <1>2 DEF WriteBest
  <2>2. jobs[wbest] \in Job
    OBVIOUS
  <2>3. job \in Job
    BY <2>2 DEF Job
  <2> HIDE DEF job
  <2> QED
    BY <2>1, <2>3, ExceptSeq
<1> QED
  BY <1>1, <1>2

-----------------------------------------------------------------------------
(* Type correctness.                                                       *)

LEMMA TypeInit == Init => TypeOK
<1> SUFFICES ASSUME Init
             PROVE  TypeOK
  OBVIOUS
<1> USE JobDaemonAssumption DEF JobDaemonAssumption, Init
<1>1. StoreType
  BY EmptySeq DEF StoreType
<1>2. DiskType
  BY EmptySeq DEF DiskType, JobSaveStates
<1>3. WorkerType
  BY EmptySeq DEF WorkerType, WorkerCounters
<1>4. WorldType
  BY DEF WorldType
<1>5. FlagType
  BY DEF FlagType
<1> QED
  BY <1>1, <1>2, <1>3, <1>4, <1>5 DEF TypeOK

LEMMA TypeSave ==
  ASSUME TypeOK, NEW t \in Threads, SaveStep(t)
  PROVE  TypeOK'
<1>1. UNCHANGED <<store, worker, world, paused, mreply>>
  BY DEF SaveStep, SaveOpen, SaveCopy, SaveFlush
<1>2. StoreType' /\ WorkerType' /\ WorldType'
  BY <1>1 DEF TypeOK, StoreType, WorkerType, WorldType, store, worker, world
<1>3. overlap' = overlap \/ overlap' = MidSave(Other(t))
  BY DEF SaveStep, SaveOpen, SaveCopy, SaveFlush
<1>4. FlagType'
  <2>1. MidSave(Other(t)) \in BOOLEAN
    BY DEF MidSave
  <2>2. overlap' \in BOOLEAN
    BY <1>3, <2>1 DEF TypeOK, FlagType
  <2> QED
    BY <1>1, <2>2 DEF TypeOK, FlagType, worker, world
<1>5. DiskType'
  <2>1. CASE SaveOpen(t)
    BY <2>1, EmptySeq DEF SaveOpen, TypeOK, DiskType, JobSaveStates
  <2>2. CASE SaveCopy(t)
    BY <2>2 DEF SaveCopy, TypeOK, StoreType, DiskType, JobSaveStates
  <2>3. CASE SaveFlush(t)
    <3>1. PICK k \in FirstKept(Len(snap[t])) : file' = Overlay(snap[t], file, k)
      BY <2>3 DEF SaveFlush
    <3>2. snap[t] \in Seq(Job) /\ file \in Seq(Job) /\ <<>> \in Seq(Job)
      BY EmptySeq DEF TypeOK, DiskType
    <3>3. k \in Nat \ {0}
      BY <3>1, <3>2, LenProperties, FirstKeptType
    <3>4. file' \in Seq(Job)
      BY <3>1, <3>2, <3>3, OverlayType
    <3> QED
      BY <2>3, <3>2, <3>4 DEF SaveFlush, TypeOK, DiskType, JobSaveStates
  <2> QED
    BY <2>1, <2>2, <2>3 DEF SaveStep
<1> QED
  BY <1>2, <1>4, <1>5 DEF TypeOK

LEMMA TypeEndJob ==
  ASSUME TypeOK, wpc \in {"launch", "exec"},
         NEW state \in States, EndJob(state)
  PROVE  TypeOK'
<1>1. jobs' \in Seq(Job) /\ Len(jobs') = Len(jobs)
  BY WriteBestType DEF TypeOK, StoreType, WorkerType, EndJob
<1>2. StoreType' /\ WorldType'
  BY <1>1 DEF TypeOK, StoreType, WorldType, EndJob, world
<1>3. DiskType'
  BY DEF TypeOK, DiskType, EndJob, AskSave, JobSaveStates, Threads
<1>4. WorkerType'
  BY <1>1, LenProperties DEF TypeOK, StoreType, WorkerType, EndJob, LeaveProcessNext, WorkerCounters
<1>5. FlagType'
  BY DEF TypeOK, FlagType, EndJob, LeaveProcessNext, world
<1> QED
  BY <1>2, <1>3, <1>4, <1>5 DEF TypeOK

(* The steps of the worker before and at the start of a job.               *)
LEMMA TypeWorker ==
  ASSUME TypeOK, WorkerStep
  PROVE  TypeOK'
<1> USE DEF TypeOK
<1>1. CASE Poll \/ ScanJob \/ ScanFreedJob \/ ScanFindsNone
  <2>1. UNCHANGED <<store, disk, world, paused, mreply>>
    BY <1>1 DEF Poll, ScanJob, ScanFreedJob, ScanFindsNone
  <2>2. StoreType' /\ DiskType' /\ WorldType'
    BY <2>1 DEF StoreType, DiskType, WorldType, store, disk, world
  <2>3. Len(jobs) \in Nat
    BY LenProperties DEF StoreType
  <2>4. WorkerType'
    <3>1. CASE Poll
      BY <2>1, <2>3, <3>1 DEF Poll, ScanEnd, WorkerType, WorkerCounters, store
    <3>2. CASE ScanJob
      BY <2>1, <2>3, <3>2 DEF ScanJob, WorkerType, store
    <3>3. CASE ScanFreedJob
      BY <2>1, <2>3, <3>3 DEF ScanFreedJob, WorkerType, store
    <3>4. CASE ScanFindsNone
      BY <2>1, <2>3, <3>4 DEF ScanFindsNone, LeaveProcessNext, WorkerType, WorkerCounters, store
    <3> QED
      BY <1>1, <3>1, <3>2, <3>3, <3>4
  <2>5. FlagType'
    BY <1>1, <2>1 DEF Poll, ScanJob, ScanFreedJob, ScanFindsNone, LeaveProcessNext,
                      FlagType, disk, world
  <2> QED
    BY <2>2, <2>4, <2>5
<1>2. CASE StartJob
  <2>1. wbest \in 1 .. Len(jobs) /\ Len(jobs) \in Nat
    BY <1>2, LenProperties DEF StartJob, StoreType, WorkerType
  <2>2. jobs' \in Seq(Job) /\ Len(jobs') = Len(jobs)
    BY <1>2, <2>1, WriteBestType DEF StartJob, StoreType, States
  <2>3. StoreType' /\ WorldType'
    BY <1>2, <2>2 DEF StartJob, StoreType, WorldType, world
  <2>4. DiskType'
    BY <1>2 DEF StartJob, AskSave, DiskType, JobSaveStates, Threads
  <2>5. late' \in Nat
    <3>1. late' = late \/ late' = late + 1
      BY <1>2 DEF StartJob
    <3> QED
      BY <3>1 DEF WorkerType
  <2>6. WorkerType'
    BY <1>2, <2>1, <2>2, <2>5 DEF StartJob, WorkerType, WorkerCounters
  <2>7. FlagType'
    BY <1>2 DEF StartJob, FlagType, world
  <2> QED
    BY <2>3, <2>4, <2>6, <2>7
<1>3. CASE Launch
  <2>1. StoreType' /\ DiskType' /\ WorldType'
    BY <1>3 DEF Launch, StoreType, DiskType, WorldType, store, disk, world
  <2>2. WorkerType'
    BY <1>3 DEF Launch, WorkerReady, WorkerType, WorkerCounters, store
  <2>3. FlagType'
    BY <1>3 DEF Launch, FlagType, disk, world
  <2> QED
    BY <2>1, <2>2, <2>3
<1>4. CASE LaunchFails
  BY <1>4, TypeEndJob DEF LaunchFails, WorkerReady, States
<1> QED
  BY <1>1, <1>2, <1>3, <1>4 DEF WorkerStep

(* The end of a job's process and its progress lines.                      *)
LEMMA TypeProcess ==
  ASSUME TypeOK, ProcessEnds \/ Progress
  PROVE  TypeOK'
<1>1. CASE ProcessEnds
  <2>1. PICK ok \in BOOLEAN : ProcessExits(ok)
    BY <1>1 DEF ProcessEnds
  <2> QED
    BY <2>1, TypeEndJob DEF ProcessExits, WorkerReady, States
<1>2. CASE Progress
  <2>1. StoreType' /\ WorkerType' /\ WorldType'
    BY <1>2 DEF Progress, TypeOK, StoreType, WorkerType, WorldType, store, worker, world
  <2>2. DiskType'
    BY <1>2 DEF Progress, AskSave, TypeOK, DiskType, JobSaveStates, Threads
  <2>3. FlagType'
    BY <1>2 DEF Progress, TypeOK, FlagType, worker, world
  <2> QED
    BY <2>1, <2>2, <2>3 DEF TypeOK
<1> QED
  BY <1>1, <1>2

(* Appending a job, and replacing one field of one, keep the vector typed. *)
LEMMA ReplaceType ==
  ASSUME NEW js \in Seq(Job), NEW i \in DOMAIN js, NEW job \in Job
  PROVE  [js EXCEPT ![i] = job] \in Seq(Job) /\ Len([js EXCEPT ![i] = job]) = Len(js)
<1>1. i \in 1 .. Len(js)
  BY LenProperties
<1> QED
  BY <1>1, ExceptSeq

(* What handle_client does for each request that changes state.            *)
LEMMA TypeClient ==
  ASSUME TypeOK, ClientStep
  PROVE  TypeOK'
<1> USE DEF TypeOK
<1>1. jobs \in Seq(Job) /\ Len(jobs) \in Nat
  BY LenProperties DEF StoreType
<1>2. ASSUME NEW pri \in Priorities, NEW dep \in Deps, Submit(pri, dep)
      PROVE  TypeOK'
  <2>1. nextId \in Ids
    BY <1>2, JobDaemonAssumption DEF Submit, StoreType, Ids, JobDaemonAssumption
  <2> DEFINE job == [id |-> nextId, state |-> "Queued", pri |-> pri, dep |-> dep]
  <2>2. job \in Job
    BY <2>1 DEF Job, States
  <2>3. jobs' = Append(jobs, job)
    BY <1>2 DEF Submit
  <2> HIDE DEF job
  <2>4. jobs' \in Seq(Job) /\ Len(jobs') = Len(jobs) + 1
    BY <1>1, <2>2, <2>3
  <2>5. cap' \in Nat
    <3>1. cap' = Grown \/ cap' = cap
      BY <1>2 DEF Submit
    <3> QED
      BY <3>1 DEF Grown, StoreType
  <2>6. StoreType'
    BY <1>2, <2>1, <2>4, <2>5, JobDaemonAssumption
       DEF Submit, StoreType, Ids, JobDaemonAssumption
  <2>7. DiskType' /\ WorldType'
    BY <1>2 DEF Submit, AskSave, DiskType, WorldType, JobSaveStates, Threads, world
  <2>8. WorkerType'
    <3>1. UNCHANGED <<wpc, wi, wend, wbest, late>> /\ touched' = (touched \/ wpc = "scan")
      BY <1>2 DEF Submit, Touch
    <3> QED
      BY <1>1, <2>4, <3>1 DEF WorkerType
  <2>9. FlagType'
    BY <1>2 DEF Submit, Touch, FlagType, world
  <2> QED
    BY <2>6, <2>7, <2>8, <2>9
<1>3. ASSUME NEW i \in Jobs, NEW job \in Job, jobs' = [jobs EXCEPT ![i] = job],
             AskSave("main"), Touch,
             UNCHANGED <<nextId, cap, file, snap, overlap, world, paused, mreply,
                         wpc, wi, wend, wbest, stale, late>>
      PROVE  TypeOK'
  <2>1. jobs' \in Seq(Job) /\ Len(jobs') = Len(jobs)
    BY <1>1, <1>3, ReplaceType DEF Jobs
  <2>2. StoreType' /\ DiskType' /\ WorldType'
    BY <1>3, <2>1 DEF StoreType, AskSave, DiskType, WorldType, JobSaveStates, Threads, world
  <2>3. WorkerType'
    BY <1>3, <2>1 DEF WorkerType
  <2>4. FlagType'
    BY <1>3 DEF Touch, FlagType, world
  <2> QED
    BY <2>2, <2>3, <2>4
<1>4. ASSUME NEW i \in Jobs, Cancel(i)
      PROVE  TypeOK'
  <2> DEFINE job == [jobs[i] EXCEPT !.state = "Cancelled"]
  <2>1. jobs[i] \in Job
    BY <1>1 DEF Jobs
  <2>2. job \in Job
    BY <2>1 DEF Job, States
  <2>3. jobs' = [jobs EXCEPT ![i] = job]
    BY <1>4 DEF Cancel
  <2> HIDE DEF job
  <2> QED
    BY <1>3, <1>4, <2>2, <2>3 DEF Cancel
<1>5. ASSUME NEW i \in Jobs, NEW pri \in Priorities, SetPriority(i, pri)
      PROVE  TypeOK'
  <2> DEFINE job == [jobs[i] EXCEPT !.pri = pri]
  <2>1. jobs[i] \in Job
    BY <1>1 DEF Jobs
  <2>2. job \in Job
    BY <2>1 DEF Job
  <2>3. jobs' = [jobs EXCEPT ![i] = job]
    BY <1>5 DEF SetPriority
  <2> HIDE DEF job
  <2> QED
    BY <1>3, <1>5, <2>2, <2>3 DEF SetPriority
<1>6. CASE Pause
  <2>1. StoreType' /\ DiskType' /\ WorkerType' /\ WorldType'
    BY <1>6 DEF Pause, StoreType, DiskType, WorkerType, WorldType, store, disk, worker, world
  <2>2. FlagType'
    BY <1>6 DEF Pause, FlagType, disk, worker, world
  <2> QED
    BY <2>1, <2>2
<1>7. CASE Resume
  <2>1. StoreType' /\ DiskType' /\ WorldType'
    BY <1>7 DEF Resume, StoreType, DiskType, WorldType, store, disk, world
  <2>2. WorkerType'
    BY <1>7 DEF Resume, WorkerType, store
  <2>3. FlagType'
    BY <1>7 DEF Resume, FlagType, disk, world
  <2> QED
    BY <2>1, <2>2, <2>3
<1> QED
  BY <1>2, <1>4, <1>5, <1>6, <1>7 DEF ClientStep

(* Replies, kills, restarts and the processes kills leave behind.          *)
LEMMA TypeRest ==
  ASSUME TypeOK, Reply \/ Crash \/ OrphanExits \/ Boot
  PROVE  TypeOK'
<1> USE DEF TypeOK
<1>1. jobs \in Seq(Job) /\ file \in Seq(Job) /\ Len(jobs) \in Nat /\ Len(file) \in Nat
  BY LenProperties DEF StoreType, DiskType
<1>2. CASE Reply
  <2>1. WorkerType' /\ DiskType' /\ WorldType' /\ StoreType'
    BY <1>2, JobDaemonAssumption
       DEF Reply, WorkerType, DiskType, WorldType, StoreType, store, disk, worker, Ids,
           JobDaemonAssumption
  <2>2. FlagType'
    BY <1>2 DEF Reply, FlagType, disk, worker
  <2> QED
    BY <2>1, <2>2
<1>3. CASE Crash
  <2>1. orphans' \subseteq Ids
    <3>1. CASE wpc = "exec" /\ orphans' = orphans \cup {jobs[wbest].id}
      <4>1. wbest \in 1 .. Len(jobs)
        BY <1>1, <3>1 DEF WorkerType
      <4>2. jobs[wbest] \in Job
        BY <1>1, <4>1
      <4>3. jobs[wbest].id \in Ids
        BY <4>2 DEF Job
      <4> QED
        BY <3>1, <4>3 DEF WorldType
    <3> QED
      BY <1>3, <3>1 DEF Crash, WorldType
  <2>2. StoreType'
    BY <1>3, EmptySeq, JobDaemonAssumption DEF Crash, StoreType, JobDaemonAssumption
  <2>3. DiskType'
    BY <1>3, EmptySeq DEF Crash, DiskType, JobSaveStates
  <2>4. WorkerType'
    BY <1>3, EmptySeq DEF Crash, WorkerType, WorkerCounters
  <2>5. crashes' \in 0 .. MaxCrash /\ acked' \subseteq Ids
    BY <1>3, JobDaemonAssumption DEF Crash, WorldType, JobDaemonAssumption
  <2>6. FlagType'
    <3>1. (dirty \/ overlap \/ ~Saved) \in BOOLEAN
      OBVIOUS
    <3> QED
      BY <1>3, <3>1 DEF Crash, FlagType
  <2> QED
    BY <2>1, <2>2, <2>3, <2>4, <2>5, <2>6 DEF WorldType
<1>4. CASE OrphanExits
  <2>1. StoreType' /\ DiskType' /\ WorkerType' /\ WorldType'
    BY <1>4 DEF OrphanExits, StoreType, DiskType, WorkerType, WorldType, store, disk, worker
  <2>2. FlagType'
    BY <1>4 DEF OrphanExits, FlagType, disk, worker
  <2> QED
    BY <2>1, <2>2
<1>5. CASE Boot
  <2>1. jobs' \in Seq(Job)
    BY <1>1, <1>5, RequeueType DEF Boot
  <2>2. StoreType'
    <3>1. nextId' \in 1 .. MaxJobs + 1
      BY <1>5 DEF Boot
    <3>2. cap' \in Nat
      BY <1>1, <1>5 DEF Boot
    <3> QED
      BY <1>5, <2>1, <3>1, <3>2 DEF Boot, StoreType
  <2>3. DiskType' /\ WorldType'
    BY <1>5 DEF Boot, DiskType, WorldType, world
  <2>4. WorkerType'
    <3>1. wpc = "off"
      BY <1>5 DEF Boot, Up
    <3> QED
      BY <1>5, <2>1, <3>1 DEF Boot, WorkerType, WorkerCounters
  <2>5. FlagType'
    BY <1>5 DEF Boot, FlagType, world
  <2> QED
    BY <2>2, <2>3, <2>4, <2>5
<1> QED
  BY <1>2, <1>3, <1>4, <1>5

LEMMA TypeStutter == TypeOK /\ UNCHANGED vars => TypeOK'
<1> SUFFICES ASSUME TypeOK, UNCHANGED vars
             PROVE  TypeOK'
  OBVIOUS
<1>1. StoreType' /\ DiskType' /\ WorkerType' /\ WorldType'
  BY DEF TypeOK, StoreType, DiskType, WorkerType, WorldType, vars, store, disk, worker, world
<1>2. FlagType'
  BY DEF TypeOK, FlagType, vars, disk, worker, world
<1> QED
  BY <1>1, <1>2 DEF TypeOK

(* Every reachable state is well typed: in particular the worker's indices *)
(* stay inside the vector whatever clients append, and a running job is    *)
(* held by a reference that was set.                                       *)
THEOREM TypeCorrect == Spec => []TypeOK
<1>1. Init => TypeOK
  BY TypeInit
<1>2. TypeOK /\ [Next]_vars => TypeOK'
  BY TypeSave, TypeWorker, TypeProcess, TypeClient, TypeRest, TypeStutter DEF Next
<1> QED
  BY <1>1, <1>2, PTL DEF Spec

-----------------------------------------------------------------------------
(* One job at a time.                                                      *)

(* Whatever runs after a step ran before it.                               *)
NoNewRunning ==
  \A i \in Jobs' : jobs'[i].state = "Running" => i \in Jobs /\ jobs[i].state = "Running"

(* Only StartJob marks a job running.                                      *)
LEMMA OnlyStartRuns ==
  ASSUME TypeOK, [Next]_vars, ~StartJob
  PROVE  NoNewRunning
<1>1. jobs \in Seq(Job) /\ file \in Seq(Job) /\ Jobs = 1 .. Len(jobs) /\ Len(jobs) \in Nat
  BY LenProperties DEF TypeOK, StoreType, DiskType, Jobs
<1>2. CASE jobs' = jobs
  BY <1>2 DEF NoNewRunning, Jobs
<1>3. ASSUME NEW state \in States \ {"Running"}, wbest \in Jobs, WriteBest(state)
      PROVE  NoNewRunning
  <2>1. CASE stale
    BY <1>2, <1>3, <2>1 DEF WriteBest
  <2>2. CASE ~stale
    <3>1. jobs' = [jobs EXCEPT ![wbest].state = state]
      BY <1>3, <2>2 DEF WriteBest
    <3>2. jobs[wbest] \in Job /\ state # "Running"
      BY <1>1, <1>3
    <3>3. Jobs' = Jobs
      BY <3>1 DEF Jobs
    <3>4. jobs'[wbest].state = state
      BY <1>3, <3>1, <3>2 DEF Jobs, Job
    <3>5. \A i \in Jobs \ {wbest} : jobs'[i] = jobs[i]
      BY <3>1 DEF Jobs
    <3> QED
      BY <3>2, <3>3, <3>4, <3>5 DEF NoNewRunning
  <2> QED
    BY <2>1, <2>2
<1>4. CASE wpc \in {"launch", "exec"} /\ \E state \in States \ {"Running"} : EndJob(state)
  <2>1. wbest \in Jobs
    BY <1>1, <1>4 DEF TypeOK, WorkerType
  <2> QED
    BY <1>3, <1>4, <2>1 DEF EndJob
<1>5. ASSUME NEW pri \in Priorities, NEW dep \in Deps, Submit(pri, dep)
      PROVE  NoNewRunning
  <2> DEFINE job == [id |-> nextId, state |-> "Queued", pri |-> pri, dep |-> dep]
  <2>1. jobs' = Append(jobs, job) /\ job.state = "Queued"
    BY <1>5 DEF Submit
  <2> HIDE DEF job
  <2> QED
    BY <1>1, <2>1 DEF NoNewRunning, Jobs
<1>6. ASSUME NEW i \in Jobs, Cancel(i)
      PROVE  NoNewRunning
  BY <1>1, <1>6 DEF Cancel, NoNewRunning, Jobs, Job
<1>7. ASSUME NEW i \in Jobs, NEW pri \in Priorities, SetPriority(i, pri)
      PROVE  NoNewRunning
  BY <1>1, <1>7 DEF SetPriority, NoNewRunning, Jobs, Job
<1>8. CASE Crash
  BY <1>8 DEF Crash, NoNewRunning, Jobs
<1>9. CASE Boot
  BY <1>1, <1>9, RequeueType DEF Boot, NoNewRunning, Jobs
<1>10. CASE \E t \in Threads : SaveStep(t)
  BY <1>2, <1>10 DEF SaveStep, SaveOpen, SaveCopy, SaveFlush, store
<1>11. CASE WorkerStep
  <2>1. CASE LaunchFails
    BY <1>4, <2>1 DEF LaunchFails, WorkerReady, States
  <2> QED
    BY <1>2, <1>11, <2>1
       DEF WorkerStep, Poll, ScanJob, ScanFreedJob, ScanFindsNone, Launch, store
<1>12. CASE ProcessEnds
  BY <1>4, <1>12 DEF ProcessEnds, ProcessExits, WorkerReady, States
<1>13. CASE Progress \/ Reply \/ OrphanExits \/ Pause \/ Resume \/ UNCHANGED vars
  BY <1>2, <1>13 DEF Progress, Reply, OrphanExits, Pause, Resume, vars, store
<1> QED
  BY <1>5, <1>6, <1>7, <1>8, <1>9, <1>10, <1>11, <1>12, <1>13 DEF Next, ClientStep

(* Outside the worker's own steps, kills and boots, the worker stays where *)
(* it is, and its reference can only go stale.                             *)
LEMMA OthersLeaveWorker ==
  ASSUME [Next]_vars, ~WorkerStep, ~ProcessEnds, ~Crash, ~Boot
  PROVE  UNCHANGED <<wpc, wbest>> /\ (stale => stale')
<1>1. ASSUME NEW pri \in Priorities, NEW dep \in Deps, Submit(pri, dep)
      PROVE  UNCHANGED <<wpc, wbest>> /\ (stale => stale')
  BY <1>1 DEF Submit
<1>2. CASE \E i \in Jobs : Cancel(i) \/ \E pri \in Priorities : SetPriority(i, pri)
  BY <1>2 DEF Cancel, SetPriority
<1>3. CASE \E t \in Threads : SaveStep(t)
  BY <1>3 DEF SaveStep, SaveOpen, SaveCopy, SaveFlush, worker
<1>4. CASE Progress \/ Reply \/ OrphanExits \/ Pause \/ Resume \/ UNCHANGED vars
  BY <1>4 DEF Progress, Reply, OrphanExits, Pause, Resume, vars, worker
<1> QED
  BY <1>1, <1>2, <1>3, <1>4 DEF Next, ClientStep

LEMMA RunningStart ==
  ASSUME TypeOK, RunningInv, StartJob
  PROVE  RunningInv'
<1>1. jobs \in Seq(Job) /\ Jobs = 1 .. Len(jobs) /\ wbest \in Jobs
  BY LenProperties DEF TypeOK, StoreType, WorkerType, Jobs, StartJob
<1>2. \A i \in Jobs : jobs[i].state # "Running"
  BY DEF RunningInv, NoJobRunning, StartJob
<1>3. wpc' = "launch" /\ wbest' = wbest
  BY DEF StartJob
<1>4. \A i \in Jobs' : jobs'[i].state = "Running" => i = wbest
  <2>1. jobs' = jobs \/ jobs' = [jobs EXCEPT ![wbest].state = "Running"]
    BY DEF StartJob, WriteBest
  <2> QED
    BY <1>1, <1>2, <2>1 DEF Jobs
<1> QED
  BY <1>3, <1>4 DEF RunningInv, OneRunning, RunningIsWorked

LEMMA RunningNext == TypeOK /\ RunningInv /\ [Next]_vars => RunningInv'
<1> SUFFICES ASSUME TypeOK, RunningInv, [Next]_vars
             PROVE  RunningInv'
  OBVIOUS
<1>1. CASE StartJob
  BY <1>1, RunningStart
<1>2. CASE ~StartJob
  <2>1. NoNewRunning
    BY <1>2, OnlyStartRuns
  <2>2. OneRunning'
    BY <2>1 DEF NoNewRunning, RunningInv, OneRunning
  <2>3. (wpc = "scan" => NoJobRunning) /\ RunningIsWorked
    BY DEF RunningInv
  <2>4. CASE NoJobRunning
    <3>1. NoJobRunning'
      BY <2>1, <2>4 DEF NoNewRunning, NoJobRunning
    <3> QED
      BY <2>2, <3>1 DEF RunningInv, NoJobRunning, RunningIsWorked
  <2>5. CASE Crash
    <3>1. NoJobRunning'
      BY <2>5 DEF Crash, NoJobRunning, Jobs
    <3> QED
      BY <2>2, <3>1 DEF RunningInv, NoJobRunning, RunningIsWorked
  <2>6. CASE Boot
    <3>1. NoJobRunning'
      BY <2>6, RequeueType DEF Boot, NoJobRunning, Jobs, TypeOK, DiskType
    <3> QED
      BY <2>2, <3>1 DEF RunningInv, NoJobRunning, RunningIsWorked
  <2>7. ASSUME wpc \in {"launch", "exec"}, NEW state \in States \ {"Running"}, EndJob(state)
        PROVE  RunningInv'
    <3>1. wpc' = "poll" /\ stale' = stale
      BY <2>7 DEF EndJob, LeaveProcessNext
    <3>2. ASSUME NEW i \in Jobs', jobs'[i].state = "Running"
          PROVE  stale
      <4>1. i \in Jobs /\ jobs[i].state = "Running"
        BY <2>1, <3>2 DEF NoNewRunning
      <4>2. CASE ~stale
        <5>1. wbest = i
          BY <2>3, <4>1, <4>2 DEF RunningIsWorked
        <5>2. jobs' = [jobs EXCEPT ![wbest].state = state]
          BY <2>7, <4>2 DEF EndJob, WriteBest
        <5>3. jobs[i] \in Job
          BY <4>1 DEF TypeOK, StoreType, Jobs
        <5>4. jobs'[i].state = state
          BY <4>1, <5>1, <5>2, <5>3 DEF Jobs, Job
        <5> QED
          BY <2>7, <3>2, <5>4
      <4> QED
        BY <4>2
    <3> QED
      BY <2>2, <3>1, <3>2 DEF RunningInv, RunningIsWorked
  <2>8. CASE Launch
    <3>1. UNCHANGED <<jobs, wbest, stale>> /\ wpc' = "exec"
      BY <2>8 DEF Launch, store
    <3> QED
      BY <2>2, <2>3, <3>1 DEF RunningInv, RunningIsWorked, Jobs
  <2>9. CASE Poll
    BY <2>4, <2>9 DEF Poll
  <2>10. CASE ScanJob \/ ScanFreedJob \/ ScanFindsNone
    BY <2>3, <2>4, <2>10 DEF ScanJob, ScanFreedJob, ScanFindsNone
  <2>11. CASE ~WorkerStep /\ ~ProcessEnds /\ ~Crash /\ ~Boot
    <3>1. UNCHANGED <<wpc, wbest>> /\ (stale => stale')
      BY <2>11, OthersLeaveWorker
    <3> QED
      BY <2>1, <2>2, <2>3, <2>4, <3>1 DEF NoNewRunning, RunningInv, RunningIsWorked
  <2> QED
    BY <1>2, <2>5, <2>6, <2>7, <2>8, <2>9, <2>10, <2>11
       DEF WorkerStep, ProcessEnds, LaunchFails, ProcessExits, WorkerReady, States
<1> QED
  BY <1>1, <1>2

LEMMA RunningInit == Init => RunningInv
BY DEF Init, RunningInv, NoJobRunning, OneRunning, RunningIsWorked, Jobs

LEMMA RunningAlways == Spec => []RunningInv
BY RunningInit, RunningNext, TypeCorrect, PTL DEF Spec

(* "Daemon -- runs jobs sequentially" (job_queue.h): no two jobs of the    *)
(* vector are ever marked running, although nothing but the worker's own   *)
(* any_of test and no lock prevents it.                                    *)
THEOREM AtMostOneJobRuns == Spec => []OneRunning
BY RunningAlways, PTL DEF RunningInv

(* A job is marked running only while the worker executes it, except after *)
(* a SUBMIT reallocated jobs_ under the worker.                            *)
THEOREM RunningJobsAreWorked == Spec => []RunningIsWorked
BY RunningAlways, PTL DEF RunningInv

-----------------------------------------------------------------------------
(* Pausing.                                                                *)

LEMMA PauseInit == Init => PauseInv
BY DEF Init, PauseInv, PauseHolds

(* Steps that neither pause, resume, start a job nor enter a scan.         *)
LEMMA PauseUnaffected ==
  ASSUME PauseInv, UNCHANGED <<paused, late>>, wpc' = "scan" => wpc = "scan"
  PROVE  PauseInv'
BY DEF PauseInv, PauseHolds

LEMMA PauseNext == TypeOK /\ PauseInv /\ [Next]_vars => PauseInv'
<1> SUFFICES ASSUME TypeOK, PauseInv, [Next]_vars
             PROVE  PauseInv'
  OBVIOUS
<1>1. CASE StartJob
  <2>1. UNCHANGED paused /\ wpc = "scan" /\ wpc' = "launch"
    BY <1>1 DEF StartJob
  <2>2. CASE paused
    <3>1. late = 0 /\ late' = late + 1
      <4>1. late \in Nat /\ late <= 1 /\ late # 1
        BY <2>1, <2>2 DEF PauseInv, PauseHolds, TypeOK, WorkerType
      <4> QED
        BY <1>1, <2>2, <4>1 DEF StartJob
    <3> QED
      BY <2>1, <2>2, <3>1 DEF PauseInv, PauseHolds
  <2>3. CASE ~paused
    <3>1. late = 0 /\ late' = late
      BY <1>1, <2>3 DEF StartJob, PauseInv
    <3> QED
      BY <2>1, <2>3, <3>1 DEF PauseInv, PauseHolds
  <2> QED
    BY <2>2, <2>3
<1>2. CASE Poll
  <2>1. ~paused /\ UNCHANGED <<paused, late>>
    BY <1>2 DEF Poll, MayScan
  <2> QED
    BY <2>1 DEF PauseInv, PauseHolds
<1>3. CASE Pause
  <2>1. UNCHANGED <<late, wpc>> /\ paused'
    BY <1>3 DEF Pause, worker
  <2>2. CASE paused
    BY <2>1, <2>2 DEF PauseInv, PauseHolds
  <2>3. CASE ~paused
    <3>1. late' = 0
      BY <2>1, <2>3 DEF PauseInv
    <3> QED
      BY <2>1, <3>1 DEF PauseInv, PauseHolds
  <2> QED
    BY <2>2, <2>3
<1>4. CASE Resume \/ Crash
  <2>1. ~paused' /\ late' = 0
    BY <1>4 DEF Resume, Crash
  <2> QED
    BY <2>1 DEF PauseInv, PauseHolds
<1>5. CASE \E i \in Jobs : Cancel(i) \/ \E pri \in Priorities : SetPriority(i, pri)
  BY <1>5, PauseUnaffected DEF Cancel, SetPriority
<1>6. CASE \E pri \in Priorities, dep \in Deps : Submit(pri, dep)
  BY <1>6, PauseUnaffected DEF Submit
<1>7. CASE (\E t \in Threads : SaveStep(t)) \/ Progress \/ Reply \/ OrphanExits \/ UNCHANGED vars
  BY <1>7, PauseUnaffected
     DEF SaveStep, SaveOpen, SaveCopy, SaveFlush, Progress, Reply, OrphanExits, vars, worker
<1>8. CASE \E state \in States : EndJob(state)
  BY <1>8, PauseUnaffected DEF EndJob, LeaveProcessNext
<1>9. CASE ScanJob \/ ScanFreedJob \/ ScanFindsNone \/ Launch \/ Boot
  BY <1>9, PauseUnaffected
     DEF ScanJob, ScanFreedJob, ScanFindsNone, LeaveProcessNext, Launch, Boot
<1> QED
  BY <1>1, <1>2, <1>3, <1>4, <1>5, <1>6, <1>7, <1>8, <1>9
     DEF Next, ClientStep, WorkerStep, LaunchFails, ProcessEnds, ProcessExits, States

(* After PAUSE at most one more job starts, the one whose scan was already *)
(* past the test of paused_.                                               *)
THEOREM PauseStopsQueue == Spec => []PauseHolds
<1>1. PauseInv => PauseHolds
  BY DEF PauseInv
<1> QED
  BY <1>1, PauseInit, PauseNext, TypeCorrect, PTL DEF Spec

-----------------------------------------------------------------------------
(* The file.                                                               *)

(* What two sequences of jobs restore depends only on Requeue.             *)
LEMMA RequeueTwice ==
  ASSUME NEW js \in Seq(Job)
  PROVE  Requeue(Requeue(js)) = Requeue(js)
<1> DEFINE r == Requeue(js)
<1>1. r \in Seq(Job) /\ \A i \in DOMAIN r : r[i].state # "Running"
  BY RequeueType
<1> HIDE DEF r
<1>2. Requeue(r) \in Seq(Job) /\ Len(Requeue(r)) = Len(r)
  BY <1>1, RequeueType
<1>3. \A i \in 1 .. Len(r) : Requeue(r)[i] = r[i]
  BY <1>1, LenProperties DEF Requeue
<1>4. Requeue(r) = r
  BY <1>1, <1>2, <1>3, SeqEqual
<1> QED
  BY <1>4 DEF r

LEMMA SaveInit == Init => SaveInv
BY DEF Init, SaveInv, Up, Saved, QuietStoreRestores, MidSave, Threads

(* A text written over an empty file is the file.                          *)
LEMMA OverlayEmpty ==
  ASSUME NEW c \in Seq(Job), NEW k \in Nat \ {0}
  PROVE  Overlay(c, <<>>, k) = c
<1>1. SubSeq(<<>>, k, Len(<<>>)) = <<>>
  BY EmptySeq, SubSeqEmpty
<1> QED
  BY <1>1, ConcatEmptySeq DEF Overlay

(* A step by which one thread changes jobs_ and then has a save to do.     *)
LEMMA SaveAsked ==
  ASSUME TypeOK, SaveInv, Up', NEW t \in Threads, AskSave(t), sv[t] = "none",
         wpc' = "scan" => wpc = "scan" /\ t = "main",
         UNCHANGED <<file, snap, overlap>>
  PROVE  SaveInv'
<1>1. sv \in [Threads -> JobSaveStates]
  BY DEF TypeOK, DiskType
<1>2. sv'[t] = "todo" /\ \A u \in Threads \ {t} : sv'[u] = sv[u]
  BY <1>1 DEF AskSave
<1>3. ~Saved'
  BY <1>2 DEF Saved
<1>4. \A u \in Threads : MidSave(u)' => u # t /\ MidSave(u)
  BY <1>2 DEF MidSave
<1>5. \A u \in Threads : ~(sv'[u] = "copied" /\ sv'[Other(u)] = "none")
  BY <1>2 DEF Threads, Other
<1>6. wpc' = "scan" => sv'["worker"] = "none"
  BY <1>2 DEF SaveInv, Threads
<1> QED
  BY <1>3, <1>4, <1>5, <1>6 DEF SaveInv, QuietStoreRestores, Threads

LEMMA SaveSteps ==
  ASSUME TypeOK, SaveInv, NEW t \in Threads, SaveStep(t)
  PROVE  SaveInv'
<1> DEFINE u == Other(t)
<1>1. /\ u \in Threads /\ u # t /\ Other(u) = t /\ Threads = {t, u}
      /\ sv \in [Threads -> JobSaveStates] /\ snap \in [Threads -> Seq(Job)]
  BY DEF TypeOK, DiskType, Other, Threads
<1>2. UNCHANGED <<jobs, wpc>> /\ Up /\ Up'
  BY DEF SaveStep, SaveOpen, SaveCopy, SaveFlush, SaveInv, Saved, Up, store, worker
<1>6. wpc' = "scan" => sv'["worker"] = "none"
  BY <1>1, <1>2 DEF SaveInv, SaveStep, SaveOpen, SaveCopy, SaveFlush, Threads
<1> HIDE DEF u
<1>3. CASE SaveOpen(t)
  <2>1. /\ sv'[t] = "opened" /\ sv'[u] = sv[u]
        /\ file' = <<>> /\ UNCHANGED snap /\ overlap' = MidSave(u)
    BY <1>1, <1>3 DEF SaveOpen, u
  <2>2. ~Saved'
    BY <1>1, <2>1 DEF Saved
  <2>3. ~overlap' => ~MidSave(u)'
    BY <2>1 DEF MidSave
  <2>4. \A v \in Threads : sv'[v] = "copied" => ~(~overlap')
    BY <1>1, <2>1, <2>3 DEF MidSave
  <2>5. ~overlap' => ~(MidSave("main")' /\ MidSave("worker")')
    BY <1>1, <2>3 DEF Threads
  <2> QED
    BY <1>2, <1>6, <2>1, <2>2, <2>4, <2>5 DEF SaveInv, QuietStoreRestores
<1>4. CASE SaveCopy(t)
  <2>1. /\ sv[t] = "opened" /\ sv'[t] = "copied" /\ sv'[u] = sv[u]
        /\ snap'[t] = jobs /\ snap'[u] = snap[u] /\ UNCHANGED <<file, overlap>>
    BY <1>1, <1>4 DEF SaveCopy
  <2>2. ~Saved'
    BY <1>1, <2>1 DEF Saved
  <2>3. \A v \in Threads : MidSave(v)' = MidSave(v)
    BY <1>1, <2>1 DEF MidSave
  <2>4. ~overlap => ~MidSave(u)
    BY <1>1, <2>1 DEF SaveInv, MidSave, Threads
  <2>5. ~overlap' => \A v \in Threads : sv'[v] = "copied" => snap'[v] = jobs'
    BY <1>1, <1>2, <2>1, <2>4 DEF MidSave
  <2>6. ~overlap' => ~(MidSave("main")' /\ MidSave("worker")')
    BY <2>1, <2>3 DEF SaveInv, Threads
  <2>7. ~overlap' => \A v \in Threads : MidSave(v)' => file' = <<>>
    BY <2>1, <2>3 DEF SaveInv
  <2> QED
    BY <1>2, <1>6, <2>2, <2>5, <2>6, <2>7 DEF SaveInv, QuietStoreRestores
<1>5. CASE SaveFlush(t)
  <2>1. /\ sv[t] = "copied" /\ sv'[t] = "none" /\ sv'[u] = sv[u]
        /\ snap'[u] = snap[u] /\ UNCHANGED overlap
    BY <1>1, <1>5 DEF SaveFlush
  <2>2. ASSUME ~overlap
        PROVE  ~MidSave(u)' /\ (Saved' => file' = jobs')
    <3>1. file = <<>> /\ ~MidSave(u)
      BY <1>1, <2>1, <2>2 DEF SaveInv, MidSave, Threads
    <3>2. PICK k \in FirstKept(Len(snap[t])) : file' = Overlay(snap[t], file, k)
      BY <1>5 DEF SaveFlush
    <3>3. file' = snap[t]
      <4>1. snap[t] \in Seq(Job)
        BY <1>1
      <4>2. k \in Nat \ {0}
        BY <3>2, <4>1, LenProperties, FirstKeptType
      <4> QED
        BY <3>1, <3>2, <4>1, <4>2, OverlayEmpty
    <3>4. Saved' => snap[t] = jobs
      BY <1>1, <2>1, <2>2 DEF SaveInv, Saved, u
    <3> QED
      BY <1>2, <2>1, <3>1, <3>3, <3>4 DEF MidSave
  <2>3. ~MidSave(t)' /\ sv'[t] # "copied"
    BY <2>1 DEF MidSave
  <2>4. ~overlap' => \A v \in Threads : ~MidSave(v)' /\ sv'[v] # "copied"
    BY <1>1, <2>1, <2>2, <2>3 DEF MidSave
  <2>5. QuietStoreRestores'
    BY <2>1, <2>2 DEF QuietStoreRestores
  <2> QED
    BY <1>2, <1>6, <2>4, <2>5 DEF SaveInv, Threads
<1> QED
  BY <1>3, <1>4, <1>5 DEF SaveStep

LEMMA SaveNext == TypeOK /\ SaveInv /\ [Next]_vars => SaveInv'
<1> SUFFICES ASSUME TypeOK, SaveInv, [Next]_vars
             PROVE  SaveInv'
  OBVIOUS
<1>1. CASE \E t \in Threads : SaveStep(t)
  BY <1>1, SaveSteps
<1>2. CASE \E state \in States : EndJob(state) /\ sv["worker"] = "none"
  BY <1>2, SaveAsked DEF EndJob, LeaveProcessNext, Up, Threads
<1>3. CASE ClientStep
  <2>1. CASE \E pri \in Priorities, dep \in Deps : Submit(pri, dep)
    BY <2>1, SaveAsked DEF Submit, MainReady, Up, Threads
  <2>2. CASE \E i \in Jobs : Cancel(i) \/ \E pri \in Priorities : SetPriority(i, pri)
    BY <2>2, SaveAsked DEF Cancel, SetPriority, MainReady, Up, Threads
  <2>3. CASE Pause \/ Resume
    BY <2>3 DEF Pause, Resume, SaveInv, Up, Saved, MidSave, QuietStoreRestores,
                store, disk, worker
  <2> QED
    BY <1>3, <2>1, <2>2, <2>3 DEF ClientStep
<1>4. CASE Progress
  BY <1>4, SaveAsked DEF Progress, WorkerReady, Up, Threads, worker
<1>5. CASE StartJob
  <2>1. sv["worker"] = "none"
    BY <1>5 DEF StartJob, SaveInv
  <2> QED
    BY <1>5, <2>1, SaveAsked DEF StartJob, Up, Threads
<1>6. CASE Poll \/ ScanJob \/ ScanFreedJob \/ ScanFindsNone \/ Launch
  BY <1>6 DEF Poll, ScanJob, ScanFreedJob, ScanFindsNone, LeaveProcessNext, Launch, WorkerReady,
              SaveInv, Up, Saved, MidSave, QuietStoreRestores, store, disk
<1>7. CASE Reply \/ OrphanExits \/ UNCHANGED vars
  BY <1>7 DEF Reply, OrphanExits, vars, SaveInv, Up, Saved, MidSave, QuietStoreRestores,
              store, disk, worker
<1>8. CASE Crash
  BY <1>8 DEF Crash, SaveInv, Up, Saved, MidSave, QuietStoreRestores, Threads
<1>9. CASE Boot
  <2>1. Saved /\ Saved' /\ jobs' = Requeue(file) /\ file' = file
    BY <1>9 DEF Boot, SaveInv, Saved
  <2>2. Requeue(file') = Requeue(jobs')
    BY <2>1, RequeueTwice DEF TypeOK, DiskType
  <2> QED
    BY <2>1, <2>2 DEF SaveInv, Saved, MidSave, QuietStoreRestores, Threads
<1> QED
  BY <1>1, <1>2, <1>3, <1>4, <1>5, <1>6, <1>7, <1>8, <1>9
     DEF Next, WorkerStep, LaunchFails, ProcessEnds, ProcessExits, WorkerReady, States

LEMMA SaveAlways == Spec => []SaveInv
BY SaveInit, SaveNext, TypeCorrect, PTL DEF Spec

(* "persists state" (job_queue.h), for a daemon killed at a quiet moment:  *)
(* when both threads are done saving and their last saves did not overlap, *)
(* jobs.json restores exactly what a restart would make of memory.         *)
THEOREM QuietStoreIsCurrent == Spec => []QuietStoreRestores
BY SaveAlways, PTL DEF SaveInv

-----------------------------------------------------------------------------
(* Answered submissions.                                                   *)

LEMMA AckInit == Init => AckInv
BY DEF Init, AckInv, Up

(* Ids are never removed from the vector while the daemon lives.           *)
LEMMA IdsStay ==
  ASSUME TypeOK, [Next]_vars, ~Crash, ~Boot
  PROVE  JobIds \subseteq JobIds'
<1>1. jobs \in Seq(Job) /\ Jobs = 1 .. Len(jobs) /\ Len(jobs) \in Nat
  BY LenProperties DEF TypeOK, StoreType, Jobs
<1>2. CASE jobs' = jobs
  BY <1>2 DEF JobIds, Jobs
<1>3. ASSUME NEW i \in Jobs, NEW job, job.id = jobs[i].id, jobs' = [jobs EXCEPT ![i] = job]
      PROVE  JobIds \subseteq JobIds'
  BY <1>3 DEF JobIds, Jobs
<1>4. ASSUME NEW state \in States, EndJob(state) \/ StartJob,
             wpc \in {"launch", "exec"} \/ StartJob
      PROVE  JobIds \subseteq JobIds'
  <2>1. wbest \in Jobs
    BY <1>1, <1>4 DEF TypeOK, WorkerType, StartJob
  <2>2. PICK st \in States : WriteBest(st)
    BY <1>4 DEF EndJob, StartJob, States
  <2>3. CASE stale
    BY <1>2, <2>2, <2>3 DEF WriteBest
  <2>4. CASE ~stale
    <3> DEFINE job == [jobs[wbest] EXCEPT !.state = st]
    <3>1. jobs' = [jobs EXCEPT ![wbest] = job]
      BY <2>2, <2>4 DEF WriteBest
    <3>2. job.id = jobs[wbest].id
      <4>1. jobs[wbest] \in Job
        BY <1>1, <2>1
      <4> QED
        BY <4>1 DEF Job
    <3> HIDE DEF job
    <3> QED
      BY <1>3, <2>1, <3>1, <3>2
  <2> QED
    BY <2>3, <2>4
<1>5. ASSUME NEW pri \in Priorities, NEW dep \in Deps, Submit(pri, dep)
      PROVE  JobIds \subseteq JobIds'
  <2> DEFINE job == [id |-> nextId, state |-> "Queued", pri |-> pri, dep |-> dep]
  <2>1. jobs' = Append(jobs, job)
    BY <1>5 DEF Submit
  <2> HIDE DEF job
  <2>2. \A i \in Jobs : i \in Jobs' /\ jobs'[i] = jobs[i]
    BY <1>1, <2>1 DEF Jobs
  <2> QED
    BY <2>2 DEF JobIds
<1>6. ASSUME NEW i \in Jobs, Cancel(i) \/ \E pri \in Priorities : SetPriority(i, pri)
      PROVE  JobIds \subseteq JobIds'
  <2>1. jobs[i] \in Job
    BY <1>1
  <2>2. CASE Cancel(i)
    <3> DEFINE job == [jobs[i] EXCEPT !.state = "Cancelled"]
    <3>1. jobs' = [jobs EXCEPT ![i] = job] /\ job.id = jobs[i].id
      BY <2>1, <2>2 DEF Cancel, Job
    <3> HIDE DEF job
    <3> QED
      BY <1>3, <3>1
  <2>3. ASSUME NEW pri \in Priorities, SetPriority(i, pri)
        PROVE  JobIds \subseteq JobIds'
    <3> DEFINE job == [jobs[i] EXCEPT !.pri = pri]
    <3>1. jobs' = [jobs EXCEPT ![i] = job] /\ job.id = jobs[i].id
      BY <2>1, <2>3 DEF SetPriority, Job
    <3> HIDE DEF job
    <3> QED
      BY <1>3, <3>1
  <2> QED
    BY <1>6, <2>2, <2>3
<1>7. CASE \E t \in Threads : SaveStep(t)
  BY <1>2, <1>7 DEF SaveStep, SaveOpen, SaveCopy, SaveFlush, store
<1>8. CASE Poll \/ ScanJob \/ ScanFreedJob \/ ScanFindsNone \/ Launch
  BY <1>2, <1>8 DEF Poll, ScanJob, ScanFreedJob, ScanFindsNone, Launch, store
<1>9. CASE Progress \/ Reply \/ OrphanExits \/ Pause \/ Resume \/ UNCHANGED vars
  BY <1>2, <1>9 DEF Progress, Reply, OrphanExits, Pause, Resume, vars, store
<1> QED
  BY <1>4, <1>5, <1>6, <1>7, <1>8, <1>9
     DEF Next, ClientStep, WorkerStep, LaunchFails, ProcessEnds, ProcessExits, WorkerReady, States

(* Requeue keeps every id.                                                 *)
LEMMA RequeueIds ==
  ASSUME NEW js \in Seq(Job)
  PROVE  {Requeue(js)[i].id : i \in DOMAIN Requeue(js)} = {js[i].id : i \in DOMAIN js}
BY RequeueType

LEMMA AckNext == TypeOK /\ SaveInv /\ AckInv /\ [Next]_vars => AckInv'
<1> SUFFICES ASSUME TypeOK, SaveInv, AckInv, [Next]_vars, ~dirty'
             PROVE  /\ Up' => acked' \subseteq JobIds' /\ (mreply' # 0 => mreply' \in JobIds')
                    /\ ~Up' => acked' \subseteq FileIds' /\ mreply' = 0
  BY DEF AckInv
<1>1. CASE Crash
  <2>1. Up /\ ~dirty /\ ~overlap /\ Saved /\ ~Up' /\ mreply' = 0 /\ UNCHANGED <<file, acked>>
    BY <1>1 DEF Crash, Up
  <2>2. acked \subseteq JobIds /\ Requeue(file) = Requeue(jobs)
    BY <2>1 DEF AckInv, SaveInv, QuietStoreRestores
  <2>3. FileIds = JobIds
    <3>1. jobs \in Seq(Job) /\ file \in Seq(Job)
      BY DEF TypeOK, StoreType, DiskType
    <3>2. JobIds = {Requeue(jobs)[i].id : i \in DOMAIN Requeue(jobs)}
      BY <3>1, RequeueIds DEF JobIds, Jobs
    <3>3. FileIds = {Requeue(file)[i].id : i \in DOMAIN Requeue(file)}
      BY <3>1, RequeueIds DEF FileIds
    <3> QED
      BY <2>2, <3>2, <3>3
  <2> QED
    BY <2>1, <2>2, <2>3 DEF FileIds
<1>2. CASE Boot
  <2>1. ~Up /\ Up' /\ UNCHANGED <<dirty, acked, mreply>> /\ jobs' = Requeue(file)
    BY <1>2 DEF Boot, Up, world
  <2>2. acked \subseteq FileIds /\ mreply = 0
    BY <2>1 DEF AckInv
  <2>3. JobIds' = FileIds
    BY <2>1, RequeueIds DEF FileIds, JobIds, Jobs, TypeOK, DiskType
  <2> QED
    BY <2>1, <2>2, <2>3
<1>3. CASE ~Crash /\ ~Boot
  <2>1. JobIds \subseteq JobIds'
    BY <1>3, IdsStay
  <2>2. CASE Reply
    <3>1. Up /\ Up' /\ ~dirty /\ mreply # 0 /\ acked' = acked \cup {mreply} /\ mreply' = 0
      BY <2>2 DEF Reply, Up, worker
    <3> QED
      BY <2>1, <3>1 DEF AckInv
  <2>3. ASSUME NEW pri \in Priorities, NEW dep \in Deps, Submit(pri, dep)
        PROVE  AckInv'
    <3> DEFINE job == [id |-> nextId, state |-> "Queued", pri |-> pri, dep |-> dep]
    <3>1. /\ Up /\ Up' /\ UNCHANGED <<dirty, acked>>
          /\ jobs' = Append(jobs, job) /\ mreply' = nextId /\ job.id = nextId
      BY <2>3 DEF Submit, MainReady, Up, world
    <3> HIDE DEF job
    <3>2. nextId \in JobIds'
      <4>1. Len(jobs) + 1 \in Jobs' /\ jobs'[Len(jobs) + 1] = job
        BY <3>1, LenProperties DEF Jobs, TypeOK, StoreType
      <4> QED
        BY <3>1, <4>1 DEF JobIds
    <3> QED
      BY <2>1, <3>1, <3>2 DEF AckInv
  <2>4. CASE UNCHANGED <<acked, mreply, dirty>> /\ Up /\ Up'
    BY <2>1, <2>4 DEF AckInv
  <2>5. CASE UNCHANGED <<acked, mreply, dirty, file, wpc>>
    <3>1. Up' = Up /\ FileIds' = FileIds
      BY <2>5 DEF Up, FileIds
    <3> QED
      BY <2>1, <2>5, <3>1 DEF AckInv
  <2>6. CASE OrphanExits \/ UNCHANGED vars
    BY <2>5, <2>6 DEF OrphanExits, vars, disk, worker, world
  <2>7. CASE (\E t \in Threads : SaveStep(t))
    <3>1. Up /\ UNCHANGED <<wpc, acked, mreply, dirty>>
      BY <2>7 DEF SaveStep, SaveOpen, SaveCopy, SaveFlush, SaveInv, Saved, worker, world
    <3> QED
      BY <2>4, <3>1 DEF Up
  <2>8. CASE WorkerStep \/ ProcessEnds \/ Progress
    <3>1. UNCHANGED <<acked, mreply, dirty>>
      BY <2>8 DEF WorkerStep, Poll, ScanJob, ScanFreedJob, ScanFindsNone, StartJob, Launch,
                  LaunchFails, ProcessEnds, ProcessExits, EndJob, Progress, world
    <3>2. Up
      BY <2>8 DEF WorkerStep, Poll, ScanJob, ScanFreedJob, ScanFindsNone, StartJob, Launch,
                  LaunchFails, ProcessEnds, ProcessExits, Progress, WorkerReady, Up
    <3>3. Up'
      BY <2>8 DEF WorkerStep, Poll, ScanJob, ScanFreedJob, ScanFindsNone, StartJob, Launch,
                  LaunchFails, ProcessEnds, ProcessExits, EndJob, LeaveProcessNext, Progress,
                  WorkerReady, Up, worker
    <3> QED
      BY <2>4, <3>1, <3>2, <3>3
  <2>9. CASE Pause \/ Resume \/ \E i \in Jobs : Cancel(i) \/ \E pri \in Priorities : SetPriority(i, pri)
    <3>1. Up /\ Up' /\ UNCHANGED <<acked, mreply, dirty>>
      BY <2>9 DEF Pause, Resume, Cancel, SetPriority, MainReady, Up, worker, world
    <3> QED
      BY <2>4, <3>1
  <2> QED
    BY <1>3, <2>2, <2>3, <2>6, <2>7, <2>8, <2>9 DEF Next, ClientStep, AckInv
<1> QED
  BY <1>1, <1>2, <1>3

(* A job whose SUBMIT was answered is never lost by kills that all come at *)
(* quiet moments, over any number of restarts.                             *)
THEOREM AcknowledgedJobsSurvive == Spec => []AckedSurvive
<1>1. AckInv => AckedSurvive
  BY DEF AckInv, AckedSurvive
<1> QED
  BY <1>1, AckInit, AckNext, SaveAlways, TypeCorrect, PTL DEF Spec

-----------------------------------------------------------------------------
(* What a step does to the vector.                                         *)

LEMMA Typed ==
  ASSUME TypeOK
  PROVE  /\ jobs \in Seq(Job) /\ Len(jobs) \in Nat /\ Jobs = 1 .. Len(jobs)
         /\ file \in Seq(Job) /\ Len(file) \in Nat
         /\ \A i \in Jobs : jobs[i] \in Job
         /\ sv \in [Threads -> JobSaveStates]
         /\ \A t \in Threads : snap[t] \in Seq(Job) /\ Len(snap[t]) \in Nat
BY LenProperties DEF TypeOK, StoreType, DiskType, Jobs

(* SUBMIT appends a queued job with the next id.                           *)
SubmitStep == \E pri \in Priorities, dep \in Deps : Submit(pri, dep)

LEMMA SubmitAppends ==
  ASSUME TypeOK, SubmitStep
  PROVE  /\ Len(jobs') = Len(jobs) + 1
         /\ \A i \in Jobs : jobs'[i] = jobs[i]
         /\ jobs'[Len(jobs) + 1].id = nextId
         /\ jobs'[Len(jobs) + 1].state = "Queued"
         /\ nextId' = nextId + 1
         /\ Jobs' = 1 .. Len(jobs) + 1
<1>1. PICK pri \in Priorities, dep \in Deps : Submit(pri, dep)
  BY DEF SubmitStep
<1> DEFINE job == [id |-> nextId, state |-> "Queued", pri |-> pri, dep |-> dep]
<1>2. jobs' = Append(jobs, job) /\ job.id = nextId /\ job.state = "Queued" /\ nextId' = nextId + 1
  BY <1>1 DEF Submit
<1> HIDE DEF job
<1>3. jobs \in Seq(Job) /\ Len(jobs) \in Nat /\ Jobs = 1 .. Len(jobs)
  BY Typed
<1> QED
  BY <1>2, <1>3 DEF Jobs

(* One field of one job is replaced: state or priority.                    *)
LEMMA RewriteKeeps ==
  ASSUME TypeOK, NEW n \in Jobs, NEW state \in States, NEW pri \in Priorities,
         \/ jobs' = [jobs EXCEPT ![n].state = state]
         \/ jobs' = [jobs EXCEPT ![n].pri = pri]
  PROVE  /\ Len(jobs') = Len(jobs) /\ Jobs' = Jobs
         /\ \A i \in Jobs \ {n} : jobs'[i] = jobs[i]
         /\ jobs'[n].id = jobs[n].id /\ jobs'[n].dep = jobs[n].dep
         /\ jobs'[n].state \in {state, jobs[n].state}
<1>1. jobs \in Seq(Job) /\ Len(jobs) \in Nat /\ Jobs = 1 .. Len(jobs) /\ jobs[n] \in Job
  BY Typed
<1>2. PICK job : /\ jobs' = [jobs EXCEPT ![n] = job]
                 /\ job \in {[jobs[n] EXCEPT !.state = state], [jobs[n] EXCEPT !.pri = pri]}
  OBVIOUS
<1>3. job \in Job /\ job.id = jobs[n].id /\ job.dep = jobs[n].dep /\ job.state \in {state, jobs[n].state}
  BY <1>1, <1>2 DEF Job
<1>4. jobs' \in Seq(Job) /\ Len(jobs') = Len(jobs)
  BY <1>1, <1>2, <1>3, ReplaceType DEF Jobs
<1>5. Jobs' = Jobs /\ jobs'[n] = job /\ \A i \in Jobs \ {n} : jobs'[i] = jobs[i]
  BY <1>1, <1>2, <1>4, LenProperties DEF Jobs
<1> QED
  BY <1>3, <1>4, <1>5

(* The steps that start or end a job write at most the state of that job.  *)
WorkerWrites == StartJob \/ LaunchFails \/ ProcessEnds

LEMMA WorkerRewrites ==
  ASSUME TypeOK, WorkerWrites
  PROVE  /\ wbest \in Jobs /\ nextId' = nextId
         /\ \E state \in States :
              /\ IF StartJob THEN state = "Running" ELSE state \in {"Completed", "Failed"}
              /\ WriteBest(state)
<1>1. wbest \in 1 .. Len(jobs) /\ Jobs = 1 .. Len(jobs)
  BY Typed DEF TypeOK, WorkerType, WorkerWrites, StartJob, LaunchFails, ProcessEnds, ProcessExits, WorkerReady
<1>2. CASE StartJob
  BY <1>1, <1>2 DEF StartJob, States
<1>3. CASE ~StartJob
  <2>1. PICK state \in {"Completed", "Failed"} : EndJob(state)
    BY <1>3 DEF WorkerWrites, LaunchFails, ProcessEnds, ProcessExits
  <2> QED
    BY <1>1, <1>3, <2>1 DEF EndJob, States
<1> QED
  BY <1>2, <1>3

(* A client's request rewrites one job.                                    *)
ClientRewrites == \E i \in Jobs : Cancel(i) \/ \E pri \in Priorities : SetPriority(i, pri)

(* Every other step leaves the vector alone.                               *)
LEMMA VectorSteps ==
  ASSUME [Next]_vars
  PROVE  \/ SubmitStep \/ WorkerWrites \/ ClientRewrites \/ Crash \/ Boot
         \/ UNCHANGED <<jobs, nextId>>
<1>1. CASE \E t \in Threads : SaveStep(t)
  BY <1>1 DEF SaveStep, SaveOpen, SaveCopy, SaveFlush, store
<1>2. CASE WorkerStep
  BY <1>2 DEF WorkerStep, WorkerWrites, Poll, ScanJob, ScanFreedJob, ScanFindsNone, Launch, store
<1>3. CASE Progress \/ Reply \/ OrphanExits \/ Pause \/ Resume \/ UNCHANGED vars
  BY <1>3 DEF Progress, Reply, OrphanExits, Pause, Resume, vars, store
<1> QED
  BY <1>1, <1>2, <1>3 DEF Next, ClientStep, SubmitStep, WorkerWrites, ClientRewrites

(* While the daemon lives, a job keeps its place, id and dependency.       *)
KeepsIds ==
  /\ Len(jobs') = Len(jobs) /\ Jobs' = Jobs /\ nextId' = nextId
  /\ \A i \in Jobs : jobs'[i].id = jobs[i].id /\ jobs'[i].dep = jobs[i].dep

LEMMA RewritesKeepIds ==
  ASSUME TypeOK, WorkerWrites \/ ClientRewrites \/ UNCHANGED <<jobs, nextId>>
  PROVE  KeepsIds
<1>1. PICK pri : pri \in Priorities
  BY JobDaemonAssumption DEF JobDaemonAssumption
<1>2. CASE UNCHANGED <<jobs, nextId>>
  BY <1>2 DEF KeepsIds, Jobs
<1>3. CASE WorkerWrites
  <2>1. wbest \in Jobs /\ nextId' = nextId /\ \E state \in States : WriteBest(state)
    BY <1>3, WorkerRewrites
  <2>2. PICK state \in States : WriteBest(state)
    BY <2>1
  <2>3. CASE stale
    BY <1>2, <2>1, <2>2, <2>3 DEF WriteBest
  <2>4. CASE ~stale
    BY <1>1, <2>1, <2>2, <2>4, RewriteKeeps DEF WriteBest, KeepsIds
  <2> QED
    BY <2>3, <2>4
<1>4. CASE ClientRewrites
  <2>1. nextId' = nextId
    BY <1>4 DEF ClientRewrites, Cancel, SetPriority
  <2>2. PICK i \in Jobs : Cancel(i) \/ \E p \in Priorities : SetPriority(i, p)
    BY <1>4 DEF ClientRewrites
  <2>3. CASE Cancel(i)
    BY <1>1, <2>1, <2>3, RewriteKeeps DEF Cancel, KeepsIds, States
  <2>4. ASSUME NEW p \in Priorities, SetPriority(i, p)
        PROVE  KeepsIds
    BY <2>1, <2>4, RewriteKeeps DEF SetPriority, KeepsIds, States
  <2> QED
    BY <2>2, <2>3, <2>4
<1> QED
  BY <1>2, <1>3, <1>4

LEMMA IdsKept ==
  ASSUME TypeOK, [Next]_vars, ~SubmitStep, ~Crash, ~Boot
  PROVE  KeepsIds
BY VectorSteps, RewritesKeepIds

-----------------------------------------------------------------------------
(* The ids of the vector and of the texts on their way to the file.        *)

(* What the parser finds after a text c was written over f: c, and of f    *)
(* what lies behind c, less the object the end of c may have hit.          *)
LEMMA OverlayElements ==
  ASSUME NEW c \in Seq(Job), NEW f \in Seq(Job), NEW d \in {0, 1}
  PROVE  LET o == Overlay(c, f, Len(c) + 1 + d)
         IN  /\ o \in Seq(Job) /\ Len(o) >= Len(c) /\ DOMAIN o = 1 .. Len(o)
             /\ \A i \in 1 .. Len(c) : o[i] = c[i]
             /\ \A i \in DOMAIN o : i > Len(c) => i + d \in 1 .. Len(f) /\ o[i] = f[i + d]
<1> DEFINE k == Len(c) + 1 + d
           tail == SubSeq(f, k, Len(f))
<1>1. Len(c) \in Nat /\ Len(f) \in Nat /\ k \in Nat \ {0}
  BY LenProperties
<1>2. CASE k <= Len(f)
  <2>1. /\ tail \in Seq(Job) /\ Len(tail) = Len(f) - k + 1
        /\ \A i \in 1 .. Len(tail) : tail[i] = f[k + i - 1]
    BY <1>1, <1>2
  <2> HIDE DEF tail
  <2>2. /\ c \o tail \in Seq(Job) /\ Len(c \o tail) = Len(c) + Len(tail)
        /\ DOMAIN (c \o tail) = 1 .. Len(c) + Len(tail)
        /\ \A i \in 1 .. Len(c) : (c \o tail)[i] = c[i]
        /\ \A i \in Len(c) + 1 .. Len(c) + Len(tail) : (c \o tail)[i] = tail[i - Len(c)]
    BY <1>1, <2>1
  <2>3. ASSUME NEW i \in Len(c) + 1 .. Len(c) + Len(tail)
        PROVE  i + d \in 1 .. Len(f) /\ (c \o tail)[i] = f[i + d]
    <3>1. i - Len(c) \in 1 .. Len(tail) /\ k + (i - Len(c)) - 1 = i + d
      BY <1>1, <2>1, <2>3
    <3> HIDE DEF k
    <3>2. tail[i - Len(c)] = f[k + (i - Len(c)) - 1]
      BY <2>1, <3>1
    <3>3. (c \o tail)[i] = f[i + d]
      BY <2>2, <3>1, <3>2
    <3>4. i + d \in 1 .. Len(f)
      BY <1>1, <1>2, <2>1, <2>3 DEF k
    <3> QED
      BY <3>3, <3>4
  <2>4. Overlay(c, f, Len(c) + 1 + d) = c \o tail
    BY DEF Overlay, tail
  <2> DEFINE o == c \o tail
  <2>5. /\ o \in Seq(Job) /\ Len(o) >= Len(c) /\ DOMAIN o = 1 .. Len(o)
        /\ \A i \in 1 .. Len(c) : o[i] = c[i]
    BY <1>1, <1>2, <2>1, <2>2
  <2>6. \A i \in DOMAIN o : i > Len(c) => i \in Len(c) + 1 .. Len(c) + Len(tail)
    BY <1>1, <2>1, <2>2
  <2>7. \A i \in DOMAIN o : i > Len(c) => i + d \in 1 .. Len(f) /\ o[i] = f[i + d]
    BY <2>3, <2>6
  <2> HIDE DEF o
  <2> QED
    BY <2>4, <2>5, <2>7 DEF o
<1>3. CASE k > Len(f)
  <2>1. tail = <<>>
    BY <1>1, <1>3, SubSeqEmpty
  <2>2. Overlay(c, f, Len(c) + 1 + d) = c
    BY <2>1, ConcatEmptySeq DEF Overlay
  <2> QED
    BY <1>1, <2>2, LenProperties
<1> QED
  BY <1>1, <1>2, <1>3

(* A text written over another prefix of the vector has growing ids: each  *)
(* part is a run of the vector's ids, and they do not overlap.             *)
LEMMA OverlayGrowing ==
  ASSUME TypeOK, IdsGrow, NEW c \in Seq(Job), NEW f \in Seq(Job), NEW d \in {0, 1},
         IsPrefix(c), IsPrefix(f)
  PROVE  Growing(Overlay(c, f, Len(c) + 1 + d))
<1> DEFINE o == Overlay(c, f, Len(c) + 1 + d)
           at(i) == IF i > Len(c) THEN i + d ELSE i
<1>1. /\ Len(c) \in Nat /\ Len(f) \in Nat /\ Len(jobs) \in Nat /\ Jobs = 1 .. Len(jobs)
      /\ DOMAIN c = 1 .. Len(c) /\ DOMAIN f = 1 .. Len(f)
  BY LenProperties, Typed
<1>2. /\ Len(o) >= Len(c) /\ DOMAIN o = 1 .. Len(o) /\ Len(o) \in Nat
      /\ \A i \in 1 .. Len(c) : o[i] = c[i]
      /\ \A i \in DOMAIN o : i > Len(c) => i + d \in 1 .. Len(f) /\ o[i] = f[i + d]
  BY OverlayElements, LenProperties
<1> HIDE DEF o
<1>3. ASSUME NEW i \in DOMAIN o
      PROVE  at(i) \in Jobs /\ o[i].id = jobs[at(i)].id
  BY <1>1, <1>2, <1>3 DEF IsPrefix
<1>4. ASSUME NEW i \in DOMAIN o, NEW j \in DOMAIN o, i < j
      PROVE  at(i) < at(j)
  BY <1>1, <1>2, <1>4
<1> HIDE DEF at
<1> QED
  BY <1>3, <1>4 DEF Growing, IdsGrow, o

LEMMA TextInit == Init => TextInv
BY EmptySeq DEF Init, TextInv, IdsGrow, Growing, IsPrefix, MidSave, Jobs, Threads

(* When jobs_ changes, what was a prefix of it by id still is.             *)
LEMMA PrefixKept ==
  ASSUME TypeOK, KeepsIds \/ SubmitStep, NEW s, NEW n \in Nat, Len(s) = n, DOMAIN s = 1 .. n, IsPrefix(s)
  PROVE  Len(s) <= Len(jobs') /\ \A i \in DOMAIN s : s[i].id = jobs'[i].id
<1>1. Len(jobs) \in Nat /\ Jobs = 1 .. Len(jobs)
  BY Typed
<1>2. CASE KeepsIds
  BY <1>1, <1>2 DEF KeepsIds, IsPrefix
<1>3. CASE SubmitStep
  BY <1>1, <1>3, SubmitAppends DEF IsPrefix
<1> QED
  BY <1>2, <1>3

LEMMA IdsGrowKept ==
  ASSUME TypeOK, IdsGrow, KeepsIds \/ SubmitStep
  PROVE  IdsGrow'
<1>1. Len(jobs) \in Nat /\ Jobs = 1 .. Len(jobs)
  BY Typed
<1>2. \A i \in Jobs : jobs[i].id \in Int
  BY Typed DEF Job, Ids
<1>3. nextId \in Int
  BY JobDaemonAssumption DEF TypeOK, StoreType, JobDaemonAssumption
<1>4. CASE KeepsIds
  BY <1>1, <1>4 DEF KeepsIds, IdsGrow
<1>5. CASE SubmitStep
  <2>1. /\ \A i \in Jobs : jobs'[i] = jobs[i]
        /\ jobs'[Len(jobs) + 1].id = nextId
        /\ nextId' = nextId + 1
        /\ Jobs' = 1 .. Len(jobs) + 1
    BY <1>5, SubmitAppends
  <2>2. \A i \in Jobs' : i = Len(jobs) + 1 \/ i \in Jobs
    BY <1>1, <2>1
  <2>3. \A i \in Jobs : jobs'[i].id < nextId'
    BY <1>2, <1>3, <2>1 DEF IdsGrow
  <2>4. \A i, j \in Jobs' : i < j => jobs'[i].id < jobs'[j].id
    <3> SUFFICES ASSUME NEW i \in Jobs', NEW j \in Jobs', i < j
                 PROVE  jobs'[i].id < jobs'[j].id
      OBVIOUS
    <3>1. i \in Jobs
      BY <1>1, <2>1
    <3>2. CASE j \in Jobs
      BY <2>1, <3>1, <3>2 DEF IdsGrow
    <3>3. CASE j = Len(jobs) + 1
      BY <2>1, <3>1, <3>3 DEF IdsGrow
    <3> QED
      BY <2>2, <3>2, <3>3
  <2>5. jobs'[Len(jobs) + 1].id < nextId'
    BY <1>3, <2>1
  <2> QED
    BY <2>2, <2>3, <2>4, <2>5 DEF IdsGrow
<1> QED
  BY <1>4, <1>5

(* Only saves and kills touch the file and the texts; any other step at    *)
(* most asks an idle thread for a save.                                    *)
AnySave == \E t \in Threads : SaveStep(t)
Asks(t)    == sv[t] = "none" /\ AskSave(t)

LEMMA DiskSteps ==
  ASSUME SaveInv, [Next]_vars, ~AnySave, ~Crash
  PROVE  UNCHANGED <<file, snap>> /\ (sv' = sv \/ \E t \in Threads : Asks(t))
<1>1. CASE ClientStep
  <2>1. CASE \E pri \in Priorities, dep \in Deps : Submit(pri, dep)
    BY <2>1 DEF Submit, MainReady, Asks, Threads
  <2>2. CASE \E i \in Jobs : Cancel(i) \/ \E pri \in Priorities : SetPriority(i, pri)
    BY <2>2 DEF Cancel, SetPriority, MainReady, Asks, Threads
  <2>3. CASE Pause \/ Resume
    BY <2>3 DEF Pause, Resume, disk
  <2> QED
    BY <1>1, <2>1, <2>2, <2>3 DEF ClientStep
<1>2. CASE StartJob
  <2>1. sv["worker"] = "none"
    BY <1>2 DEF SaveInv, StartJob
  <2> QED
    BY <1>2, <2>1 DEF StartJob, Asks, Threads
<1>3. CASE WorkerStep /\ ~StartJob
  BY <1>3 DEF WorkerStep, Poll, ScanJob, ScanFreedJob, ScanFindsNone, Launch, LaunchFails, EndJob,
              WorkerReady, Asks, Threads, disk
<1>4. CASE ProcessEnds \/ Progress
  BY <1>4 DEF ProcessEnds, ProcessExits, EndJob, Progress, WorkerReady, Asks, Threads
<1>5. CASE Reply \/ OrphanExits \/ Boot \/ UNCHANGED vars
  BY <1>5 DEF Reply, OrphanExits, Boot, vars, disk
<1> QED
  BY <1>1, <1>2, <1>3, <1>4, <1>5 DEF Next, AnySave

LEMMA TextAsked ==
  ASSUME TypeOK, TextInv, KeepsIds \/ SubmitStep, UNCHANGED <<file, snap>>,
         sv' = sv \/ \E t \in Threads : Asks(t)
  PROVE  TextInv'
<1>1. IdsGrow' /\ Growing(file)'
  BY IdsGrowKept DEF TextInv, Growing
<1>2. /\ sv \in [Threads -> JobSaveStates]
      /\ \A t \in Threads : Len(snap[t]) \in Nat /\ DOMAIN snap[t] = 1 .. Len(snap[t])
      /\ Len(file) \in Nat /\ DOMAIN file = 1 .. Len(file)
  BY Typed, LenProperties
<1>3. \A t \in Threads : sv'[t] = sv[t] \/ (sv[t] = "none" /\ sv'[t] = "todo")
  BY <1>2 DEF Asks, AskSave
<1>4. \A t \in Threads : sv'[t] # "copied" => snap'[t] = <<>>
  BY <1>3 DEF TextInv
<1>5. \A t \in Threads : MidSave(t)' => MidSave(t)
  BY <1>3 DEF MidSave
<1>6. MidSave("main")' /\ MidSave("worker")' => file' = <<>>
  BY <1>5 DEF TextInv, Threads
<1>7. \A t \in Threads : IsPrefix(snap[t])'
  BY <1>2, PrefixKept DEF TextInv, IsPrefix
<1>8. \A t \in Threads : MidSave(t)' => IsPrefix(file)'
  BY <1>2, <1>5, PrefixKept DEF TextInv, IsPrefix
<1> QED
  BY <1>1, <1>4, <1>6, <1>7, <1>8 DEF TextInv

LEMMA TextSave ==
  ASSUME MaxSlack = 0, TypeOK, TextInv, NEW t \in Threads, SaveStep(t)
  PROVE  TextInv'
<1> DEFINE u == Other(t)
<1>1. u \in Threads /\ u # t /\ Threads = {t, u} /\ {t, u} = {"main", "worker"}
  BY DEF Other, Threads
<1>2. /\ sv \in [Threads -> JobSaveStates] /\ snap \in [Threads -> Seq(Job)]
      /\ jobs \in Seq(Job) /\ file \in Seq(Job) /\ snap[t] \in Seq(Job)
      /\ Len(jobs) \in Nat /\ Len(snap[t]) \in Nat
  BY LenProperties DEF TypeOK, StoreType, DiskType
<1>3. UNCHANGED <<jobs, nextId>> /\ sv'[u] = sv[u] /\ snap'[u] = snap[u]
  BY <1>1, <1>2 DEF SaveStep, SaveOpen, SaveCopy, SaveFlush, store
<1>4. IdsGrow'
  BY <1>3 DEF TextInv, IdsGrow, Jobs
<1>5. /\ IsPrefix(snap[t]) /\ IsPrefix(snap[u])
      /\ (MidSave(t) => IsPrefix(file))
      /\ (MidSave(t) /\ MidSave(u) => file = <<>>)
      /\ (sv[u] # "copied" => snap[u] = <<>>)
  BY <1>1 DEF TextInv
<1> HIDE DEF u
<1>7. SUFFICES /\ Growing(file')
               /\ sv'[t] # "copied" => snap'[t] = <<>>
               /\ IsPrefix(snap'[t])
               /\ MidSave(t)' \/ MidSave(u)' => IsPrefix(file')
               /\ MidSave(t)' /\ MidSave(u)' => file' = <<>>
  <2>1. Growing(file)' <=> Growing(file')
    BY DEF Growing
  <2>2. IsPrefix(file)' <=> IsPrefix(file')
    BY <1>3 DEF IsPrefix
  <2>3. \A v \in Threads : IsPrefix(snap[v])' <=> IsPrefix(snap'[v])
    BY <1>3 DEF IsPrefix
  <2>4. IsPrefix(snap'[u]) /\ (sv'[u] # "copied" => snap'[u] = <<>>)
    BY <1>3, <1>5
  <2>5. \A v \in Threads : v = t \/ v = u
    BY <1>1
  <2>6. MidSave("main")' /\ MidSave("worker")' => MidSave(t)' /\ MidSave(u)'
    BY <1>1
  <2> QED
    BY <1>4, <2>1, <2>2, <2>3, <2>4, <2>5, <2>6 DEF TextInv
<1>8. IsPrefix(<<>>) /\ Growing(<<>>)
  BY <1>2, EmptySeq DEF IsPrefix, Growing
<1>9. CASE SaveOpen(t)
  <2>1. sv'[t] = "opened" /\ file' = <<>> /\ snap' = snap /\ sv[t] = "todo"
    BY <1>2, <1>9 DEF SaveOpen
  <2> QED
    BY <1>5, <1>8, <2>1 DEF TextInv
<1>10. CASE SaveCopy(t)
  <2>1. sv[t] = "opened" /\ sv'[t] = "copied" /\ snap'[t] = jobs /\ file' = file
    BY <1>2, <1>10 DEF SaveCopy
  <2>2. IsPrefix(jobs)
    BY <1>2 DEF IsPrefix
  <2>3. MidSave(t) /\ (MidSave(u)' <=> MidSave(u))
    BY <1>3, <2>1 DEF MidSave
  <2> QED
    BY <1>5, <2>1, <2>2, <2>3 DEF TextInv
<1>11. CASE SaveFlush(t)
  <2>1. sv[t] = "copied" /\ sv'[t] = "none" /\ snap'[t] = <<>>
    BY <1>2, <1>11 DEF SaveFlush
  <2>2. PICK k \in FirstKept(Len(snap[t])) : file' = Overlay(snap[t], file, k)
    BY <1>11 DEF SaveFlush
  <2>3. MidSave(t) /\ ~MidSave(t)' /\ (MidSave(u)' <=> MidSave(u))
    BY <1>3, <2>1 DEF MidSave
  <2>4. PICK d \in {0, 1} : k = Len(snap[t]) + 1 + d
    BY <1>2, <2>2, FirstKeptInStep
  <2>5. Growing(file')
    BY <1>2, <1>5, <2>2, <2>3, <2>4, OverlayGrowing DEF TextInv
  <2>6. MidSave(u)' => IsPrefix(file')
    <3>1. k \in Nat \ {0}
      BY <1>2, <2>2, FirstKeptType
    <3>2. file = <<>> => file' = snap[t]
      BY <1>2, <2>2, <3>1, OverlayEmpty
    <3> QED
      BY <1>5, <2>3, <3>2
  <2> QED
    BY <1>8, <2>1, <2>3, <2>5, <2>6
<1> QED
  BY <1>9, <1>10, <1>11 DEF SaveStep

LEMMA TextNext ==
  ASSUME MaxSlack = 0, TypeOK, SaveInv, TextInv, [Next]_vars
  PROVE  TextInv'
<1>1. CASE AnySave
  BY <1>1, TextSave DEF AnySave
<1>2. CASE Crash
  <2>1. /\ jobs' = <<>> /\ file' = file
        /\ \A t \in Threads : snap'[t] = <<>> /\ sv'[t] = "none"
    BY <1>2 DEF Crash
  <2>2. IdsGrow' /\ Growing(file)'
    BY <2>1 DEF IdsGrow, Jobs, TextInv, Growing
  <2>3. \A t \in Threads : IsPrefix(snap[t])' /\ ~MidSave(t)'
    BY <2>1, EmptySeq DEF IsPrefix, MidSave
  <2> QED
    BY <2>1, <2>2, <2>3 DEF TextInv, Threads
<1>3. CASE Boot
  <2>1. /\ \A t \in Threads : sv[t] = "none"
        /\ UNCHANGED <<file, sv, snap>>
        /\ jobs' = Requeue(file) /\ FirstFreeId(nextId', file)
    BY <1>3 DEF Boot, SaveInv, Saved
  <2>2. Growing(file)
    BY DEF TextInv
  <2>3. /\ jobs' \in Seq(Job) /\ DOMAIN jobs' = DOMAIN file
        /\ \A i \in DOMAIN file : jobs'[i].id = file[i].id
    BY <2>1, RequeueType, Typed
  <2>4. IdsGrow'
    BY <2>1, <2>2, <2>3 DEF IdsGrow, Jobs, Growing, FirstFreeId
  <2>5. \A t \in Threads : snap'[t] = <<>> /\ ~MidSave(t)'
    BY <2>1 DEF TextInv, MidSave
  <2>6. \A t \in Threads : IsPrefix(snap[t])'
    BY <2>3, <2>5, EmptySeq, LenProperties DEF IsPrefix
  <2> QED
    BY <2>1, <2>2, <2>4, <2>5, <2>6 DEF TextInv, Growing, Threads
<1>4. CASE ~AnySave /\ ~Crash /\ ~Boot
  <2>1. KeepsIds \/ SubmitStep
    BY <1>4, IdsKept
  <2>2. UNCHANGED <<file, snap>> /\ (sv' = sv \/ \E t \in Threads : Asks(t))
    BY <1>4, DiskSteps
  <2> QED
    BY <2>1, <2>2, TextAsked
<1> QED
  BY <1>1, <1>2, <1>3, <1>4

LEMMA TextAlways ==
  ASSUME MaxSlack = 0
  PROVE  Spec => []TextInv
<1>1. TypeOK /\ SaveInv /\ TextInv /\ [Next]_vars => TextInv'
  BY TextNext
<1> QED
  BY <1>1, TextInit, SaveAlways, TypeCorrect, PTL DEF Spec

(* An id always means one job: ids grow along the vector and stay below    *)
(* next_id_, also in a daemon that loads what overlapping saves and kills  *)
(* at any moment left in jobs.json.  Of as many jobs, that is, as keep two *)
(* texts of them in step (three at least): the ids of more may repeat.     *)
THEOREM IdsAreUnique ==
  ASSUME MaxSlack = 0
  PROVE  Spec => []IdsGrow
<1>1. Spec => []TextInv
  BY TextAlways
<1>2. TextInv => IdsGrow
  BY DEF TextInv
<1> QED
  BY <1>1, <1>2, PTL

-----------------------------------------------------------------------------
(* The choice of the next job.                                             *)

LEMMA ScanInit == Init => ScanInv
BY DEF Init, ScanInv, BestSoFar

(* Outside a scan, and where a handler disturbed it, nothing is claimed.   *)
LEMMA ScanOver ==
  ASSUME wpc' # "scan" \/ touched'
  PROVE  ScanInv'
BY DEF ScanInv, BestSoFar

LEMMA ScanKept ==
  ASSUME ScanInv, UNCHANGED <<jobs, wpc, wi, wbest, stale, touched>>
  PROVE  ScanInv'
BY DEF ScanInv, BestSoFar, Eligible, DependencyDone, Found, Jobs

LEMMA ScanOneJob ==
  ASSUME TypeOK, ScanInv, ScanJob, ~touched
  PROVE  ScanInv'
<1>1. /\ wpc = "scan" /\ wi <= wend /\ ~stale
      /\ UNCHANGED <<jobs, wpc, stale, touched>>
      /\ wi' = wi + 1
      /\ wbest' = IF Eligible(wi) /\ Better(wi) THEN wi ELSE wbest
  BY DEF ScanJob, store
<1>2. /\ Len(jobs) \in Nat /\ Jobs = 1 .. Len(jobs)
      /\ wi \in Nat \ {0} /\ wbest \in 0 .. wi - 1 /\ wi \in Jobs
  BY <1>1, Typed DEF TypeOK, WorkerType
<1>3. \A i \in Jobs : jobs[i].pri \in Int
  <2>1. \A i \in Jobs : jobs[i] \in Job
    BY Typed
  <2> QED
    BY <2>1, JobDaemonAssumption DEF Job, JobDaemonAssumption
<1>4. \A i : Eligible(i)' <=> Eligible(i)
  BY <1>1 DEF Eligible, DependencyDone, Found, Jobs
<1>5. /\ wbest = 0 => \A i \in 1 .. wi - 1 : ~Eligible(i)
      /\ wbest # 0 =>
           /\ Eligible(wbest)
           /\ \A i \in 1 .. wi - 1 :
                Eligible(i) => \/ jobs[i].pri < jobs[wbest].pri
                               \/ jobs[i].pri = jobs[wbest].pri /\ wbest <= i
  BY <1>1 DEF ScanInv, BestSoFar
<1>6. \A i \in 1 .. wi : i = wi \/ i \in 1 .. wi - 1
  BY <1>2
<1>7. SUFFICES /\ wbest' = 0 => \A i \in 1 .. wi : ~Eligible(i)
               /\ wbest' # 0 =>
                    /\ Eligible(wbest')
                    /\ \A i \in 1 .. wi :
                         Eligible(i) => \/ jobs[i].pri < jobs[wbest'].pri
                                        \/ jobs[i].pri = jobs[wbest'].pri /\ wbest' <= i
  <2>1. wi' - 1 = wi
    BY <1>1, <1>2
  <2> QED
    BY <1>1, <1>4, <1>7, <2>1 DEF ScanInv, BestSoFar
<1>8. CASE Eligible(wi) /\ Better(wi)
  <2>1. wbest' = wi /\ wi # 0
    BY <1>1, <1>2, <1>8
  <2>2. ASSUME NEW i \in 1 .. wi - 1, Eligible(i)
        PROVE  jobs[i].pri < jobs[wi].pri
    <3>1. wbest # 0 /\ jobs[i].pri <= jobs[wbest].pri
      BY <1>2, <1>3, <1>5, <2>2
    <3>2. jobs[wi].pri > jobs[wbest].pri
      BY <1>8, <3>1 DEF Better
    <3>3. i \in Jobs /\ wbest \in Jobs
      BY <1>2, <2>2, <3>1
    <3> QED
      BY <1>2, <1>3, <3>1, <3>2, <3>3
  <2> QED
    BY <1>2, <1>6, <1>8, <2>1, <2>2
<1>9. CASE ~Eligible(wi)
  <2>1. wbest' = wbest
    BY <1>1, <1>9
  <2> QED
    BY <1>5, <1>6, <1>9, <2>1
<1>10. CASE ~Better(wi)
  <2>1. wbest' = wbest
    BY <1>1, <1>10
  <2>2. wbest # 0 /\ wbest \in Jobs
    BY <1>2, <1>10 DEF Better
  <2>3. \/ jobs[wi].pri < jobs[wbest].pri
        \/ jobs[wi].pri = jobs[wbest].pri /\ wbest <= wi
    BY <1>2, <1>3, <1>10, <2>2 DEF Better
  <2> QED
    BY <1>5, <1>6, <2>1, <2>2, <2>3
<1> QED
  BY <1>8, <1>9, <1>10

LEMMA ScanNext == TypeOK /\ ScanInv /\ [Next]_vars => ScanInv'
<1> SUFFICES ASSUME TypeOK, ScanInv, [Next]_vars
             PROVE  ScanInv'
  OBVIOUS
<1>1. CASE ClientStep
  <2>1. CASE \E pri \in Priorities, dep \in Deps : Submit(pri, dep)
    BY <2>1, ScanOver DEF Submit, Touch
  <2>2. CASE \E i \in Jobs : Cancel(i) \/ \E pri \in Priorities : SetPriority(i, pri)
    BY <2>2, ScanOver DEF Cancel, SetPriority, Touch
  <2>3. CASE Pause \/ Resume
    BY <2>3, ScanKept DEF Pause, Resume, store, worker
  <2> QED
    BY <1>1, <2>1, <2>2, <2>3 DEF ClientStep
<1>2. CASE Poll
  <2>1. wpc' = "scan" /\ wi' = 1 /\ wbest' = 0 /\ stale' = FALSE
    BY <1>2 DEF Poll
  <2> QED
    BY <2>1 DEF ScanInv, BestSoFar
<1>3. CASE ScanJob
  BY <1>3, ScanOneJob, ScanOver DEF ScanJob
<1>4. CASE ScanFreedJob
  BY <1>4, ScanOver DEF ScanFreedJob, ScanInv
<1>5. CASE ScanFindsNone \/ StartJob \/ Launch \/ LaunchFails \/ ProcessEnds \/ Crash \/ Boot
  BY <1>5, ScanOver
     DEF ScanFindsNone, StartJob, Launch, LaunchFails, ProcessEnds, ProcessExits, EndJob,
         LeaveProcessNext, Crash, Boot
<1>6. CASE (\E t \in Threads : SaveStep(t)) \/ Progress \/ Reply \/ OrphanExits \/ UNCHANGED vars
  BY <1>6, ScanKept
     DEF SaveStep, SaveOpen, SaveCopy, SaveFlush, Progress, Reply, OrphanExits, vars, store, worker
<1> QED
  BY <1>1, <1>2, <1>3, <1>4, <1>5, <1>6 DEF Next, WorkerStep

(* A scan no handler disturbed picks, among what it has seen, an eligible  *)
(* job of the highest priority, and of those the one submitted first.      *)
THEOREM BestJobIsChosen == Spec => []BestSoFar
<1>1. ScanInv => BestSoFar
  BY DEF ScanInv
<1> QED
  BY <1>1, ScanInit, ScanNext, TypeCorrect, PTL DEF Spec

-----------------------------------------------------------------------------
(* Dependencies.                                                           *)

(* What the worker writes: the state of the job it holds, if at all.       *)
LEMMA WorkerMoves ==
  ASSUME TypeOK, WorkerWrites
  PROVE  /\ wbest \in Jobs /\ HoldsReference
         /\ \A i \in Jobs :
              \/ jobs'[i].state = jobs[i].state
              \/ /\ i = wbest /\ ~stale
                 /\ jobs'[i].state \in IF StartJob THEN {"Running"} ELSE {"Completed", "Failed"}
<1>1. PICK pri : pri \in Priorities
  BY JobDaemonAssumption DEF JobDaemonAssumption
<1>2. wbest \in Jobs
  BY WorkerRewrites
<1>3. HoldsReference
  BY DEF WorkerWrites, StartJob, LaunchFails, ProcessEnds, ProcessExits, WorkerReady, HoldsReference
<1>4. PICK state \in States : /\ IF StartJob THEN state = "Running" ELSE state \in {"Completed", "Failed"}
                              /\ WriteBest(state)
  BY WorkerRewrites
<1>5. CASE stale
  BY <1>2, <1>3, <1>4, <1>5 DEF WriteBest
<1>6. CASE ~stale
  <2>1. jobs' = [jobs EXCEPT ![wbest].state = state]
    BY <1>4, <1>6 DEF WriteBest
  <2>2. /\ \A i \in Jobs \ {wbest} : jobs'[i] = jobs[i]
        /\ jobs'[wbest].state \in {state, jobs[wbest].state}
    BY <1>1, <1>2, <2>1, RewriteKeeps
  <2>3. state \in IF StartJob THEN {"Running"} ELSE {"Completed", "Failed"}
    BY <1>4
  <2> QED
    BY <1>2, <1>3, <1>6, <2>2, <2>3
<1> QED
  BY <1>5, <1>6

(* What a client's request writes: it cancels a job that has not ended.    *)
LEMMA ClientMoves ==
  ASSUME TypeOK, ClientRewrites
  PROVE  \A i \in Jobs :
           \/ jobs'[i].state = jobs[i].state
           \/ jobs[i].state \in {"Queued", "Running"} /\ jobs'[i].state = "Cancelled"
<1>1. PICK pri : pri \in Priorities
  BY JobDaemonAssumption DEF JobDaemonAssumption
<1>2. PICK n \in Jobs : Cancel(n) \/ \E p \in Priorities : SetPriority(n, p)
  BY DEF ClientRewrites
<1>3. jobs[n] \in Job
  BY Typed
<1>4. CASE Cancel(n)
  <2>1. jobs' = [jobs EXCEPT ![n].state = "Cancelled"] /\ jobs[n].state \in {"Queued", "Running"}
    BY <1>4 DEF Cancel, Cancellable
  <2>2. /\ \A i \in Jobs \ {n} : jobs'[i] = jobs[i]
        /\ jobs'[n].state \in {"Cancelled", jobs[n].state}
    BY <1>1, <2>1, RewriteKeeps DEF States
  <2> QED
    BY <2>1, <2>2
<1>5. ASSUME NEW p \in Priorities, SetPriority(n, p)
      PROVE  \A i \in Jobs : jobs'[i].state = jobs[i].state
  <2>1. jobs' = [jobs EXCEPT ![n].pri = p] /\ jobs[n].state \in States
    BY <1>3, <1>5 DEF SetPriority, Job
  <2>2. /\ \A i \in Jobs \ {n} : jobs'[i] = jobs[i]
        /\ jobs'[n].state \in {jobs[n].state, jobs[n].state}
    BY <2>1, RewriteKeeps
  <2> QED
    BY <2>2
<1> QED
  BY <1>2, <1>4, <1>5

(* Which job find_if takes does not change while ids are kept.             *)
LEMMA FoundKept ==
  ASSUME \A i \in Jobs : i \in Jobs' /\ jobs'[i].id = jobs[i].id,
         NEW k \in Jobs, Found(k)'
  PROVE  Found(k)
BY DEF Found

(* Where ids grow, it takes the only one.                                  *)
LEMMA OnlyOneFound ==
  ASSUME TypeOK, IdsGrow, NEW k \in Jobs
  PROVE  Found(k)
<1> SUFFICES ASSUME NEW j \in Jobs, j < k
             PROVE  jobs[j].id # jobs[k].id
  BY DEF Found
<1>1. jobs[j].id < jobs[k].id /\ jobs[j].id \in Nat /\ jobs[k].id \in Nat
  BY Typed DEF IdsGrow, Job, Ids
<1> QED
  BY <1>1

(* Other steps leave the held job alone, or the worker holds none.         *)
LEMMA HeldKept ==
  ASSUME HeldInv, UNCHANGED <<jobs, wpc, wbest, stale>>
  PROVE  HeldInv'
BY DEF HeldInv, HoldsReference, Found, Jobs

LEMMA HeldGone ==
  ASSUME wpc' \notin {"scan", "launch", "exec"} \/ wbest' = 0 \/ stale'
  PROVE  HeldInv'
BY DEF HeldInv, HoldsReference

LEMMA HeldNext == TypeOK /\ HeldInv /\ [Next]_vars => HeldInv'
<1> SUFFICES ASSUME TypeOK, HeldInv, [Next]_vars
             PROVE  HeldInv'
  OBVIOUS
<1>1. /\ Len(jobs) \in Nat /\ Jobs = 1 .. Len(jobs)
      /\ wbest \in 0 .. Len(jobs)
  BY Typed DEF TypeOK, WorkerType
<1>2. ASSUME HoldsReference, wbest # 0, ~stale
      PROVE  /\ wbest \in Jobs
             /\ \A k \in Jobs : jobs[k].id = jobs[wbest].dep /\ Found(k) /\ k < wbest
                  => jobs[k].state = "Completed"
             /\ jobs[wbest].state \in {IF wpc = "scan" THEN "Queued" ELSE "Running", "Cancelled"}
  BY <1>1, <1>2 DEF HeldInv
<1>3. CASE SubmitStep
  <2>1. /\ \A i \in Jobs : jobs'[i] = jobs[i]
        /\ Jobs' = 1 .. Len(jobs) + 1
    BY <1>3, SubmitAppends
  <2>2. UNCHANGED <<wpc, wbest>> /\ (stale => stale')
    BY <1>3 DEF SubmitStep, Submit
  <2>3. \A k \in Jobs' : k < wbest => k \in Jobs
    BY <1>1, <2>1
  <2> QED
    BY <1>1, <1>2, <2>1, <2>2, <2>3, FoundKept DEF HeldInv, HoldsReference
<1>4. CASE ClientRewrites
  <2>1. /\ Jobs' = Jobs
        /\ \A i \in Jobs : jobs'[i].id = jobs[i].id /\ jobs'[i].dep = jobs[i].dep
    BY <1>4, RewritesKeepIds DEF KeepsIds
  <2>2. \A i \in Jobs :
           \/ jobs'[i].state = jobs[i].state
           \/ jobs[i].state \in {"Queued", "Running"} /\ jobs'[i].state = "Cancelled"
    BY <1>4, ClientMoves
  <2>3. UNCHANGED <<wpc, wbest, stale>>
    BY <1>4 DEF ClientRewrites, Cancel, SetPriority
  <2> QED
    BY <1>1, <1>2, <2>1, <2>2, <2>3, FoundKept DEF HeldInv, HoldsReference
<1>5. CASE StartJob
  <2>1. /\ Jobs' = Jobs
        /\ \A i \in Jobs : jobs'[i].id = jobs[i].id /\ jobs'[i].dep = jobs[i].dep
    BY <1>5, RewritesKeepIds DEF KeepsIds, WorkerWrites
  <2>2. HoldsReference /\ wbest # 0 /\ wpc' = "launch" /\ UNCHANGED <<wbest, stale>>
    BY <1>5 DEF StartJob, HoldsReference
  <2>3. \A i \in Jobs : jobs'[i].state = jobs[i].state \/ (i = wbest /\ jobs'[i].state = "Running")
    BY <1>5, WorkerMoves DEF WorkerWrites
  <2>4. CASE stale
    BY <2>2, <2>4, HeldGone
  <2>5. CASE ~stale
    <3>1. jobs'[wbest].state = "Running"
      <4>1. jobs' = [jobs EXCEPT ![wbest].state = "Running"]
        BY <1>5, <2>5 DEF StartJob, WriteBest
      <4>2. wbest \in Jobs /\ jobs[wbest] \in Job
        BY <1>2, <2>2, <2>5, Typed
      <4> QED
        BY <4>1, <4>2 DEF Jobs, Job
    <3> QED
      BY <1>2, <2>1, <2>2, <2>3, <2>5, <3>1, FoundKept DEF HeldInv, HoldsReference
  <2> QED
    BY <2>4, <2>5
<1>6. CASE Launch
  <2>1. wpc = "launch" /\ wpc' = "exec" /\ UNCHANGED <<jobs, wbest, stale>>
    BY <1>6 DEF Launch, WorkerReady, store
  <2> QED
    BY <2>1 DEF HeldInv, HoldsReference, Found, Jobs
<1>7. CASE ScanJob
  <2>1. /\ wpc = "scan" /\ UNCHANGED <<jobs, wpc, stale>>
        /\ wbest' = wbest \/ (wbest' = wi /\ Eligible(wi))
    BY <1>7 DEF ScanJob, store
  <2>2. CASE wbest' = wbest
    BY <2>1, <2>2, HeldKept
  <2>3. CASE wbest' = wi /\ Eligible(wi)
    BY <2>1, <2>3 DEF HeldInv, HoldsReference, Eligible, DependencyDone, Found, Jobs
  <2> QED
    BY <2>1, <2>2, <2>3
<1>8. CASE Poll \/ ScanFreedJob \/ ScanFindsNone \/ LaunchFails \/ ProcessEnds \/ Crash \/ Boot
  BY <1>8, HeldGone
     DEF Poll, ScanFreedJob, ScanFindsNone, LaunchFails, ProcessEnds, ProcessExits, EndJob,
         LeaveProcessNext, Crash, Boot
<1>9. CASE AnySave \/ Progress \/ Reply \/ OrphanExits \/ Pause \/ Resume \/ UNCHANGED vars
  BY <1>9, HeldKept
     DEF AnySave, SaveStep, SaveOpen, SaveCopy, SaveFlush, Progress, Reply, OrphanExits,
         Pause, Resume, vars, store, worker
<1> QED
  BY <1>3, <1>4, <1>5, <1>6, <1>7, <1>8, <1>9
     DEF Next, WorkerStep, ClientStep, SubmitStep, ClientRewrites, AnySave

(* A rewrite that undoes no completion and starts nothing too early.       *)
LEMMA RewriteInOrder ==
  ASSUME KeepsIds, InOrder(jobs),
         \A i \in Jobs :
           \/ jobs'[i].state = jobs[i].state
           \/ /\ jobs[i].state # "Completed"
              /\ Started(jobs'[i]) =>
                   \A k \in Jobs : jobs[k].id = jobs[i].dep /\ k < i => jobs[k].state = "Completed"
  PROVE  InOrder(jobs')
<1> SUFFICES ASSUME NEW i \in Jobs, NEW k \in Jobs,
                    Started(jobs'[i]), jobs'[k].id = jobs'[i].dep, k < i
             PROVE  jobs'[k].state = "Completed"
  BY DEF InOrder, KeepsIds, Jobs
<1>1. jobs[k].id = jobs[i].dep
  BY DEF KeepsIds
<1>2. jobs[k].state = "Completed"
  BY <1>1 DEF InOrder, Started, Jobs
<1> QED
  BY <1>2

LEMMA JobsInOrder ==
  ASSUME TypeOK, IdsGrow, HeldInv, InOrder(jobs), InOrder(file), [Next]_vars
  PROVE  InOrder(jobs')
<1>1. CASE UNCHANGED <<jobs, nextId>>
  BY <1>1
<1>2. CASE SubmitStep
  <2>1. /\ \A i \in Jobs : jobs'[i] = jobs[i]
        /\ jobs'[Len(jobs) + 1].state = "Queued"
        /\ Jobs' = 1 .. Len(jobs) + 1
    BY <1>2, SubmitAppends
  <2>2. Len(jobs) \in Nat /\ Jobs = 1 .. Len(jobs)
    BY Typed
  <2>3. \A i \in Jobs' : Started(jobs'[i]) => i \in Jobs
    BY <2>1, <2>2 DEF Started
  <2>4. \A i \in Jobs, k \in Jobs' : k < i => k \in Jobs
    BY <2>1, <2>2
  <2> QED
    BY <2>1, <2>3, <2>4 DEF InOrder, Jobs
<1>3. CASE ClientRewrites
  <2>1. KeepsIds
    BY <1>3, RewritesKeepIds
  <2>2. \A i \in Jobs :
           \/ jobs'[i].state = jobs[i].state
           \/ jobs[i].state \in {"Queued", "Running"} /\ jobs'[i].state = "Cancelled"
    BY <1>3, ClientMoves
  <2> QED
    BY <2>1, <2>2, RewriteInOrder DEF Started
<1>4. CASE WorkerWrites
  <2>1. KeepsIds
    BY <1>4, RewritesKeepIds
  <2>2. wbest \in Jobs /\ HoldsReference
    BY <1>4, WorkerMoves
  <2>3. \A i \in Jobs : jobs'[i].state = jobs[i].state \/ (i = wbest /\ ~stale)
    BY <1>4, WorkerMoves
  <2>4. wbest # 0
    BY <2>2, Typed
  <2>5. ~stale => /\ \A k \in Jobs : jobs[k].id = jobs[wbest].dep /\ k < wbest => jobs[k].state = "Completed"
                  /\ jobs[wbest].state # "Completed"
    BY <2>2, <2>4, OnlyOneFound DEF HeldInv
  <2> QED
    BY <2>1, <2>3, <2>5, RewriteInOrder
<1>5. CASE Crash
  BY <1>5 DEF Crash, InOrder
<1>6. CASE Boot
  <2>1. jobs' = Requeue(file) /\ DOMAIN Requeue(file) = DOMAIN file
    BY <1>6 DEF Boot, Requeue
  <2>2. \A i \in DOMAIN file : file[i] \in Job
    BY Typed
  <2>3. \A i \in DOMAIN file :
          /\ jobs'[i].id = file[i].id /\ jobs'[i].dep = file[i].dep
          /\ jobs'[i].state = file[i].state \/ (file[i].state = "Running" /\ jobs'[i].state = "Queued")
    BY <2>1, <2>2 DEF Requeue, Job
  <2> QED
    BY <2>1, <2>3 DEF InOrder, Started
<1> QED
  BY <1>1, <1>2, <1>3, <1>4, <1>5, <1>6, VectorSteps

(* What an overlay leaves of the older text has not been started, if there *)
(* was no started job behind the place where the new text ends.            *)
LEMMA OverlayInOrder ==
  ASSUME NEW c \in Seq(Job), NEW f \in Seq(Job), NEW d \in {0, 1},
         InOrder(c), NoneStarted(f, Len(c))
  PROVE  InOrder(Overlay(c, f, Len(c) + 1 + d))
<1> DEFINE o == Overlay(c, f, Len(c) + 1 + d)
<1>1. Len(c) \in Nat /\ Len(f) \in Nat /\ DOMAIN c = 1 .. Len(c) /\ DOMAIN f = 1 .. Len(f)
  BY LenProperties
<1>2. /\ DOMAIN o = 1 .. Len(o) /\ Len(o) \in Nat
      /\ \A i \in 1 .. Len(c) : o[i] = c[i]
      /\ \A i \in DOMAIN o : i > Len(c) => i + d \in 1 .. Len(f) /\ o[i] = f[i + d]
  BY OverlayElements, LenProperties
<1> HIDE DEF o
<1>3. \A i \in DOMAIN o : Started(o[i]) => i <= Len(c)
  <2> SUFFICES ASSUME NEW i \in DOMAIN o, i > Len(c)
               PROVE  ~Started(o[i])
    BY <1>1, <1>2
  <2>1. i + d \in DOMAIN f /\ i + d > Len(c) /\ o[i] = f[i + d]
    BY <1>1, <1>2
  <2> QED
    BY <2>1 DEF NoneStarted
<1>4. \A i \in DOMAIN o : i <= Len(c) => i \in DOMAIN c /\ o[i] = c[i]
  BY <1>1, <1>2
<1>5. \A i, k \in DOMAIN o : k < i /\ i <= Len(c) => k <= Len(c)
  BY <1>1, <1>2
<1>6. InOrder(o)
  BY <1>3, <1>4, <1>5 DEF InOrder
<1> QED
  BY <1>6 DEF o

LEMMA OverlayNoneStarted ==
  ASSUME NEW c \in Seq(Job), NEW f \in Seq(Job), NEW d \in {0, 1}, NEW n \in Nat,
         NoneStarted(c, n), NoneStarted(f, n)
  PROVE  NoneStarted(Overlay(c, f, Len(c) + 1 + d), n)
<1> DEFINE o == Overlay(c, f, Len(c) + 1 + d)
<1>1. Len(c) \in Nat /\ Len(f) \in Nat /\ DOMAIN c = 1 .. Len(c) /\ DOMAIN f = 1 .. Len(f)
  BY LenProperties
<1>2. /\ DOMAIN o = 1 .. Len(o) /\ Len(o) \in Nat
      /\ \A i \in 1 .. Len(c) : o[i] = c[i]
      /\ \A i \in DOMAIN o : i > Len(c) => i + d \in 1 .. Len(f) /\ o[i] = f[i + d]
  BY OverlayElements, LenProperties
<1> HIDE DEF o
<1>3. ASSUME NEW i \in DOMAIN o, i > n
      PROVE  ~Started(o[i])
  <2>1. CASE i <= Len(c)
    <3>1. i \in DOMAIN c /\ o[i] = c[i]
      BY <1>1, <1>2, <2>1
    <3> QED
      BY <1>3, <3>1 DEF NoneStarted
  <2>2. CASE i > Len(c)
    <3>1. i + d \in DOMAIN f /\ o[i] = f[i + d] /\ i + d > n
      BY <1>1, <1>2, <1>3, <2>2
    <3> QED
      BY <3>1 DEF NoneStarted
  <2> QED
    BY <1>1, <1>2, <2>1, <2>2
<1> QED
  BY <1>3 DEF NoneStarted, o

LEMMA OrderInit == Init => OrderInv
<1> SUFFICES ASSUME Init
             PROVE  OrderInv
  OBVIOUS
<1>1. HeldInv
  BY DEF Init, HeldInv, HoldsReference
<1>2. InOrder(<<>>)
  BY EmptySeq DEF InOrder
<1>3. jobs = <<>> /\ file = <<>> /\ \A t \in Threads : snap[t] = <<>> /\ sv[t] = "none"
  BY DEF Init
<1> QED
  BY <1>1, <1>2, <1>3 DEF OrderInv, Threads

(* A text that is no longer than the vector has nothing behind its end.    *)
LEMMA NothingBehind ==
  ASSUME NEW s \in Seq(Job), IsPrefix(s)
  PROVE  NoneStarted(s, Len(jobs))
BY LenProperties DEF IsPrefix, NoneStarted

LEMMA OrderSave ==
  ASSUME MaxSlack = 0, TypeOK, TextInv, OrderInv, NEW t \in Threads, SaveStep(t),
         HeldInv', InOrder(jobs')
  PROVE  OrderInv'
<1> DEFINE u == Other(t)
<1>1. u \in Threads /\ u # t /\ Threads = {t, u} /\ {t, u} = {"main", "worker"}
  BY DEF Other, Threads
<1>2. /\ sv \in [Threads -> JobSaveStates] /\ snap \in [Threads -> Seq(Job)]
      /\ jobs \in Seq(Job) /\ file \in Seq(Job) /\ snap[t] \in Seq(Job)
      /\ Len(jobs) \in Nat /\ Len(snap[t]) \in Nat
  BY LenProperties DEF TypeOK, StoreType, DiskType
<1>3. jobs' = jobs /\ sv'[u] = sv[u] /\ snap'[u] = snap[u]
  BY <1>1, <1>2 DEF SaveStep, SaveOpen, SaveCopy, SaveFlush, store
<1>4. /\ InOrder(jobs) /\ InOrder(file) /\ InOrder(snap[t]) /\ InOrder(snap[u])
      /\ sv["main"] = "copied" => Len(snap["main"]) = Len(jobs)
      /\ sv["worker"] = "copied" =>
           \A s \in {jobs, file, snap["main"]} : NoneStarted(s, Len(snap["worker"]))
  BY <1>1 DEF OrderInv
<1> HIDE DEF u
<1>5. SUFFICES /\ InOrder(file') /\ InOrder(snap'[t])
               /\ sv'["main"] = "copied" => Len(snap'["main"]) = Len(jobs)
               /\ sv'["worker"] = "copied" =>
                    \A s \in {jobs, file', snap'["main"]} : NoneStarted(s, Len(snap'["worker"]))
  <2>1. \A v \in Threads : InOrder(snap'[v])
    BY <1>1, <1>3, <1>4, <1>5
  <2>2. \A v \in Threads : InOrder(snap[v])' <=> InOrder(snap'[v])
    BY DEF InOrder
  <2>3. (InOrder(jobs)' <=> InOrder(jobs')) /\ (InOrder(file)' <=> InOrder(file'))
    BY DEF InOrder
  <2> QED
    BY <1>3, <1>5, <2>1, <2>2, <2>3 DEF OrderInv
<1>6. InOrder(<<>>) /\ \A n \in Nat : NoneStarted(<<>>, n)
  BY EmptySeq DEF InOrder, NoneStarted
<1>7. Len(snap["worker"]) \in Nat
  BY Typed DEF Threads
<1>8. CASE SaveOpen(t)
  <2>1. sv'[t] = "opened" /\ file' = <<>> /\ snap' = snap
    BY <1>2, <1>8 DEF SaveOpen
  <2>2. \A v \in Threads : sv'[v] = "copied" => sv[v] = "copied"
    BY <1>1, <1>3, <2>1
  <2> QED
    BY <1>4, <1>6, <1>7, <2>1, <2>2 DEF Threads
<1>9. CASE SaveCopy(t)
  <2>1. sv[t] = "opened" /\ sv'[t] = "copied" /\ snap'[t] = jobs /\ file' = file
    BY <1>2, <1>9 DEF SaveCopy
  <2>2. IsPrefix(file) /\ IsPrefix(snap[u])
    BY <1>1, <2>1 DEF TextInv, MidSave
  <2>3. CASE t = "main"
    <3>1. u = "worker"
      BY <1>1, <2>3
    <3> QED
      BY <1>3, <1>4, <2>1, <2>3, <3>1
  <2>4. CASE t = "worker"
    <3>1. u = "main"
      BY <1>1, <2>4
    <3>2. snap[u] \in Seq(Job)
      BY <1>1, <1>2
    <3>3. NoneStarted(file, Len(jobs)) /\ NoneStarted(snap[u], Len(jobs))
      BY <1>2, <2>2, <3>2, NothingBehind
    <3>4. NoneStarted(jobs, Len(jobs))
      BY <1>2, NothingBehind DEF IsPrefix
    <3> QED
      BY <1>3, <1>4, <2>1, <2>4, <3>1, <3>3, <3>4
  <2> QED
    BY <1>1, <2>3, <2>4
<1>10. CASE SaveFlush(t)
  <2>1. sv[t] = "copied" /\ sv'[t] = "none" /\ snap'[t] = <<>>
    BY <1>2, <1>10 DEF SaveFlush
  <2>2. PICK k \in FirstKept(Len(snap[t])) : file' = Overlay(snap[t], file, k)
    BY <1>10 DEF SaveFlush
  <2>3. PICK d \in {0, 1} : k = Len(snap[t]) + 1 + d
    BY <1>2, <2>2, FirstKeptInStep
  <2>4. NoneStarted(file, Len(snap[t]))
    <3>1. CASE t = "main"
      <4>1. IsPrefix(file) /\ Len(snap[t]) = Len(jobs)
        BY <1>4, <2>1, <3>1 DEF TextInv, MidSave
      <4> QED
        BY <1>2, <4>1, NothingBehind
    <3>2. CASE t = "worker"
      BY <1>4, <2>1, <3>2
    <3> QED
      BY <1>1, <3>1, <3>2
  <2>5. InOrder(file')
    BY <1>2, <1>4, <2>2, <2>3, <2>4, OverlayInOrder
  <2>6. CASE t = "worker"
    <3>1. u = "main"
      BY <1>1, <2>6
    <3> QED
      BY <1>3, <1>4, <1>6, <2>1, <2>5, <2>6, <3>1
  <2>7. CASE t = "main"
    <3>1. u = "worker" /\ snap'["worker"] = snap["worker"] /\ sv'["worker"] = sv["worker"]
      BY <1>1, <1>3, <2>7
    <3>2. ASSUME sv["worker"] = "copied"
          PROVE  NoneStarted(file', Len(snap["worker"]))
      <4>1. NoneStarted(snap[t], Len(snap["worker"])) /\ NoneStarted(file, Len(snap["worker"]))
        BY <1>4, <2>7, <3>2
      <4> QED
        BY <1>2, <1>7, <2>2, <2>3, <4>1, OverlayNoneStarted
    <3>3. NoneStarted(<<>>, Len(snap["worker"]))
      BY <1>6, <1>7
    <3> QED
      BY <1>4, <1>6, <2>1, <2>5, <2>7, <3>1, <3>2, <3>3
  <2> QED
    BY <1>1, <2>6, <2>7
<1> QED
  BY <1>8, <1>9, <1>10 DEF SaveStep

(* While a text of the worker waits to be flushed, the worker starts and   *)
(* ends nothing, and clients start nothing.                                *)
LEMMA OrderAsked ==
  ASSUME TypeOK, SaveInv, OrderInv, [Next]_vars, ~AnySave, ~Crash, HeldInv', InOrder(jobs')
  PROVE  OrderInv'
<1>1. UNCHANGED <<file, snap>> /\ (sv' = sv \/ \E t \in Threads : Asks(t))
  BY DiskSteps
<1>2. /\ sv \in [Threads -> JobSaveStates]
      /\ Len(jobs) \in Nat /\ Jobs = 1 .. Len(jobs) /\ jobs \in Seq(Job)
      /\ Len(snap["worker"]) \in Nat
  BY Typed DEF Threads
<1>3. \A t \in Threads : sv'[t] = "copied" => sv[t] = "copied"
  BY <1>1, <1>2 DEF Asks, AskSave
<1>4. /\ InOrder(file) /\ \A t \in Threads : InOrder(snap[t])
      /\ sv["main"] = "copied" => Len(snap["main"]) = Len(jobs)
      /\ sv["worker"] = "copied" =>
           \A s \in {jobs, file, snap["main"]} : NoneStarted(s, Len(snap["worker"]))
  BY DEF OrderInv
<1>5. sv'["main"] = "copied" => Len(jobs') = Len(jobs)
  <2>1. CASE SubmitStep
    <3>1. sv'["main"] = "todo"
      BY <1>2, <2>1 DEF SubmitStep, Submit, AskSave, Threads
    <3> QED
      BY <3>1
  <2>2. CASE Boot
    <3>1. sv'["main"] = "none"
      BY <2>2 DEF Boot, SaveInv, Saved, Threads
    <3> QED
      BY <3>1
  <2>3. CASE ~SubmitStep /\ ~Boot
    BY <2>3, IdsKept DEF KeepsIds
  <2> QED
    BY <2>1, <2>2, <2>3
<1>6. ASSUME sv'["worker"] = "copied"
      PROVE  NoneStarted(jobs', Len(snap["worker"]))
  <2>1. NoneStarted(jobs, Len(snap["worker"]))
    BY <1>3, <1>4, <1>6 DEF Threads
  <2>2. CASE SubmitStep
    <3>1. /\ \A i \in Jobs : jobs'[i] = jobs[i]
          /\ jobs'[Len(jobs) + 1].state = "Queued"
          /\ Jobs' = 1 .. Len(jobs) + 1
      BY <2>2, SubmitAppends
    <3>2. \A i \in Jobs' : i \in Jobs \/ i = Len(jobs) + 1
      BY <1>2, <3>1
    <3> QED
      BY <2>1, <3>1, <3>2 DEF NoneStarted, Started, Jobs
  <2>3. CASE ClientRewrites
    <3>1. Jobs' = Jobs
      BY <2>3, RewritesKeepIds DEF KeepsIds
    <3>2. \A i \in Jobs :
             \/ jobs'[i].state = jobs[i].state
             \/ jobs'[i].state = "Cancelled"
      BY <2>3, ClientMoves
    <3> QED
      BY <2>1, <3>1, <3>2 DEF NoneStarted, Started, Jobs
  <2>4. CASE WorkerWrites
    <3>1. sv'["worker"] = "todo"
      BY <1>2, <2>4 DEF WorkerWrites, StartJob, LaunchFails, ProcessEnds, ProcessExits, EndJob,
                        AskSave, Threads
    <3> QED
      BY <1>6, <3>1
  <2>5. CASE Boot
    <3>1. sv'["worker"] = "none"
      BY <2>5 DEF Boot, SaveInv, Saved, Threads
    <3> QED
      BY <1>6, <3>1
  <2>6. CASE UNCHANGED <<jobs, nextId>>
    BY <2>1, <2>6
  <2> QED
    BY <2>2, <2>3, <2>4, <2>5, <2>6, VectorSteps
<1>7. /\ InOrder(jobs)' <=> InOrder(jobs')
      /\ InOrder(file)' <=> InOrder(file')
      /\ \A t \in Threads : InOrder(snap[t])' <=> InOrder(snap'[t])
      /\ \A s, n : NoneStarted(s, n)' <=> NoneStarted(s', n')
  BY DEF InOrder, NoneStarted, Started
<1>8. sv'["main"] = "copied" => Len(snap'["main"]) = Len(jobs')
  BY <1>1, <1>3, <1>4, <1>5 DEF Threads
<1>9. sv'["worker"] = "copied" =>
        \A s \in {jobs', file', snap'["main"]} : NoneStarted(s, Len(snap'["worker"]))
  BY <1>1, <1>3, <1>4, <1>6 DEF Threads
<1> QED
  BY <1>1, <1>4, <1>7, <1>8, <1>9 DEF OrderInv

LEMMA OrderNext ==
  ASSUME MaxSlack = 0, TypeOK, SaveInv, TextInv, OrderInv, [Next]_vars
  PROVE  OrderInv'
<1>1. HeldInv'
  BY HeldNext DEF OrderInv
<1>2. InOrder(jobs')
  BY JobsInOrder DEF OrderInv, TextInv
<1>3. CASE AnySave
  BY <1>1, <1>2, <1>3, OrderSave DEF AnySave
<1>4. CASE Crash
  <2>1. /\ jobs' = <<>> /\ file' = file
        /\ \A t \in Threads : snap'[t] = <<>> /\ sv'[t] = "none"
    BY <1>4 DEF Crash
  <2>2. InOrder(<<>>) /\ InOrder(file)
    BY EmptySeq DEF InOrder, OrderInv
  <2>3. InOrder(jobs)' /\ InOrder(file)' /\ \A t \in Threads : InOrder(snap[t])'
    BY <2>1, <2>2 DEF InOrder
  <2> QED
    BY <1>1, <2>1, <2>3 DEF OrderInv, Threads
<1>5. CASE ~AnySave /\ ~Crash
  BY <1>1, <1>2, <1>5, OrderAsked
<1> QED
  BY <1>3, <1>4, <1>5

LEMMA OrderAlways ==
  ASSUME MaxSlack = 0
  PROVE  Spec => []OrderInv
<1>1. TypeOK /\ SaveInv /\ TextInv /\ OrderInv /\ [Next]_vars => OrderInv'
  BY OrderNext
<1>2. Spec => []TextInv
  BY TextAlways
<1> QED
  BY <1>1, <1>2, OrderInit, SaveAlways, TypeCorrect, PTL DEF Spec

(* "Job B waits for Job A to complete" (job_queue.h): a started job has    *)
(* its earlier-submitted dependency completed, whatever handlers do        *)
(* between the scan and the start, after overlapping saves, and in every   *)
(* daemon that loads the file a kill at any moment has left.  Again of as  *)
(* many jobs as keep two texts of them in step.                            *)
THEOREM DependenciesHold ==
  ASSUME MaxSlack = 0
  PROVE  Spec => []StartedAfterDependency
<1>1. OrderInv => StartedAfterDependency
  BY DEF OrderInv, InOrder, Started, StartedAfterDependency, Jobs
<1>2. Spec => []OrderInv
  BY OrderAlways
<1> QED
  BY <1>1, <1>2, PTL

(* A finished job is final and a cancelled one comes back only by the      *)
(* worker that had chosen it: what handlers find by id they never revive,  *)
(* and a stale reference of the worker never writes over another job.      *)
THEOREM FinishedJobsAreFinal == Spec => FinishedIsFinal
<1> DEFINE Step == Up /\ Up' => \A i \in Jobs :
             /\ jobs[i].state \in {"Completed", "Failed"} => jobs'[i].state = jobs[i].state
             /\ jobs[i].state = "Cancelled" /\ jobs'[i].state # "Cancelled"
                  => HoldsReference /\ wbest = i
<1>1. ASSUME TypeOK, HeldInv, [Next]_vars
      PROVE  [Step]_vars
  <2> SUFFICES ASSUME Up, Up', NEW i \in Jobs
               PROVE  /\ jobs[i].state \in {"Completed", "Failed"} => jobs'[i].state = jobs[i].state
                      /\ jobs[i].state = "Cancelled" /\ jobs'[i].state # "Cancelled"
                           => HoldsReference /\ wbest = i
    OBVIOUS
  <2>1. CASE UNCHANGED <<jobs, nextId>>
    BY <2>1
  <2>2. CASE SubmitStep
    <3>1. jobs'[i] = jobs[i]
      BY <1>1, <2>2, SubmitAppends
    <3> QED
      BY <3>1
  <2>3. CASE ClientRewrites
    <3>1. \/ jobs'[i].state = jobs[i].state
          \/ jobs[i].state \in {"Queued", "Running"} /\ jobs'[i].state = "Cancelled"
      BY <1>1, <2>3, ClientMoves
    <3> QED
      BY <3>1
  <2>4. CASE WorkerWrites
    <3>1. wbest \in Jobs /\ HoldsReference /\ (jobs'[i].state = jobs[i].state \/ (i = wbest /\ ~stale))
      BY <1>1, <2>4, WorkerMoves
    <3>2. wbest # 0
      BY <1>1, <3>1, Typed
    <3>3. ~stale => jobs[wbest].state \in {"Queued", "Running", "Cancelled"}
      BY <3>1, <3>2, <1>1 DEF HeldInv
    <3> QED
      BY <3>1, <3>3
  <2>5. ~Crash /\ ~Boot
    BY DEF Crash, Boot, Up
  <2> QED
    BY <1>1, <2>1, <2>2, <2>3, <2>4, <2>5, VectorSteps
<1>2. Init => HeldInv
  BY DEF Init, HeldInv, HoldsReference
<1>3. TypeOK /\ HeldInv /\ [Next]_vars => [Step]_vars
  BY <1>1
<1> HIDE DEF Step
<1>4. Spec => [][Step]_vars
  BY <1>2, <1>3, HeldNext, TypeCorrect, PTL DEF Spec
<1> QED
  BY <1>4 DEF Step, FinishedIsFinal
=============================================================================
