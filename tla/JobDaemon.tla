------------------------------ MODULE JobDaemon ------------------------------
(***************************************************************************)
(* The POSIX job-queue daemon of imfwizard (src/src/job_queue.cpp):        *)
(*                                                                         *)
(*   - the main thread accepts one client at a time and runs handle_client *)
(*     (SUBMIT, CANCEL, PRIORITY, PAUSE, RESUME; PING, LIST, STATUS and    *)
(*     IS_PAUSED only read and have no action here);                       *)
(*   - the worker thread loops over process_next and execute_job;          *)
(*   - both threads read and write the vector jobs_ with no lock, and both *)
(*     rewrite jobs.json (save_jobs) after each of their changes;          *)
(*   - the daemon only ever ends by being killed, and the next daemon      *)
(*     loads what jobs.json then holds.                                    *)
(*                                                                         *)
(* Abstractions: a job keeps its id, state, priority and dependency; its   *)
(* arguments, description, progress and times are dropped.  One handler's  *)
(* accesses to jobs_ up to its save are one step, and so is serialising    *)
(* jobs_ (jobs_to_json indexes the vector afresh for every job); the scan  *)
(* of process_next is one step per job.  A kill takes effect between       *)
(* system calls, and one flush of jobs.json is one system call.            *)
(*                                                                         *)
(* A definition whose name ends in _Bug is a deliberate fault: it is used  *)
(* by no action, only to test that a property can fail.                    *)
(***************************************************************************)
EXTENDS Integers, Sequences

CONSTANTS
  MaxJobs,      \* bound: ids the model lets next_id_ hand out, 1 .. MaxJobs
  Priorities,   \* the priorities clients ask for
  Deps,         \* the dependencies clients ask for; 0 is "none"
  MaxCrash,     \* bound: how often the daemon is killed
  MaxSlack      \* by how many objects two texts of the same jobs may be out
                \* of step with each other in jobs.json

ASSUME JobDaemonAssumption ==
  /\ MaxJobs \in Nat \ {0}
  /\ Priorities \subseteq Int
  /\ Priorities # {}
  /\ Deps \subseteq 0 .. MaxJobs
  /\ MaxCrash \in Nat
  /\ MaxSlack \in Nat

Ids     == 1 .. MaxJobs
States  == {"Queued", "Running", "Completed", "Failed", "Cancelled"}
Threads == {"main", "worker"}

(* A job as jobs_ and jobs.json keep it; dep = 0 is "no dependency".       *)
Job == [id : Ids, state : States, pri : Priorities, dep : Deps]

VARIABLES
  jobs,      \* jobs_, the vector both threads share
  nextId,    \* next_id_
  cap,       \* capacity of the vector jobs_
  paused,    \* paused_
  file,      \* the job objects a parser finds in jobs.json
  sv,        \* per thread, how far its save_jobs is
  snap,      \* per thread, the text it serialised and has not yet flushed
  wpc,       \* worker: "off" (no daemon), "poll", "scan", "launch", "exec"
  wi,        \* worker: next index process_next looks at
  wend,      \* worker: end of the range the for loop took at its start
  wbest,     \* worker: index "best" points to, 0 for nullptr
  stale,     \* worker: its pointers into jobs_ dangle (vector reallocated)
  mreply,    \* main: id whose "OK <id>" is still to be written, 0 for none
  crashes,   \* kills so far
  orphans    \* ids of job processes a killed daemon has left running

(* Auxiliary: they record history and never guard an action.               *)
VARIABLES
  touched,   \* a handler changed jobs_ during the worker's present scan
  overlap,   \* a save was opened before another thread's was flushed
  acked,     \* ids a client was told ("OK <id>")
  dirty,     \* some kill hit a save, or a store no quiet save had rewritten
  late       \* jobs started since the queue was paused

store  == <<jobs, nextId, cap>>
disk   == <<file, sv, snap, overlap>>
worker == <<wpc, wi, wend, wbest, stale, touched, late>>
world  == <<crashes, orphans, acked, dirty>>
vars   == <<store, disk, worker, world, paused, mreply>>

JobSaveStates  == {"none", "todo", "opened", "copied"}
WorkerCounters == {"off", "poll", "scan", "launch", "exec"}

(* The type invariant, by the part of the state each conjunct describes.   *)
StoreType ==
  /\ jobs \in Seq(Job)
  /\ nextId \in 1 .. MaxJobs + 1
  /\ cap \in Nat
  /\ mreply \in 0 .. MaxJobs

DiskType ==
  /\ file \in Seq(Job)
  /\ sv \in [Threads -> JobSaveStates]
  /\ snap \in [Threads -> Seq(Job)]

WorkerType ==
  /\ wpc \in WorkerCounters
  /\ wend \in 0 .. Len(jobs)
  /\ wi \in 1 .. wend + 1
  /\ wbest \in 0 .. wi - 1
  /\ wpc \in {"off", "poll"} => wend = 0
  /\ wpc \in {"launch", "exec"} => wbest # 0
  /\ late \in Nat

WorldType ==
  /\ crashes \in 0 .. MaxCrash
  /\ orphans \subseteq Ids
  /\ acked \subseteq Ids

FlagType ==
  /\ paused \in BOOLEAN
  /\ stale \in BOOLEAN
  /\ touched \in BOOLEAN
  /\ overlap \in BOOLEAN
  /\ dirty \in BOOLEAN

TypeOK == StoreType /\ DiskType /\ WorkerType /\ WorldType /\ FlagType

-----------------------------------------------------------------------------
(* The vector and the file.                                                *)

Up     == wpc # "off"
Jobs   == DOMAIN jobs
JobIds == {jobs[i].id : i \in Jobs}
Other(t) == IF t = "main" THEN "worker" ELSE "main"
MidSave(t) == sv[t] \in {"opened", "copied"}
Saved  == \A t \in Threads : sv[t] = "none"

(* Pointers into the vector survive a push_back only if it has room.       *)
Reallocates    == Len(jobs) = cap
Grown          == IF cap = 0 THEN 1 ELSE 2 * cap
HoldsReference == wpc \in {"scan", "launch", "exec"}

(* The capacity push_back leaves behind when a vector of n jobs is parsed. *)
CapacityFor(c, n) ==
  \/ n = 0 /\ c = 0
  \/ \E k \in 0 .. n : c = 2 ^ k /\ n <= c /\ c < 2 * n

Requeue_Bug(js) == js

(* load_jobs: a job that was running when the daemon died is queued again. *)
Requeue(js) ==
  [i \in DOMAIN js |->
     IF js[i].state = "Running" THEN [js[i] EXCEPT !.state = "Queued"]
                                ELSE js[i]]

FirstFreeId_Bug(n, js) == n = Len(js) + 1

(* The constructor leaves next_id_ one above every loaded id.              *)
FirstFreeId(n, js) ==
  /\ \A i \in DOMAIN js : js[i].id < n
  /\ n = 1 \/ \E i \in DOMAIN js : js[i].id = n - 1

(* Text c is written from offset 0 over a file that already holds f: the   *)
(* bytes of f behind the end of c stay, and the parser finds c's objects   *)
(* and those of f from the k-th on, the first whose opening is not hit.    *)
Overlay(c, f, k) == c \o SubSeq(f, k, Len(f))

(* Were the n objects of c and the first n of f equally long, c would end  *)
(* at f's object n + 1, which is found or loses its opening.  But a job's  *)
(* text, of at least 160 bytes, changes its length by up to 64 (state,     *)
(* progress, priority, error and two times): the sum over all jobs puts    *)
(* the end of c up to MaxSlack objects before or behind that place.  With  *)
(* three jobs it is 0, for 2 * 64 < 160; with many, f's ids may be found   *)
(* again behind c's own, or more of them be lost.                          *)
FirstKept(n) ==
  {k \in n + 1 - MaxSlack .. n + 2 + MaxSlack : k >= 1}

(* find_if takes the first job in the vector that has the id.              *)
Found(i) == \A j \in Jobs : j < i => jobs[j].id # jobs[i].id

DependencyDone_Bug(i) ==
  \A k \in Jobs : jobs[k].id = jobs[i].dep => jobs[k].state \notin {"Queued", "Running"}

(* process_next: a dependency holds a job back only while a job with that  *)
(* id is in the vector and not completed.                                  *)
DependencyDone(i) ==
  \A k \in Jobs : jobs[k].id = jobs[i].dep /\ Found(k) => jobs[k].state = "Completed"

Eligible(i) == jobs[i].state = "Queued" /\ DependencyDone(i)

Better_TieBug(i)  == wbest = 0 \/ jobs[i].pri >= jobs[wbest].pri
Better_NullBug(i) == wbest # 0 /\ jobs[i].pri > jobs[wbest].pri

(* A candidate replaces best only if its priority is strictly higher.      *)
Better(i) == wbest = 0 \/ jobs[i].pri > jobs[wbest].pri

(* A write the worker makes through its reference to job wbest: it reaches *)
(* the vector unless the reference dangles.                                *)
WriteBest(state) ==
  jobs' = IF stale THEN jobs ELSE [jobs EXCEPT ![wbest].state = state]

-----------------------------------------------------------------------------
(* save_jobs, run by either thread: open (and truncate), serialise, flush. *)

AskSave_Bug(t) == IF t = "main" THEN sv' = sv ELSE sv' = [sv EXCEPT ![t] = "todo"]

AskSave(t) == sv' = [sv EXCEPT ![t] = "todo"]

SaveOpen(t) ==
  /\ sv[t] = "todo"
  /\ sv' = [sv EXCEPT ![t] = "opened"]
  /\ file' = <<>>
  /\ overlap' = MidSave(Other(t))
  /\ UNCHANGED <<store, snap, worker, world, paused, mreply>>

SaveCopy(t) ==
  /\ sv[t] = "opened"
  /\ sv' = [sv EXCEPT ![t] = "copied"]
  /\ snap' = [snap EXCEPT ![t] = jobs]
  /\ UNCHANGED <<store, file, overlap, worker, world, paused, mreply>>

SaveFlush(t) ==
  /\ sv[t] = "copied"
  /\ sv' = [sv EXCEPT ![t] = "none"]
  /\ \E k \in FirstKept(Len(snap[t])) : file' = Overlay(snap[t], file, k)
  /\ snap' = [snap EXCEPT ![t] = <<>>]
  /\ UNCHANGED <<store, overlap, worker, world, paused, mreply>>

-----------------------------------------------------------------------------
(* The worker thread.                                                      *)

WorkerReady(pc) == wpc = pc /\ sv["worker"] = "none"

NoJobRunning_Bug == TRUE
MayScan_Bug      == TRUE
ScanEnd_Bug      == Len(jobs) + 1

(* any_of in run's worker loop, the early return of process_next, and the  *)
(* end iterator of its loop.                                               *)
NoJobRunning == \A i \in Jobs : jobs[i].state # "Running"
MayScan      == ~paused
ScanEnd      == Len(jobs)

(* Back to the worker's loop; the locals of process_next are gone.         *)
LeaveProcessNext ==
  /\ wpc' = "poll" /\ wi' = 1 /\ wend' = 0 /\ wbest' = 0
  /\ touched' = FALSE
  /\ UNCHANGED stale

(* run's worker loop: process_next is entered when no job is running, and  *)
(* goes on to its scan unless the queue is paused.                         *)
Poll ==
  /\ WorkerReady("poll")
  /\ NoJobRunning
  /\ MayScan
  /\ wpc' = "scan"
  /\ wi' = 1
  /\ wend' = ScanEnd
  /\ wbest' = 0
  /\ stale' = FALSE
  /\ touched' = FALSE
  /\ UNCHANGED <<store, disk, world, paused, mreply, late>>

ScanJob ==
  /\ wpc = "scan" /\ wi <= wend /\ ~stale
  /\ wi' = wi + 1
  /\ wbest' = IF Eligible(wi) /\ Better(wi) THEN wi ELSE wbest
  /\ UNCHANGED <<store, disk, world, paused, mreply, wpc, wend, stale, touched, late>>

(* The loop variable dangles: what the loop reads of the job is arbitrary. *)
ScanFreedJob ==
  /\ wpc = "scan" /\ wi <= wend /\ stale
  /\ wi' = wi + 1
  /\ wbest' \in {wi, wbest}
  /\ UNCHANGED <<store, disk, world, paused, mreply, wpc, wend, stale, touched, late>>

ScanFindsNone ==
  /\ wpc = "scan" /\ wi > wend /\ wbest = 0
  /\ LeaveProcessNext
  /\ UNCHANGED <<store, disk, world, paused, mreply, late>>

(* execute_job, up to its first save_jobs.                                 *)
StartJob ==
  /\ wpc = "scan" /\ wi > wend /\ wbest # 0
  /\ WriteBest("Running")
  /\ wpc' = "launch"
  /\ AskSave("worker")
  /\ late' = IF paused THEN late + 1 ELSE late
  /\ touched' = FALSE
  /\ UNCHANGED <<nextId, cap, file, snap, overlap, world, paused, mreply,
                 wi, wend, wbest, stale>>

(* popen starts the job's process.                                         *)
Launch ==
  /\ WorkerReady("launch")
  /\ wpc' = "exec"
  /\ UNCHANGED <<store, disk, world, paused, mreply, wi, wend, wbest, stale, touched, late>>

(* The job ends; process_next saves once more after execute_job returns.   *)
EndJob(state) ==
  /\ WriteBest(state)
  /\ LeaveProcessNext
  /\ AskSave("worker")
  /\ UNCHANGED <<nextId, cap, file, snap, overlap, world, paused, mreply, late>>

LaunchFails_Bug == WorkerReady("launch") /\ EndJob("Running")

LaunchFails == WorkerReady("launch") /\ EndJob("Failed")

ProcessExits(ok) ==
  WorkerReady("exec") /\ EndJob(IF ok THEN "Completed" ELSE "Failed")

(* A "Progress:" line of the process: progress is stored and saved.        *)
Progress ==
  /\ WorkerReady("exec")
  /\ AskSave("worker")
  /\ UNCHANGED <<store, file, snap, overlap, worker, world, paused, mreply>>

-----------------------------------------------------------------------------
(* The main thread: handle_client.  It serves one client at a time.        *)

MainReady == Up /\ sv["main"] = "none" /\ mreply = 0

Cancellable_Bug(i) == jobs[i].state # "Cancelled"
Cancellable(i) == jobs[i].state \in {"Queued", "Running"}

Touch == touched' = (touched \/ wpc = "scan")

Submit(pri, dep) ==
  /\ MainReady
  /\ nextId <= MaxJobs
  /\ jobs' = Append(jobs, [id |-> nextId, state |-> "Queued", pri |-> pri, dep |-> dep])
  /\ nextId' = nextId + 1
  /\ cap' = IF Reallocates THEN Grown ELSE cap
  /\ stale' = (stale \/ (Reallocates /\ HoldsReference))
  /\ mreply' = nextId
  /\ AskSave("main")
  /\ Touch
  /\ UNCHANGED <<file, snap, overlap, world, paused, wpc, wi, wend, wbest, late>>

Cancel(i) ==
  /\ MainReady
  /\ Found(i)
  /\ Cancellable(i)
  /\ jobs' = [jobs EXCEPT ![i].state = "Cancelled"]
  /\ AskSave("main")
  /\ Touch
  /\ UNCHANGED <<nextId, cap, file, snap, overlap, world, paused, mreply,
                 wpc, wi, wend, wbest, stale, late>>

SetPriority(i, pri) ==
  /\ MainReady
  /\ Found(i)
  /\ jobs[i].state = "Queued"
  /\ jobs' = [jobs EXCEPT ![i].pri = pri]
  /\ AskSave("main")
  /\ Touch
  /\ UNCHANGED <<nextId, cap, file, snap, overlap, world, paused, mreply,
                 wpc, wi, wend, wbest, stale, late>>

Pause ==
  /\ MainReady
  /\ paused' = TRUE
  /\ UNCHANGED <<store, disk, worker, world, mreply>>

Resume ==
  /\ MainReady
  /\ paused' = FALSE
  /\ late' = 0
  /\ UNCHANGED <<store, disk, world, mreply, wpc, wi, wend, wbest, stale, touched>>

(* The reply to SUBMIT is written after its save.                          *)
Reply ==
  /\ Up /\ sv["main"] = "none" /\ mreply # 0
  /\ acked' = acked \cup {mreply}
  /\ mreply' = 0
  /\ UNCHANGED <<store, disk, worker, paused, crashes, orphans, dirty>>

-----------------------------------------------------------------------------
(* The process: kill and (re)start.                                        *)

(* What a running daemon holds in memory is gone; the process of a job it  *)
(* was executing dies with it (Ctrl-C in a terminal) or lives on.          *)
Crash ==
  /\ Up
  /\ crashes < MaxCrash
  /\ crashes' = crashes + 1
  /\ \/ orphans' = orphans
     \/ wpc = "exec" /\ orphans' = orphans \cup {jobs[wbest].id}
  /\ dirty' = (dirty \/ overlap \/ ~Saved)
  /\ jobs' = <<>> /\ nextId' = 1 /\ cap' = 0 /\ paused' = FALSE
  /\ sv' = [t \in Threads |-> "none"]
  /\ snap' = [t \in Threads |-> <<>>]
  /\ wpc' = "off" /\ wi' = 1 /\ wend' = 0 /\ wbest' = 0
  /\ stale' = FALSE /\ touched' = FALSE /\ late' = 0
  /\ mreply' = 0
  /\ UNCHANGED <<file, overlap, acked>>

OrphanExits ==
  /\ \E id \in orphans : orphans' = orphans \ {id}
  /\ UNCHANGED <<store, disk, worker, paused, mreply, crashes, acked, dirty>>

(* The constructor (load_jobs, next_id_) and run() up to its two loops.    *)
Boot ==
  /\ ~Up
  /\ jobs' = Requeue(file)
  /\ \E n \in 1 .. MaxJobs + 1 : FirstFreeId(n, file) /\ nextId' = n
  /\ \E c \in 0 .. 2 * Len(file) : CapacityFor(c, Len(file)) /\ cap' = c
  /\ wpc' = "poll"
  /\ overlap' = FALSE
  /\ UNCHANGED <<file, sv, snap, wi, wend, wbest, stale, touched, late,
                 world, paused, mreply>>

Init ==
  /\ jobs = <<>> /\ nextId = 1 /\ cap = 0 /\ paused = FALSE
  /\ file = <<>>
  /\ sv = [t \in Threads |-> "none"]
  /\ snap = [t \in Threads |-> <<>>]
  /\ wpc = "off" /\ wi = 1 /\ wend = 0 /\ wbest = 0
  /\ stale = FALSE /\ touched = FALSE /\ late = 0
  /\ mreply = 0
  /\ crashes = 0 /\ orphans = {}
  /\ overlap = FALSE /\ acked = {} /\ dirty = FALSE

SaveStep(t) == SaveOpen(t) \/ SaveCopy(t) \/ SaveFlush(t)

WorkerStep ==
  \/ Poll \/ ScanJob \/ ScanFreedJob \/ ScanFindsNone \/ StartJob
  \/ Launch \/ LaunchFails

ProcessEnds == \E ok \in BOOLEAN : ProcessExits(ok)

ClientStep ==
  \/ \E pri \in Priorities, dep \in Deps : Submit(pri, dep)
  \/ \E i \in Jobs : Cancel(i)
  \/ \E i \in Jobs, pri \in Priorities : SetPriority(i, pri)
  \/ Pause
  \/ Resume

Next ==
  \/ \E t \in Threads : SaveStep(t)
  \/ WorkerStep
  \/ ProcessEnds
  \/ Progress
  \/ ClientStep
  \/ Reply
  \/ Crash
  \/ OrphanExits
  \/ Boot

Spec == Init /\ [][Next]_vars

(* Both threads keep running, and a job's process prints finitely many     *)
(* lines and then exits (strong fairness: a progress line may come first). *)
Fairness ==
  /\ \A t \in Threads : WF_vars(SaveStep(t))
  /\ WF_vars(WorkerStep)
  /\ SF_vars(ProcessEnds)
  /\ WF_vars(Reply)
  /\ WF_vars(Boot)

FairSpec == Spec /\ Fairness

-----------------------------------------------------------------------------
(* Safety.                                                                 *)

(* At most one job is marked running, whatever clients do meanwhile: the   *)
(* worker's any_of test and its own start are the only guard against two   *)
(* jobs executing ("runs jobs sequentially").                              *)
OneRunning ==
  \A i, j \in Jobs : jobs[i].state = "Running" /\ jobs[j].state = "Running" => i = j

(* A job marked running is the one the worker holds, between its start and *)
(* the end of its process, as long as the worker's reference is good.  A   *)
(* job left running by nobody would block the queue for ever.              *)
RunningIsWorked ==
  \A i \in Jobs :
    jobs[i].state = "Running" /\ ~stale => wpc \in {"launch", "exec"} /\ wbest = i

(* process_next's loop, when no handler changed jobs_ while it ran: best   *)
(* is, among the jobs already looked at, an eligible one of the highest    *)
(* priority, and of those the one submitted first.                         *)
BestSoFar ==
  wpc = "scan" /\ ~touched =>
    /\ wbest = 0 => \A i \in 1 .. wi - 1 : ~Eligible(i)
    /\ wbest # 0 =>
         /\ Eligible(wbest)
         /\ \A i \in 1 .. wi - 1 :
              Eligible(i) => \/ jobs[i].pri < jobs[wbest].pri
                             \/ jobs[i].pri = jobs[wbest].pri /\ wbest <= i

(* A job that was started had its earlier-submitted dependency completed,  *)
(* and still has: also after handlers ran between the scan and the start,  *)
(* after overlapping saves and after restarts.                             *)
StartedAfterDependency ==
  \A i, k \in Jobs :
    /\ jobs[i].state \in {"Running", "Completed", "Failed"}
    /\ jobs[k].id = jobs[i].dep
    /\ k < i
    => jobs[k].state = "Completed"

(* When no save is under way and the last one overlapped no other, a       *)
(* daemon started from jobs.json would hold what this one would hold after *)
(* a restart: every change of either thread has reached the file.          *)
QuietStoreRestores ==
  Up /\ Saved /\ ~overlap => Requeue(file) = Requeue(jobs)

(* A job whose SUBMIT was answered "OK <id>" is never lost by kills that   *)
(* come when the store is quiet.                                           *)
AckedSurvive == Up /\ ~dirty => acked \subseteq JobIds

(* From PAUSE on at most one more job starts: the one the worker was       *)
(* already choosing.                                                       *)
PauseHolds == paused => late <= 1

(* Ids in the vector grow and stay below next_id_, also after a load of    *)
(* whatever overlapping saves and kills left in the file: find_if by id    *)
(* always means one job.  It holds of as many jobs as keep two texts in    *)
(* step (MaxSlack = 0).                                                    *)
IdsGrow ==
  /\ \A i, j \in Jobs : i < j => jobs[i].id < jobs[j].id
  /\ \A i \in Jobs : jobs[i].id < nextId

(* While a daemon lives, a completed or failed job keeps its state, and a  *)
(* cancelled one loses it only to the worker, which had chosen it before.  *)
FinishedIsFinal ==
  [][Up /\ Up' => \A i \in Jobs :
       /\ jobs[i].state \in {"Completed", "Failed"} => jobs'[i].state = jobs[i].state
       /\ jobs[i].state = "Cancelled" /\ jobs'[i].state # "Cancelled"
            => HoldsReference /\ wbest = i]_vars

-----------------------------------------------------------------------------
(* Inductive strengthenings of the invariants above, used by the proofs.   *)

(* No job is marked running while the worker looks for one to start.       *)
RunningInv ==
  /\ wpc = "scan" => NoJobRunning
  /\ OneRunning
  /\ RunningIsWorked

(* A worker that already started one job under a pause has left its scan.  *)
PauseInv ==
  /\ ~paused => late = 0
  /\ PauseHolds
  /\ paused /\ late = 1 => wpc # "scan"

(* While saves do not overlap, the one under way found the file empty, and *)
(* a serialised text is current unless the other thread changed jobs_ and  *)
(* so has a save of its own to do.                                         *)
SaveInv ==
  /\ ~Up => Saved
  /\ wpc = "scan" => sv["worker"] = "none"
  /\ ~overlap =>
       /\ ~(MidSave("main") /\ MidSave("worker"))
       /\ \A t \in Threads : MidSave(t) => file = <<>>
       /\ \A t \in Threads : sv[t] = "copied" /\ sv[Other(t)] = "none" => snap[t] = jobs
  /\ QuietStoreRestores

(* An answered SUBMIT is in the vector, and in the file once the daemon is *)
(* gone.                                                                   *)
FileIds == {file[i].id : i \in DOMAIN file}
AckInv ==
  ~dirty =>
    /\ Up => acked \subseteq JobIds /\ (mreply # 0 => mreply \in JobIds)
    /\ ~Up => acked \subseteq FileIds /\ mreply = 0

(* A scan that no handler disturbed reads no freed memory.                 *)
ScanInv ==
  /\ wpc = "scan" /\ stale => touched
  /\ BestSoFar

(* The vector only grows, so that what a save serialised is a prefix of it *)
(* by id.  A save finds in the file nothing, or such a text of the other   *)
(* thread: two saves that are both under way find nothing.                 *)
Growing(s)  == \A i, j \in DOMAIN s : i < j => s[i].id < s[j].id
IsPrefix(s) == Len(s) <= Len(jobs) /\ \A i \in DOMAIN s : s[i].id = jobs[i].id
TextInv ==
  /\ IdsGrow /\ Growing(file)
  /\ \A t \in Threads : sv[t] # "copied" => snap[t] = <<>>
  /\ \A t \in Threads : IsPrefix(snap[t]) /\ (MidSave(t) => IsPrefix(file))
  /\ MidSave("main") /\ MidSave("worker") => file = <<>>

(* The job the worker holds has its dependency completed and has not ended.*)
Started(job) == job.state \in {"Running", "Completed", "Failed"}
HeldInv ==
  HoldsReference /\ wbest # 0 /\ ~stale =>
    /\ \A k \in Jobs :
         jobs[k].id = jobs[wbest].dep /\ Found(k) /\ k < wbest => jobs[k].state = "Completed"
    /\ jobs[wbest].state \in {IF wpc = "scan" THEN "Queued" ELSE "Running", "Cancelled"}

(* What the worker does not know of when it serialises, it has not started;*)
(* the main thread knows of every job.                                     *)
InOrder(s) ==
  \A i, k \in DOMAIN s :
    Started(s[i]) /\ s[k].id = s[i].dep /\ k < i => s[k].state = "Completed"
NoneStarted(s, n) == \A i \in DOMAIN s : i > n => ~Started(s[i])
OrderInv ==
  /\ HeldInv
  /\ InOrder(jobs) /\ InOrder(file) /\ \A t \in Threads : InOrder(snap[t])
  /\ sv["main"] = "copied" => Len(snap["main"]) = Len(jobs)
  /\ sv["worker"] = "copied" =>
       \A s \in {jobs, file, snap["main"]} : NoneStarted(s, Len(snap["worker"]))

-----------------------------------------------------------------------------
(* Liveness.                                                               *)

Ready(i) == Up /\ ~paused /\ i \in Jobs /\ Eligible(i)

(* A job that is ready is taken up sooner or later, unless the queue is    *)
(* paused, the daemon dies or a SUBMIT reallocated jobs_ under the worker. *)
ReadyJobIsTaken == \A i \in Ids : Ready(i) ~> (~Ready(i) \/ stale)

(* A running job ends, with the same exceptions.                           *)
RunningJobEnds ==
  \A i \in Ids :
    (i \in Jobs /\ jobs[i].state = "Running")
      ~> (i \notin Jobs \/ jobs[i].state # "Running" \/ stale)

-----------------------------------------------------------------------------
(* What the repository says and this code does not do: each is checked by  *)
(* a run that expects a violation.                                         *)

(* A cancelled job is cancelled: tests/test_job_queue.cpp asserts it of    *)
(* every job for which cancel() returned true.                             *)
CancelSticks ==
  [][Up /\ Up' => \A i \in Jobs :
       jobs[i].state = "Cancelled" => jobs'[i].state = "Cancelled"]_vars

(* "process jobs": a ready job of a daemon that is up, not paused and not  *)
(* killed is taken up sooner or later.                                     *)
QueueMoves == \A i \in Ids : Ready(i) ~> ~Ready(i)
=============================================================================
