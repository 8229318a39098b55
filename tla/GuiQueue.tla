------------------------------- MODULE GuiQueue -------------------------------
(***************************************************************************)
(* The job queue of the desktop application: the Tauri commands and the    *)
(* queue worker of gui/src-tauri/src/pipeline.rs together with the "Create *)
(* IMP" page of gui/src/main.js that calls them.                           *)
(*                                                                         *)
(*   - submit_job and cancel_job are asynchronous commands: each access to *)
(*     the shared queue, to current_id and to the cancel and pause flags   *)
(*     is a step of its own, because no lock spans two of them;            *)
(*   - a worker task (run_queue_worker) is spawned by a submit that finds  *)
(*     current_id = 0, and ends when it pops nothing;                      *)
(*   - the page disables its button on submit and enables it again when it *)
(*     is told of the end of a job, but also on any input to the form, so  *)
(*     a second submission may start while a job runs;                     *)
(*   - every submission registers a listener for "pipeline-progress", and  *)
(*     all of them filter by one currentJobId, which the reply of          *)
(*     submit_job sets: events and replies arrive on separate channels.    *)
(*                                                                         *)
(* A submission, its listener, its job and the worker it may spawn have    *)
(* the same number; ids are only compared for equality, so they stand for  *)
(* the values of next_id.  Progress events that only repaint the page are  *)
(* left out.  The encoder (postkit) is external: it stands still while     *)
(* pause is set and it may fail at any time.                               *)
(*                                                                         *)
(* A definition whose name ends in _Bug is a deliberate fault: it is used  *)
(* by no action, only to test that a property can fail.                    *)
(***************************************************************************)
EXTENDS Naturals, Sequences, FiniteSets, SequencesExt

CONSTANTS
  MaxSubmits,   \* bound: how often the user submits the form
  MayPanic,     \* whether run_job may panic (the Err arm of spawn_blocking)
  MayEdit       \* whether the user edits the form while the button is disabled

ASSUME GuiQueueAssumption ==
  MaxSubmits \in Nat \ {0} /\ MayPanic \in BOOLEAN /\ MayEdit \in BOOLEAN

Subs == 1 .. MaxSubmits

VARIABLES
  queue,      \* JobQueue.queue
  current,    \* JobQueue.current_id, 0 when no worker is at work
  cancel,     \* JobQueue.cancel
  pause,      \* JobQueue.pause
  submitted,  \* number of submissions so far (next_id - 1)
  cmd,        \* per submission: where its submit_job command is
  ccmd,       \* the cancel_job command in flight, if any: [pc, id]
  wpc,        \* per worker: where run_queue_worker is
  wjob,       \* per worker: the job it took from the queue, 0 for none
  events,     \* end-of-job events on their way to the page
  enabled,    \* page: the "Create IMP" button is enabled
  listening,  \* page: the submissions whose listener is registered
  pageJob,    \* page: currentJobId, 0 for null
  pagePaused  \* page: paused

(* Auxiliary: they record history and never guard an action.               *)
VARIABLES
  outcome,    \* per job: "none", or how the worker ended it
  removed,    \* jobs cancel_job took out of the queue
  told,       \* per submission: what the page told the user of its title
  missed,     \* jobs whose end-of-job event no listener took
  edited,     \* the form was edited while the button was disabled
  raced,      \* a submit saw current_id # 0 of a worker that had found the
              \* queue empty and was about to end
  late        \* a submit looked at current_id after its job had ended

shared  == <<queue, current, cancel, pause>>
command == <<submitted, cmd, ccmd>>
workers == <<wpc, wjob>>
page    == <<enabled, listening, pageJob, pagePaused>>
history == <<outcome, removed, told, missed, edited, raced, late>>
vars    == <<shared, command, workers, events, page, history>>

CommandPoints == {"none", "listen", "push", "check", "reply", "done"}
WorkerPoints  == {"none", "pop", "drain", "claim", "reset", "run", "package", "ok", "err", "gone"}
Outcomes      == {"none", "done", "cancelled", "failed", "panic"}

TypeOK ==
  /\ queue \in Seq(Subs)
  /\ current \in 0 .. MaxSubmits
  /\ cancel \in BOOLEAN /\ pause \in BOOLEAN
  /\ submitted \in 0 .. MaxSubmits
  /\ cmd \in [Subs -> CommandPoints]
  /\ ccmd \in [pc : {"none", "store", "remove"}, id : 0 .. MaxSubmits]
  /\ wpc \in [Subs -> WorkerPoints]
  /\ wjob \in [Subs -> 0 .. MaxSubmits]
  /\ events \in Seq(Subs)
  /\ enabled \in BOOLEAN /\ listening \subseteq Subs
  /\ pageJob \in 0 .. MaxSubmits /\ pagePaused \in BOOLEAN
  /\ outcome \in [Subs -> Outcomes]
  /\ removed \subseteq Subs /\ missed \subseteq Subs
  /\ told \in [Subs -> {"none", "created", "failed"}]
  /\ edited \in BOOLEAN /\ raced \in BOOLEAN /\ late \in BOOLEAN

Init ==
  /\ queue = <<>> /\ current = 0 /\ cancel = FALSE /\ pause = FALSE
  /\ submitted = 0
  /\ cmd = [s \in Subs |-> "none"]
  /\ ccmd = [pc |-> "none", id |-> 0]
  /\ wpc = [w \in Subs |-> "none"]
  /\ wjob = [w \in Subs |-> 0]
  /\ events = <<>>
  /\ enabled = TRUE /\ listening = {} /\ pageJob = 0 /\ pagePaused = FALSE
  /\ outcome = [s \in Subs |-> "none"]
  /\ told = [s \in Subs |-> "none"]
  /\ removed = {} /\ missed = {} /\ edited = FALSE /\ raced = FALSE /\ late = FALSE

InQueue(s) == \E i \in DOMAIN queue : queue[i] = s
Active(w) == wpc[w] \notin {"none", "gone"}
Holders(s) == {w \in Subs : wjob[w] = s}

-----------------------------------------------------------------------------
(* The page.  It starts with its form filled in.                           *)

(* The form's submit handler, up to its first await.                       *)
Click ==
  /\ enabled
  /\ submitted < MaxSubmits
  /\ enabled' = FALSE
  /\ submitted' = submitted + 1
  /\ cmd' = [cmd EXCEPT ![submitted + 1] = "listen"]
  /\ UNCHANGED <<shared, ccmd, workers, events, listening, pageJob, pagePaused, history>>

(* The listener is registered, and the handler calls submit_job.           *)
Listen(s) ==
  /\ cmd[s] = "listen"
  /\ listening' = listening \cup {s}
  /\ cmd' = [cmd EXCEPT ![s] = "push"]
  /\ UNCHANGED <<shared, submitted, ccmd, workers, events, enabled, pageJob, pagePaused, history>>

(* Any input to the page: checkFormReady sets the button by the fields.    *)
Edit ==
  /\ MayEdit
  /\ ~enabled
  /\ enabled' = TRUE
  /\ edited' = TRUE
  /\ UNCHANGED <<shared, command, workers, events, listening, pageJob, pagePaused,
                 outcome, removed, told, missed, raced, late>>

(* submit_job returns the id it took, not the next one.                    *)
ReplyId_Bug(s) == s + 1
ReplyId(s) == s

(* submit_job's answer: the page now filters events by this id.            *)
ReplyArrives(s) ==
  /\ cmd[s] = "reply"
  /\ cmd' = [cmd EXCEPT ![s] = "done"]
  /\ pageJob' = ReplyId(s)
  /\ UNCHANGED <<shared, submitted, ccmd, workers, events, enabled, listening, pagePaused, history>>

(* Every registered listener takes the event, or none does.                *)
Listeners(job) == IF pageJob \in {0, job} THEN listening ELSE {}

(* The listeners of "pipeline-progress", for the stages "done" and         *)
(* "error": each names the title of its own submission and unregisters.    *)
EventArrives ==
  /\ events # <<>>
  /\ LET job   == Head(events)
         heard == Listeners(job)
         word  == IF outcome[job] = "done" THEN "created" ELSE "failed"
     IN /\ told' = [s \in Subs |-> IF s \in heard THEN word ELSE told[s]]
        /\ listening' = listening \ heard
        /\ enabled' = (enabled \/ heard # {})
        /\ missed' = IF heard = {} THEN missed \cup {job} ELSE missed
  /\ events' = Tail(events)
  /\ UNCHANGED <<shared, command, workers, pageJob, pagePaused, outcome, removed, edited, raced, late>>

(* The pause button, with pause_job or resume_job (no awaited value is     *)
(* used, so the two are one step).                                         *)
PauseClick ==
  /\ pause' = ~pagePaused
  /\ pagePaused' = ~pagePaused
  /\ UNCHANGED <<queue, current, cancel, command, workers, events,
                 enabled, listening, pageJob, history>>

-----------------------------------------------------------------------------
(* submit_job and cancel_job.                                              *)

Push(s) ==
  /\ cmd[s] = "push"
  /\ queue' = Append(queue, s)
  /\ cmd' = [cmd EXCEPT ![s] = "check"]
  /\ UNCHANGED <<current, cancel, pause, submitted, ccmd, workers, events, page, history>>

SpawnsWorker_Bug == current = 0 /\ \A w \in Subs : wpc[w] = "none"
SpawnsWorker == current = 0

CheckCurrent(s) ==
  /\ cmd[s] = "check"
  /\ cmd' = [cmd EXCEPT ![s] = "reply"]
  /\ wpc' = IF SpawnsWorker THEN [wpc EXCEPT ![s] = "pop"] ELSE wpc
  /\ raced' = (raced \/ (current # 0 /\ \A w \in Subs : Active(w) => wpc[w] = "drain"))
  /\ late' = (late \/ outcome[s] # "none")
  /\ UNCHANGED <<shared, submitted, ccmd, wjob, events, page,
                 outcome, removed, told, missed, edited>>

(* The cancel button, and cancel_job's comparison with current_id.         *)
CancelClick ==
  /\ ccmd.pc = "none"
  /\ pageJob # 0
  /\ ccmd' = [pc |-> IF current = pageJob THEN "store" ELSE "remove", id |-> pageJob]
  /\ UNCHANGED <<shared, submitted, cmd, workers, events, page, history>>

CancelStore ==
  /\ ccmd.pc = "store"
  /\ cancel' = TRUE
  /\ ccmd' = [pc |-> "none", id |-> 0]
  /\ UNCHANGED <<queue, current, pause, submitted, cmd, workers, events, page, history>>

(* retain: an id is never in the queue twice (JobInOnePlace).              *)
CancelRemove ==
  /\ ccmd.pc = "remove"
  /\ \/ \E i \in DOMAIN queue :
          /\ queue[i] = ccmd.id
          /\ queue' = RemoveAt(queue, i)
          /\ removed' = removed \cup {ccmd.id}
     \/ ~InQueue(ccmd.id) /\ UNCHANGED <<queue, removed>>
  /\ ccmd' = [pc |-> "none", id |-> 0]
  /\ UNCHANGED <<current, cancel, pause, submitted, cmd, workers, events, page,
                 outcome, told, missed, edited, raced, late>>

-----------------------------------------------------------------------------
(* run_queue_worker.                                                       *)

GoTo(w, pc) == wpc' = [wpc EXCEPT ![w] = pc]

Rest_Bug == queue
Rest == Tail(queue)

PopFront(w) ==
  /\ wpc[w] = "pop"
  /\ IF queue = <<>>
       THEN GoTo(w, "drain") /\ UNCHANGED <<queue, wjob>>
       ELSE /\ GoTo(w, "claim")
            /\ wjob' = [wjob EXCEPT ![w] = Head(queue)]
            /\ queue' = Rest
  /\ UNCHANGED <<current, cancel, pause, command, events, page, history>>

(* Nothing to pop: current_id is cleared and the task ends.                *)
Drain(w) ==
  /\ wpc[w] = "drain"
  /\ current' = 0
  /\ GoTo(w, "gone")
  /\ UNCHANGED <<queue, cancel, pause, command, wjob, events, page, history>>

Claim(w) ==
  /\ wpc[w] = "claim"
  /\ current' = wjob[w]
  /\ GoTo(w, "reset")
  /\ UNCHANGED <<queue, cancel, pause, command, wjob, events, page, history>>

ResetFlags(w) ==
  /\ wpc[w] = "reset"
  /\ cancel' = FALSE
  /\ pause' = FALSE
  /\ GoTo(w, "run")
  /\ UNCHANGED <<queue, current, command, wjob, events, page, history>>

(* run_job: what it does before packaging may fail, with or without a      *)
(* cancel; what succeeds is still dropped if the cancel flag is set.       *)
BeforePackaging(w) ==
  /\ wpc[w] = "run"
  /\ GoTo(w, IF cancel THEN "err" ELSE "package")
  /\ UNCHANGED <<shared, command, wjob, events, page, history>>

Encode(w)     == ~pause /\ BeforePackaging(w)
SkipEncode(w) == pause /\ BeforePackaging(w)     \* J2K input is not encoded

RunFails(w) ==
  /\ wpc[w] \in {"run", "package"}
  /\ GoTo(w, "err")
  /\ UNCHANGED <<shared, command, wjob, events, page, history>>

Package(w) ==
  /\ wpc[w] = "package"
  /\ GoTo(w, "ok")
  /\ UNCHANGED <<shared, command, wjob, events, page, history>>

(* The job is over; the worker sleeps and then pops again.  current_id     *)
(* keeps the id of the job that ended.                                     *)
LeaveJob(w, how) ==
  /\ GoTo(w, "pop")
  /\ wjob' = [wjob EXCEPT ![w] = 0]
  /\ outcome' = [outcome EXCEPT ![wjob[w]] = how]

EmitEnd_Bug(w) == IF wpc[w] = "ok" THEN Append(events, wjob[w]) ELSE events
EmitEnd(w) == Append(events, wjob[w])

KeepsCurrent_Bug == current' = 0
KeepsCurrent == current' = current

Finish(w) ==
  /\ wpc[w] \in {"ok", "err"}
  /\ LeaveJob(w, IF wpc[w] = "ok" THEN "done"
                 ELSE IF cancel THEN "cancelled" ELSE "failed")
  /\ events' = EmitEnd(w)
  /\ KeepsCurrent
  /\ UNCHANGED <<queue, cancel, pause, command, page,
                 removed, told, missed, edited, raced, late>>

(* A panic is recorded, but no event tells the page.                       *)
RunPanics(w) ==
  /\ MayPanic
  /\ wpc[w] \in {"run", "package"}
  /\ LeaveJob(w, "panic")
  /\ UNCHANGED <<shared, command, events, page,
                 removed, told, missed, edited, raced, late>>

WorkerStep(w) ==
  \/ PopFront(w) \/ Drain(w) \/ Claim(w) \/ ResetFlags(w)
  \/ Encode(w) \/ Package(w) \/ Finish(w)

CommandStep(s) == Listen(s) \/ Push(s) \/ CheckCurrent(s) \/ ReplyArrives(s)

Next ==
  \/ Click \/ Edit
  \/ EventArrives
  \/ PauseClick
  \/ CancelClick \/ CancelStore \/ CancelRemove
  \/ \E s \in Subs : CommandStep(s)
  \/ \E w \in Subs : WorkerStep(w) \/ SkipEncode(w) \/ RunFails(w) \/ RunPanics(w)

Spec == Init /\ [][Next]_vars

(* The async runtime runs every task and command, the encoder of a job     *)
(* that is not paused comes to an end, and events are delivered.           *)
Fairness ==
  /\ \A s \in Subs : WF_vars(CommandStep(s)) /\ WF_vars(WorkerStep(s))
  /\ WF_vars(EventArrives)
  /\ WF_vars(CancelStore \/ CancelRemove)

FairSpec == Spec /\ Fairness

-----------------------------------------------------------------------------
(* Safety.                                                                 *)

(* One worker task at a time, as long as the form is left alone and no     *)
(* submit_job comes to look at current_id only after its job has ended:    *)
(* nothing in the backend enforces it; it holds because the page then      *)
(* submits only after the end of its last job, and because current_id      *)
(* keeps the ended job's id while the worker sleeps.                       *)
OneWorker == Cardinality({w \in Subs : Active(w)}) > 1 => edited \/ late

(* A submitted job is in exactly one place: once in the queue, with one    *)
(* worker, ended, or removed by cancel_job.  None is lost or run twice,    *)
(* whatever number of workers share the queue.                             *)
Places(s) ==
  Cardinality({i \in DOMAIN queue : queue[i] = s}) + Cardinality(Holders(s))
    + (IF outcome[s] # "none" THEN 1 ELSE 0) + (IF s \in removed THEN 1 ELSE 0)
JobInOnePlace ==
  \A s \in Subs : Places(s) = IF cmd[s] \in {"none", "listen", "push"} THEN 0 ELSE 1

(* A job in the queue has a worker that will pop again, or a submit that   *)
(* has yet to look at current_id, unless a submit raced with the end of    *)
(* the worker: then the job waits for the next submission, if there is one.*)
QueueIsServed ==
  queue # <<>> /\ ~raced =>
    \/ \E w \in Subs : Active(w) /\ wpc[w] # "drain"
    \/ \E s \in Subs : cmd[s] = "check"

-----------------------------------------------------------------------------
(* The inductive strengthening of the invariants above, used by the        *)
(* proofs.                                                                 *)

Pushed(s) == cmd[s] \notin {"none", "listen", "push"}
Held(s)   == \E w \in Subs : wjob[w] = s

CommandInv ==
  /\ \A s \in Subs : s > submitted => cmd[s] = "none"
  /\ \A w \in Subs : wpc[w] # "none" => cmd[w] \in {"reply", "done"}
  /\ pageJob # 0 => cmd[pageJob] = "done"
  /\ ccmd.id # 0 => cmd[ccmd.id] = "done"

(* A pushed job is somewhere, and nowhere else.                            *)
PlaceInv ==
  /\ IsInjective(queue)
  /\ \A w, v \in Subs : wjob[w] # 0 /\ wjob[w] = wjob[v] => w = v
  /\ \A w \in Subs : wjob[w] # 0 <=> wpc[w] \in WorkerPoints \ {"none", "pop", "drain", "gone"}
  /\ \A s \in Subs :
       /\ Pushed(s) <=> InQueue(s) \/ Held(s) \/ outcome[s] # "none" \/ s \in removed
       /\ ~(InQueue(s) /\ Held(s))
       /\ outcome[s] # "none" => ~InQueue(s) /\ ~Held(s) /\ s \notin removed
       /\ s \in removed => ~InQueue(s) /\ ~Held(s) /\ cmd[s] = "done"

(* While the form is left alone, the button tells that every job has ended *)
(* and that the page has heard of it; only the last job is under way.      *)
PageInv ==
  ~edited =>
    /\ \A s \in 1 .. submitted : s < submitted \/ enabled => outcome[s] # "none"
    /\ events # <<>> =>
         /\ ~enabled /\ submitted > 0
         /\ events = <<submitted>> /\ outcome[submitted] # "none"

(* The one worker has set current_id, unless it serves the last job and    *)
(* has yet to take it.                                                     *)
WorkerInv ==
  ~edited /\ ~late =>
    /\ \A w, v \in Subs : Active(w) /\ Active(v) => w = v
    /\ \A w \in Subs : Active(w) /\ current = 0 =>
         /\ w = submitted /\ outcome[w] = "none"
         /\ wpc[w] \in {"pop", "drain", "claim"}

IInv ==
  /\ TypeOK /\ CommandInv /\ PlaceInv /\ PageInv /\ WorkerInv /\ QueueIsServed

-----------------------------------------------------------------------------
(* Liveness.                                                               *)

(* Every submitted job comes to its end and its submission is answered on  *)
(* the page, except that the job may be removed, paused, left behind by    *)
(* the race or panic, and that its end is not taken when the page filters  *)
(* by the id of another job.                                               *)
SubmissionIsAnswered ==
  \A s \in Subs :
    cmd[s] = "listen" ~>
      \/ s \in removed \/ pause \/ raced
      \/ outcome[s] = "panic"
      \/ outcome[s] # "none" /\ (told[s] # "none" \/ s \in missed)

=============================================================================
