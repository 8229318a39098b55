------------------------------ MODULE WinDaemon ------------------------------
(***************************************************************************)
(* The job queue on Windows (the second half of src/src/job_queue.cpp): a  *)
(* daemon with one thread that serves one named-pipe message, then runs at *)
(* most one job to its end, then creates the next pipe instance; and the   *)
(* commands `imfwizard batch ...` (src/src/main.cpp) that talk to it.      *)
(*                                                                         *)
(* Unlike the POSIX daemon (JobDaemon) it has no races on its vector, but: *)
(* no pipe exists while it answers or works, so a client is refused; a job *)
(* is only looked for after a message; the scan takes the first ready job  *)
(* and never looks at priorities; a job loaded as running stays so.        *)
(*                                                                         *)
(* Abstractions: LIST, STATUS, IS_PAUSED and PING alone only read and are  *)
(* one request, "look"; a priority is stored and never read, so PRIORITY   *)
(* only saves.  A kill takes effect between writes to jobs.json.           *)
(*                                                                         *)
(* A definition whose name ends in _Bug is a deliberate fault: it is used  *)
(* by no action, only to test that a property can fail.                    *)
(***************************************************************************)
EXTENDS Naturals, Sequences, FiniteSets

CONSTANTS
  MaxJobs,    \* bound: submissions, and so the ids next_id_ hands out
  Deps,       \* the dependencies clients ask for; 0 is "none"
  Clients,    \* processes that run `imfwizard batch ...`, one after another
  MaxCrash    \* bound: how often the daemon is killed

ASSUME WinDaemonAssumption ==
  /\ MaxJobs \in Nat \ {0}
  /\ Deps \subseteq 0 .. MaxJobs
  /\ MaxCrash \in Nat

Ids    == 1 .. MaxJobs
States == {"Queued", "Running", "Completed", "Failed", "Cancelled"}
Job    == [id : Ids, state : States, dep : Deps]

(* What a client asks for.                                                 *)
Requests ==
  [op : {"SUBMIT"}, dep : Deps] \cup [op : {"CANCEL", "PRIORITY"}, id : Ids]
    \cup [op : {"PAUSE", "RESUME", "look"}]

NoRequest == [op |-> "look"]

VARIABLES
  jobs,     \* jobs_
  nextId,   \* next_id_
  paused,   \* paused_
  file,     \* the job objects a parser finds in jobs.json
  dpc,      \* daemon: "off", "listen", "save", "flush", "reply", "scan", "exec"
  after,    \* daemon: where it goes on when its save is done
  serving,  \* daemon: the client whose pipe is open, "none" outside a message
  running,  \* daemon: id of the job execute_job is in, 0 for none
  cpc,      \* per client: "ping", "send", "await", "done"
  req,      \* per client: its request
  said,     \* per client: "none", "ok", "refused", or "lost" when the daemon
            \* died before it answered, which the client takes for a refusal
  crashes   \* kills so far

(* Auxiliary: they record history, and guard no action but by the bound.  *)
VARIABLES
  pushed,   \* per client: id of the job its present request has put into jobs_
  asked,    \* submissions clients have set out to make
  acked,    \* ids told to a client
  torn      \* a kill hit a save between its truncation and its flush

daemon == <<dpc, after, serving, running>>
client == <<cpc, req, said, pushed>>
vars   == <<jobs, nextId, paused, file, daemon, client, crashes, asked, acked, torn>>

TypeOK ==
  /\ jobs \in Seq(Job) /\ file \in Seq(Job)
  /\ nextId \in 1 .. MaxJobs + 1
  /\ paused \in BOOLEAN
  /\ dpc \in {"off", "listen", "save", "flush", "reply", "scan", "exec"}
  /\ after \in {"reply", "exec", "listen"}
  /\ serving \in Clients \cup {"none"}
  /\ running \in 0 .. MaxJobs
  /\ cpc \in [Clients -> {"ping", "send", "await", "done"}]
  /\ req \in [Clients -> Requests]
  /\ said \in [Clients -> {"none", "ok", "refused", "lost"}]
  /\ crashes \in 0 .. MaxCrash
  /\ pushed \in [Clients -> 0 .. MaxJobs]
  /\ asked \in 0 .. MaxJobs /\ acked \subseteq Ids /\ torn \in BOOLEAN

-----------------------------------------------------------------------------
JobIds       == {jobs[i].id : i \in DOMAIN jobs}
SetState(i, s) == jobs' = [jobs EXCEPT ![i].state = s]

(* process_next: the dependency, if any, is in jobs_ and completed.        *)
DepDone(j) ==
  j.dep # 0 => \E d \in DOMAIN jobs : jobs[d].id = j.dep /\ jobs[d].state = "Completed"

Ready(i) == jobs[i].state = "Queued" /\ DepDone(jobs[i])


-----------------------------------------------------------------------------
(* A client: one command line.  `batch add` asks PING first and submits    *)
(* only after the answer; the others send one message.                     *)
Ask(c) ==
  /\ cpc[c] = "done"
  /\ \E r \in Requests :
       /\ asked' = IF r.op = "SUBMIT" THEN asked + 1 ELSE asked
       /\ req' = [req EXCEPT ![c] = r]
       /\ cpc' = [cpc EXCEPT ![c] = IF r.op = "SUBMIT" THEN "ping" ELSE "send"]
  /\ asked' <= MaxJobs
  /\ said' = [said EXCEPT ![c] = "none"]
  /\ pushed' = [pushed EXCEPT ![c] = 0]
  /\ UNCHANGED <<jobs, nextId, paused, file, daemon, crashes, acked, torn>>

(* send_to_daemon: no pipe instance is free, or the daemon died meanwhile. *)
Refused(c) ==
  /\ \/ /\ cpc[c] \in {"ping", "send"} /\ dpc # "listen"
        /\ said' = [said EXCEPT ![c] = "refused"]
     \/ /\ cpc[c] = "await" /\ serving # c
        /\ said' = [said EXCEPT ![c] = "lost"]
  /\ cpc' = [cpc EXCEPT ![c] = "done"] /\ req' = [req EXCEPT ![c] = NoRequest]
  /\ UNCHANGED <<jobs, nextId, paused, file, daemon, pushed, crashes, asked, acked, torn>>

-----------------------------------------------------------------------------
(* The daemon's handling of one message, up to its save or its answer.     *)
Answered(c, ok) == said' = [said EXCEPT ![c] = IF ok THEN "ok" ELSE "refused"]

Ping(c) == dpc' = "reply" /\ UNCHANGED <<jobs, nextId, paused, said, pushed>>

Submit_Bug(c) ==
  /\ jobs' = Append(jobs, [id |-> nextId, state |-> "Queued", dep |-> req[c].dep])
  /\ nextId' = nextId + 1
  /\ pushed' = [pushed EXCEPT ![c] = nextId]
  /\ Answered(c, req[c].dep = 0 \/ req[c].dep \in JobIds) /\ dpc' = "save"
  /\ UNCHANGED paused

SubmitTwice_Bug(c) ==
  /\ jobs' = Append(jobs, [id |-> nextId, state |-> "Queued", dep |-> req[c].dep])
  /\ nextId' = nextId + 2
  /\ pushed' = [pushed EXCEPT ![c] = nextId]
  /\ Answered(c, TRUE) /\ dpc' = "save"
  /\ UNCHANGED paused

Submit(c) ==
  /\ jobs' = Append(jobs, [id |-> nextId, state |-> "Queued", dep |-> req[c].dep])
  /\ nextId' = nextId + 1
  /\ pushed' = [pushed EXCEPT ![c] = nextId]
  /\ Answered(c, TRUE) /\ dpc' = "save"
  /\ UNCHANGED paused

Cancel(c) ==
  /\ \/ \E i \in DOMAIN jobs :
          /\ jobs[i].id = req[c].id /\ jobs[i].state = "Queued"
          /\ SetState(i, "Cancelled")
          /\ Answered(c, TRUE) /\ dpc' = "save"
     \/ /\ \A i \in DOMAIN jobs : ~(jobs[i].id = req[c].id /\ jobs[i].state = "Queued")
        /\ Answered(c, FALSE) /\ dpc' = "reply" /\ UNCHANGED jobs
  /\ UNCHANGED <<nextId, paused, pushed>>

SetPriority(c) ==
  /\ Answered(c, req[c].id \in JobIds)
  /\ dpc' = IF req[c].id \in JobIds THEN "save" ELSE "reply"
  /\ UNCHANGED <<jobs, nextId, paused, pushed>>

SetPaused(c) ==
  /\ paused' = (req[c].op = "PAUSE")
  /\ Answered(c, TRUE) /\ dpc' = "reply"
  /\ UNCHANGED <<jobs, nextId, pushed>>

Look(c) == Answered(c, TRUE) /\ dpc' = "reply" /\ UNCHANGED <<jobs, nextId, paused, pushed>>

Serve(c) ==
  /\ dpc = "listen"
  /\ \/ cpc[c] = "ping" /\ Ping(c)
     \/ /\ cpc[c] = "send"
        /\ \/ req[c].op = "SUBMIT" /\ Submit(c)
           \/ req[c].op = "CANCEL" /\ Cancel(c)
           \/ req[c].op = "PRIORITY" /\ SetPriority(c)
           \/ req[c].op \in {"PAUSE", "RESUME"} /\ SetPaused(c)
           \/ req[c].op = "look" /\ Look(c)
  /\ after' = "reply" /\ serving' = c
  /\ cpc' = [cpc EXCEPT ![c] = "await"]
  /\ UNCHANGED <<file, running, req, crashes, asked, acked, torn>>

(* The answer arrives; what `said` already holds becomes visible.  PING's  *)
(* answer lets `batch add` go on to its SUBMIT.                            *)
Reply ==
  /\ dpc = "reply"
  /\ IF said[serving] = "none"
     THEN cpc' = [cpc EXCEPT ![serving] = "send"] /\ UNCHANGED req
     ELSE cpc' = [cpc EXCEPT ![serving] = "done"] /\ req' = [req EXCEPT ![serving] = NoRequest]
  /\ acked' = IF said[serving] = "ok" /\ pushed[serving] # 0
              THEN acked \cup {pushed[serving]} ELSE acked
  /\ dpc' = "scan" /\ serving' = "none"
  /\ UNCHANGED <<jobs, nextId, paused, file, after, running, said, pushed, crashes, asked, torn>>

-----------------------------------------------------------------------------
(* save_jobs: open truncates, the text is flushed when f is destroyed.     *)
SaveOpen ==
  /\ dpc = "save" /\ dpc' = "flush" /\ file' = <<>>
  /\ UNCHANGED <<jobs, nextId, paused, after, serving, running, client, crashes, asked, acked, torn>>

SaveFlush_Bug ==
  /\ dpc = "flush" /\ dpc' = after
  /\ file' = SelectSeq(jobs, LAMBDA j : j.state \in {"Queued", "Running"})
  /\ UNCHANGED <<jobs, nextId, paused, after, serving, running, client, crashes, asked, acked, torn>>

SaveFlush ==
  /\ dpc = "flush" /\ dpc' = after /\ file' = jobs
  /\ UNCHANGED <<jobs, nextId, paused, after, serving, running, client, crashes, asked, acked, torn>>

StartNext_Bug ==
  /\ dpc = "scan" /\ ~paused
  /\ \E i \in DOMAIN jobs :
       /\ Ready(i) /\ \A k \in 1 .. i - 1 : jobs[k].state # "Queued"
       /\ SetState(i, "Running") /\ running' = jobs[i].id
  /\ dpc' = "save" /\ after' = "exec"
  /\ UNCHANGED <<nextId, paused, file, serving, client, crashes, asked, acked, torn>>

(* process_next and the first half of execute_job.                         *)
StartNext ==
  /\ dpc = "scan" /\ ~paused
  /\ \E i \in DOMAIN jobs :
       /\ Ready(i) /\ \A k \in 1 .. i - 1 : ~Ready(k)
       /\ SetState(i, "Running") /\ running' = jobs[i].id
  /\ dpc' = "save" /\ after' = "exec"
  /\ UNCHANGED <<nextId, paused, file, serving, client, crashes, asked, acked, torn>>

NothingToStart ==
  /\ dpc = "scan" /\ (paused \/ \A i \in DOMAIN jobs : ~Ready(i))
  /\ dpc' = "listen"
  /\ UNCHANGED <<jobs, nextId, paused, file, after, serving, running, client, crashes, asked, acked, torn>>

JobEnds_Bug ==
  /\ dpc = "exec"
  /\ \E i \in DOMAIN jobs, s \in {"Completed", "Queued"} :
       jobs[i].id = running /\ SetState(i, s)
  /\ running' = 0 /\ dpc' = "save" /\ after' = "listen"
  /\ UNCHANGED <<nextId, paused, file, serving, client, crashes, asked, acked, torn>>

(* system() returns; the rest of execute_job.                              *)
JobEnds ==
  /\ dpc = "exec"
  /\ \E i \in DOMAIN jobs, s \in {"Completed", "Failed"} :
       jobs[i].id = running /\ SetState(i, s)
  /\ running' = 0 /\ dpc' = "save" /\ after' = "listen"
  /\ UNCHANGED <<nextId, paused, file, serving, client, crashes, asked, acked, torn>>

-----------------------------------------------------------------------------
(* The daemon is killed, and started again: constructor, load_jobs.        *)
Crash ==
  /\ dpc # "off" /\ crashes < MaxCrash
  /\ crashes' = crashes + 1
  /\ dpc' = "off" /\ after' = "listen" /\ serving' = "none" /\ running' = 0
  /\ jobs' = <<>> /\ nextId' = 1 /\ paused' = FALSE
  /\ torn' = (torn \/ dpc = "flush")
  /\ UNCHANGED <<file, client, asked, acked>>

(* load_jobs keeps every state, "Running" too, and the ids go on from the  *)
(* greatest that was loaded.                                               *)
IdAfter(s) ==
  CHOOSE n \in 1 .. MaxJobs + 1 :
    /\ \A i \in DOMAIN s : s[i].id < n
    /\ n = 1 \/ \E i \in DOMAIN s : s[i].id = n - 1

Boot ==
  /\ dpc = "off" /\ dpc' = "listen"
  /\ jobs' = file /\ nextId' = IdAfter(file)
  /\ UNCHANGED <<paused, file, after, serving, running, client, crashes, asked, acked, torn>>

Init ==
  /\ jobs = <<>> /\ file = <<>> /\ nextId = 1 /\ paused = FALSE
  /\ dpc = "off" /\ after = "listen" /\ serving = "none" /\ running = 0
  /\ cpc = [c \in Clients |-> "done"]
  /\ req = [c \in Clients |-> NoRequest]
  /\ said = [c \in Clients |-> "none"]
  /\ crashes = 0 /\ pushed = [c \in Clients |-> 0] /\ asked = 0 /\ acked = {} /\ torn = FALSE

DaemonStep == Reply \/ SaveOpen \/ SaveFlush \/ StartNext \/ NothingToStart \/ JobEnds \/ Boot

Next ==
  \/ \E c \in Clients : Ask(c) \/ Refused(c) \/ Serve(c)
  \/ DaemonStep
  \/ Crash

(* The daemon's thread runs on, and every job process ends.                *)
Spec == Init /\ [][Next]_vars /\ WF_vars(DaemonStep)

-----------------------------------------------------------------------------
IdsIn(s) == {s[i].id : i \in DOMAIN s}

(* An id that a client was told is in jobs.json whenever no save is in the *)
(* middle of rewriting it, through every restart, unless a kill hit just   *)
(* that moment: SUBMIT is saved before it is answered, and a save writes   *)
(* every job, also those that are over.                                    *)
AckedSurvive == ~torn /\ dpc # "flush" => acked \subseteq IdsIn(file)

(* A command that was refused has left no job behind, so the user may ask  *)
(* again: the refusals of the pipe and of the handlers all come before     *)
(* jobs_ is touched.  Only an answer lost with the daemon is ambiguous.    *)
RefusedLeavesNothing ==
  \A c \in Clients : said[c] = "refused" => pushed[c] = 0

(* The queue, as its users should think of it.                             *)
PhaseOf(state, begun) ==
  CASE state = "Queued"  -> "waiting"
    [] state = "Running" -> begun
    [] OTHER             -> "over"

PhaseIn(s, i, begun) ==
  IF i \notin IdsIn(s) THEN "absent"
  ELSE PhaseOf(s[CHOOSE k \in DOMAIN s : s[k].id = i].state, begun)

(* With the daemon down the queue is what a restart will find.             *)
Phase ==
  [i \in Ids |->
     IF dpc = "off" THEN PhaseIn(file, i, "adrift")
     ELSE PhaseIn(jobs, i, IF running = i THEN "working" ELSE "adrift")]

Store == [i \in Ids |-> PhaseIn(file, i, "working")]

Queue == INSTANCE JobLifecycle WITH phase <- Phase, store <- Store

(* The daemon implements the queue with a store: one job at a time, over   *)
(* is final, every change stored before the next, and a job found running  *)
(* at a restart adrift for ever, since nothing requeues it.                *)
Lifecycle == Queue!Spec

-----------------------------------------------------------------------------
(* The inductive strengthening of the invariants above and of the          *)
(* refinement, used by the proofs.                                         *)

(* A save, or the answer it comes before, on behalf of the open message;   *)
(* and a save or the run of the job that was started.                      *)
InMessage == dpc = "reply" \/ (dpc \in {"save", "flush"} /\ after = "reply")
InJob     == dpc = "exec"  \/ (dpc \in {"save", "flush"} /\ after = "exec")

(* A client has a job in jobs_ only from its SUBMIT to its next command,   *)
(* and waits for the answer to a PING only if it has one to submit.        *)
ClientInv ==
  \A c \in Clients :
    /\ cpc[c] \in {"ping", "send"} => pushed[c] = 0 /\ said[c] = "none"
    /\ cpc[c] = "await" /\ said[c] = "none" => pushed[c] = 0
    /\ said[c] = "refused" => pushed[c] = 0

(* The submissions still to come fit in the ids that are left, whether the *)
(* daemon lives on or is restarted from the file.                          *)
Pending == {c \in Clients : cpc[c] # "done" /\ req[c].op = "SUBMIT" /\ pushed[c] = 0}

BoundInv ==
  /\ IsFiniteSet(Pending) /\ Cardinality(Pending) <= asked
  /\ nextId + Cardinality(Pending) <= asked + 1
  /\ \A i \in DOMAIN file : file[i].id + Cardinality(Pending) <= asked

(* The daemon's thread: whom it serves and which job it is in.             *)
ThreadInv ==
  /\ InMessage => /\ serving \in Clients
                  /\ cpc[serving] = "await"
                  /\ pushed[serving] \in IdsIn(jobs) \cup {0}
  /\ running # 0 <=> InJob
  /\ running # 0 => \E i \in DOMAIN jobs : jobs[i].id = running /\ jobs[i].state = "Running"

Unique(s) == \A i, k \in DOMAIN s : s[i].id = s[k].id => i = k

(* The vector and the file agree but for the save under way.               *)
StoreInv ==
  /\ Unique(jobs) /\ Unique(file)
  /\ \A i \in DOMAIN jobs : jobs[i].id < nextId
  /\ dpc \in {"listen", "reply", "scan", "exec"} => file = jobs
  /\ dpc = "flush" => file = <<>>
  /\ ~torn /\ dpc # "off" => acked \subseteq IdsIn(jobs)

IInv == TypeOK /\ ClientInv /\ BoundInv /\ ThreadInv /\ StoreInv /\ AckedSurvive

-----------------------------------------------------------------------------
(* A job that is ready does not wait for ever behind jobs that are not, as *)
(* long as messages keep coming and the queue is not paused: each message  *)
(* makes the daemon look once, and the scan passes over what is not ready. *)
BacklogDrains ==
  []<>(dpc = "scan") /\ <>[]~paused =>
    \A n \in Ids :
      (\E i \in DOMAIN jobs : jobs[i].id = n /\ Ready(i))
        ~> ~(\E i \in DOMAIN jobs : jobs[i].id = n /\ Ready(i))
=============================================================================
