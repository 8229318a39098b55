# Verification of imfwizard

TLA+ models of the parts of imfwizard that keep state and act concurrently,
TLC configurations that check them on small instances, and TLAPS proofs of what
matters most for every instance.  Paths below are relative to the repository.

## 1. Inventory

imfwizard builds Interoperable Master Packages (IMF).  It is a C++ library and
command line tool (`src/`, `include/imfwizard/`), a Rust port of the packaging
core (`rust/`), a Tauri desktop application (`gui/`) and Python bindings.

| Component | State | Operations | Interacts with | Hard behaviour |
|---|---|---|---|---|
| POSIX job daemon (`src/job_queue.cpp` 621-1019) | `jobs_`, `next_id_`, `paused_`, `jobs.json` | SUBMIT, CANCEL, PRIORITY, PAUSE, RESUME, LIST, STATUS; worker loop; load and save | clients over a socket; job processes over `popen` | two threads on one vector and one file without a lock; killed as its normal end |
| Windows job daemon (same file, 1021-1318) | the same | the same, in one thread | clients over a named pipe | other rules for restart, dependencies and priorities than POSIX; no pipe while it works |
| Job client (same file, 378-617) | none | one request, one reply per connection; PING before SUBMIT | daemon | refusals, lost answers, framing, quoting |
| Job store format (same file, 120-376) | text of `jobs.json` | `job_to_json`, `parse_jobs_json` | daemon, LIST/STATUS clients | braces and keys inside strings |
| Desktop job queue (`gui/src-tauri/src/pipeline.rs`) | `queue`, `current_id`, `cancel`, `pause` | `submit_job`, `cancel_job`, `pause_job`, `resume_job`, `list_jobs`; `run_queue_worker` | the page by commands and events; encoder | check-then-act on atomics and a mutex that never span two accesses |
| Create page (`gui/src/main.js` 125-354) | button, listeners, `currentJobId`, `paused` | submit, pause, cancel, any input | desktop job queue | replies and events are on separate channels |
| Watch folder (`src/watch.cpp`) | `processed` set | inotify or polling loop, list of actions per folder | packaging, shell commands | files still arriving, events lost, folders taken away, restart |
| Multi-node encode (`src/multi_node.cpp`) | chunk list, node list | ping, distribute; worker loop | render workers over TCP | node failure, silent clients, unsigned arithmetic, acknowledgement without work |
| IMP packaging (`src/imp.cpp`, `cpl`, `pkl`, `assetmap`, `signature`, `supplemental`, `cpl_annotation`) | files of the package: track files, CPL, PKL, ASSETMAP, `j2k_encoded` | create, supplement, annotate: encode, wrap, hash, list, sign | file system; started by the user, the job daemon, the watch folder, the desktop application | commands into one directory at once, order of hash, list and signature, one step failing or killed after others, writes nobody tests |
| The other commands (`src/main.cpp` and some thirty sources: transcode, encode, LUT, ACES, watermark, slate, extract, captions, subtitles, audio, Atmos, Dolby Vision, ProRes, DCP, delivery, KDM, webhooks, reports, validation, timelines) | files in an output directory | one command, a sequence of checks, external tools, written files, and an exit code | each other through files: scripts (`a && b`) and job dependencies | one step of several failing, rerun over old output, two at once, files passed on in a chain |
| Preview player (`gui/src-tauri/src/preview_server.rs`) | child process, socket | load, play, seek, stop | mpv | restart-and-retry with concurrent commands |
| REST API (`src/rest_api.cpp`), preferences (`src/preferences.cpp`), Rust port (`rust/`), other GUI pages | counters; a JSON file; none | canned answers; load, migrate, save | HTTP clients, GUI | see section 6 |

What makes each of the modelled ones correct:

- *job daemons*: one job at a time; a job marked running is being worked on; a
  ready job is taken up, dependencies respected; a finished job stays finished, a
  cancelled one cancelled; PAUSE stops the queue; what a client was told survives,
  and what it was refused was not done; the store equals memory whenever nothing
  is being saved; ids stay unique.
- *desktop job queue and page*: no submitted job is lost or run twice; a queued
  job has a worker; every submission is answered on the page.
- *watch folder*: every complete folder is processed; each action of the list is
  tried, whatever became of those before it; a folder that was still arriving is
  looked at again.
- *multi-node encode*: the chunks partition the frames; work goes to nodes that
  answered, evenly; what is reported as encoded was acknowledged; the coordinator
  comes to an end.
- *IMP packaging*: a PKL vouches for what is on disk; an ASSETMAP comes last and
  is closed under what it lists; the package of a command that failed is not the
  one listed; a supplement has an Original Version.
- *other commands*: exit code 0 means that every product is there, whole and from
  the command's own input; the numbers reported have an explanation; a chain of
  commands loses no frame; every command ends.

`PROJECT.json` lists the hazards of the code, each at its line, with the
properties that cover it or the reason none does.

## 2. How the models fit together

`JobDaemon`, `GuiQueue`, `Package`, `WinDaemon`, `WatchFolder`, `MultiNode` model
one component each; `Commands` holds the scripts of the remaining subcommands and
`Tools` runs two of them over one file system.  `JobLifecycle` is the abstract job
queue with a store, which `WinDaemon` implements by `INSTANCE JobLifecycle WITH
phase <- Phase, store <- Store`.  The POSIX daemon does not implement it: its two
threads overlap their saves, and a cancelled job may run on (`JobDaemon_cancel`).

The components meet in two ways.  Through files: a command started by a job, by
the watch folder or by a user is a run of `Package` or `Tools`, both of which have
every order of starts, ends and kills of two of them.  Through a command's exit
code: the daemons and the watch folder take it as an outcome that may be either
(`ProcessExits`, `JobEnds`, `Act`), and `ZeroMeansWhole` says what 0 is worth; a
job that depends on another is a "then" session of `Tools`.

Every safety property that a run checks is a theorem (section 5): for `Tools` in two
parts, what is true of every script of `Commands`, and what follows from that for
any two runs.  What is left to the runs alone is liveness.

## 3. Modules

### JobDaemon

| Code | Model |
|---|---|
| `jobs_`, its capacity, `next_id_`, `paused_` | `jobs`, `cap`, `nextId`, `paused` |
| `jobs.json`, as the job objects a parser finds in it | `file` |
| where each thread's `save_jobs` is, and the text it holds | `sv`, `snap` |
| worker thread: program point, loop index and end, `best` | `wpc`, `wi`, `wend`, `wbest` |
| worker's references dangle after a reallocation | `stale` |
| reply of SUBMIT still to be written | `mreply` |
| `run`'s worker loop, `process_next` | `Poll`, `ScanJob`, `ScanFreedJob`, `ScanFindsNone` |
| `execute_job` | `StartJob`, `Launch`, `LaunchFails`, `Progress`, `ProcessExits` |
| `save_jobs`: open, serialise, flush | `SaveOpen`, `SaveCopy`, `SaveFlush` |
| `handle_client` | `Submit`, `Cancel`, `SetPriority`, `Pause`, `Resume`, `Reply` |
| kill; constructor, `load_jobs`, `run` | `Crash`; `Boot` |
| job process that outlives the daemon | `orphans`, `OrphanExits` |

A thread that asked for a save does nothing else until its save is flushed
(`WorkerReady`, `MainReady`), so a save is always a part of the operation that
asked for it.  Interleaving is at these points: one handler's accesses to `jobs_`
before its save are one step; the scan is one step per job; serialising is one
step (`jobs_to_json` indexes the vector afresh for each job); a flush is one system call and a kill falls
between system calls.  After `push_back` reallocates, what the worker reads of a
job is arbitrary (`ScanFreedJob`) and what it writes does not reach the vector.
Two texts written over each other leave the newer text followed by the objects
of the longer, older one (`Overlay`); one of them is lost when the text ends
inside its opening.  Where the text ends is a matter of bytes: had each job the
same length in both texts, it would be at the job after the newer text's last.
`MaxSlack` says how many objects before or behind that place it may be
(`FirstKept`).  An object has at least 160 bytes and changes by at most 64 (three
bytes of its state, the digits of progress and priority, an error of up to 23
characters, two times of ten digits for a 0).  With three jobs, what the text is out
of step by is therefore less than an object, and `MaxSlack` is 0 in the runs; with
many jobs it is not, and then a load may find one id twice.  `find_if` takes the
first job with an id (`Found`).  A job's arguments, description, progress and times are
dropped; so is a progress line's value, though not its save.

`touched`, `overlap`, `acked`, `dirty` and `late` are history variables that no
guard reads.

### GuiQueue

| Code | Model |
|---|---|
| `JobQueue.queue`, `current_id`, `cancel`, `pause` | `queue`, `current`, `cancel`, `pause` |
| `submit_job`: `listen` and `invoke` on the page, push, look at `current_id`, reply | `Click`, `Listen`, `Push`, `CheckCurrent`, `ReplyArrives` |
| `cancel_job`: compare, then store or retain | `CancelClick`, `CancelStore`, `CancelRemove` |
| `pause_job`, `resume_job` with the button | `PauseClick` |
| `run_queue_worker` | `PopFront`, `Drain`, `Claim`, `ResetFlags`, `Finish`, `RunPanics` |
| `run_job`, `package_imp` | `Encode`, `SkipEncode`, `RunFails`, `Package` |
| `pipeline-progress` events of the stages done and error | `events`, `EventArrives` |
| button, listeners, `currentJobId`, `paused` | `enabled`, `listening`, `pageJob`, `pagePaused` |
| `checkFormReady` on input | `Edit` |

Every access to an atomic or to the mutex is a step, since no lock spans two of
them; stores that follow each other with nothing in between that the other tasks
use differently are merged (`ResetFlags`).  Ids are compared for equality only,
so a submission, its listener, its job and the worker it may spawn share a
number.  The encoder is external code: it stands still while `pause` is set and
may fail at any time, with or without a cancel.

### Package

| Code | Model |
|---|---|
| command line options, `ImpOptions`, `SupplementalOptions` | `req` |
| how far a command is; `result.track_files`, `CplResult.hash`, `encoded` | `pc`; `track`, `hash`, `encoded` |
| `VID_*`, `AUD_*`, `SUB_*` files and what the video holds | `mxf`, `video` |
| `CPL_*.xml`, `PKL_*.xml` | `cpl`, `pkl` |
| `ASSETMAP.xml`, `j2k_encoded/` of a directory | `map`, `frames` |
| one `annotate_cpl` and the text it read | `edit` |
| `create_ov_imp`, `create_supplemental_imp` | `Launch`, `Begin`, then the steps in the order of `FromStart` ... `FromMap` |
| `read_imp_info` as the check of a supplement | `Readable` |
| `encode_to_j2k` | `EncodeFrame`, `EncodeEnds` |
| `wrap_essence`, `wrap_timed_text`; an input that is not there | `Wrap`, `SkipMissing` |
| `generate_cpl`, `generate_pkl`, `generate_assetmap`, `sign_xml` | `WriteCpl`, `WritePkl`, `WriteMap`, `Sign` |
| an exception or a failed encoder; a kill | `Break`; `Kill` |
| `annotate_cpl` | `AnnotateRead`, `AnnotateWrite`, `AnnotateKilled` |

Commands are processes; they share only files, so a step is the work on one file
and the commands interleave between files.  Files with a UUID in their name are
told apart by the command that writes them; `ASSETMAP.xml` and the encoded frames
have fixed names and are shared by all commands that write to a directory.

- *Torn files.*  The MXF writers test every write and throw.  The result of
  `xmlSaveFormatFileEnc` is ignored: `WriteCpl`, `WritePkl` and `WriteMap` may
  leave a torn file, or the old map, and go on; the hash is that of what is on
  disk.  `LeavePartial` is what an interrupted step leaves.
- *Hash.*  `Sha1` is injective: no collisions.
- *Frames.*  A frame is named by the command whose input it comes from.  `Wrap`
  reads the sequence at one moment and may take an unreadable frame for its end
  (`wrap_j2k` does not tell the two apart).  The encoder (external) leaves either
  the old or the new frame when it is interrupted.
- *Signature.*  `sign_xml` is a stub in the code and the identity here, on
  purpose; `SignXml_Bug` shows what `PklMatchesDisk` says of one that signs.
- *Segments.*  A supplement has one segment; more of them repeat two steps on
  files with names of their own.

### WinDaemon and JobLifecycle

| Code | Model |
|---|---|
| `jobs_`, `next_id_`, `paused_`, `jobs.json` | `jobs`, `nextId`, `paused`, `file` |
| where the one thread is; the save's continuation; the open pipe; the job in `execute_job` | `dpc`; `after`; `serving`; `running` |
| `imfwizard batch ...`: what it asks for, how far it is, what it was told | `req`, `cpc`, `said` |
| `send_to_daemon`; PING before SUBMIT | `Ask`, `Refused`, `Reply` |
| the message branches of `run` | `Serve`: `Ping`, `Submit`, `Cancel`, `SetPriority`, `SetPaused`, `Look` |
| `process_next`, `execute_job` | `StartNext`, `NothingToStart`, `JobEnds` |
| `save_jobs` | `SaveOpen`, `SaveFlush` |
| kill; constructor, `load_jobs` | `Crash`; `Boot`, `IdAfter` |

One thread: the daemon answers, scans, runs a job to its end and only then opens
the next pipe, so a step is the work between two points at which a client or a
kill can see a difference.  `Phase` maps a job to the abstract queue: waiting,
working (in `execute_job`), adrift (loaded as Running, which nothing requeues),
over; with the daemon down it is what the next one will load.  `pushed`, `asked`,
`acked` and `torn` are history; `asked` carries the bound on submissions.

### WatchFolder

| Code | Model |
|---|---|
| content of the watched directory | `have`: per folder the pieces that arrived |
| the inotify queue; the names of one round | `events`; `todo` |
| `processed` | `processed` |
| `watch_folder`, its two loops | `Start`, `ReadEvents`, `Poll`, `RoundEnds` |
| `is_dir_stable`, two scans | `Look`, `Rescan`, `seen` |
| `has_media_content` | `HasMedia` |
| `run_action_pipeline` | `Act`, `PipelineEnds` |
| `directory_iterator` on a folder that is gone | `Throws` |
| those who deliver and tidy up | `MakeDir`, `MoveIn`, `Arrive`, `TakeAway` |

An event tells of a new entry in the watched directory only; what arrives inside
a folder raises none.  A set-up of inotify that fails falls back to polling.  The
order in which a listing gives its entries is any.

### MultiNode

| Code | Model |
|---|---|
| `frame_count`, `chunk_size` | `frames`, `size` |
| the coordinator: step, loop index, flags, `result` | `pc`, `at`, `avail`, `chunks`, `encoded`, `exit` |
| worker processes, pending connections | `up`, `backlog` |
| `multi_node_encode` | `CountFrames`, `Ping`, `Discovered`, `Divide`, `Finish` |
| chunk arithmetic in `uint32_t`, assignment in turn | `ChunkCount`, `First`, `Last`, `Turn`, `Plan` (modulo `Word`) |
| `send_encode_command` | `Unreachable`, `Connect`, `Broken` |
| `run_render_worker` | `Acknowledge` |
| other clients; workers that die or start | `SilentArrives`, `SilentLeaves`; `WorkerDies`, `WorkerStarts` |

A connection is set up by the worker's kernel and waits in `backlog` until the
worker accepts it; neither side has a time limit.  Division by a chunk size of 0
and SIGPIPE end the process ("killed").

### Commands and Tools

`Commands` writes each subcommand as a script: the checks, required inputs,
external tools, files and reports of its code, in order, each with what follows
when it fails.  `Tools` gives the scripts their meaning:

| Code | Model |
|---|---|
| CLI11's `ExistingFile`, the start of `main` | `Parse`, `Checked` |
| `if(!exists) return error`, `find_tool`, `std::stoul` | `Looks` |
| looking for a track by type | `Needs`, `Due`, `TrackTypes` |
| listing frames, recipients, titles | `Lists` |
| `system(cmd)`, `copy_file`, `ofstream` | `Opens`, `Closes`, `Fails`, `Slips` |
| `frame_count` and the like | `Counts` |
| end of the handler, exit code | `Ends`, `Exhausted`, `Succeeds` |
| temporary files removed | `Removes` |
| kill | `Kill` |

A file is torn while it is written and when that fails, spoiled when it was made
from something not whole or by two writers, whole otherwise; names with a fresh
uuid are the run's own, the others are shared by the runs of one directory, and
the HTML of `pdf-report` by all runs.  A session is two commands beside each
other in one directory, or the second reading what the first made.  Pictures,
sound, texts, command lines and reported numbers other than the number of items
are left out, and so is what libdcpdoctor finds (`Judged`: any verdict).
`Scripts` is the table of all commands, put together from one table per block of
`main()`.  What a command is for, the files it has to make, is in `PerItem` and
`Single`; what it makes besides, if its input or an option asks for it, in `Besides`.

*Names.*  Frames are numbered by the command that makes them.  The items of `kdm`
(`main.cpp` 2041, `kdm_gen.cpp` 201), `deliver` (`main.cpp` 1607) and `otioz_import`
bear names that come from the user: the stem of a certificate's file name, a
target, a path in a bundle.  They are part of the session (`names`), and two items
may have the same one; their files are then one file, which remembers the item it
was written for last.  A run counts both and ends with 0.

*Kinds of image.*  A frame is "tiff" (tiff, dpx, exr), "png" or "j2k" by its
extension, which is part of its name (`ImagesOf`).  The second command of a chain
lists the images of the kinds it reads (`Takes`) and passes over the others (`Given`):
`encode` goes by the first image it meets, J2K ends its work; `lut` reads all but
J2K, `aces` neither J2K nor PNG, `watermark`, `preview`, `strip` and `analytics` only
J2K.  A directory of the user's may hold images of a second kind (`strays`), which
`lut` counts and does not work on (`lut.cpp` 57-85, 108).

*Failures nobody sees.*  `missed` remembers that a tool failed whose exit code the
code ignores, `slips` that a stream lost what was written to it.

A definition named `..._Bug` is a plausible fault of the definition after it.
No action uses it; it serves to test that the property it is meant for can fail.

## 4. Runs

| Run | Instance | Shows |
|---|---|---|
| `JobDaemon_recovery` | 3 jobs, one priority, no dependency, 1 kill | `OneRunning`, `RunningIsWorked`, `QuietStoreRestores`, `AckedSurvive`, `IdsGrow` hold (2.3 million states) |
| `JobDaemon_schedule` | 2 jobs, 2 priorities, dependencies on nothing, on either job or on itself, no kill, fairness | `BestSoFar`, `StartedAfterDependency`, `PauseHolds`, `FinishedIsFinal`, `ReadyJobIsTaken`, `RunningJobEnds` hold (0.5 million states) |
| `GuiQueue_safety` | 2 submissions, edits, panics, fairness | `OneWorker`, `JobInOnePlace`, `QueueIsServed`, `SubmissionIsAnswered` hold (0.6 million states) |
| `Package_safety` | 2 commands, 1 annotate command, 2 directories, up to 2 frames, 5 requests, errors and kills at every step | `PklMatchesDisk`, `MapIsClosed`, `FailureIsUnlisted`, `SupplementHasOv` hold (4.9 million states) |
| `WinDaemon` | 3 submissions by one client after another, dependencies on nothing or on job 1, 1 kill | `AckedSurvive`, `RefusedLeavesNothing` hold, the daemon implements `JobLifecycle` (`Lifecycle`), `BacklogDrains` |
| `WatchFolder` | 2 folders of 2 pieces, 2 actions, inotify or polling, 1 removal, 2 starts | `EveryActionRuns`, `ContentIsProcessed` hold |
| `MultiNode` | 3 nodes, 0 to 5 frames, chunk sizes 0 to 7, 3-bit words, 1 death, 1 silent client | `ChunksPartition`, `WorkIsBalanced`, `FramesAreAcknowledged`, `CoordinatorEnds` hold |
| `Tools` | 28 sessions of two runs in one directory, 61 chains of two, 6 more of commands that do not read each other's images, up to 2 items, under one name or two, 1 kill | `ZeroMeansWhole`, `TallyIsExplained`, `ChainKeepsFrames`, `CommandsEnd` hold (270 thousand states) |
| `JobDaemon_cancel` | 1 job | violation of `CancelSticks`: a cancelled job becomes Running, Completed or Failed |
| `JobDaemon_wedge` | 2 jobs, fairness | violation of `QueueMoves`: the reallocation leaves a job Running for ever |
| `WatchFolder_retry` | 1 folder, inotify, fairness | violation of `ArrivingIsRetried`: a folder passed over while it arrives is never looked at again |
| `Tools_tracks` | `create && to-dcp` | violation of `VideoIsFound`: no package has a track that `to-dcp` takes for video |

The four violations are findings in `PROJECT.json`, each with the line of the
repository that says otherwise.

Properties of interest that hold only with their exceptions named:

- `RunningIsWorked` and the liveness of the daemon except `stale`: exactly the
  reallocation of `JobDaemon_wedge`.
- `QuietStoreRestores` and `AckedSurvive` except overlapping saves and kills
  during a save, when the file is empty or a mixture.
- `QueueIsServed` except `raced`: a submit that sees the `current_id` of a worker
  that has already found the queue empty.  Its job waits for the next submission.
- `OneWorker` except `edited`, because only the disabled button keeps two
  submissions apart, and except `late`.  A `submit_job` that comes to look at
  `current_id` only after its job has ended, run by the worker of another
  submission, finds it 0 while a third submission, which the enabled button let
  through, has its worker not yet at the store: both start a worker.  This takes
  three submissions, one more than `GuiQueue_safety` has; the attempt to prove
  `OneWorker` without the exception showed it, and TLC confirmed it.
- `PklMatchesDisk` except `Annotated`: `annotate_cpl` rewrites a CPL and leaves
  the hash in the PKL as it was.  Nothing in the repository says otherwise.
- `MapIsClosed` asks that CPL and PKL were written, not that they are whole: a
  short write goes unnoticed.  It holds because every command writes the map
  after its own files, even when two commands take turns at one map.
- `RefusedLeavesNothing` except an answer lost with the daemon ("lost"): the
  client cannot tell whether the job was taken.
- `ChunksPartition` and the count of `FramesAreAcknowledged` except an overflow of
  `frame_count + chunk_size - 1`, which `MultiNode` reaches with its short word.
- `IdsGrow` and `StartedAfterDependency` for as many jobs as keep two texts of them
  in step (`MaxSlack = 0`, see section 3).
- `ZeroMeansWhole` except streams that lost what was written (`slips`), which the
  code does not ask; two runs at work at once in one directory (`Undisturbed`);
  and a chain whose first command makes files of another kind (`Vouched`).  The
  sound of `prores` (`prores.cpp` 155) and the tone of `slate` (`slate.cpp` 103) may
  be missing or torn, and in the package all the same, if ffmpeg failed for them
  (`missed`).  Of items with one name only a last one's file is there: two
  recipients of a KDM whose certificates are called the same get one message, and
  the command ends with 0.  No document says otherwise, so this is no finding; the
  property says what is left, that the file is whole and that of one of them.
- `TallyIsExplained` except what a longer run left in the directory, and the images
  of a second kind that `lut` counts.
- `ChainKeepsFrames` except `watermark`, which ends with 0 and no frame when it is
  given frames that are not J2K; every other command fails then.
- `CommandsEnd` except thumbnails at an interval of 0 frames.

### Bounds

`MaxJobs` caps the ids handed out: 3 is enough for a reallocation in mid-scan
(capacities 1, 2, 4), for an older and longer text under a newer one, and for a
job to be added while another runs and a third waits.  `MaxCrash` caps kills: one
kill reaches every recovery, because a restarted daemon differs from a fresh one
only in what `file` holds.  `Priorities` and `Deps` are reduced to one value in
`JobDaemon_recovery`, whose properties do not read them; with 2 jobs, all
priorities and dependencies and 2 kills the safety properties hold as well (13.7
million states, beyond the time kept for a run), and they are theorems for all.  `MaxSubmits = 2` gives two
workers, two listeners and two jobs in the queue at once.  `MayPanic` and
`MayEdit` switch a panic of `run_job` and edits of the form on.
`MaxOps = 2` is one command before, after or beside another, which is all a
shared file can tell apart, since it remembers only its last writer; `MaxFrames = 2`
is the least that has a longer and a shorter sequence; two directories are one
shared and one of a command's own; `SomeRequests` has both lengths, with and
without encoding, audio, subtitle and signature.  The proofs have none of these
bounds.

In `WinDaemon` the one client is any number of command lines one after another; a
second at the same time could only be refused, which `Refused` has from every
state of the daemon in which no pipe is open.  Three jobs are one that runs or is
adrift, one that waits for it and one that need not.  In `WatchFolder` two pieces are the least with
a folder in part; `MaxMoves = 1` removes one folder at any point of a look, and
`MaxStarts = 2` has one restart.  In `MultiNode` three nodes are the least with one
unavailable between two that are not; the sizes divide, do not divide and exceed
the frames, are 0, and overflow the word (5 + 7 - 1 > 7).  `MaxItems = 2` is a first and a
last item; `MaxKills = 1` leaves one run's remains to the other; the sessions have
every command at least once (`Beside` has one of every pattern of script).  Two
items have one name or two (`Namings`), and the run beside them may use the names the
other way round; `Mixed` has a directory with one image of a second kind.

### Fairness

`JobDaemon`: weak fairness of each thread's save, of the worker's steps, of the
reply and of `Boot` (threads of a live process are scheduled; somebody starts the
daemon).  Strong fairness of `ProcessEnds`: a job's process writes finitely many
progress lines and then exits; each line disables the exit only for the time of
one save.  No fairness of clients or of kills.
`GuiQueue`: weak fairness of each submit command and each worker (the async
runtime polls every task; the encoder of a job that is not paused comes to an
end), of the delivery of events and of a cancel that was clicked.  Not of clicks,
edits, failures or panics.
`WinDaemon`: weak fairness of the daemon's thread (it is scheduled, and its job
processes end).  None of clients: that messages keep coming is a premise of
`BacklogDrains`, as is that the queue is not paused for ever.
`WatchFolder`: weak fairness of the watching process while it lives; none of those
who deliver, of starts or of kills.
`MultiNode`: weak fairness of the coordinator and of each worker's next
acknowledgement (running processes), and of `SilentLeaves`: that a silent client
leaves at last is an assumption about others, which no time limit in the code
enforces.  None of deaths and starts.
`Tools`: weak fairness of each run: processes go on and the tools they call end.
A kill is never owed.
`Package`: none.  Its commands may stop at any step for good, its properties are
about what is on disk then, and its runs do not check for deadlock because every
command comes to an end; nor do those of `Tools`, `MultiNode` and `WatchFolder`
(whose starts are bounded).

## 5. Proofs

A module `X_proofs` proves, for every value of the constants that `XAssumption`
allows, that the safety properties of `X` hold in every reachable state.  None of
the bounds of section 4 is used but as an assumption that the bound is a number.
Each proof has the same plan: the property is a conjunct of an inductive invariant,
or follows from one, that stands at the end of `X` under "strengthening"; one lemma
says that `Init` establishes it, one lemma per conjunct that a step preserves it,
with a case per action; the theorem joins them.  The strengthenings were
model-checked as invariants before they were proved (that of `Tools`
for every pair of commands).

### JobDaemon

| Theorem | Property |
|---|---|
| `TypeCorrect` | `TypeOK` |
| `AtMostOneJobRuns` | `OneRunning` |
| `RunningJobsAreWorked` | `RunningIsWorked` |
| `PauseStopsQueue` | `PauseHolds` |
| `QuietStoreIsCurrent` | `QuietStoreRestores` |
| `AcknowledgedJobsSurvive` | `AckedSurvive` |
| `IdsAreUnique` | `IdsGrow` |
| `BestJobIsChosen` | `BestSoFar` |
| `DependenciesHold` | `StartedAfterDependency` |
| `FinishedJobsAreFinal` | `FinishedIsFinal`, an action property |

`TypeOK` is inductive by itself because it bounds the worker's locals by the
vector: the loop's end by its length, the index by the end, `best` by the index.
`OneRunning` is not: a start must meet no running job, which `Poll` saw some steps
earlier; `RunningInv` adds that no job is running all through the scan, and that
the job marked running is the one the worker holds.  `PauseHolds` needs that the
worker has left its scan once it started a job under the pause (`PauseInv`).
`QuietStoreRestores` needs what a save under way knows: while saves do not
overlap, it found the file empty, and the text it serialised is the vector's
unless the other thread has a save of its own to do (`SaveInv`).  `AckedSurvive`
follows the answered ids through the vector, the file and the restart (`AckInv`),
on top of `SaveInv`.

`IdsGrow` and `StartedAfterDependency` are about whatever a kill leaves behind, also
in the middle of two overlapping saves, so the invariant must speak of every text
on its way to the file.  `TextInv`: a serialised text is a prefix of the vector by
id, so is what a save finds in the file, and two saves that are both under way find
it empty; a text written over such a prefix then has growing ids, since each part
of the mixture is a run of the vector's and the parts do not overlap
(`OverlayElements`, `OverlayGrowing`).  That much is so where the two texts are in
step (`FirstKeptInStep`): `IdsAreUnique` and `DependenciesHold` assume `MaxSlack = 0`,
all other theorems hold for any.  `IdsGrow` needs the assumption: with 1 in place of
0 TLC finds an id twice.  `OrderInv`: in the vector, the file and both
texts a started job has its dependency completed; of the jobs behind the end of the
worker's text none has been started, since the worker starts nothing while it saves,
and the main thread's text misses no job; so the mixture is in order too
(`OverlayInOrder`).  Between scan and start handlers may run: `HeldInv` says that the
job the worker holds keeps its dependency completed, because nothing undoes a
completion, and that it has not ended; the latter is also what makes a finished job
final.  `HeldInv` needs no unique ids, only that `find_if` takes the same job before
and after (`FoundKept`).  `BestSoFar` needs that a scan which no handler disturbed reads no freed
memory (`ScanInv`).

### GuiQueue

| Theorem | Property |
|---|---|
| `TypeCorrect` | `TypeOK` |
| `JobsAreInOnePlace` | `JobInOnePlace` |
| `QueuedJobsAreServed` | `QueueIsServed` |
| `AtMostOneWorker` | `OneWorker` |

For any number of submissions, with and without edits of the form and panics.
`CommandInv` orders what a submission has done; `PlaceInv` says that a pushed job is
in the queue, held by exactly one worker, ended or removed, and that ids are
distinct in the queue, which `JobInOnePlace` by itself does not carry through a pop.
`OneWorker` needs what the button knows (`PageInv`: while the form is left alone,
every job but the last has ended, and the one event that may be on its way is that
of the last) and where the worker may be while `current_id` is 0 (`WorkerInv`).

### WinDaemon

| Theorem | Property |
|---|---|
| `TypeCorrect` | `TypeOK` |
| `AcknowledgedJobsSurvive` | `AckedSurvive` |
| `RefusedCommandsLeaveNothing` | `RefusedLeavesNothing` |
| `ImplementsLifecycle` | `Lifecycle`, the refinement of `JobLifecycle` |

For any number of clients.  The ids handed out stay in range only because a command
line submits once; `BoundInv` counts those that have yet to submit.  `ThreadInv` says
whom the thread serves and which job it is in, `StoreInv` that vector and file agree
except within a save, when the file is empty.  The refinement maps each job to its
phase, which with the daemon down is what the file makes of it: the initial state
maps to the initial state (`RefinementInit`), and each action to one step of
`JobLifecycle` or to a stutter (`RefinementStep`); at most one job changes its phase
in a step (`OneMoves`), and a kill changes all of those the file does not hold.

### MultiNode

| Theorem | Property |
|---|---|
| `TypeCorrect` | `TypeOK` |
| `EveryFrameInOneChunk` | `ChunksPartition` |
| `WorkIsDealtOutEvenly` | `WorkIsBalanced` |
| `ReportedFramesAreAcknowledged` | `FramesAreAcknowledged` |

For any number of nodes, frames, chunk size and width of the word.  From the
division on, `chunks` is the `Plan` of what was counted and who answered, but for the
status of each chunk (`Planned`), so the first two properties are facts about
`Plan`: of division with remainder (`ChunkCountIs`, `BoundsOfChunk`, `ChunksCover`)
and of dealing out in turn (`TurnsAreFair`: two nodes get numbers of chunks that
differ by one at most, shown by a shift of one node's chunks into the other's).
`FramesAreAcknowledged` needs that the chunks are disjoint, so that an
acknowledgement adds as many frames as it reports, and that the coordinator has one
connection at most, to the node it waits for (`ConnectionInv`).

### Package

| Theorem | Property |
|---|---|
| `PackageTypes` | `TypeOK` |
| `PklVouchesForDisk` | `PklMatchesDisk` |
| `AssetMapIsLast` | `MapIsClosed` |
| `FailuresAreUnlisted` | `FailureIsUnlisted` |
| `SupplementsHaveOv` | `SupplementHasOv` |

For any directories, commands, frames, annotate commands and requests.
None of the last four is inductive: each speaks of a later file and depends on what
the command remembers of earlier ones.  `PackageInv` says, for each command, that only
the tracks of steps it has passed are in `track` and that those are complete
(`TracksBefore`: so an interrupted `Wrap` cannot tear a listed one), that the hash
it holds is that of its CPL until somebody annotates it, and that its PKL exists
exactly from its step on; and for each map that its owner has gone past
`WriteMap`, or was killed in it.  A map once there stays, which carries a
supplement's check through the run.

### WatchFolder

| Theorem | Property |
|---|---|
| `TypeCorrect` | `TypeOK` |
| `ProcessedMeansTried` | `EveryActionRuns` |

For any finite set of folders (a directory has finitely many entries: a listing of
them is a sequence) and any list of actions.

### Commands and Tools

| Theorem | Property |
|---|---|
| `ScriptsAreFit` (in `Commands_proofs`) | `ScriptsFit`: every script, whatever runs it |
| `ToolsInvariant` | `ToolsInv`, the inductive invariant |
| `ToolsTyped` | `TypeOK` |
| `ZeroIsWhole` | `ZeroMeansWhole` |
| `TallyHasReason` | `TallyIsExplained` |
| `ChainLosesNoFrame` | `ChainKeepsFrames` |

For any set of sessions of any two commands, any number of items, any names for
those the user names, equal ones included, any number of images of a second kind,
and any number of kills: the run `Tools` has 95 sessions, the theorems all
that can be put together from the commands.

The properties are about what the steps of a script add up to, so the proof first
says what a script must be like.  `Fits(c, s)` asks of the script `s` of a command
`c`: it lists items once, and always; a file `c` is for is made by a step whose
failure ends the command, or is made up for when it failed by a copy or an abort
further on (`There`: the picture `to-dcp` copies when it cannot re-wrap it, the
still `preview` takes at full size, the PDF whose failure is reported once the HTML
is gone) with nothing in between that forgets the failure, and no later step makes
or removes it; files for every item are made once, after the listing; a tally comes
after the frames; a file made besides by a step whose failure ends the command, is missed
or is made good by the next (`MakesBeside`); and a command that reads frames lists
them whatever happens and does not end well if it finds none (`WantsFrames`;
`watermark` is the exception).  `ScriptsAreFit` shows it of all scripts: they are constants, but
the prover cannot evaluate, so each has a lemma that lays it out step by step.  The
theorem is what breaks when a script of a command is changed for the worse.

From this and nothing else of the scripts, `ToolsInv` is inductive.  `ControlInv`
ties exit code, position in the script and open file; `ListInv` and `DiskInv` bound
what is on disk by what was listed; `ExistInv`, `TallyInv` and `ChainInv` carry the
counts: no frame once made goes away, as only temporary files are removed, and a
directory has no more frames than some run listed.  The parts for `ZeroMeansWhole`
hold while the other run keeps out of the way: `TornInv` (an open file is the run's
own), `EachInv` (the file of every item a step has been through is whole and the work
of that item or a later one of its name, but while it is written again for such a
namesake, `Reopened`), `OneInv` (a file that the steps so far see to is whole, or a
failure is pending that a later step will answer for) and `BesideInv` (a file made
besides is whole but while it is written or about to be made good).  A chain needs the first run's files to be whole
while the second reads them; this is the same invariant, of the first run, once it
has ended.  An action is reduced to a few shapes of steps before the parts are
proved (`StepShape`, `StepKind`).

The attempt showed a defect of the model: what `Fails` does was a CASE with
overlapping guards, of which TLC takes the first that is true while TLA+ leaves the
choice open; the webhook's retry could have been an end.  The guards are now
disjoint.

### Only model-checked

Every liveness property and the fairness it rests on (the prover does not handle
ENABLED): `ReadyJobIsTaken`, `RunningJobEnds`, `SubmissionIsAnswered`,
`BacklogDrains`, `ContentIsProcessed`, `CoordinatorEnds`, `CommandsEnd`.

## 6. Not modelled

- *Preview player*: its handlers pass commands to a player process and what
  happens is decided inside mpv.
- *REST API*: the handlers answer with constants and keep no state beyond counters
  that nothing increments.
- *Preferences*: one process loads, migrates and saves a text; all of it is JSON
  parsing and formatting.
- *Rust port, Python bindings, other GUI pages*: a second implementation of what
  `Package` and `Commands` model; generated bindings; handlers that run the command
  line tool once per click and show its output.
- *Library functions nothing calls*: `hdr10plus`, `iab`, `inject_dolby_vision_metadata`,
  `create_multi_cpl_imp`, `detect_watermark`, `execute_hook`.
- *Arithmetic of time*: `timecode.cpp`, the retiming of subtitles and the rounding
  of edit rates are pure functions, left to unit tests; `Commands` has the commands
  around them.

Within the daemons: a second daemon on the same socket and store, a client that
connects and stays silent (the single read blocks all commands), commands whose
number does not parse (the exception ends the daemon, a kill in the model), the
text of `jobs.json`, framing and quoting of messages.  Within the desktop queue: `list_jobs` (two reads between
which a job may be in neither place) and progress events before the end.  Within
packaging: two annotate commands on one CPL, of which the later loses the
earlier's note (`Editors` may hold several; no property speaks of it, since
nothing in the repository does).  Within `Tools`: three or more commands at once,
directories that mix images of more than two kinds, numbers reported other than how many items
were made (sizes, durations, file counts of transfers), what the validators of
libdcpdoctor find, options that only change the text of a command line, shell
completion and plugins.
