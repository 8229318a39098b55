----------------------------- MODULE WatchFolder -----------------------------
(***************************************************************************)
(* `imfwizard watch` (src/src/watch.cpp, and its handler in main.cpp): one *)
(* process looks at the folders of a directory, by inotify events or by    *)
(* polling, and runs a list of actions on each folder that seems complete. *)
(*                                                                         *)
(* The people and programs that deliver the folders act meanwhile.  An     *)
(* inotify event tells that an entry appeared in the watched directory; a  *)
(* file that arrives inside a folder gives none.  A folder is stable if    *)
(* two scans some seconds apart find the same files and bytes.             *)
(*                                                                         *)
(* Abstractions: the content of a folder is how many of its pieces have    *)
(* arrived; the first file with an extension that counts as media comes    *)
(* with piece MediaAt.  What an action does is its outcome; create_ov_imp  *)
(* is modelled in Package.  A removed folder makes directory_iterator      *)
(* throw, which ends the process: nothing catches.                         *)
(*                                                                         *)
(* A definition whose name ends in _Bug is a deliberate fault: it is used  *)
(* by no action, only to test that a property can fail.                    *)
(***************************************************************************)
EXTENDS Naturals, Sequences, FiniteSets, SequencesExt

CONSTANTS
  Folders,    \* names of content folders
  Pieces,     \* pieces a complete folder consists of
  MediaAt,    \* the piece that brings the first media file
  Actions,    \* config.actions, in order
  Inotify,    \* config.use_inotify
  MaxMoves,   \* bound: removals of folders
  MaxStarts   \* bound: starts of the process

(* A directory has finitely many entries.                                  *)
ASSUME WatchFolderAssumption ==
  /\ IsFiniteSet(Folders)
  /\ Pieces \in Nat \ {0} /\ MediaAt \in 1 .. Pieces
  /\ Actions \in Seq({"imp", "qc", "validate", "checksum", "hdr", "custom"})
  /\ Inotify \in BOOLEAN /\ MaxMoves \in Nat /\ MaxStarts \in Nat \ {0}

Gone == Pieces + 1

VARIABLES
  have,       \* per folder: pieces in the watched directory, Gone for none
  events,     \* inotify events the process has not read
  mode,       \* "off", "inotify", "poll"
  wpc,        \* "wait", "look", "rescan", "media", "act"
  todo,       \* the names still to look at in this round
  seen,       \* content found by the first scan of is_dir_stable
  processed,  \* the set `processed`
  moves, starts

(* Auxiliary: history, which guards no action but by the bounds.           *)
VARIABLES
  ran,        \* per folder: outcomes of the actions run in this life
  arriving    \* folders last passed over because they were not stable

folder  == <<have, moves>>
watcher == <<mode, wpc, todo, seen, processed, starts>>
ghost   == <<ran, arriving>>
vars    == <<folder, events, watcher, ghost>>

TypeOK ==
  /\ have \in [Folders -> 0 .. Gone]
  /\ events \in Seq(Folders) /\ todo \in Seq(Folders)
  /\ mode \in {"off", "inotify", "poll"}
  /\ wpc \in {"wait", "look", "rescan", "media", "act"}
  /\ wpc \in {"rescan", "media", "act"} => todo # <<>>
  /\ seen \in 0 .. Pieces
  /\ processed \subseteq Folders /\ arriving \subseteq Folders
  /\ ran \in [Folders -> Seq(BOOLEAN)]
  /\ moves \in 0 .. MaxMoves /\ starts \in 0 .. MaxStarts

Present(f) == have[f] # Gone
Complete(f) == have[f] = Pieces
Now == Head(todo)

-----------------------------------------------------------------------------
(* Those who deliver.  An event is raised for a new entry only.            *)
Raise(f) == events' = IF mode = "inotify" THEN Append(events, f) ELSE events

MakeDir(f) ==
  /\ ~Present(f) /\ have' = [have EXCEPT ![f] = 0] /\ Raise(f)
  /\ UNCHANGED <<moves, watcher, ghost>>

MoveIn(f) ==
  /\ ~Present(f) /\ have' = [have EXCEPT ![f] = Pieces] /\ Raise(f)
  /\ UNCHANGED <<moves, watcher, ghost>>

Arrive(f) ==
  /\ Present(f) /\ have[f] < Pieces
  /\ have' = [have EXCEPT ![f] = @ + 1]
  /\ UNCHANGED <<moves, events, watcher, ghost>>

TakeAway(f) ==
  /\ Present(f) /\ moves < MaxMoves
  /\ have' = [have EXCEPT ![f] = Gone] /\ moves' = moves + 1
  /\ UNCHANGED <<events, watcher, ghost>>

-----------------------------------------------------------------------------
(* watch_folder: inotify if it can be set up, else polling.                *)
Start ==
  /\ mode = "off" /\ starts < MaxStarts
  /\ mode' \in IF Inotify THEN {"inotify", "poll"} ELSE {"poll"}
  /\ wpc' = "wait" /\ starts' = starts + 1
  /\ processed' = {} /\ arriving' = {} /\ ran' = [f \in Folders |-> <<>>]
  /\ UNCHANGED <<folder, events, todo, seen>>

Ends_Bug == mode' = "off" /\ todo' = <<>> /\ events' = <<>> /\ UNCHANGED wpc

(* It ends by a signal or by an exception; events unread are lost.         *)
Ends == mode' = "off" /\ wpc' = "wait" /\ todo' = <<>> /\ events' = <<>>

Kill ==
  /\ mode # "off" /\ Ends
  /\ UNCHANGED <<folder, seen, processed, starts, ghost>>

(* A round: all the events there are, or a listing of the directory.       *)
ReadEvents ==
  /\ mode = "inotify" /\ wpc = "wait" /\ events # <<>>
  /\ todo' = events /\ events' = <<>> /\ wpc' = "look"
  /\ UNCHANGED <<folder, mode, seen, processed, starts, ghost>>

Poll_Bug ==
  /\ mode = "poll" /\ wpc = "wait"
  /\ todo' \in SetToSeqs({f \in Folders : Present(f) /\ f \notin arriving})
  /\ wpc' = "look"
  /\ UNCHANGED <<folder, events, mode, seen, processed, starts, ghost>>

Poll ==
  /\ mode = "poll" /\ wpc = "wait"
  /\ todo' \in SetToSeqs({f \in Folders : Present(f)})
  /\ wpc' = "look"
  /\ UNCHANGED <<folder, events, mode, seen, processed, starts, ghost>>

Skip == todo' = Tail(todo) /\ wpc' = "look"

RoundEnds ==
  /\ wpc = "look" /\ todo = <<>> /\ wpc' = "wait"
  /\ UNCHANGED <<folder, events, mode, todo, seen, processed, starts, ghost>>

(* Processed already, or no directory; else is_dir_stable's first scan.    *)
Look ==
  /\ wpc = "look" /\ todo # <<>>
  /\ IF Now \in processed \/ ~Present(Now)
     THEN Skip /\ UNCHANGED seen
     ELSE wpc' = "rescan" /\ seen' = have[Now] /\ UNCHANGED todo
  /\ arriving' = arriving \ {Now}
  /\ UNCHANGED <<folder, events, mode, processed, starts, ran>>

(* is_dir_stable's second scan; a directory that is gone is not stable.    *)
Rescan ==
  /\ wpc = "rescan"
  /\ IF have[Now] = seen
     THEN wpc' = "media" /\ UNCHANGED <<todo, arriving>>
     ELSE Skip /\ arriving' = IF Present(Now) THEN arriving \cup {Now} ELSE arriving
  /\ UNCHANGED <<folder, events, mode, seen, processed, starts, ran>>

(* has_media_content; the folder is marked before its actions run.         *)
HasMedia ==
  /\ wpc = "media" /\ Present(Now)
  /\ IF have[Now] >= MediaAt
     THEN wpc' = "act" /\ processed' = processed \cup {Now} /\ UNCHANGED todo
     ELSE Skip /\ UNCHANGED processed
  /\ UNCHANGED <<folder, events, mode, seen, starts, ghost>>

Act_Bug ==
  /\ wpc = "act" /\ Len(ran[Now]) < Len(Actions)
  /\ \E ok \in BOOLEAN :
       /\ ran' = [ran EXCEPT ![Now] = Append(@, ok)]
       /\ IF ok THEN UNCHANGED <<wpc, todo>> ELSE Skip
  /\ UNCHANGED <<folder, events, mode, seen, processed, starts, arriving>>

(* run_action_pipeline: one action, whatever became of those before it.    *)
(* Checksums, validation and a custom command look at the folder in a      *)
(* process or library of their own and do not throw.                       *)
Act ==
  /\ wpc = "act" /\ Len(ran[Now]) < Len(Actions)
  /\ Present(Now) \/ Actions[Len(ran[Now]) + 1] \in {"validate", "checksum", "custom"}
  /\ \E ok \in BOOLEAN : ran' = [ran EXCEPT ![Now] = Append(@, ok)]
  /\ UNCHANGED <<folder, events, watcher, arriving>>

PipelineEnds ==
  /\ wpc = "act" /\ Len(ran[Now]) = Len(Actions) /\ Skip
  /\ UNCHANGED <<folder, events, mode, seen, processed, starts, ghost>>

(* directory_iterator on a folder that was taken away.                     *)
Throws ==
  /\ wpc \in {"media", "act"} /\ ~Present(Now)
  /\ \/ wpc = "media"
     \/ /\ wpc = "act" /\ Len(ran[Now]) < Len(Actions)
        /\ Actions[Len(ran[Now]) + 1] \in {"imp", "qc", "hdr"}
  /\ Ends
  /\ UNCHANGED <<folder, seen, processed, starts, ghost>>

Init ==
  /\ have \in [Folders -> {Pieces, Gone}]
  /\ events = <<>> /\ mode = "off" /\ wpc = "wait" /\ todo = <<>> /\ seen = 0
  /\ processed = {} /\ moves = 0 /\ starts = 0
  /\ ran = [f \in Folders |-> <<>>] /\ arriving = {}

Watch ==
  ReadEvents \/ Poll \/ RoundEnds \/ Look \/ Rescan \/ HasMedia \/ Act \/ PipelineEnds \/ Throws

Next ==
  \/ \E f \in Folders : MakeDir(f) \/ MoveIn(f) \/ Arrive(f) \/ TakeAway(f)
  \/ Start \/ Kill \/ Watch

(* The process goes on as long as it lives.                                *)
Spec == Init /\ [][Next]_vars /\ WF_vars(Watch)

-----------------------------------------------------------------------------
(* Every action of the list is tried on a folder that was marked as        *)
(* processed: a failed one does not keep the later ones from running, and  *)
(* the mark, set before the first, is never all that happened, unless the  *)
(* process ended in the middle.                                            *)
EveryActionRuns ==
  \A f \in processed :
    \/ mode = "off"
    \/ wpc = "act" /\ Now = f
    \/ Len(ran[f]) = Len(Actions)

(* Of a complete folder that stays, one that is polled for, or whose entry *)
(* is still to be read as an event, is processed.  Only a removal in the   *)
(* middle of a look, or a kill, can end the watch.                         *)
Awaited(f) == mode = "poll" \/ (mode = "inotify" /\ f \in Range(events))

ContentIsProcessed ==
  \A f \in Folders :
    (Complete(f) /\ Awaited(f)) ~> (f \in processed \/ ~Complete(f) \/ mode = "off")

(* "Content still arriving for {}, will retry" (watch.cpp:305): a folder   *)
(* that was passed over because it was not stable is looked at again.      *)
ArrivingIsRetried ==
  \A f \in Folders :
    (f \in arriving /\ mode # "off") ~> (f \notin arriving \/ ~Present(f) \/ mode = "off")
=============================================================================
