-------------------------------- MODULE Tools --------------------------------
(***************************************************************************)
(* Two runs of the command line tool over one file system.                 *)
(*                                                                         *)
(* In a session the two share an output directory ("beside": at the same   *)
(* time, or one after the other, whatever became of the first), or the     *)
(* second reads what the first made and starts once it ended well ("then": *)
(* `a && b`, or a job that depends on another).  Each run performs the     *)
(* script its command has in Commands; a run may be killed.                *)
(*                                                                         *)
(* A file is torn while it is being written and if that fails; it is       *)
(* spoiled if what it was made from was not whole, or two runs wrote it at *)
(* a time; it is whole otherwise.  A tool given a torn file fails or makes *)
(* a spoiled one.                                                          *)
(***************************************************************************)
EXTENDS Commands, FiniteSets, FiniteSetsExt

CONSTANTS
  Sessions,   \* the sessions looked at
  MaxItems,   \* bound: frames, recipients, targets of one command
  MaxKills    \* bound: runs killed

Runs == {1, 2}

(* Who is run, how, and what the user gives: the names of the items of a   *)
(* run, <<>> if the command makes them up; and the images of another kind  *)
(* that are in the directory with those it works on.                       *)
Session ==
  [first : DOMAIN Scripts, second : DOMAIN Scripts, how : {"beside", "then"}, via : STRING,
   names : [Runs -> {<<>>} \cup [1 .. MaxItems -> 1 .. MaxItems]],
   strays : [Runs -> 0 .. MaxItems]]

(* encode and encode_j2k are the branches of one command, which goes by    *)
(* what it finds.                                                          *)
Fitting(s) ==
  /\ s.first \notin UserNamed => s.names[1] = <<>>
  /\ s.second \notin UserNamed => s.names[2] = <<>>
  /\ s.how = "then" /\ s.via = "frame" /\ s.second \in {"encode", "encode_j2k"} =>
       (s.second = "encode_j2k" <=> ImagesOf(s.first) = "j2k")

ASSUME ToolsAssumption ==
  /\ Sessions \subseteq Session /\ \A s \in Sessions : Fitting(s)
  /\ MaxItems \in Nat \ {0} /\ MaxKills \in Nat

Other(p) == 3 - p

VARIABLES
  session,  \* chosen once
  run,      \* per run: how far it is and what it keeps count of
  disk,     \* the files there are: in what state, the work of which run,
            \* and for which of its items (0: none)
  kills     \* so far

vars == <<session, run, disk, kills>>

(* A file: the directory it is in, its name, its number, the run if the    *)
(* name holds a fresh uuid, and for a frame the kind of image it is.       *)
Fresh  == {"video", "audio", "pkl", "cpl"}
Shared == {"report.html"}

Command(p) == IF p = 1 THEN session.first ELSE session.second
Script(p)  == Scripts[Command(p)]
Steps(p)   == Script(p).steps

Out(p) == IF p = 1 \/ session.how = "beside" THEN "out1" ELSE "out2"

File(p, x, i) ==
  <<IF x \in Shared THEN "tmp" ELSE Out(p), x, i, IF x \in Fresh THEN p ELSE 0,
    IF x = "frame" THEN ImagesOf(Command(p)) ELSE "">>

(* What stands for item i in the name of its file.                         *)
Name(p, i) == IF i \in DOMAIN session.names[p] THEN session.names[p][i] ELSE i

(* The second run of a "then" session reads the files of that name which   *)
(* the first one left, or only waits for it.                               *)
Follows(p) == p = 2 /\ session.how = "then"
Chained(p) == Follows(p) /\ session.via # ""

Reads(p) ==
  IF Chained(p) THEN {f \in DOMAIN disk : f[1] = "out1" /\ f[2] = session.via} ELSE {}

(* A command that looks for frames there passes over images of a kind it   *)
(* does not read.                                                          *)
TakesFrames(p) == Chained(p) /\ session.via = "frame" /\ Takes(Command(p)) # {}
Given(p) == {f \in Reads(p) : TakesFrames(p) => f[5] \in Takes(Command(p))}

-----------------------------------------------------------------------------
RunState ==
  [status : {"idle", "working", "ended", "killed"},
   at     : Nat,                \* the step, and the item of it
   item   : 1 .. MaxItems + 1,
   open   : BOOLEAN,            \* the step's file is being written
   failed : BOOLEAN,            \* the last step that may fail did
   noted  : BOOLEAN,            \* a failure was noted for the end
   n      : 0 .. MaxItems,      \* items listed
   got    : Nat,                \* things made
   told   : Nat,                \* the number reported
   slips  : BOOLEAN,            \* a silent write went wrong
   missed : BOOLEAN,            \* a tool whose exit code is ignored failed
   alone  : BOOLEAN,            \* the other was not at work when it started
   exit   : {0, 1, 2}]          \* exit code; 2 before the end

DiskState == [state : {"torn", "spoiled", "whole"}, of : Runs, item : 0 .. MaxItems]

TypeOK ==
  /\ session \in Sessions /\ kills \in 0 .. MaxKills
  /\ run \in [Runs -> RunState]
  /\ \A p \in Runs : run[p].status = "working" => run[p].at \in 1 .. Len(Steps(p)) + 1
  /\ \A f \in DOMAIN disk : disk[f] \in DiskState

Init ==
  /\ session \in Sessions /\ kills = 0 /\ disk = <<>>
  /\ run = [p \in Runs |->
              [status |-> "idle", at |-> 1, item |-> 1, open |-> FALSE, failed |-> FALSE,
               noted |-> FALSE, n |-> 0, got |-> 0, told |-> 0, slips |-> FALSE,
               missed |-> FALSE, alone |-> FALSE, exit |-> 2]]

Becomes(p, r) == run' = [run EXCEPT ![p] = r]
KeepDisk == UNCHANGED <<session, disk, kills>>

-----------------------------------------------------------------------------
(* CLI11 and the start of main().                                          *)
Parse(p) ==
  /\ run[p].status = "idle"
  /\ Follows(p) => run[1].exit = 0
  /\ LET r == [run[p] EXCEPT !.alone = run[Other(p)].status \in {"ended", "killed"}]
     IN  \/ /\ Command(p) \in Checked /\ Chained(p) /\ session.via # "frame" => Reads(p) # {}
            /\ Becomes(p, [r EXCEPT !.status = "working"])
         \/ Becomes(p, [r EXCEPT !.status = "ended", !.exit = 1])
  /\ KeepDisk

At(p, op) ==
  /\ run[p].status = "working" /\ run[p].at <= Len(Steps(p))
  /\ Steps(p)[run[p].at].op = op

Now(p) == Steps(p)[run[p].at]

(* A step with a condition is taken only if that holds.                    *)
Due(p) ==
  /\ Now(p).track \in TrackTypes \cup {"any"}
  /\ Now(p).when = "ok" => ~run[p].failed
  /\ Now(p).when = "failed" => run[p].failed

After(r) == [r EXCEPT !.at = @ + 1, !.item = 1, !.open = FALSE]

StopWith(r) == [r EXCEPT !.status = "ended", !.open = FALSE, !.exit = 1]

Skip(p) ==
  /\ run[p].status = "working" /\ run[p].at <= Len(Steps(p)) /\ ~run[p].open /\ run[p].item = 1
  /\ \/ ~Due(p) /\ Becomes(p, After(run[p]))
     \/ Now(p).when = "maybe" /\ Becomes(p, [After(run[p]) EXCEPT !.failed = FALSE])
  /\ KeepDisk

(* What a check looks for is there or is not; so is an input, which is a   *)
(* file of the user's or one the first run of the session left.            *)
Looks(p) ==
  /\ At(p, "check") \/ At(p, "input")
  /\ \/ /\ At(p, "input") /\ Chained(p) /\ session.via # "frame" => Reads(p) # {}
        /\ Becomes(p, After(run[p]))
     \/ Becomes(p, StopWith(run[p]))
  /\ KeepDisk

(* A package has all the tracks a command needs, under the names it goes   *)
(* by in read_imp_info.                                                    *)
Needs(p) ==
  /\ At(p, "need")
  /\ Becomes(p, IF Now(p).file \in TrackTypes THEN After(run[p]) ELSE StopWith(run[p]))
  /\ KeepDisk

Aborts(p) == At(p, "abort") /\ Due(p) /\ Becomes(p, StopWith(run[p])) /\ KeepDisk

(* The frames of the directory the first run wrote, or any number.         *)
Lists_Bug(p) ==
  /\ At(p, "list") /\ Due(p)
  /\ \E n \in IF TakesFrames(p) THEN {Max({0, Cardinality(Given(p)) - 1})} ELSE 0 .. MaxItems :
       Becomes(p, IF n = 0 /\ Now(p).fails = "stop" THEN StopWith(run[p])
                  ELSE [After(run[p]) EXCEPT !.n = n])
  /\ KeepDisk

Lists(p) ==
  /\ At(p, "list") /\ Due(p)
  /\ \E n \in IF TakesFrames(p) THEN {Cardinality(Given(p))} ELSE 0 .. MaxItems :
       Becomes(p, IF n = 0 /\ Now(p).fails = "stop" THEN StopWith(run[p])
                  ELSE [After(run[p]) EXCEPT !.n = n])
  /\ KeepDisk

Made(p) ==
  {f \in DOMAIN disk : f[1] = Out(p) /\ f[2] = "frame" /\ f[5] = ImagesOf(Command(p))}

(* A directory of the user's may hold images of a second kind.             *)
Strays(p) == IF Command(p) \in CountsAll /\ ~TakesFrames(p) THEN session.strays[p] ELSE 0

Counts(p) ==
  /\ \/ At(p, "tally")  /\ Due(p) /\ Becomes(p, [After(run[p]) EXCEPT !.told = Cardinality(Made(p))])
     \/ At(p, "report") /\ Becomes(p, [After(run[p]) EXCEPT !.told = run[p].n + Strays(p)])
     \/ At(p, "count")  /\ Becomes(p, [After(run[p]) EXCEPT !.told = run[p].got])
  /\ KeepDisk

Removes(p) ==
  /\ At(p, "remove")
  /\ LET f == File(p, Now(p).file, 0)
     IN  disk' = [g \in DOMAIN disk \ {f} |-> disk[g]]
  /\ Becomes(p, After(run[p])) /\ UNCHANGED <<session, kills>>

-----------------------------------------------------------------------------
(* Making files.                                                           *)
Makes(p) == (At(p, "make") \/ At(p, "until")) /\ Due(p)

Items_Bug(p) == IF Now(p).each THEN run[p].n + 1 ELSE 1

Items(p)  == IF Now(p).each THEN run[p].n ELSE 1
Number(p) == IF Now(p).each THEN run[p].item ELSE 0
Target(p) == File(p, Now(p).file, IF Now(p).each THEN Name(p, run[p].item) ELSE 0)

Put(f, s, q, i) ==
  disk' = [g \in DOMAIN disk \cup {f} |->
             IF g = f THEN [state |-> s, of |-> q, item |-> i] ELSE disk[g]]

(* What the file is made from: the run that made that, or none if it is    *)
(* gone, and whether it is whole.                                          *)
Temporary(p) == File(p, Now(p).needs, 0)
Maker(p) ==
  IF Now(p).needs = "" THEN p
  ELSE IF Temporary(p) \in DOMAIN disk THEN disk[Temporary(p)].of ELSE 0

Sources(p) ==
  (IF Now(p).needs = "" THEN {} ELSE {Temporary(p)}) \cup
  {f \in Given(p) : Now(p).each /\ TakesFrames(p) => f[3] = run[p].item}

SoundSources(p) == \A f \in Sources(p) : f \in DOMAIN disk /\ disk[f].state = "whole"

Opens(p) ==
  /\ Makes(p) /\ ~run[p].open /\ run[p].item <= Items(p)
  /\ Put(Target(p), "torn", p, Number(p))
  /\ Becomes(p, [run[p] EXCEPT !.open = TRUE])
  /\ UNCHANGED <<session, kills>>

Exhausted(p) ==
  /\ Makes(p) /\ ~run[p].open /\ run[p].item > Items(p)
  /\ Becomes(p, IF At(p, "until") THEN StopWith(run[p])
                ELSE IF Now(p).each /\ Now(p).fails # "go" /\ Items(p) > 0
                THEN [After(run[p]) EXCEPT !.got = @ + 1, !.failed = FALSE]
                ELSE After(run[p]))
  /\ KeepDisk

(* The next item, the same again, or the next step.                        *)
Onward(p, r) ==
  IF At(p, "until") THEN After(r)
  ELSE IF ~Now(p).each THEN [After(r) EXCEPT !.got = @ + 1]
  ELSE [r EXCEPT !.open = FALSE, !.item = IF Now(p).again THEN @ ELSE @ + 1,
                 !.got = IF Now(p).fails = "go" /\ ~Now(p).again THEN @ + 1 ELSE @]

Closes(p) ==
  /\ Makes(p) /\ run[p].open /\ Maker(p) # 0
  /\ LET torn == [state |-> "torn", of |-> p, item |-> Number(p)]
         mine == Target(p) \in DOMAIN disk /\ disk[Target(p)] = torn
     IN  Put(Target(p), IF mine /\ SoundSources(p) THEN "whole" ELSE "spoiled", Maker(p), Number(p))
  /\ Becomes(p, Onward(p, [run[p] EXCEPT !.failed = IF Now(p).fails = "next" THEN FALSE ELSE @]))
  /\ UNCHANGED <<session, kills>>

(* A full disk, say, that a stream does not report.                        *)
Slips(p) ==
  /\ Makes(p) /\ run[p].open /\ Now(p).silent
  /\ Becomes(p, Onward(p, [run[p] EXCEPT !.slips = TRUE]))
  /\ KeepDisk

NextItem(r) == [r EXCEPT !.open = FALSE, !.item = @ + 1]

Fails(p) ==
  /\ Makes(p) /\ run[p].open /\ ~Now(p).silent
  /\ LET r == run[p]
         unseen == [r EXCEPT !.missed = TRUE]
     IN  Becomes(p,
           IF Now(p).op = "until" THEN NextItem(r)
           ELSE CASE Now(p).fails = "stop" -> StopWith(r)
                  [] Now(p).fails = "next" -> [After(r) EXCEPT !.failed = TRUE]
                  [] Now(p).fails = "note" -> [NextItem(r) EXCEPT !.noted = TRUE]
                  [] Now(p).fails = "go"   ->
                       IF Now(p).again THEN [unseen EXCEPT !.open = FALSE]
                       ELSE IF Now(p).each THEN NextItem(unseen) ELSE After(unseen))
  /\ KeepDisk

-----------------------------------------------------------------------------
(* The handler in main() looks at the result.                              *)
Succeeds(p) == ~run[p].noted /\ (Script(p).some => run[p].got > 0)

Ends(p) ==
  /\ run[p].status = "working" /\ run[p].at = Len(Steps(p)) + 1
  /\ \E e \in {0, 1} :
       /\ CASE Script(p).exit = "always"  -> e = 0
            [] Script(p).exit = "verdict" -> Succeeds(p) \/ e = 1
            [] OTHER                      -> e = IF Succeeds(p) THEN 0 ELSE 1
       /\ Becomes(p, [run[p] EXCEPT !.status = "ended", !.exit = e])
  /\ KeepDisk

Work(p) ==
  \/ Skip(p) \/ Looks(p) \/ Needs(p) \/ Aborts(p) \/ Lists(p) \/ Counts(p) \/ Removes(p)
  \/ Opens(p) \/ Exhausted(p) \/ Closes(p) \/ Slips(p) \/ Fails(p) \/ Ends(p)

Kill(p) ==
  /\ run[p].status = "working" /\ kills < MaxKills /\ kills' = kills + 1
  /\ Becomes(p, [run[p] EXCEPT !.status = "killed", !.open = FALSE])
  /\ UNCHANGED <<session, disk>>

Next == \E p \in Runs : Parse(p) \/ Work(p) \/ Kill(p)

(* A run that has started goes on; the tools it calls come to an end.      *)
Spec == Init /\ [][Next]_vars /\ \A p \in Runs : WF_vars(Work(p))

-----------------------------------------------------------------------------
EndedWell(p) == run[p].exit = 0

(* The other run did not get in the way: it wrote elsewhere, was over      *)
(* before this one began, or has not begun.                                *)
Undisturbed(p) ==
  \/ session.how # "beside"
  \/ run[Other(p)].status = "idle"
  \/ run[p].alone

(* What a command is for: files, or one file for every item.               *)
Frames ==
  {"transcode", "transcode_png", "encode", "lut", "aces", "watermark", "slate", "mxf_extract"}

PerItem(c) ==
  CASE c \in Frames        -> {"frame"}
    [] c = "deliver"       -> {"package"}
    [] c = "kdm"           -> {"kdm"}
    [] c = "otioz_import"  -> {"media"}
    [] OTHER               -> {}

Single(c) ==
  CASE c \in {"create", "supplement", "conform"}                 -> {"package"}
    [] c \in {"burn_in", "dv81", "dv81_p4"}                      -> {"movie"}
    [] c \in {"mca", "captions", "retime", "subtitle_convert"}   -> {"text"}
    [] c \in {"audio_desc", "channel_map"}                       -> {"wav"}
    [] c \in {"upload", "aspera"}                                -> {"remote"}
    [] c \in {"report", "qc_report"}                             -> {"html"}
    [] c = "prores"          -> {"video", "pkl", "cpl", "ASSETMAP.xml"}
    [] c = "partial_version" -> {"movie", "CPL.xml"}
    [] c = "to_dcp"          -> {"video", "CPL.xml", "VOLINDEX.xml", "ASSETMAP.xml"}
    [] c = "atmos"           -> {"iab"}
    [] c = "preview"         -> {"still"}
    [] c = "pdf_report"      -> {"pdf"}
    [] c = "sdi_preview"     -> {"device"}
    [] OTHER                 -> {}

ProductNames(c) == PerItem(c) \cup Single(c)

(* Files it may make besides, if its input or an option asks for them.     *)
Besides(c) ==
  CASE c \in {"prores", "to_dcp"} -> {"audio"}
    [] c = "slate"                -> {"tone"}
    [] c = "partial_version"      -> {"wav"}
    [] c \in {"dv81", "dv81_p4"}  -> {"sidecar"}
    [] c = "otioz_import"         -> {"CPL.xml"}
    [] c = "analytics"            -> {"text"}
    [] OTHER                      -> {}

(* The first run of the session vouches for what the second reads.         *)
Vouched(p) == Chained(p) => ~run[1].slips /\ session.via \in ProductNames(session.first)

(* A file of run p is there, and is what it should be: for an item, its    *)
(* own or that of a later item which has the same name.                    *)
IsWhole(p, x) ==
  File(p, x, 0) \in DOMAIN disk /\ disk[File(p, x, 0)] = [state |-> "whole", of |-> p, item |-> 0]

Namesakes(p, i) == {m \in i .. run[p].n : Name(p, m) = Name(p, i)}

HoldsItem(p, x, i) ==
  LET f == File(p, x, Name(p, i))
  IN  f \in DOMAIN disk /\ \E m \in Namesakes(p, i) : disk[f] = [state |-> "whole", of |-> p, item |-> m]

NotTorn(p, x) ==
  LET f == File(p, x, 0)
  IN  f \in DOMAIN disk /\ disk[f].of = p => disk[f].state = "whole"

(* A command that ends with 0 has made all that it is for, whole and from  *)
(* its own input, whatever an earlier run, even one that was killed, left  *)
(* in its directory; and so has a chain of commands.  What it made         *)
(* besides, it made whole.  Excepted are                                   *)
(*   - an item whose name a later one has too: the later one takes its     *)
(*     place (two recipients of a KDM whose certificates have one name, a  *)
(*     target of deliver that is given twice), and no more is promised;    *)
(*   - what a stream lost, which the code never asks (slips);              *)
(*   - the sound of prores and the tone of slate if ffmpeg failed for      *)
(*     them, which the code never asks either (missed);                    *)
(*   - the frames of ctlrender, strips and thumbnails, any of which may be *)
(*     missing or torn, and an RPU that could not be converted.            *)
ZeroMeansWhole ==
  \A p \in Runs :
    EndedWell(p) /\ ~run[p].slips /\ Undisturbed(p) /\ Vouched(p) =>
      /\ \A x \in PerItem(Command(p)) : \A i \in 1 .. run[p].n : HoldsItem(p, x, i)
      /\ \A x \in Single(Command(p))  : IsWhole(p, x)
      /\ \A x \in Besides(Command(p)) : ~run[p].missed => NotTorn(p, x)

(* The number of frames reported is that of the frames the command was     *)
(* given; or more, if another run left a longer sequence behind it, never  *)
(* more than that one's, or if a directory of the user's has images of two *)
(* kinds, of which lut counts both.                                        *)
TallyIsExplained ==
  \A p \in Runs :
    EndedWell(p) /\ Command(p) \in Frames \ {"mxf_extract"} /\ run[p].told > 0 =>
      /\ run[p].told >= run[p].n
      /\ run[p].told > run[p].n =>
           \/ session.how = "beside" /\ run[p].told <= run[Other(p)].n
           \/ run[p].told = run[p].n + Strays(p)

(* Of the frames a command made for the next to work on none is lost: that *)
(* one lists them all if it reads their kind, and fails if it does not.    *)
(* watermark does not fail: given other images, it has nothing to do.      *)
ChainKeepsFrames ==
  LET c == session.second
  IN  EndedWell(2) /\ TakesFrames(2) /\ session.first \in Frames \ {"mxf_extract"} =>
        \/ run[2].n = run[1].n
        \/ c = "watermark" /\ ImagesOf(session.first) \notin Takes(c) /\ run[2].n = 0

(* info.h says of a track's type: "video", "audio".  A package that create *)
(* made has a video track, so to-dcp never stops for lack of one.          *)
VideoIsFound ==
  \A p \in Runs :
    Command(p) = "to_dcp" /\ Chained(p) /\ run[p].status = "ended" /\ run[p].at <= Len(Steps(p)) =>
      Steps(p)[run[p].at].op # "need"

(* A command that was started comes to an end; not so thumbnails at an     *)
(* interval of 0 frames, which nothing forbids.                            *)
CommandsEnd ==
  \A p \in Runs :
    Command(p) # "mxf_thumbs_0" /\ run[p].status = "working" ~> run[p].status # "working"
-----------------------------------------------------------------------------
(* The strengthening the proofs need.  First what is asked of a script     *)
(* `s`, the sequence of its steps: a command with products has a script    *)
(* from which it follows that they are whole when it ends with 0.          *)
Making == {"make", "until"}
Unconditional(st) == st.track = "any" /\ st.when = "any"

(* Step j lists the items once for all, or makes a file for each of them.  *)
ListedBefore(s, j) == \E l \in 1 .. j - 1 : s[l].op = "list"
EachStep(s, j) ==
  /\ s[j].op = "make" /\ s[j].each /\ ~s[j].again /\ s[j].fails \in {"stop", "note"}
  /\ Unconditional(s[j]) /\ ListedBefore(s, j)

(* No later step makes the same file again.                                *)
Final(s, j) ==
  \A k \in j + 1 .. Len(s) : s[k].op \in Making /\ s[k].each => s[k].file # s[j].file

Writes(st, x)  == st.op \in Making /\ ~st.each /\ st.file = x
Touches(st, x) == Writes(st, x) \/ (st.op = "remove" /\ st.file = x)
Untouched(s, x, i, k) == \A m \in i + 1 .. k - 1 : ~Touches(s[m], x)

(* A step that writes x or ends the command.                               *)
Insists(st, x) == Writes(st, x) /\ st.op = "make" /\ st.fails = "stop" /\ st.track = "any"

(* It reads nothing made before; or what the steps before it see to.       *)
SelfMade(s, y, k) ==
  \E j \in 1 .. k - 1 :
    /\ Insists(s[j], y) /\ s[j].when = "any" /\ s[j].needs = "" /\ Untouched(s, y, j, k)
Supplied(s, j) == s[j].needs = "" \/ (s[j].needs # s[j].file /\ SelfMade(s, s[j].needs, j))

(* After this step it may be that none has failed though one did.          *)
Forgives(st) ==
  st.each \/ st.when = "maybe" \/ (st.when # "ok" /\ st.op \in Making /\ st.fails = "next")

(* Before step k, x is there unless a step has failed; or is there anyway. *)
ThereUnlessFailed(s, x, k) ==
  \E i \in 1 .. k - 1 :
    /\ Writes(s[i], x) /\ s[i].op = "make" /\ s[i].fails = "next" /\ Unconditional(s[i])
    /\ Supplied(s, i) /\ Untouched(s, x, i, k)
    /\ \A m \in i + 1 .. k - 1 : ~Forgives(s[m])

There(s, x, k) ==
  \E j \in 1 .. k - 1 :
    /\ Untouched(s, x, j, k)
    /\ \/ Insists(s[j], x) /\ s[j].when = "any" /\ Supplied(s, j)
       \/ Insists(s[j], x) /\ s[j].when = "failed" /\ Supplied(s, j) /\ ThereUnlessFailed(s, x, j)
       \/ /\ s[j].op = "abort" /\ s[j].when = "failed" /\ s[j].track = "any" /\ ~s[j].each
          /\ ThereUnlessFailed(s, x, j)

WellFormed(sc) ==
  /\ DOMAIN sc.steps = 1 .. Len(sc.steps) /\ Len(sc.steps) \in Nat
  /\ sc.exit \in {"success", "verdict", "always"} /\ sc.some \in BOOLEAN
  /\ \A k \in DOMAIN sc.steps :
       LET st == sc.steps[k]
       IN  /\ st \in StepSet
           /\ st.again \/ st.op = "until" \/ st.fails = "note" => st.each
           /\ st.op \in Making /\ st.file = "frame" => st.each
           /\ st.op = "remove" => st.file # "frame"
           /\ st.op = "list" => \A l \in DOMAIN sc.steps : sc.steps[l].op = "list" => l = k

(* All that a command is for, the tally included.                          *)
MakesPerItem(s, x) ==
  /\ \E j \in DOMAIN s : EachStep(s, j) /\ s[j].file = x /\ s[j].needs = "" /\ Final(s, j)
  /\ \A k \in DOMAIN s : s[k].op \in Making /\ s[k].file = x => s[k].each

MakesOne(s, x) ==
  /\ There(s, x, Len(s) + 1)
  /\ \A k \in DOMAIN s : s[k].op \in Making /\ s[k].file = x => ~s[k].each

(* x is made besides, if at all: a step that fails ends the command, is    *)
(* missed, or is made good by the next one.                                *)
Amends(s, k, x) ==
  /\ k \in DOMAIN s /\ Writes(s[k], x) /\ s[k].op = "make"
  /\ s[k].when = "failed" /\ s[k].track = "any"

MakesBeside(s, x) ==
  \A k \in DOMAIN s : s[k].op \in Making /\ s[k].file = x =>
    /\ s[k].op = "make" /\ ~s[k].each /\ s[k].needs = ""
    /\ s[k].fails \in {"stop", "go"} \/ (s[k].fails = "next" /\ Amends(s, k + 1, x))

TalliesFrames(s) ==
  \A k \in DOMAIN s :
    /\ s[k].op # "count"
    /\ s[k].op = "tally" => \E j \in 1 .. k - 1 : EachStep(s, j) /\ s[j].file = "frame"
    /\ s[k].op \in {"tally", "report"} => ListedBefore(s, k)

(* Frames are listed come what may; and it does not end well if there are  *)
(* none.                                                                   *)
ListsFrames(s) == \E k \in DOMAIN s : s[k].op = "list" /\ Unconditional(s[k])
AllEach(s) == \A k \in DOMAIN s : s[k].op \in Making => s[k].op = "make" /\ s[k].each

WantsFrames(sc) ==
  \/ \A k \in DOMAIN sc.steps : sc.steps[k].op = "list" => sc.steps[k].fails = "stop"
  \/ AllEach(sc.steps) /\ sc.some /\ sc.exit # "always"

NoFrames(s) == \A k \in DOMAIN s : s[k].op \in Making => s[k].file # "frame"

Fits(c, sc) ==
  /\ WellFormed(sc)
  /\ \A x \in PerItem(c) : x \notin Shared /\ MakesPerItem(sc.steps, x) /\ sc.exit # "always"
  /\ \A x \in Single(c)  : x \notin Shared /\ MakesOne(sc.steps, x)
  /\ \A x \in Besides(c) : x \notin Shared /\ MakesBeside(sc.steps, x)
  /\ Takes(c) # {} => ListsFrames(sc.steps) /\ (c # "watermark" => WantsFrames(sc))
  /\ c \in Frames \ {"mxf_extract"} => TalliesFrames(sc.steps)
  /\ c \in UserNamed => NoFrames(sc.steps)

ScriptsFit == \A c \in DOMAIN Scripts : Fits(c, Scripts[c])

-----------------------------------------------------------------------------
(* Then the invariant.                                                     *)
ControlInv ==
  \A p \in Runs :
    /\ run[p].at \in 1 .. Len(Steps(p)) + 1
    /\ run[p].status \in {"idle", "working"} => run[p].exit = 2
    /\ run[p].status = "killed" => run[p].exit = 2
    /\ EndedWell(p) =>
         /\ run[p].at = Len(Steps(p)) + 1
         /\ Script(p).exit = "always" \/ Succeeds(p)
    /\ run[p].status = "idle" => run[p].at = 1 /\ run[p].item = 1 /\ run[p].n = 0 /\ ~run[p].alone
    /\ run[p].open => /\ run[p].status = "working" /\ run[p].at <= Len(Steps(p))
                      /\ Now(p).op \in Making /\ run[p].item <= Items(p)
    /\ run[p].at <= Len(Steps(p)) /\ ~Now(p).each /\ Now(p).op # "until" /\ Now(p).fails # "note"
         => run[p].item = 1
    /\ run[p].at > Len(Steps(p)) => run[p].item = 1
    /\ run[p].alone => run[Other(p)].status \in {"ended", "killed"}
    /\ Follows(p) /\ run[p].status # "idle" => EndedWell(1)
    /\ AllEach(Steps(p)) /\ run[p].n = 0 => run[p].got = 0

(* Items are listed once.                                                  *)
ListInv ==
  \A p \in Runs : \A l \in DOMAIN Steps(p) :
    Steps(p)[l].op = "list" /\ run[p].at <= l => run[p].n = 0

(* Every file is one that a step of a run's script makes.                  *)
MadeBy(f, q) ==
  \E k \in DOMAIN Steps(q) :
    /\ Steps(q)[k].op \in Making
    /\ \/ ~Steps(q)[k].each /\ f = File(q, Steps(q)[k].file, 0)
       \/ /\ Steps(q)[k].each
          /\ \E i \in 1 .. run[q].n : f = File(q, Steps(q)[k].file, Name(q, i))

DiskInv ==
  /\ IsFiniteSet(DOMAIN disk)
  /\ \A f \in DOMAIN disk : \E q \in Runs : MadeBy(f, q)
  /\ \A f \in DOMAIN disk : run[disk[f].of].status # "idle"

(* How many items step j has been through.                                 *)
Reached(p, j) ==
  IF run[p].at > j THEN run[p].n ELSE IF run[p].at = j THEN run[p].item - 1 ELSE 0

ExistInv ==
  \A p \in Runs :
    /\ run[p].open /\ Now(p).each => Target(p) \in DOMAIN disk
    /\ \A j \in DOMAIN Steps(p) :
         EachStep(Steps(p), j) =>
           \A i \in 1 .. Reached(p, j) : File(p, Steps(p)[j].file, Name(p, i)) \in DOMAIN disk

(* The other run does not interfere, and nothing was lost in a stream.     *)
Trusted(p) == ~run[p].slips /\ Undisturbed(p) /\ Vouched(p)

(* An open file is the run's own.                                          *)
TornInv ==
  \A p \in Runs :
    run[p].open /\ Undisturbed(p) =>
      Target(p) \in DOMAIN disk /\ disk[Target(p)] = [state |-> "torn", of |-> p, item |-> Number(p)]

Counted(p, x) == run[p].status = "working" \/ (EndedWell(p) /\ x \notin Shared)

(* An item's file is being written, or written again for a later item.     *)
Reopened(p, j, i) == run[p].open /\ run[p].at = j /\ Name(p, run[p].item) = Name(p, i)

EachInv ==
  \A p \in Runs : \A j \in DOMAIN Steps(p) :
    LET s == Steps(p)
    IN  /\ Trusted(p) /\ ~run[p].noted /\ Counted(p, s[j].file)
        /\ EachStep(s, j) /\ s[j].needs = "" /\ Final(s, j)
        => \A i \in 1 .. Reached(p, j) : ~Reopened(p, j, i) => HoldsItem(p, s[j].file, i)

Rewriting(p, x) == run[p].open /\ Writes(Now(p), x)
AtEach(p) == run[p].at <= Len(Steps(p)) /\ Now(p).each

OneInv ==
  \A p \in Runs : \A x \in Names :
    /\ Trusted(p) /\ Counted(p, x) /\ ~Rewriting(p, x)
    /\ \/ There(Steps(p), x, run[p].at)
       \/ ThereUnlessFailed(Steps(p), x, run[p].at) /\ ~run[p].failed /\ ~AtEach(p)
    => IsWhole(p, x)

(* What a command makes besides is whole but while it is made, or about to *)
(* be made good.                                                           *)
BesideInv ==
  \A p \in Runs : \A x \in Names :
    /\ MakesBeside(Steps(p), x) /\ Trusted(p) /\ ~run[p].missed /\ Counted(p, x)
    /\ ~Rewriting(p, x) /\ ~(run[p].failed /\ Amends(Steps(p), run[p].at, x))
    => NotTorn(p, x)

TallyInv ==
  \A p \in Runs :
    Command(p) \in Frames \ {"mxf_extract"} /\ run[p].told > 0 =>
      /\ run[p].told >= run[p].n
      /\ run[p].told > run[p].n =>
           \/ session.how = "beside" /\ run[p].told <= run[Other(p)].n
           \/ run[p].told = run[p].n + Strays(p)
      /\ \A l \in DOMAIN Steps(p) : Steps(p)[l].op = "list" => l < run[p].at

ChainInv ==
  TakesFrames(2) /\ session.first \in Frames /\ run[2].status # "idle" =>
    \A l \in DOMAIN Steps(2) :
      Steps(2)[l].op = "list" /\ Unconditional(Steps(2)[l]) /\ run[2].at > l =>
        /\ run[2].n = IF ImagesOf(session.first) \in Takes(session.second) THEN run[1].n ELSE 0
        /\ run[2].n = 0 => Steps(2)[l].fails # "stop"

ToolsInv ==
  /\ TypeOK /\ ControlInv /\ ListInv /\ DiskInv /\ ExistInv
  /\ TornInv /\ EachInv /\ OneInv /\ BesideInv /\ TallyInv /\ ChainInv
=============================================================================
