-------------------------------- MODULE Package --------------------------------
(***************************************************************************)
(* The files of an Interoperable Master Package and the commands that make *)
(* and change them: create_ov_imp (src/imp.cpp), create_supplemental_imp   *)
(* (src/supplemental.cpp) and annotate_cpl (src/cpl_annotation.cpp), with  *)
(* what they call in encode, mxf_wrap, timed_text, cpl, pkl, assetmap,     *)
(* signature, hash and info.                                               *)
(*                                                                         *)
(* Every command is a process of its own: the user, the job daemon, the    *)
(* watch folder and the desktop application may run several at once, into  *)
(* the same directory, and any of them may be killed.  A step is the work  *)
(* on one file.  Track files, CPL and PKL carry a fresh UUID in their      *)
(* name, so they are named here by the command that writes them; the names *)
(* ASSETMAP.xml and j2k_encoded/frame_NNNNNN.j2c are fixed and shared by   *)
(* all the commands that write to a directory.                             *)
(*                                                                         *)
(* The wrappers test every write and throw.  The XML files are saved with  *)
(* xmlSaveFormatFileEnc, whose result is not looked at: a file that could  *)
(* not be written to its end is hashed and listed like a whole one.        *)
(*                                                                         *)
(* A definition whose name ends in _Bug is a deliberate fault: it is used  *)
(* by no action, only to test that a property can fail.                    *)
(***************************************************************************)
EXTENDS Naturals

CONSTANTS
  Dirs,        \* directories that packages are written to
  MaxOps,      \* bound: number of create and supplement commands
  MaxFrames,   \* bound: frames in an image sequence
  Editors,     \* annotate commands
  Requests     \* the options the commands may be given

Ops    == 1 .. MaxOps
Tracks == {"video", "audio", "subtitle"}

(* The options of a command.  tracks: the inputs named on the command line.*)
(* raw: the images are not JPEG 2000 yet.  ov: the directory of the        *)
(* Original Version, which only a supplement reads.                        *)
Request ==
  [kind : {"ov", "sup"}, dir : Dirs, ov : Dirs, tracks : SUBSET Tracks,
   raw : BOOLEAN, len : 1 .. MaxFrames, sign : BOOLEAN]

ASSUME PackageAssumption ==
  /\ MaxOps \in Nat \ {0} /\ MaxFrames \in Nat \ {0}
  /\ Requests \subseteq Request
  /\ \A r \in Requests :
       /\ r.kind = "ov" => "video" \in r.tracks
       /\ r.kind = "sup" => ~r.raw /\ "subtitle" \notin r.tracks

VARIABLES
  req,      \* per command: its options
  pc,       \* per command: the step it is at, or how it ended
  track,    \* per command: result.track_files
  hash,     \* per command: CplResult.hash
  encoded,  \* per command: frames encode_to_j2k has written
  mxf,      \* per command: state of its track files
  video,    \* per command: the frames inside its video track file; a frame
            \* is named by the command whose input it is from
  cpl,      \* per command: its CPL file
  pkl,      \* per command: its PKL file
  map,      \* per directory: ASSETMAP.xml, and whose package it lists
  frames,   \* per directory: j2k_encoded, 0 where there is no such frame
  edit      \* per annotate command: where it is, the CPL and the text it read

result == <<req, track, hash, encoded>>
disk   == <<mxf, video, cpl, pkl, map, frames>>
vars   == <<pc, result, disk, edit>>

FileStates == {"absent", "torn", "whole"}
Working    == {"start", "encode", "video", "audio", "subtitle", "cpl", "pkl", "map", "sign"}
Ended      == {"done", "failed", "killed"}

Cpl == [state : FileStates, refs : SUBSET (Ops \X Tracks),
        notes : SUBSET Editors, signed : BOOLEAN]
NoCpl == [state |-> "absent", refs |-> {}, notes |-> {}, signed |-> FALSE]

(* Two files have the same SHA-1 exactly when they have the same content.  *)
Sha1(file) == [sha1 |-> file]
Hash == [sha1 : Cpl]

Pkl == [state : FileStates, tracks : SUBSET Tracks, cpl : Hash]
NoPkl == [state |-> "absent", tracks |-> {}, cpl |-> Sha1(NoCpl)]

(* Every variable has its type; encoded frames stay within the sequence.   *)
TypeOK ==
  /\ req \in [Ops -> Request]
  /\ pc \in [Ops -> {"idle"} \cup Working \cup Ended]
  /\ track \in [Ops -> SUBSET Tracks]
  /\ hash \in [Ops -> Hash]
  /\ encoded \in [Ops -> 0 .. MaxFrames]
  /\ mxf \in [Ops -> [Tracks -> FileStates]]
  /\ video \in [Ops -> [1 .. MaxFrames -> 0 .. MaxOps]]
  /\ cpl \in [Ops -> Cpl]
  /\ pkl \in [Ops -> Pkl]
  /\ map \in [Dirs -> [state : FileStates, by : 0 .. MaxOps]]
  /\ frames \in [Dirs -> [1 .. MaxFrames -> 0 .. MaxOps]]
  /\ edit \in [Editors -> [pc : {"none", "read", "ok", "refused", "killed"},
                           op : 0 .. MaxOps, seen : Cpl]]

NoFrames == [i \in 1 .. MaxFrames |-> 0]

Init ==
  /\ req \in [Ops -> Requests]
  /\ pc = [o \in Ops |-> "idle"]
  /\ track = [o \in Ops |-> {}]
  /\ hash = [o \in Ops |-> Sha1(NoCpl)]
  /\ encoded = [o \in Ops |-> 0]
  /\ mxf = [o \in Ops |-> [k \in Tracks |-> "absent"]]
  /\ video = [o \in Ops |-> NoFrames]
  /\ cpl = [o \in Ops |-> NoCpl]
  /\ pkl = [o \in Ops |-> NoPkl]
  /\ map = [d \in Dirs |-> [state |-> "absent", by |-> 0]]
  /\ frames = [d \in Dirs |-> NoFrames]
  /\ edit = [e \in Editors |-> [pc |-> "none", op |-> 0, seen |-> NoCpl]]

-----------------------------------------------------------------------------
(* The order of the steps; a track nobody asked for is passed over.        *)
FromSubtitle(r) == IF "subtitle" \in r.tracks THEN "subtitle" ELSE "cpl"
FromAudio(r)    == IF "audio" \in r.tracks THEN "audio" ELSE FromSubtitle(r)
FromVideo(r)    == IF "video" \in r.tracks THEN "video" ELSE FromAudio(r)
FromStart(r)    == IF r.raw THEN "encode" ELSE FromVideo(r)
FromMap(r)      == IF r.sign THEN "sign" ELSE "done"
AfterTrack(r, k) ==
  CASE k = "video"    -> FromAudio(r)
    [] k = "audio"    -> FromSubtitle(r)
    [] k = "subtitle" -> "cpl"

FromCpl_Bug == "map"

FromCpl == "pkl"

Goto(o, step) == pc' = [pc EXCEPT ![o] = step]

Readable_Bug(d) == \E o \in Ops : req[o].dir = d /\ cpl[o].state # "absent"

(* read_imp_info: valid as soon as there is an ASSETMAP.xml; it is not     *)
(* parsed, and a PKL or CPL that is missing or torn is passed over.        *)
Readable(d) == map[d].state # "absent"

(* The user, a job or the watch folder starts a command.                   *)
Launch(o) ==
  /\ pc[o] = "idle" /\ \A p \in Ops : p < o => pc[p] # "idle"
  /\ Goto(o, "start")
  /\ UNCHANGED <<result, disk, edit>>

(* create_directories and detect_sequence_format; a supplement first reads *)
(* the Original Version and gives up if it cannot.                         *)
Begin(o) ==
  /\ pc[o] = "start"
  /\ IF req[o].kind = "sup" /\ ~Readable(req[o].ov)
       THEN Goto(o, "failed")
       ELSE Goto(o, FromStart(req[o]))
  /\ UNCHANGED <<result, disk, edit>>

MoreFrames_Bug(o) == encoded[o] <= req[o].len

(* encode_to_j2k: one frame after the other into j2k_encoded, which is     *)
(* never emptied.                                                          *)
MoreFrames(o) == encoded[o] < req[o].len

EncodeFrame(o) ==
  /\ pc[o] = "encode" /\ MoreFrames(o)
  /\ encoded' = [encoded EXCEPT ![o] = @ + 1]
  /\ frames' = [frames EXCEPT ![req[o].dir][encoded[o] + 1] = o]
  /\ UNCHANGED <<pc, req, track, hash, mxf, video, cpl, pkl, map, edit>>

EncodeEnds(o) ==
  /\ pc[o] = "encode" /\ ~MoreFrames(o)
  /\ Goto(o, FromVideo(req[o]))
  /\ UNCHANGED <<result, disk, edit>>

(* The image sequence the wrapper reads: all of j2k_encoded, or the input. *)
Sequence(o) ==
  IF req[o].raw THEN frames[req[o].dir]
  ELSE [i \in 1 .. MaxFrames |-> IF i <= req[o].len THEN o ELSE 0]

(* wrap_essence and wrap_timed_text: the file is complete, hashed and      *)
(* added to the track files.  wrap_j2k takes a frame it cannot read for    *)
(* the end of the sequence; the first one was read when it was opened.     *)
Wrap(o, k) ==
  /\ pc[o] = k
  /\ mxf' = [mxf EXCEPT ![o][k] = "whole"]
  /\ IF k = "video"
       THEN \E n \in 1 .. MaxFrames :
              video' = [video EXCEPT ![o] =
                [i \in 1 .. MaxFrames |-> IF i <= n THEN Sequence(o)[i] ELSE 0]]
       ELSE video' = video
  /\ track' = [track EXCEPT ![o] = @ \cup {k}]
  /\ Goto(o, AfterTrack(req[o], k))
  /\ UNCHANGED <<req, hash, encoded, cpl, pkl, map, frames, edit>>

(* The input does not exist: the track is left out without a word, except  *)
(* for the video of an Original Version, which throws (Break).             *)
SkipMissing(o, k) ==
  /\ pc[o] = k /\ ~(k = "video" /\ req[o].kind = "ov")
  /\ Goto(o, AfterTrack(req[o], k))
  /\ UNCHANGED <<result, disk, edit>>
-----------------------------------------------------------------------------
(* generate_cpl refers to the video and the audio tracks of this command.  *)
WriteCpl(o) ==
  /\ pc[o] = "cpl"
  /\ \E s \in {"torn", "whole"} :
       LET file == [state |-> s, refs |-> {<<o, k>> : k \in track[o] \ {"subtitle"}},
                    notes |-> {}, signed |-> FALSE]
       IN /\ cpl' = [cpl EXCEPT ![o] = file]
          /\ hash' = [hash EXCEPT ![o] = Sha1(file)]
  /\ Goto(o, FromCpl)
  /\ UNCHANGED <<req, track, encoded, mxf, video, pkl, map, frames, edit>>

(* generate_pkl lists the track files and the CPL with the hashes taken    *)
(* when they were written.                                                 *)
WritePkl(o) ==
  /\ pc[o] = "pkl"
  /\ \E s \in {"torn", "whole"} :
       pkl' = [pkl EXCEPT ![o] = [state |-> s, tracks |-> track[o], cpl |-> hash[o]]]
  /\ Goto(o, "map")
  /\ UNCHANGED <<result, mxf, video, cpl, map, frames, edit>>

(* generate_assetmap replaces ASSETMAP.xml, or fails to and nobody knows.  *)
WriteMap(o) ==
  /\ pc[o] = "map"
  /\ \/ \E s \in {"torn", "whole"} :
          map' = [map EXCEPT ![req[o].dir] = [state |-> s, by |-> o]]
     \/ map' = map
  /\ Goto(o, FromMap(req[o]))
  /\ UNCHANGED <<result, mxf, video, cpl, pkl, frames, edit>>

SignXml_Bug(file) == [file EXCEPT !.signed = TRUE]

(* sign_xml on the CPL and on the PKL, after both were hashed and listed.  *)
(* It is a stub: it warns, leaves the file alone and returns false, which  *)
(* the callers do not look at.                                             *)
SignXml(file) == file

Sign(o) ==
  /\ pc[o] = "sign"
  /\ cpl' = [cpl EXCEPT ![o] = SignXml(@)]
  /\ Goto(o, "done")
  /\ UNCHANGED <<result, mxf, video, pkl, map, frames, edit>>

(* The file a step was writing when it was interrupted stays as it is.     *)
LeavePartial(o) ==
  \/ UNCHANGED <<mxf, cpl, pkl, map>>
  \/ /\ pc[o] \in Tracks
     /\ mxf' = [mxf EXCEPT ![o][pc[o]] = "torn"]
     /\ UNCHANGED <<cpl, pkl, map>>
  \/ /\ pc[o] = "cpl"
     /\ cpl' = [cpl EXCEPT ![o].state = "torn"]
     /\ UNCHANGED <<mxf, pkl, map>>
  \/ /\ pc[o] = "pkl"
     /\ pkl' = [pkl EXCEPT ![o].state = "torn"]
     /\ UNCHANGED <<mxf, cpl, map>>
  \/ /\ pc[o] = "map"
     /\ map' = [map EXCEPT ![req[o].dir] = [state |-> "torn", by |-> o]]
     /\ UNCHANGED <<mxf, cpl, pkl>>

CanThrow_Bug ==
  {"start", "encode", "video", "audio", "subtitle", "cpl", "pkl", "sign"}

(* A step throws, or the encoder fails: the command reports an error and   *)
(* leaves the files of the earlier steps.                                  *)
CanThrow == {"start", "encode", "video", "audio", "subtitle", "cpl", "pkl"}

Break(o) ==
  /\ pc[o] \in CanThrow
  /\ LeavePartial(o)
  /\ Goto(o, "failed")
  /\ UNCHANGED <<result, video, frames, edit>>

Kill(o) ==
  /\ pc[o] \in Working
  /\ LeavePartial(o)
  /\ Goto(o, "killed")
  /\ UNCHANGED <<result, video, frames, edit>>
-----------------------------------------------------------------------------
(* annotate_cpl reads the whole file ...                                   *)
AnnotateRead(e) ==
  /\ edit[e].pc = "none"
  /\ \E o \in Ops :
       /\ cpl[o].state # "absent"
       /\ edit' = [edit EXCEPT ![e] =
            [pc |-> IF cpl[o].state = "torn" THEN "refused" ELSE "read",
             op |-> o, seen |-> cpl[o]]]
  /\ UNCHANGED <<pc, result, disk>>

(* ... and writes it back in place with one annotation more.  It answers   *)
(* true whether the file could be written, in part or at all.              *)
AnnotateWrite(e) ==
  /\ edit[e].pc = "read"
  /\ \/ \E s \in {"torn", "whole"} :
          cpl' = [cpl EXCEPT ![edit[e].op] =
                   [edit[e].seen EXCEPT !.state = s, !.notes = @ \cup {e}]]
     \/ cpl' = cpl
  /\ edit' = [edit EXCEPT ![e].pc = "ok"]
  /\ UNCHANGED <<pc, result, mxf, video, pkl, map, frames>>

AnnotateKilled(e) ==
  /\ edit[e].pc = "read"
  /\ \/ cpl' = [cpl EXCEPT ![edit[e].op].state = "torn"]
     \/ cpl' = cpl
  /\ edit' = [edit EXCEPT ![e].pc = "killed"]
  /\ UNCHANGED <<pc, result, mxf, video, pkl, map, frames>>

CommandStep(o) ==
  \/ Begin(o) \/ EncodeFrame(o) \/ EncodeEnds(o)
  \/ \E k \in Tracks : Wrap(o, k) \/ SkipMissing(o, k)
  \/ WriteCpl(o) \/ WritePkl(o) \/ WriteMap(o) \/ Sign(o)

Next ==
  \/ \E o \in Ops : Launch(o) \/ CommandStep(o) \/ Break(o) \/ Kill(o)
  \/ \E e \in Editors : AnnotateRead(e) \/ AnnotateWrite(e) \/ AnnotateKilled(e)

Spec == Init /\ [][Next]_vars
-----------------------------------------------------------------------------
(* The CPLs annotate_cpl may have rewritten.                               *)
Annotated == {edit[e].op : e \in {f \in Editors : edit[f].pc \in {"ok", "killed"}}}

(* A PKL vouches for what is on disk: every track file it lists is         *)
(* complete, and the hash it gives for the CPL is the CPL's, unless the    *)
(* CPL was annotated since; whoever wrote into the directory at the same   *)
(* time, was killed, or saved less of the CPL than it meant to (imp.cpp    *)
(* 109-133).                                                               *)
PklMatchesDisk ==
  \A o \in Ops : pkl[o].state = "whole" =>
    /\ \A k \in pkl[o].tracks : mxf[o][k] = "whole"
    /\ o \in Annotated \/ pkl[o].cpl = Sha1(cpl[o])

(* An ASSETMAP.xml, even one whose writer was killed over it, belongs to a *)
(* package of its directory whose track files are complete and whose CPL   *)
(* and PKL were written: it is made last (imp.cpp 135-171).                *)
MapIsClosed ==
  \A d \in Dirs : map[d].state # "absent" =>
    \E o \in Ops :
      /\ map[d].by = o /\ req[o].dir = d
      /\ pkl[o].tracks = track[o] /\ \A k \in track[o] : mxf[o][k] = "whole"
      /\ cpl[o].state # "absent" /\ pkl[o].state # "absent"

(* A command that reports an error leaves the ASSETMAP.xml of an earlier   *)
(* package in place: the broken package is never the one that is listed    *)
(* (imp.cpp 183-188).                                                      *)
FailureIsUnlisted ==
  \A o \in Ops : pc[o] = "failed" => \A d \in Dirs : map[d].by # o

(* A supplement that went past its check was made from a package with CPL  *)
(* and PKL, although read_imp_info looks only for the ASSETMAP.xml         *)
(* (supplemental.cpp 25-30, info.cpp 80-85).                               *)
SupplementHasOv ==
  \A o \in Ops :
    req[o].kind = "sup" /\ pc[o] \in (Working \cup {"done"}) \ {"start"} =>
      \E p \in Ops : /\ req[p].dir = req[o].ov
                     /\ cpl[p].state # "absent" /\ pkl[p].state # "absent"

-----------------------------------------------------------------------------
(* What makes the properties above inductive, command by command: which    *)
(* tracks can have been wrapped at a step, which files exist, and that the *)
(* hash still held in memory is that of the CPL nobody annotated.          *)
TracksBefore(step) ==
  CASE step \in {"idle", "start", "encode", "video"} -> {}
    [] step = "audio"    -> {"video"}
    [] step = "subtitle" -> {"video", "audio"}
    [] OTHER             -> Tracks

CommandInv(o) ==
  /\ track[o] \subseteq TracksBefore(pc[o])
  /\ \A k \in track[o] : mxf[o][k] = "whole"
  /\ pc[o] \in {"pkl", "map", "sign", "done"} =>
       /\ cpl[o].state # "absent"
       /\ o \in Annotated \/ hash[o] = Sha1(cpl[o])
  /\ pc[o] \in {"idle", "start", "encode", "video", "audio", "subtitle", "cpl", "pkl"} =>
       pkl[o].state = "absent"
  /\ pc[o] \in {"map", "sign", "done"} =>
       pkl[o].state # "absent" /\ pkl[o].tracks = track[o]
  /\ pkl[o].state = "whole" =>
       /\ pkl[o].tracks = track[o] /\ cpl[o].state # "absent"
       /\ o \in Annotated \/ pkl[o].cpl = Sha1(cpl[o])
  /\ req[o].kind = "sup" /\ pc[o] \in (Working \cup {"done"}) \ {"start"} =>
       Readable(req[o].ov)

MapInv(d) ==
  IF map[d].state = "absent" THEN map[d].by = 0
  ELSE \E o \in Ops :
         /\ map[d].by = o /\ req[o].dir = d
         /\ pc[o] \in {"sign", "done", "killed"}
         /\ cpl[o].state # "absent"
         /\ pkl[o].state # "absent" /\ pkl[o].tracks = track[o]

PackageInv == (\A o \in Ops : CommandInv(o)) /\ (\A d \in Dirs : MapInv(d))
=============================================================================
