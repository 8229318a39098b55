------------------------------ MODULE Commands ------------------------------
(***************************************************************************)
(* The subcommands of the command line tool that turn input files into     *)
(* output files, each as a script: the steps its code takes, in order,     *)
(* what each step makes and what follows when it fails.  Tools gives the   *)
(* scripts their meaning and runs them.                                    *)
(*                                                                         *)
(* A step is                                                               *)
(*   check    something the command needs: a tool, a codec, an option, a   *)
(*            number that std::stoul must accept                           *)
(*   input    an input that must exist                                     *)
(*   list     how many items (frames, recipients, targets) there are       *)
(*   make     a file is written: by an external tool whose exit code is    *)
(*            looked at, by copy_file, or through an ofstream nobody       *)
(*            looks at afterwards (silent)                                 *)
(*   need     a track of some type the package must have                   *)
(*   tally    the items reported are those found in the output directory   *)
(*   report   the items reported are those that were listed                *)
(*   count    the items reported are those that were made                  *)
(*   remove   a temporary file is removed                                  *)
(*   abort    the command fails if an earlier step did                     *)
(* Pictures, sound, texts and command lines are left out, and so are the   *)
(* numbers commands report other than how many items they made.            *)
(*                                                                         *)
(* A definition whose name ends in _Bug is a deliberate fault: it is used  *)
(* by no script, only to test that a property can fail.                    *)
(***************************************************************************)
EXTENDS Naturals, Sequences

Step(op, file) ==
  [op |-> op, file |-> file, fails |-> "stop", when |-> "any", track |-> "any",
   each |-> FALSE, silent |-> FALSE, needs |-> "", again |-> FALSE]

Ops ==
  {"check", "input", "list", "make", "until", "need", "tally", "report", "count", "remove", "abort"}

(* The kinds of file there are.                                            *)
Names ==
  {"", "frame", "package", "movie", "video", "audio", "wav", "tone", "text", "iab", "still",
   "thumb", "rpu", "rpu4", "sidecar", "pkl", "cpl", "ASSETMAP.xml", "VOLINDEX.xml", "CPL.xml",
   "kdm", "remote", "media", "device", "html", "report.html", "pdf", "post"}

TrackNames == {"any", "video", "audio", "essence", "metadata"}

StepSet ==
  [op : Ops, file : Names, fails : {"stop", "next", "go", "note"},
   when : {"any", "ok", "failed", "maybe"}, track : TrackNames,
   each : BOOLEAN, silent : BOOLEAN, needs : Names, again : BOOLEAN]

Check  == Step("check", "")
Input  == Step("input", "")
List   == Step("list", "")
Run(x) == Step("make", x)
Copy(x)  == Step("make", x)                           \* throws when it fails
Write(x) == [Step("make", x) EXCEPT !.silent = TRUE]
Tally  == Step("tally", "frame")
Report == Step("report", "")
Count  == Step("count", "")
Need(t)   == Step("need", t)
Remove(x) == Step("remove", x)

Each(s)    == [s EXCEPT !.each = TRUE]       \* once for every item
AnyNumber  == [List EXCEPT !.fails = "go"]   \* none is as good as some
From(x, s) == [s EXCEPT !.needs = x]         \* reads a file made before

(* What follows a failure, other than the end of the command: the next     *)
(* step, with the failure noted; nothing; or failure at the very end.      *)
Else(s)    == [s EXCEPT !.fails = "next"]
Ignore(s)  == [s EXCEPT !.fails = "go"]
NoteOf(s)  == [s EXCEPT !.fails = "note"]

(* Taken only after a step went well, or failed; or if the input has it.   *)
IfOk(s)     == [s EXCEPT !.when = "ok"]
IfFailed(s) == [s EXCEPT !.when = "failed"]
Maybe(s)    == [s EXCEPT !.when = "maybe"]
Of(t, s)    == [s EXCEPT !.track = t]        \* if the package has such a track
Abort       == IfFailed(Step("abort", ""))

-----------------------------------------------------------------------------
(* From movies and frames to frames.                                       *)
TranscodeToSequence_Bug1 == <<Check, Input, List, Each(Ignore(Run("frame"))), Tally>>
TranscodeToSequence_Bug2 == <<Check, Input, List, Tally, Each(Run("frame"))>>

TranscodeToSequence == <<Check, Input, List, Each(Run("frame")), Tally>>

EncodeToJ2k == <<Input, Check, Check, List, Each(Run("frame")), Report>>

(* Frames that are J2K already are counted and left where they are.        *)
AlreadyJ2k == <<Input, List, Report>>

ValidateCube == <<Input, Check>>
ApplyLut == <<Input>> \o ValidateCube \o <<List, Each(Run("frame")), Report>>

ApplyAces == <<Input, List, Each(Run("frame")), Tally>>

(* With ctlrender: frame by frame, and one that fails is left out.         *)
ApplyAcesByCtl == <<Input, AnyNumber, Each(Ignore(Run("frame"))), Count>>

ApplyWatermark == <<Input, Check, AnyNumber, Each(Write("frame")), Report>>

(* The duration is divided by fps_den when none is given.                  *)
GenerateSlate ==
  <<Check, List, Each(Run("frame")), Maybe(Ignore(Run("tone"))), Report>>

(* What read_imp_info calls the tracks of a package.                       *)
TrackTypes == {"essence", "metadata"}

ReadImpInfo == <<Check>>

(* Each track of the package that is video or audio, if ffmpeg can unpack  *)
(* it.                                                                     *)
ExtractFromImp ==
  <<Input>> \o ReadImpInfo \o
  <<Of("video", List), Of("video", Else(Each(Run("frame")))), Of("video", IfOk(Tally)),
    Of("audio", Ignore(Run("wav")))>>

(* One picture, at full size if the thumbnail cannot be made.              *)
DecodePreview ==
  <<List, Check, Check, Else(Run("still")), IfOk(Else(Run("thumb"))), IfFailed(Run("still"))>>

ThumbnailStrip == <<List, Check, Each(Ignore(Run("thumb")))>>

ProbeMxf == <<Input, Check>>
Thumbnails_Bug ==
  ProbeMxf \o <<AnyNumber, [Each(Ignore(Run("thumb"))) EXCEPT !.again = TRUE]>>

Thumbnails == ProbeMxf \o <<AnyNumber, Each(Ignore(Run("thumb")))>>

(* An interval of 0 makes the loop stay where it is.                       *)
ThumbnailsForEver ==
  ProbeMxf \o <<AnyNumber, [Each(Ignore(Run("thumb"))) EXCEPT !.again = TRUE]>>

SdiPreview == <<Check, Input, Check, Run("device")>>

-----------------------------------------------------------------------------
(* Sound, captions, metadata.                                              *)
AudioDescription == <<Input, Input, Run("wav")>>
RemapChannels    == <<Input, Run("wav")>>
ImportAtmos      == <<Input, Check, Check, Check, Run("iab")>>
GenerateMca      == <<Write("text")>>

BurnInSubtitles  == <<Check, Input, Input, Check, Run("movie"), Check>>
ParseCaptions    == <<Input, Check>>
WriteTtml        == <<Write("text")>>
RetimeSubtitles  == <<Input, Check, Write("text")>>
ConvertSubtitles == <<Input, Check, Check, Write("text")>>

(* An RPU that cannot be converted is used as it is; a movie it cannot be  *)
(* put into is copied, with the RPU beside it.                             *)
InjectDv81 ==
  <<Input, Input, Check, Else(Run("rpu")),
    Else(Run("movie")), IfFailed(Copy("movie")), IfFailed(Copy("sidecar"))>>

ConvertProfile4 == <<Input, Check, Run("rpu4")>> \o InjectDv81

-----------------------------------------------------------------------------
(* Packages.  create_ov_imp and create_supplemental_imp are the subject of *)
(* Package; here they make a package or fail.                              *)
CreateOvImp == <<Input, Run("package")>>
Supplement  == <<Input, Input, Run("package")>>

ConformFromEdl == <<Input, Check, Check, Run("package")>>

(* A package per target, in a directory named after it.                    *)
BatchDeliver == <<List, Each(NoteOf(Run("package")))>>

(* ffmpeg's exit code is looked at for the picture, not for the sound.     *)
CreateProresImp ==
  <<Input, Check, Run("video"), Check, Maybe(Ignore(Run("audio"))),
    Write("pkl"), Write("cpl"), Write("ASSETMAP.xml")>>

ConvertImpToDcp ==
  <<Input>> \o ReadImpInfo \o
  <<Need("video"), Else(Run("video")), IfFailed(Copy("video")),
    Maybe(Else(Run("audio"))), IfFailed(Copy("audio")),
    Write("CPL.xml"), Write("VOLINDEX.xml"), Write("ASSETMAP.xml")>>

CreatePartialVersion ==
  <<Input, Input>> \o ReadImpInfo \o <<Copy("movie"), Maybe(Copy("wav")), Write("CPL.xml")>>

(* One message per recipient, in a file named after him.                   *)
GenerateKdm == <<Input, List, Check, Check, Check, Each(Write("kdm"))>>

AsperaTransfer == <<Check, Input, Run("remote")>>
UploadToS3     == <<Check, Input, Run("remote")>>

ImportOtioz == <<Input, Check, Check, AnyNumber, Each(Write("media")), Maybe(Write("CPL.xml"))>>

-----------------------------------------------------------------------------
(* Reports.                                                                *)
WriteQcReport == <<Write("html")>>

(* The HTML has one name for all runs of the tool on the machine.          *)
GeneratePdfReport ==
  <<Check, Input, Check, Write("report.html"), Else(From("report.html", Run("pdf"))),
    Remove("report.html"), Abort>>

ComputeAnalytics == <<List, Report>>
PrintAnalytics   == <<Maybe(Write("text"))>>

DiffPackages == <<Input, Input>>
ParseEdl     == <<Input, Check>>
CheckDrift   == <<Check>>

(* Posts until one is answered with 2xx, max_retries + 1 times at most.    *)
SendWebhook == <<List, [Each(Run("post")) EXCEPT !.op = "until"]>>

-----------------------------------------------------------------------------
(* What the handler in main() makes of a script's end: 0 if it succeeded;  *)
(* 0 if it succeeded and its verdict is good; 0 always.  A script that     *)
(* asks for at least one item ends well only if it made one.               *)
Handled(steps)  == [steps |-> steps, exit |-> "success", some |-> FALSE]
Judged(steps)   == [Handled(steps) EXCEPT !.exit = "verdict"]
Always(steps)   == [Handled(steps) EXCEPT !.exit = "always"]
IfSome(steps)   == [Handled(steps) EXCEPT !.some = TRUE]

(* The checks of libdcpdoctor.                                             *)
Doctor == <<Check>>

Validators ==
  [validate |-> Judged(<<>>), schema_validate |-> Judged(<<>>), compliance |-> Judged(Doctor),
   frame_qc |-> Handled(Doctor), qc_report |-> Handled(<<Run("html")>>)]

Doctors ==
  [loudness |-> Handled(Doctor), av_sync |-> Handled(Doctor), hdr_validate |-> Judged(Doctor),
   frame_compare |-> Judged(Doctor), checksum_verify |-> Judged(Doctor),
   mxf_extract |-> Handled(<<List, Each(Run("frame"))>>), auto_qc |-> Handled(Doctor)]

Packagers ==
  [create |-> Handled(CreateOvImp), info |-> Handled(ReadImpInfo),
   supplement |-> Handled(Supplement), encode |-> Handled(EncodeToJ2k),
   encode_j2k |-> Handled(AlreadyJ2k)]

Sequencers ==
  [transcode |-> Handled(TranscodeToSequence), transcode_png |-> Handled(TranscodeToSequence),
   extract |-> IfSome(ExtractFromImp), conform |-> Handled(ConformFromEdl)]

Converters ==
  [report |-> Always(WriteQcReport), channel_map |-> Handled(RemapChannels),
   upload |-> Handled(UploadToS3), aspera |-> Handled(AsperaTransfer),
   captions |-> Handled(ParseCaptions \o WriteTtml), watermark |-> Handled(ApplyWatermark)]

Deliverers ==
  [preview |-> Handled(DecodePreview), strip |-> IfSome(ThumbnailStrip),
   prores |-> Handled(CreateProresImp), burn_in |-> Handled(BurnInSubtitles),
   to_dcp |-> Handled(ConvertImpToDcp), deliver |-> Handled(BatchDeliver)]

Imports ==
  [analytics |-> Handled(ComputeAnalytics \o PrintAnalytics), edl_import |-> Handled(ParseEdl)]

Processors ==
  [atmos |-> Handled(ImportAtmos), mca |-> Always(GenerateMca),
   audio_desc |-> Handled(AudioDescription), lut |-> Handled(ApplyLut),
   aces |-> Handled(ApplyAces), aces_ctl |-> IfSome(ApplyAcesByCtl)]

Versions == [partial_version |-> Handled(CreatePartialVersion)]

Generators ==
  [slate |-> Handled(GenerateSlate), retime |-> Handled(RetimeSubtitles),
   sdi_preview |-> Handled(SdiPreview)]

Timelines == [imp_diff |-> Handled(DiffPackages), otioz_import |-> Handled(ImportOtioz)]

Players ==
  [kdm |-> Handled(GenerateKdm), dv81 |-> Handled(InjectDv81), dv81_p4 |-> Handled(ConvertProfile4),
   mxf_probe |-> Handled(ProbeMxf), mxf_thumbs |-> Handled(Thumbnails),
   mxf_thumbs_0 |-> Handled(ThumbnailsForEver)]

Notifiers == [webhook |-> Handled(SendWebhook)]

Reporters ==
  [pdf_report |-> Handled(GeneratePdfReport), subtitle_convert |-> Handled(ConvertSubtitles),
   timecode_drift |-> Judged(CheckDrift)]

Tables ==
  {Validators, Doctors, Packagers, Sequencers, Converters, Deliverers, Imports, Processors,
   Versions, Generators, Timelines, Players, Notifiers, Reporters}

Scripts ==
  [c \in UNION {DOMAIN t : t \in Tables} |-> (CHOOSE t \in Tables : c \in DOMAIN t)[c]]

(* The commands whose input the parser wants to exist, by the blocks of    *)
(* main() that declare them; the others leave that to their code.          *)
CheckedPackagers  ==
  {"create", "info", "encode", "encode_j2k", "supplement", "transcode", "transcode_png",
   "extract", "conform", "report"}
CheckedDeliverers == {"prores", "burn_in", "to_dcp"}
CheckedDoctors    ==
  {"validate", "schema_validate", "compliance", "frame_qc", "qc_report", "loudness", "av_sync",
   "hdr_validate", "frame_compare", "checksum_verify", "mxf_extract", "auto_qc"}

Checked == CheckedPackagers \cup CheckedDeliverers \cup CheckedDoctors

-----------------------------------------------------------------------------
(* The frames of a directory are images of some kind, which their          *)
(* extension tells: "tiff" stands for tiff, dpx and exr, and "j2k" for j2c *)
(* and j2k.  transcode makes what its user asks for, transcode_png stands  *)
(* for png; what the doctor's mxf_extract makes is not in this repository. *)
ImagesOf(c) ==
  CASE c \in {"encode", "watermark", "mxf_extract"} -> "j2k"
    [] c = "transcode_png"                           -> "png"
    [] OTHER                                         -> "tiff"

(* The kinds a command looks for in the directory it is given; the others  *)
(* list something else, or nothing.                                        *)
Takes(c) ==
  CASE c \in {"encode", "lut"}    -> {"tiff", "png"}
    [] c \in {"aces", "aces_ctl"} -> {"tiff"}
    [] c \in {"encode_j2k", "watermark", "analytics", "preview", "strip"} -> {"j2k"}
    [] OTHER                      -> {}

(* Count the images of every kind, and work on those of one.               *)
CountsAll == {"lut", "encode_j2k"}

(* Commands whose items bear names the user chose, which may be the same.  *)
UserNamed == {"kdm", "deliver", "otioz_import"}
=============================================================================
