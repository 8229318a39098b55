------------------------------- MODULE MCTools -------------------------------
EXTENDS Tools

(* Commands beside themselves, one of every pattern of script; commands    *)
(* whose user names the items; chains in which the second command reads    *)
(* the kind of file the first one makes; and some in which it does not.    *)
(* There are two items.                                                    *)
Plain(c, d, h, x) ==
  [first |-> c, second |-> d, how |-> h, via |-> x,
   names |-> [p \in Runs |-> <<>>], strays |-> [p \in Runs |-> 0]]

Chain(c, d, x) == Plain(c, d, "then", x)

(* Which items have one name; the second run beside the first may also use *)
(* its names the other way round.                                          *)
Namings(c) == IF c \in UserNamed THEN {<<1, 1>>, <<1, 2>>} ELSE {<<>>}
Turned(c)  == IF c \in UserNamed THEN {<<2, 1>>} ELSE {}

Named(s) ==
  {[s EXCEPT !.names = [p \in Runs |-> IF p = 1 THEN f ELSE g]] :
     f \in Namings(s.first), g \in Namings(s.second) \cup IF s.how = "beside" THEN Turned(s.second) ELSE {}}

Beside ==
  {Plain(c, c, "beside", "") : c \in
     {"transcode", "encode", "aces_ctl", "watermark", "slate", "preview", "mxf_thumbs", "atmos",
      "burn_in", "prores", "to_dcp", "partial_version", "pdf_report"}} \cup
  {Plain("transcode", "transcode_png", "beside", "")} \cup
  Named(Plain("kdm", "kdm", "beside", "")) \cup Named(Plain("deliver", "deliver", "beside", ""))

Mixed ==
  {[Plain("lut", "lut", "beside", "") EXCEPT !.strays = [p \in Runs |-> n]] : n \in {0, 1}}

Chains ==
  {Chain(c, d, "frame") : c \in {"transcode", "slate", "lut"}, d \in {"encode", "aces", "lut", "sdi_preview"}} \cup
  {Chain("encode", d, "frame") : d \in {"encode_j2k", "watermark", "analytics", "preview", "frame_qc", "create"}} \cup
  {Chain("watermark", d, "frame") : d \in {"strip", "analytics"}} \cup
  {Chain("create", d, "package") : d \in
     {"info", "validate", "schema_validate", "compliance", "checksum_verify", "frame_compare", "qc_report",
      "report", "pdf_report", "extract", "to_dcp", "upload", "aspera", "supplement", "imp_diff"}} \cup
  {Chain("supplement", "partial_version", "package"), Chain("conform", "info", "package"),
   Chain("kdm", "webhook", ""),
   Chain("burn_in", "transcode", "movie"), Chain("burn_in", "prores", "movie"),
   Chain("burn_in", "timecode_drift", "movie"), Chain("burn_in", "auto_qc", "movie"),
   Chain("dv81_p4", "mxf_probe", "movie"), Chain("dv81", "hdr_validate", "movie"),
   Chain("dv81", "mxf_thumbs_0", "movie"), Chain("dv81", "mxf_extract", "movie"),
   Chain("prores", "mxf_thumbs", "video"), Chain("audio_desc", "loudness", "wav"),
   Chain("channel_map", "audio_desc", "wav"), Chain("audio_desc", "av_sync", "wav"),
   Chain("captions", "retime", "text"), Chain("subtitle_convert", "burn_in", "text"),
   Chain("retime", "subtitle_convert", "text"), Chain("mca", "audio_desc", ""), Chain("edl_import", "conform", "")} \cup
  Named(Chain("partial_version", "kdm", "CPL.xml")) \cup Named(Chain("aces", "deliver", "frame")) \cup
  Named(Chain("otioz_import", "transcode", "media"))

Mismatched ==
  {Chain("transcode_png", d, "frame") : d \in {"encode", "lut", "aces", "aces_ctl"}} \cup
  {Chain("transcode", "watermark", "frame"), Chain("encode", "lut", "frame")}

MCSessions == Beside \cup Mixed \cup Chains \cup Mismatched

DcpSessions == {Chain("create", "to_dcp", "package")}
=============================================================================
