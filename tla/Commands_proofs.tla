--------------------------- MODULE Commands_proofs ---------------------------
(***************************************************************************)
(* Proofs about Commands: the script of every command is fit for what the  *)
(* command is for, in the sense of Tools!Fits.  The tables of scripts are  *)
(* constants, so this is a matter of evaluation; it is proved here, script *)
(* by script, because the theorems of Tools_proofs rest on it.             *)
(*                                                                         *)
(* For each script: which steps it has, their attributes, that all are     *)
(* well formed, and which files the script makes; then, for each table,    *)
(* that these are the files of the commands in it.                         *)
(***************************************************************************)
EXTENDS Tools, TLAPS

(* A step that has these attributes.                                       *)
Is(st, op, file, fails, when, track, each, needs, again) ==
  /\ st \in StepSet /\ st.op = op /\ st.file = file /\ st.fails = fails /\ st.when = when
  /\ st.track = track /\ st.each = each /\ st.needs = needs /\ st.again = again

(* A plain step.                                                           *)
LEMMA StepIs ==
  ASSUME NEW op \in Ops, NEW x \in Names
  PROVE  Is(Step(op, x), op, x, "stop", "any", "any", FALSE, "", FALSE)
<1>1. "any" \in TrackNames /\ "" \in Names
  BY DEF TrackNames, Names
<1>2. Step(op, x) \in StepSet
  BY <1>1 DEF Step, StepSet
<1> QED
  BY <1>2 DEF Step, Is

(* What an attribute changes.                                              *)
LEMMA WithAttribute ==
  ASSUME NEW s, NEW op, NEW x, NEW f, NEW w, NEW t, NEW e, NEW n, NEW a, Is(s, op, x, f, w, t, e, n, a)
  PROVE  /\ Is(Each(s), op, x, f, w, t, TRUE, n, a)
         /\ Is(Else(s), op, x, "next", w, t, e, n, a)
         /\ Is(Ignore(s), op, x, "go", w, t, e, n, a)
         /\ Is(NoteOf(s), op, x, "note", w, t, e, n, a)
         /\ Is(IfOk(s), op, x, f, "ok", t, e, n, a)
         /\ Is(IfFailed(s), op, x, f, "failed", t, e, n, a)
         /\ Is(Maybe(s), op, x, f, "maybe", t, e, n, a)
         /\ \A y \in Names : Is(From(y, s), op, x, f, w, t, e, y, a)
         /\ \A u \in TrackNames : Is(Of(u, s), op, x, f, w, u, e, n, a)
         /\ Is([s EXCEPT !.silent = TRUE], op, x, f, w, t, e, n, a)
         /\ Is([s EXCEPT !.again = TRUE], op, x, f, w, t, e, n, TRUE)
         /\ Is([s EXCEPT !.op = "until"], "until", x, f, w, t, e, n, a)
<1>1. Is(Each(s), op, x, f, w, t, TRUE, n, a)
  BY DEF Each, Is, StepSet
<1>2. Is(Else(s), op, x, "next", w, t, e, n, a)
  BY DEF Else, Is, StepSet
<1>3. Is(Ignore(s), op, x, "go", w, t, e, n, a)
  BY DEF Ignore, Is, StepSet
<1>4. Is(NoteOf(s), op, x, "note", w, t, e, n, a)
  BY DEF NoteOf, Is, StepSet
<1>5. Is(IfOk(s), op, x, f, "ok", t, e, n, a)
  BY DEF IfOk, Is, StepSet
<1>6. Is(IfFailed(s), op, x, f, "failed", t, e, n, a)
  BY DEF IfFailed, Is, StepSet
<1>7. Is(Maybe(s), op, x, f, "maybe", t, e, n, a)
  BY DEF Maybe, Is, StepSet
<1>8. \A y \in Names : Is(From(y, s), op, x, f, w, t, e, y, a)
  BY DEF From, Is, StepSet
<1>9. \A u \in TrackNames : Is(Of(u, s), op, x, f, w, u, e, n, a)
  BY DEF Of, Is, StepSet
<1>10. Is([s EXCEPT !.silent = TRUE], op, x, f, w, t, e, n, a)
  BY DEF Is, StepSet
<1>11. Is([s EXCEPT !.again = TRUE], op, x, f, w, t, e, n, TRUE)
  BY DEF Is, StepSet
<1>12. Is([s EXCEPT !.op = "until"], "until", x, f, w, t, e, n, a)
  BY DEF Is, StepSet, Ops
<1> QED
  BY <1>1, <1>2, <1>3, <1>4, <1>5, <1>6, <1>7, <1>8, <1>9, <1>10, <1>11, <1>12

(* The steps the scripts consist of: those with no file, ...               *)
LEMMA Asking ==
  /\ Is(Check, "check", "", "stop", "any", "any", FALSE, "", FALSE)
  /\ Is(Input, "input", "", "stop", "any", "any", FALSE, "", FALSE)
  /\ Is(List, "list", "", "stop", "any", "any", FALSE, "", FALSE)
  /\ Is(Of("video", List), "list", "", "stop", "any", "video", FALSE, "", FALSE)
  /\ Is(AnyNumber, "list", "", "go", "any", "any", FALSE, "", FALSE)
  /\ Is(Report, "report", "", "stop", "any", "any", FALSE, "", FALSE)
  /\ Is(Count, "count", "", "stop", "any", "any", FALSE, "", FALSE)
  /\ Is(Tally, "tally", "frame", "stop", "any", "any", FALSE, "", FALSE)
  /\ Is(Of("video", IfOk(Tally)), "tally", "frame", "stop", "ok", "video", FALSE, "", FALSE)
  /\ Is(Need("video"), "need", "video", "stop", "any", "any", FALSE, "", FALSE)
  /\ Is(Abort, "abort", "", "stop", "failed", "any", FALSE, "", FALSE)
<1>1. /\ {"", "frame", "video"} \subseteq Names /\ "video" \in TrackNames
      /\ {"check", "input", "list", "report", "count", "tally", "need", "abort"} \subseteq Ops
  BY DEF Names, TrackNames, Ops
<1>2. Is(List, "list", "", "stop", "any", "any", FALSE, "", FALSE)
  BY <1>1, StepIs DEF List
<1>3. Is(Tally, "tally", "frame", "stop", "any", "any", FALSE, "", FALSE)
  BY <1>1, StepIs DEF Tally
<1>4. Is(AnyNumber, "list", "", "go", "any", "any", FALSE, "", FALSE)
  BY <1>2, WithAttribute DEF AnyNumber, Ignore
<1>5. Is(Of("video", List), "list", "", "stop", "any", "video", FALSE, "", FALSE)
  BY <1>1, <1>2, WithAttribute
<1>6. Is(IfOk(Tally), "tally", "frame", "stop", "ok", "any", FALSE, "", FALSE)
  BY <1>3, WithAttribute
<1>7. Is(Of("video", IfOk(Tally)), "tally", "frame", "stop", "ok", "video", FALSE, "", FALSE)
  BY <1>1, <1>6, WithAttribute
<1>8. Is(Step("abort", ""), "abort", "", "stop", "any", "any", FALSE, "", FALSE)
  BY <1>1, StepIs
<1>9. Is(Abort, "abort", "", "stop", "failed", "any", FALSE, "", FALSE)
  BY <1>8, WithAttribute DEF Abort
<1> QED
  BY <1>1, <1>2, <1>3, <1>4, <1>5, <1>7, <1>9, StepIs DEF Check, Input, Report, Count, Need

(* ... those that make a file, ...                                         *)
LEMMA MakingOnce ==
  ASSUME NEW x \in Names
  PROVE  /\ Is(Run(x), "make", x, "stop", "any", "any", FALSE, "", FALSE)
         /\ Is(Copy(x), "make", x, "stop", "any", "any", FALSE, "", FALSE)
         /\ Is(Write(x), "make", x, "stop", "any", "any", FALSE, "", FALSE)
         /\ Is(Else(Run(x)), "make", x, "next", "any", "any", FALSE, "", FALSE)
         /\ Is(IfOk(Else(Run(x))), "make", x, "next", "ok", "any", FALSE, "", FALSE)
         /\ Is(IfFailed(Run(x)), "make", x, "stop", "failed", "any", FALSE, "", FALSE)
         /\ Is(IfFailed(Copy(x)), "make", x, "stop", "failed", "any", FALSE, "", FALSE)
         /\ Is(Maybe(Copy(x)), "make", x, "stop", "maybe", "any", FALSE, "", FALSE)
         /\ Is(Maybe(Write(x)), "make", x, "stop", "maybe", "any", FALSE, "", FALSE)
         /\ Is(Maybe(Else(Run(x))), "make", x, "next", "maybe", "any", FALSE, "", FALSE)
         /\ Is(Maybe(Ignore(Run(x))), "make", x, "go", "maybe", "any", FALSE, "", FALSE)
         /\ Is(Of("audio", Ignore(Run(x))), "make", x, "go", "any", "audio", FALSE, "", FALSE)
         /\ \A y \in Names : Is(Else(From(y, Run(x))), "make", x, "next", "any", "any", FALSE, y, FALSE)
         /\ Is(Remove(x), "remove", x, "stop", "any", "any", FALSE, "", FALSE)
<1>1. "audio" \in TrackNames /\ {"make", "remove"} \subseteq Ops
  BY DEF TrackNames, Ops
<1>2. /\ Is(Run(x), "make", x, "stop", "any", "any", FALSE, "", FALSE)
      /\ Is(Copy(x), "make", x, "stop", "any", "any", FALSE, "", FALSE)
      /\ Is(Remove(x), "remove", x, "stop", "any", "any", FALSE, "", FALSE)
  BY <1>1, StepIs DEF Run, Copy, Remove
<1>3. Is(Write(x), "make", x, "stop", "any", "any", FALSE, "", FALSE)
  BY <1>2, WithAttribute DEF Write, Run
<1>4. /\ Is(Else(Run(x)), "make", x, "next", "any", "any", FALSE, "", FALSE)
      /\ Is(Ignore(Run(x)), "make", x, "go", "any", "any", FALSE, "", FALSE)
      /\ \A y \in Names : Is(From(y, Run(x)), "make", x, "stop", "any", "any", FALSE, y, FALSE)
  BY <1>2, WithAttribute
<1>5. \A y \in Names : Is(Else(From(y, Run(x))), "make", x, "next", "any", "any", FALSE, y, FALSE)
  BY <1>4, WithAttribute
<1>6. /\ Is(IfOk(Else(Run(x))), "make", x, "next", "ok", "any", FALSE, "", FALSE)
      /\ Is(Maybe(Else(Run(x))), "make", x, "next", "maybe", "any", FALSE, "", FALSE)
      /\ Is(Maybe(Ignore(Run(x))), "make", x, "go", "maybe", "any", FALSE, "", FALSE)
      /\ Is(Of("audio", Ignore(Run(x))), "make", x, "go", "any", "audio", FALSE, "", FALSE)
  BY <1>1, <1>4, WithAttribute
<1>7. /\ Is(IfFailed(Run(x)), "make", x, "stop", "failed", "any", FALSE, "", FALSE)
      /\ Is(IfFailed(Copy(x)), "make", x, "stop", "failed", "any", FALSE, "", FALSE)
      /\ Is(Maybe(Copy(x)), "make", x, "stop", "maybe", "any", FALSE, "", FALSE)
      /\ Is(Maybe(Write(x)), "make", x, "stop", "maybe", "any", FALSE, "", FALSE)
  BY <1>2, <1>3, WithAttribute
<1> QED
  BY <1>2, <1>3, <1>4, <1>5, <1>6, <1>7

(* ... and those that make one for every item.                             *)
LEMMA MakingEach ==
  ASSUME NEW x \in Names
  PROVE  /\ Is(Each(Run(x)), "make", x, "stop", "any", "any", TRUE, "", FALSE)
         /\ Is(Each(Write(x)), "make", x, "stop", "any", "any", TRUE, "", FALSE)
         /\ Is(Each(Ignore(Run(x))), "make", x, "go", "any", "any", TRUE, "", FALSE)
         /\ Is(Each(NoteOf(Run(x))), "make", x, "note", "any", "any", TRUE, "", FALSE)
         /\ Is([Each(Ignore(Run(x))) EXCEPT !.again = TRUE],
               "make", x, "go", "any", "any", TRUE, "", TRUE)
         /\ Is([Each(Run(x)) EXCEPT !.op = "until"], "until", x, "stop", "any", "any", TRUE, "", FALSE)
         /\ Is(Of("video", Else(Each(Run(x)))), "make", x, "next", "any", "video", TRUE, "", FALSE)
<1>1. "video" \in TrackNames
  BY DEF TrackNames
<1>2. /\ Is(Run(x), "make", x, "stop", "any", "any", FALSE, "", FALSE)
      /\ Is(Write(x), "make", x, "stop", "any", "any", FALSE, "", FALSE)
  BY MakingOnce
<1>3. /\ Is(Each(Run(x)), "make", x, "stop", "any", "any", TRUE, "", FALSE)
      /\ Is(Each(Write(x)), "make", x, "stop", "any", "any", TRUE, "", FALSE)
      /\ Is(Ignore(Run(x)), "make", x, "go", "any", "any", FALSE, "", FALSE)
      /\ Is(NoteOf(Run(x)), "make", x, "note", "any", "any", FALSE, "", FALSE)
  BY <1>2, WithAttribute
<1>4. /\ Is(Each(Ignore(Run(x))), "make", x, "go", "any", "any", TRUE, "", FALSE)
      /\ Is(Each(NoteOf(Run(x))), "make", x, "note", "any", "any", TRUE, "", FALSE)
      /\ Is(Else(Each(Run(x))), "make", x, "next", "any", "any", TRUE, "", FALSE)
      /\ Is([Each(Run(x)) EXCEPT !.op = "until"], "until", x, "stop", "any", "any", TRUE, "", FALSE)
  BY <1>3, WithAttribute
<1>5. /\ Is([Each(Ignore(Run(x))) EXCEPT !.again = TRUE], "make", x, "go", "any", "any", TRUE, "", TRUE)
      /\ Is(Of("video", Else(Each(Run(x)))), "make", x, "next", "any", "video", TRUE, "", FALSE)
  BY <1>1, <1>4, WithAttribute
<1> QED
  BY <1>3, <1>4, <1>5

-----------------------------------------------------------------------------
(* Scripts: what Fits asks of every step, and of what the command is for.  *)
Regular(st) ==
  /\ st \in StepSet
  /\ st.again \/ st.op = "until" \/ st.fails = "note" => st.each
  /\ st.op \in Making /\ st.file = "frame" => st.each
  /\ st.op = "remove" => st.file # "frame"

Sane(s) ==
  /\ DOMAIN s = 1 .. Len(s) /\ Len(s) \in Nat
  /\ \A k \in DOMAIN s : Regular(s[k])
  /\ \A k, l \in DOMAIN s : s[k].op = "list" /\ s[l].op = "list" => l = k

(* It ends if there is nothing to list.                                    *)
StopsAtNone(s) == \A k \in DOMAIN s : s[k].op = "list" => s[k].fails = "stop"

(* What it makes besides, and that it lists the frames it is given; and    *)
(* that the names of frames are not the user's.                            *)
Extras(c, s) ==
  /\ \A x \in Besides(c) : x \notin Shared /\ MakesBeside(s, x)
  /\ Takes(c) # {} => ListsFrames(s) /\ (c # "watermark" => StopsAtNone(s))
  /\ c \in UserNamed => NoFrames(s)

(* Numbers.                                                                *)
LEMMA Intervals ==
  /\ 1 .. 0 = {} /\ 1 .. 1 = {1} /\ 1 .. 2 = {1, 2} /\ 1 .. 3 = {1, 2, 3} /\ 1 .. 4 = {1, 2, 3, 4}
  /\ 1 .. 5 = {1, 2, 3, 4, 5} /\ 1 .. 6 = {1, 2, 3, 4, 5, 6} /\ 1 .. 7 = {1, 2, 3, 4, 5, 6, 7}
  /\ 1 .. 8 = {1, 2, 3, 4, 5, 6, 7, 8} /\ 1 .. 9 = {1, 2, 3, 4, 5, 6, 7, 8, 9}
  /\ 1 .. 10 = {1, 2, 3, 4, 5, 6, 7, 8, 9, 10}
  /\ 1 .. 11 = {1, 2, 3, 4, 5, 6, 7, 8, 9, 10, 11}
OBVIOUS

LEMMA Later ==
  ASSUME NEW n \in Nat, NEW j \in 1 .. n
  PROVE  /\ \A m \in j + 1 .. n : m \in 1 .. n /\ m # j
         /\ \A m \in j + 1 .. (n + 1) - 1 : m \in 1 .. n /\ m # j
         /\ j \in 1 .. (n + 1) - 1
OBVIOUS

LEMMA Between ==
  ASSUME NEW n \in Nat, NEW j \in 1 .. n, NEW i \in 1 .. j - 1
  PROVE  /\ \A m \in j + 1 .. (n + 1) - 1 : m \in 1 .. n /\ m \notin {i, j}
         /\ \A m \in i + 1 .. j - 1 : m \in 1 .. n /\ m \notin {i, j}
         /\ j \in 1 .. (n + 1) - 1
OBVIOUS

(* A file is there at the end if one step makes it and none touches it     *)
(* again.                                                                  *)
LEMMA MadeOnce ==
  ASSUME NEW s, NEW x, Sane(s), NEW j \in DOMAIN s,
         Is(s[j], "make", x, "stop", "any", "any", FALSE, "", FALSE),
         \A m \in DOMAIN s : s[m].op \in {"make", "until", "remove"} /\ s[m].file = x => m = j
  PROVE  MakesOne(s, x)
<1> DEFINE n == Len(s)
<1>1. DOMAIN s = 1 .. n /\ n \in Nat
  BY DEF Sane
<1>2. /\ \A m \in j + 1 .. (n + 1) - 1 : m \in DOMAIN s /\ m # j
      /\ j \in 1 .. (n + 1) - 1
  BY <1>1, Later
<1>3. Untouched(s, x, j, n + 1)
  BY <1>2 DEF Untouched, Touches, Writes, Making
<1>4. Insists(s[j], x) /\ Supplied(s, j) /\ s[j].when = "any" /\ ~s[j].each
  BY DEF Is, Insists, Writes, Supplied, Making
<1>5. There(s, x, n + 1)
  BY <1>2, <1>3, <1>4 DEF There
<1>6. \A k \in DOMAIN s : s[k].op \in Making /\ s[k].file = x => ~s[k].each
  BY <1>4 DEF Making
<1> QED
  BY <1>5, <1>6 DEF MakesOne

(* One step makes the file, and if that fails a later one does.            *)
MadeBySteps(s, x, i, j) ==
  /\ i \in DOMAIN s /\ j \in DOMAIN s /\ i \in 1 .. j - 1
  /\ Is(s[i], "make", x, "next", "any", "any", FALSE, "", FALSE)
  /\ Is(s[j], "make", x, "stop", "failed", "any", FALSE, "", FALSE)
  /\ \A m \in i + 1 .. j - 1 : ~Forgives(s[m])
  /\ \A m \in DOMAIN s : s[m].op \in {"make", "until", "remove"} /\ s[m].file = x => m \in {i, j}

LEMMA MadeOrElse ==
  ASSUME NEW s, NEW x, NEW i, NEW j, Sane(s), MadeBySteps(s, x, i, j)
  PROVE  MakesOne(s, x)
<1> DEFINE n == Len(s)
<1>1. DOMAIN s = 1 .. n /\ n \in Nat
  BY DEF Sane
<1> USE DEF MadeBySteps
<1>2. /\ \A m \in j + 1 .. (n + 1) - 1 : m \in DOMAIN s /\ m \notin {i, j}
      /\ \A m \in i + 1 .. j - 1 : m \in DOMAIN s /\ m \notin {i, j}
      /\ j \in 1 .. (n + 1) - 1
  BY <1>1, Between
<1>3. Untouched(s, x, j, n + 1) /\ Untouched(s, x, i, j)
  BY <1>2 DEF Untouched, Touches, Writes, Making
<1>4. /\ Writes(s[i], x) /\ s[i].op = "make" /\ s[i].fails = "next" /\ Unconditional(s[i])
      /\ Supplied(s, i)
      /\ Insists(s[j], x) /\ s[j].when = "failed" /\ Supplied(s, j)
      /\ ~s[i].each /\ ~s[j].each
  BY DEF Is, Writes, Insists, Unconditional, Supplied, Making
<1>5. ThereUnlessFailed(s, x, j)
  BY <1>3, <1>4 DEF ThereUnlessFailed
<1>6. There(s, x, n + 1)
  BY <1>2, <1>3, <1>4, <1>5 DEF There
<1>7. \A k \in DOMAIN s : s[k].op \in Making /\ s[k].file = x => ~s[k].each
  BY <1>4 DEF Making
<1> QED
  BY <1>6, <1>7 DEF MakesOne

(* The files of a step that is taken once for every item.                  *)
LEMMA MadeForEach ==
  ASSUME NEW s, NEW x, Sane(s), NEW j \in DOMAIN s, ListedBefore(s, j),
         s[j].op = "make", s[j].file = x, s[j].fails \in {"stop", "note"}, s[j].when = "any",
         s[j].track = "any", s[j].each, ~s[j].again, s[j].needs = "",
         \A m \in DOMAIN s : s[m].op \in Making /\ s[m].file = x => m = j
  PROVE  EachStep(s, j) /\ MakesPerItem(s, x)
<1>1. DOMAIN s = 1 .. Len(s) /\ Len(s) \in Nat
  BY DEF Sane
<1>2. EachStep(s, j)
  BY DEF EachStep, Unconditional
<1>3. \A m \in j + 1 .. Len(s) : m \in DOMAIN s /\ m # j
  BY <1>1, Later
<1>4. Final(s, j)
  BY <1>3 DEF Final
<1> QED
  BY <1>2, <1>4 DEF MakesPerItem

(* What the handlers in main() make of a script.                           *)
LEMMA HandledFields ==
  ASSUME NEW s
  PROVE  /\ Handled(s).steps = s /\ Handled(s).exit = "success" /\ Handled(s).some = FALSE
         /\ Judged(s).steps = s /\ Judged(s).exit = "verdict" /\ Judged(s).some = FALSE
         /\ Always(s).steps = s /\ Always(s).exit = "always" /\ Always(s).some = FALSE
         /\ IfSome(s).steps = s /\ IfSome(s).exit = "success" /\ IfSome(s).some = TRUE
<1> DEFINE h == Handled(s)
           S == [steps : {s}, exit : {"success", "verdict", "always"}, some : BOOLEAN]
<1>1. h \in S /\ h.exit = "success" /\ h.some = FALSE /\ h.steps = s
  BY DEF Handled
<1>2. /\ Judged(s) = [h EXCEPT !.exit = "verdict"] /\ Always(s) = [h EXCEPT !.exit = "always"]
      /\ IfSome(s) = [h EXCEPT !.some = TRUE]
  BY DEF Judged, Always, IfSome
<1> HIDE DEF h
<1>3. Judged(s).steps = s /\ Judged(s).exit = "verdict" /\ Judged(s).some = FALSE
  BY <1>1, <1>2
<1>4. Always(s).steps = s /\ Always(s).exit = "always" /\ Always(s).some = FALSE
  BY <1>1, <1>2
<1>5. IfSome(s).steps = s /\ IfSome(s).exit = "success" /\ IfSome(s).some = TRUE
  BY <1>1, <1>2
<1> QED
  BY <1>1, <1>3, <1>4, <1>5 DEF h

(* A sane script that makes what its command is for is fit.                *)
LEMMA SaneFits ==
  ASSUME NEW c, NEW sc, Sane(sc.steps), Extras(c, sc.steps),
         sc.exit \in {"success", "verdict", "always"}, sc.some \in BOOLEAN,
         \A x \in PerItem(c) : x \notin Shared /\ MakesPerItem(sc.steps, x) /\ sc.exit # "always",
         \A x \in Single(c)  : x \notin Shared /\ MakesOne(sc.steps, x),
         c \in Frames \ {"mxf_extract"} => TalliesFrames(sc.steps)
  PROVE  Fits(c, sc)
<1>1. WellFormed(sc)
  BY DEF Sane, Regular, WellFormed
<1>2. /\ \A x \in Besides(c) : x \notin Shared /\ MakesBeside(sc.steps, x)
      /\ Takes(c) # {} => ListsFrames(sc.steps) /\ (c # "watermark" => WantsFrames(sc))
      /\ c \in UserNamed => NoFrames(sc.steps)
  BY DEF Extras, StopsAtNone, WantsFrames
<1> QED
  BY <1>1, <1>2 DEF Fits

(* So a script does what its command is for: nothing, a file for every     *)
(* item, or certain files.                                                 *)
LEMMA ForNothing ==
  ASSUME NEW c, NEW s, Sane(s), Extras(c, s), PerItem(c) = {}, Single(c) = {}, c \notin Frames
  PROVE  Fits(c, Handled(s)) /\ Fits(c, Judged(s)) /\ Fits(c, IfSome(s))
<1>1. \A sc : sc.steps = s /\ sc.exit \in {"success", "verdict"} /\ sc.some \in BOOLEAN => Fits(c, sc)
  BY SaneFits
<1> QED
  BY <1>1, HandledFields

LEMMA ForEveryItem ==
  ASSUME NEW c, NEW s, NEW x, Sane(s), Extras(c, s), PerItem(c) = {x}, Single(c) = {}, x \notin Shared,
         MakesPerItem(s, x), c \in Frames \ {"mxf_extract"} => TalliesFrames(s)
  PROVE  Fits(c, Handled(s))
<1> DEFINE sc == Handled(s)
<1>1. sc.steps = s /\ sc.exit = "success" /\ sc.some \in BOOLEAN
  BY HandledFields
<1> HIDE DEF sc
<1>2. Fits(c, sc)
  BY <1>1, SaneFits
<1> QED
  BY <1>2 DEF sc

LEMMA ForFiles ==
  ASSUME NEW c, NEW s, NEW X, Sane(s), Extras(c, s), PerItem(c) = {}, Single(c) = X, c \notin Frames,
         \A x \in X : x \notin Shared /\ MakesOne(s, x)
  PROVE  Fits(c, Handled(s)) /\ Fits(c, Always(s))
<1>1. \A sc : sc.steps = s /\ sc.exit \in {"success", "always"} /\ sc.some \in BOOLEAN => Fits(c, sc)
  BY SaneFits
<1> QED
  BY <1>1, HandledFields

(* aces with ctlrender leaves out the frames it fails for, and fails if    *)
(* none is left.                                                           *)
LEMMA ForEachLeftOut ==
  ASSUME NEW c, NEW s, Sane(s), ListsFrames(s), AllEach(s), PerItem(c) = {}, Single(c) = {},
         Besides(c) = {}, c \notin Frames, c \notin UserNamed
  PROVE  Fits(c, IfSome(s))
<1> DEFINE sc == IfSome(s)
<1>1. sc.steps = s /\ sc.exit = "success" /\ sc.some = TRUE
  BY HandledFields
<1> HIDE DEF sc
<1>2. WellFormed(sc) /\ WantsFrames(sc)
  BY <1>1 DEF Sane, Regular, WellFormed, WantsFrames
<1>3. Fits(c, sc)
  BY <1>1, <1>2 DEF Fits
<1> QED
  BY <1>3 DEF sc

-----------------------------------------------------------------------------
(* From movies and frames to frames.                                       *)
LEMMA EncodeToJ2kIsFit ==
  /\ Sane(EncodeToJ2k)
  /\ MakesPerItem(EncodeToJ2k, "frame")
  /\ TalliesFrames(EncodeToJ2k)
  /\ ListsFrames(EncodeToJ2k)
  /\ StopsAtNone(EncodeToJ2k)
<1> DEFINE s == EncodeToJ2k
<1>1. /\ Len(s) = 6 /\ DOMAIN s = 1 .. 6 /\ s[1] = Input /\ s[2] = Check /\ s[3] = Check
      /\ s[4] = List /\ s[5] = Each(Run("frame")) /\ s[6] = Report
  BY DEF EncodeToJ2k
<1>2. {"frame"} \subseteq Names
  BY DEF Names
<1>3. /\ Is(s[1], "input", "", "stop", "any", "any", FALSE, "", FALSE)
      /\ Is(s[2], "check", "", "stop", "any", "any", FALSE, "", FALSE)
      /\ Is(s[3], "check", "", "stop", "any", "any", FALSE, "", FALSE)
      /\ Is(s[4], "list", "", "stop", "any", "any", FALSE, "", FALSE)
      /\ Is(s[5], "make", "frame", "stop", "any", "any", TRUE, "", FALSE)
      /\ Is(s[6], "report", "", "stop", "any", "any", FALSE, "", FALSE)
  BY <1>1, <1>2, Asking, MakingEach
<1> HIDE DEF s
<1>4. DOMAIN s = {1, 2, 3, 4, 5, 6} /\ DOMAIN s = 1 .. Len(s) /\ Len(s) \in Nat
  BY <1>1, Intervals
<1>5. /\ Regular(s[1]) /\ Regular(s[2]) /\ Regular(s[3]) /\ Regular(s[4]) /\ Regular(s[5])
      /\ Regular(s[6])
  BY <1>3 DEF Regular, Is, Making
<1>6. /\ s[1].op = "input" /\ s[2].op = "check" /\ s[3].op = "check" /\ s[4].op = "list"
      /\ s[5].op = "make" /\ s[6].op = "report"
  BY <1>3 DEF Is
<1>7. /\ s[1].file = "" /\ s[2].file = "" /\ s[3].file = "" /\ s[4].file = "" /\ s[5].file = "frame"
      /\ s[6].file = ""
  BY <1>3 DEF Is
<1>8. Sane(s)
  <2>1. \A k \in DOMAIN s : Regular(s[k])
    BY <1>4, <1>5
  <2>2. \A k \in DOMAIN s : s[k].op = "list" => k = 4
    BY <1>4, <1>6
  <2> QED
    BY <1>4, <2>1, <2>2 DEF Sane
<1>9. ListedBefore(s, 5) /\ ListedBefore(s, 6)
  <2>1. 4 \in 1 .. 5 - 1 /\ 4 \in 1 .. 6 - 1
    OBVIOUS
  <2> QED
    BY <1>6, <2>1 DEF ListedBefore
<1>10. EachStep(s, 5) /\ MakesPerItem(s, "frame")
  <2>1. \A m \in DOMAIN s : s[m].op \in Making /\ s[m].file = "frame" => m = 5
    BY <1>4, <1>6, <1>7 DEF Making
  <2> QED
    BY <1>3, <1>4, <1>8, <1>9, <2>1, MadeForEach DEF Is
<1>11. TalliesFrames(s)
  <2>1. \A k \in DOMAIN s : s[k].op # "count"
    BY <1>4, <1>6
  <2>2. \A k \in DOMAIN s : s[k].op \in {"tally", "report"} => k = 6
    BY <1>4, <1>6
  <2> QED
    BY <1>6, <1>9, <2>1, <2>2 DEF TalliesFrames
<1>12. ListsFrames(s)
  BY <1>3, <1>4 DEF ListsFrames, Unconditional, Is
<1>13. StopsAtNone(s)
  BY <1>3, <1>4, <1>6 DEF StopsAtNone, Is
<1> QED
  BY <1>8, <1>10, <1>11, <1>12, <1>13 DEF s

LEMMA AlreadyJ2kIsFit ==
  /\ Sane(AlreadyJ2k)
  /\ ListsFrames(AlreadyJ2k)
  /\ StopsAtNone(AlreadyJ2k)
<1> DEFINE s == AlreadyJ2k
<1>1. /\ Len(s) = 3 /\ DOMAIN s = 1 .. 3 /\ s[1] = Input /\ s[2] = List /\ s[3] = Report
  BY DEF AlreadyJ2k
<1>2. /\ Is(s[1], "input", "", "stop", "any", "any", FALSE, "", FALSE)
      /\ Is(s[2], "list", "", "stop", "any", "any", FALSE, "", FALSE)
      /\ Is(s[3], "report", "", "stop", "any", "any", FALSE, "", FALSE)
  BY <1>1, Asking
<1> HIDE DEF s
<1>3. DOMAIN s = {1, 2, 3} /\ DOMAIN s = 1 .. Len(s) /\ Len(s) \in Nat
  BY <1>1, Intervals
<1>4. /\ Regular(s[1]) /\ Regular(s[2]) /\ Regular(s[3])
  BY <1>2 DEF Regular, Is, Making
<1>5. /\ s[1].op = "input" /\ s[2].op = "list" /\ s[3].op = "report"
  BY <1>2 DEF Is
<1>6. Sane(s)
  <2>1. \A k \in DOMAIN s : Regular(s[k])
    BY <1>3, <1>4
  <2>2. \A k \in DOMAIN s : s[k].op = "list" => k = 2
    BY <1>3, <1>5
  <2> QED
    BY <1>3, <2>1, <2>2 DEF Sane
<1>7. ListsFrames(s)
  BY <1>2, <1>3 DEF ListsFrames, Unconditional, Is
<1>8. StopsAtNone(s)
  BY <1>2, <1>3, <1>5 DEF StopsAtNone, Is
<1> QED
  BY <1>6, <1>7, <1>8 DEF s

LEMMA TranscodeToSequenceIsFit ==
  /\ Sane(TranscodeToSequence)
  /\ MakesPerItem(TranscodeToSequence, "frame")
  /\ TalliesFrames(TranscodeToSequence)
<1> DEFINE s == TranscodeToSequence
<1>1. /\ Len(s) = 5 /\ DOMAIN s = 1 .. 5 /\ s[1] = Check /\ s[2] = Input /\ s[3] = List
      /\ s[4] = Each(Run("frame")) /\ s[5] = Tally
  BY DEF TranscodeToSequence
<1>2. {"frame"} \subseteq Names
  BY DEF Names
<1>3. /\ Is(s[1], "check", "", "stop", "any", "any", FALSE, "", FALSE)
      /\ Is(s[2], "input", "", "stop", "any", "any", FALSE, "", FALSE)
      /\ Is(s[3], "list", "", "stop", "any", "any", FALSE, "", FALSE)
      /\ Is(s[4], "make", "frame", "stop", "any", "any", TRUE, "", FALSE)
      /\ Is(s[5], "tally", "frame", "stop", "any", "any", FALSE, "", FALSE)
  BY <1>1, <1>2, Asking, MakingEach
<1> HIDE DEF s
<1>4. DOMAIN s = {1, 2, 3, 4, 5} /\ DOMAIN s = 1 .. Len(s) /\ Len(s) \in Nat
  BY <1>1, Intervals
<1>5. /\ Regular(s[1]) /\ Regular(s[2]) /\ Regular(s[3]) /\ Regular(s[4]) /\ Regular(s[5])
  BY <1>3 DEF Regular, Is, Making
<1>6. /\ s[1].op = "check" /\ s[2].op = "input" /\ s[3].op = "list" /\ s[4].op = "make"
      /\ s[5].op = "tally"
  BY <1>3 DEF Is
<1>7. /\ s[1].file = "" /\ s[2].file = "" /\ s[3].file = "" /\ s[4].file = "frame"
      /\ s[5].file = "frame"
  BY <1>3 DEF Is
<1>8. Sane(s)
  <2>1. \A k \in DOMAIN s : Regular(s[k])
    BY <1>4, <1>5
  <2>2. \A k \in DOMAIN s : s[k].op = "list" => k = 3
    BY <1>4, <1>6
  <2> QED
    BY <1>4, <2>1, <2>2 DEF Sane
<1>9. ListedBefore(s, 4) /\ ListedBefore(s, 5)
  <2>1. 3 \in 1 .. 4 - 1 /\ 3 \in 1 .. 5 - 1
    OBVIOUS
  <2> QED
    BY <1>6, <2>1 DEF ListedBefore
<1>10. EachStep(s, 4) /\ MakesPerItem(s, "frame")
  <2>1. \A m \in DOMAIN s : s[m].op \in Making /\ s[m].file = "frame" => m = 4
    BY <1>4, <1>6, <1>7 DEF Making
  <2> QED
    BY <1>3, <1>4, <1>8, <1>9, <2>1, MadeForEach DEF Is
<1>11. TalliesFrames(s)
  <2>1. \A k \in DOMAIN s : s[k].op # "count"
    BY <1>4, <1>6
  <2>2. \A k \in DOMAIN s : s[k].op \in {"tally", "report"} => k = 5
    BY <1>4, <1>6
  <2>3. 4 \in 1 .. 5 - 1
    OBVIOUS
  <2>4. \E j \in 1 .. 5 - 1 : EachStep(s, j) /\ s[j].file = "frame"
    BY <1>7, <1>10, <2>3
  <2> QED
    BY <1>9, <2>1, <2>2, <2>4 DEF TalliesFrames
<1> QED
  BY <1>8, <1>10, <1>11 DEF s

LEMMA ApplyLutIsFit ==
  /\ Sane(ApplyLut)
  /\ MakesPerItem(ApplyLut, "frame")
  /\ TalliesFrames(ApplyLut)
  /\ ListsFrames(ApplyLut)
  /\ StopsAtNone(ApplyLut)
<1> DEFINE s == ApplyLut
<1>1. /\ Len(s) = 6 /\ DOMAIN s = 1 .. 6 /\ s[1] = Input /\ s[2] = Input /\ s[3] = Check
      /\ s[4] = List /\ s[5] = Each(Run("frame")) /\ s[6] = Report
  BY DEF ApplyLut, ValidateCube
<1>2. {"frame"} \subseteq Names
  BY DEF Names
<1>3. /\ Is(s[1], "input", "", "stop", "any", "any", FALSE, "", FALSE)
      /\ Is(s[2], "input", "", "stop", "any", "any", FALSE, "", FALSE)
      /\ Is(s[3], "check", "", "stop", "any", "any", FALSE, "", FALSE)
      /\ Is(s[4], "list", "", "stop", "any", "any", FALSE, "", FALSE)
      /\ Is(s[5], "make", "frame", "stop", "any", "any", TRUE, "", FALSE)
      /\ Is(s[6], "report", "", "stop", "any", "any", FALSE, "", FALSE)
  BY <1>1, <1>2, Asking, MakingEach
<1> HIDE DEF s
<1>4. DOMAIN s = {1, 2, 3, 4, 5, 6} /\ DOMAIN s = 1 .. Len(s) /\ Len(s) \in Nat
  BY <1>1, Intervals
<1>5. /\ Regular(s[1]) /\ Regular(s[2]) /\ Regular(s[3]) /\ Regular(s[4]) /\ Regular(s[5])
      /\ Regular(s[6])
  BY <1>3 DEF Regular, Is, Making
<1>6. /\ s[1].op = "input" /\ s[2].op = "input" /\ s[3].op = "check" /\ s[4].op = "list"
      /\ s[5].op = "make" /\ s[6].op = "report"
  BY <1>3 DEF Is
<1>7. /\ s[1].file = "" /\ s[2].file = "" /\ s[3].file = "" /\ s[4].file = "" /\ s[5].file = "frame"
      /\ s[6].file = ""
  BY <1>3 DEF Is
<1>8. Sane(s)
  <2>1. \A k \in DOMAIN s : Regular(s[k])
    BY <1>4, <1>5
  <2>2. \A k \in DOMAIN s : s[k].op = "list" => k = 4
    BY <1>4, <1>6
  <2> QED
    BY <1>4, <2>1, <2>2 DEF Sane
<1>9. ListedBefore(s, 5) /\ ListedBefore(s, 6)
  <2>1. 4 \in 1 .. 5 - 1 /\ 4 \in 1 .. 6 - 1
    OBVIOUS
  <2> QED
    BY <1>6, <2>1 DEF ListedBefore
<1>10. EachStep(s, 5) /\ MakesPerItem(s, "frame")
  <2>1. \A m \in DOMAIN s : s[m].op \in Making /\ s[m].file = "frame" => m = 5
    BY <1>4, <1>6, <1>7 DEF Making
  <2> QED
    BY <1>3, <1>4, <1>8, <1>9, <2>1, MadeForEach DEF Is
<1>11. TalliesFrames(s)
  <2>1. \A k \in DOMAIN s : s[k].op # "count"
    BY <1>4, <1>6
  <2>2. \A k \in DOMAIN s : s[k].op \in {"tally", "report"} => k = 6
    BY <1>4, <1>6
  <2> QED
    BY <1>6, <1>9, <2>1, <2>2 DEF TalliesFrames
<1>12. ListsFrames(s)
  BY <1>3, <1>4 DEF ListsFrames, Unconditional, Is
<1>13. StopsAtNone(s)
  BY <1>3, <1>4, <1>6 DEF StopsAtNone, Is
<1> QED
  BY <1>8, <1>10, <1>11, <1>12, <1>13 DEF s

LEMMA ApplyAcesIsFit ==
  /\ Sane(ApplyAces)
  /\ MakesPerItem(ApplyAces, "frame")
  /\ TalliesFrames(ApplyAces)
  /\ ListsFrames(ApplyAces)
  /\ StopsAtNone(ApplyAces)
<1> DEFINE s == ApplyAces
<1>1. /\ Len(s) = 4 /\ DOMAIN s = 1 .. 4 /\ s[1] = Input /\ s[2] = List /\ s[3] = Each(Run("frame"))
      /\ s[4] = Tally
  BY DEF ApplyAces
<1>2. {"frame"} \subseteq Names
  BY DEF Names
<1>3. /\ Is(s[1], "input", "", "stop", "any", "any", FALSE, "", FALSE)
      /\ Is(s[2], "list", "", "stop", "any", "any", FALSE, "", FALSE)
      /\ Is(s[3], "make", "frame", "stop", "any", "any", TRUE, "", FALSE)
      /\ Is(s[4], "tally", "frame", "stop", "any", "any", FALSE, "", FALSE)
  BY <1>1, <1>2, Asking, MakingEach
<1> HIDE DEF s
<1>4. DOMAIN s = {1, 2, 3, 4} /\ DOMAIN s = 1 .. Len(s) /\ Len(s) \in Nat
  BY <1>1, Intervals
<1>5. /\ Regular(s[1]) /\ Regular(s[2]) /\ Regular(s[3]) /\ Regular(s[4])
  BY <1>3 DEF Regular, Is, Making
<1>6. /\ s[1].op = "input" /\ s[2].op = "list" /\ s[3].op = "make" /\ s[4].op = "tally"
  BY <1>3 DEF Is
<1>7. /\ s[1].file = "" /\ s[2].file = "" /\ s[3].file = "frame" /\ s[4].file = "frame"
  BY <1>3 DEF Is
<1>8. Sane(s)
  <2>1. \A k \in DOMAIN s : Regular(s[k])
    BY <1>4, <1>5
  <2>2. \A k \in DOMAIN s : s[k].op = "list" => k = 2
    BY <1>4, <1>6
  <2> QED
    BY <1>4, <2>1, <2>2 DEF Sane
<1>9. ListedBefore(s, 3) /\ ListedBefore(s, 4)
  <2>1. 2 \in 1 .. 3 - 1 /\ 2 \in 1 .. 4 - 1
    OBVIOUS
  <2> QED
    BY <1>6, <2>1 DEF ListedBefore
<1>10. EachStep(s, 3) /\ MakesPerItem(s, "frame")
  <2>1. \A m \in DOMAIN s : s[m].op \in Making /\ s[m].file = "frame" => m = 3
    BY <1>4, <1>6, <1>7 DEF Making
  <2> QED
    BY <1>3, <1>4, <1>8, <1>9, <2>1, MadeForEach DEF Is
<1>11. TalliesFrames(s)
  <2>1. \A k \in DOMAIN s : s[k].op # "count"
    BY <1>4, <1>6
  <2>2. \A k \in DOMAIN s : s[k].op \in {"tally", "report"} => k = 4
    BY <1>4, <1>6
  <2>3. 3 \in 1 .. 4 - 1
    OBVIOUS
  <2>4. \E j \in 1 .. 4 - 1 : EachStep(s, j) /\ s[j].file = "frame"
    BY <1>7, <1>10, <2>3
  <2> QED
    BY <1>9, <2>1, <2>2, <2>4 DEF TalliesFrames
<1>12. ListsFrames(s)
  BY <1>3, <1>4 DEF ListsFrames, Unconditional, Is
<1>13. StopsAtNone(s)
  BY <1>3, <1>4, <1>6 DEF StopsAtNone, Is
<1> QED
  BY <1>8, <1>10, <1>11, <1>12, <1>13 DEF s

LEMMA ApplyAcesByCtlIsFit ==
  /\ Sane(ApplyAcesByCtl)
  /\ ListsFrames(ApplyAcesByCtl)
  /\ AllEach(ApplyAcesByCtl)
<1> DEFINE s == ApplyAcesByCtl
<1>1. /\ Len(s) = 4 /\ DOMAIN s = 1 .. 4 /\ s[1] = Input /\ s[2] = AnyNumber
      /\ s[3] = Each(Ignore(Run("frame"))) /\ s[4] = Count
  BY DEF ApplyAcesByCtl
<1>2. {"frame"} \subseteq Names
  BY DEF Names
<1>3. /\ Is(s[1], "input", "", "stop", "any", "any", FALSE, "", FALSE)
      /\ Is(s[2], "list", "", "go", "any", "any", FALSE, "", FALSE)
      /\ Is(s[3], "make", "frame", "go", "any", "any", TRUE, "", FALSE)
      /\ Is(s[4], "count", "", "stop", "any", "any", FALSE, "", FALSE)
  BY <1>1, <1>2, Asking, MakingEach
<1> HIDE DEF s
<1>4. DOMAIN s = {1, 2, 3, 4} /\ DOMAIN s = 1 .. Len(s) /\ Len(s) \in Nat
  BY <1>1, Intervals
<1>5. /\ Regular(s[1]) /\ Regular(s[2]) /\ Regular(s[3]) /\ Regular(s[4])
  BY <1>3 DEF Regular, Is, Making
<1>6. /\ s[1].op = "input" /\ s[2].op = "list" /\ s[3].op = "make" /\ s[4].op = "count"
  BY <1>3 DEF Is
<1>7. Sane(s)
  <2>1. \A k \in DOMAIN s : Regular(s[k])
    BY <1>4, <1>5
  <2>2. \A k \in DOMAIN s : s[k].op = "list" => k = 2
    BY <1>4, <1>6
  <2> QED
    BY <1>4, <2>1, <2>2 DEF Sane
<1>8. ListsFrames(s)
  BY <1>3, <1>4 DEF ListsFrames, Unconditional, Is
<1>9. AllEach(s)
  BY <1>3, <1>4 DEF AllEach, Making, Is
<1> QED
  BY <1>7, <1>8, <1>9 DEF s

LEMMA ApplyWatermarkIsFit ==
  /\ Sane(ApplyWatermark)
  /\ MakesPerItem(ApplyWatermark, "frame")
  /\ TalliesFrames(ApplyWatermark)
  /\ ListsFrames(ApplyWatermark)
<1> DEFINE s == ApplyWatermark
<1>1. /\ Len(s) = 5 /\ DOMAIN s = 1 .. 5 /\ s[1] = Input /\ s[2] = Check /\ s[3] = AnyNumber
      /\ s[4] = Each(Write("frame")) /\ s[5] = Report
  BY DEF ApplyWatermark
<1>2. {"frame"} \subseteq Names
  BY DEF Names
<1>3. /\ Is(s[1], "input", "", "stop", "any", "any", FALSE, "", FALSE)
      /\ Is(s[2], "check", "", "stop", "any", "any", FALSE, "", FALSE)
      /\ Is(s[3], "list", "", "go", "any", "any", FALSE, "", FALSE)
      /\ Is(s[4], "make", "frame", "stop", "any", "any", TRUE, "", FALSE)
      /\ Is(s[5], "report", "", "stop", "any", "any", FALSE, "", FALSE)
  BY <1>1, <1>2, Asking, MakingEach
<1> HIDE DEF s
<1>4. DOMAIN s = {1, 2, 3, 4, 5} /\ DOMAIN s = 1 .. Len(s) /\ Len(s) \in Nat
  BY <1>1, Intervals
<1>5. /\ Regular(s[1]) /\ Regular(s[2]) /\ Regular(s[3]) /\ Regular(s[4]) /\ Regular(s[5])
  BY <1>3 DEF Regular, Is, Making
<1>6. /\ s[1].op = "input" /\ s[2].op = "check" /\ s[3].op = "list" /\ s[4].op = "make"
      /\ s[5].op = "report"
  BY <1>3 DEF Is
<1>7. /\ s[1].file = "" /\ s[2].file = "" /\ s[3].file = "" /\ s[4].file = "frame" /\ s[5].file = ""
  BY <1>3 DEF Is
<1>8. Sane(s)
  <2>1. \A k \in DOMAIN s : Regular(s[k])
    BY <1>4, <1>5
  <2>2. \A k \in DOMAIN s : s[k].op = "list" => k = 3
    BY <1>4, <1>6
  <2> QED
    BY <1>4, <2>1, <2>2 DEF Sane
<1>9. ListedBefore(s, 4) /\ ListedBefore(s, 5)
  <2>1. 3 \in 1 .. 4 - 1 /\ 3 \in 1 .. 5 - 1
    OBVIOUS
  <2> QED
    BY <1>6, <2>1 DEF ListedBefore
<1>10. EachStep(s, 4) /\ MakesPerItem(s, "frame")
  <2>1. \A m \in DOMAIN s : s[m].op \in Making /\ s[m].file = "frame" => m = 4
    BY <1>4, <1>6, <1>7 DEF Making
  <2> QED
    BY <1>3, <1>4, <1>8, <1>9, <2>1, MadeForEach DEF Is
<1>11. TalliesFrames(s)
  <2>1. \A k \in DOMAIN s : s[k].op # "count"
    BY <1>4, <1>6
  <2>2. \A k \in DOMAIN s : s[k].op \in {"tally", "report"} => k = 5
    BY <1>4, <1>6
  <2> QED
    BY <1>6, <1>9, <2>1, <2>2 DEF TalliesFrames
<1>12. ListsFrames(s)
  BY <1>3, <1>4 DEF ListsFrames, Unconditional, Is
<1> QED
  BY <1>8, <1>10, <1>11, <1>12 DEF s

LEMMA GenerateSlateIsFit ==
  /\ Sane(GenerateSlate)
  /\ MakesPerItem(GenerateSlate, "frame")
  /\ TalliesFrames(GenerateSlate)
  /\ MakesBeside(GenerateSlate, "tone")
<1> DEFINE s == GenerateSlate
<1>1. /\ Len(s) = 5 /\ DOMAIN s = 1 .. 5 /\ s[1] = Check /\ s[2] = List /\ s[3] = Each(Run("frame"))
      /\ s[4] = Maybe(Ignore(Run("tone"))) /\ s[5] = Report
  BY DEF GenerateSlate
<1>2. {"frame", "tone"} \subseteq Names
  BY DEF Names
<1>3. /\ Is(s[1], "check", "", "stop", "any", "any", FALSE, "", FALSE)
      /\ Is(s[2], "list", "", "stop", "any", "any", FALSE, "", FALSE)
      /\ Is(s[3], "make", "frame", "stop", "any", "any", TRUE, "", FALSE)
      /\ Is(s[4], "make", "tone", "go", "maybe", "any", FALSE, "", FALSE)
      /\ Is(s[5], "report", "", "stop", "any", "any", FALSE, "", FALSE)
  BY <1>1, <1>2, Asking, MakingOnce, MakingEach
<1> HIDE DEF s
<1>4. DOMAIN s = {1, 2, 3, 4, 5} /\ DOMAIN s = 1 .. Len(s) /\ Len(s) \in Nat
  BY <1>1, Intervals
<1>5. /\ Regular(s[1]) /\ Regular(s[2]) /\ Regular(s[3]) /\ Regular(s[4]) /\ Regular(s[5])
  BY <1>3 DEF Regular, Is, Making
<1>6. /\ s[1].op = "check" /\ s[2].op = "list" /\ s[3].op = "make" /\ s[4].op = "make"
      /\ s[5].op = "report"
  BY <1>3 DEF Is
<1>7. /\ s[1].file = "" /\ s[2].file = "" /\ s[3].file = "frame" /\ s[4].file = "tone"
      /\ s[5].file = ""
  BY <1>3 DEF Is
<1>8. Sane(s)
  <2>1. \A k \in DOMAIN s : Regular(s[k])
    BY <1>4, <1>5
  <2>2. \A k \in DOMAIN s : s[k].op = "list" => k = 2
    BY <1>4, <1>6
  <2> QED
    BY <1>4, <2>1, <2>2 DEF Sane
<1>9. ListedBefore(s, 3) /\ ListedBefore(s, 5)
  <2>1. 2 \in 1 .. 3 - 1 /\ 2 \in 1 .. 5 - 1
    OBVIOUS
  <2> QED
    BY <1>6, <2>1 DEF ListedBefore
<1>10. EachStep(s, 3) /\ MakesPerItem(s, "frame")
  <2>1. \A m \in DOMAIN s : s[m].op \in Making /\ s[m].file = "frame" => m = 3
    BY <1>4, <1>6, <1>7 DEF Making
  <2> QED
    BY <1>3, <1>4, <1>8, <1>9, <2>1, MadeForEach DEF Is
<1>11. TalliesFrames(s)
  <2>1. \A k \in DOMAIN s : s[k].op # "count"
    BY <1>4, <1>6
  <2>2. \A k \in DOMAIN s : s[k].op \in {"tally", "report"} => k = 5
    BY <1>4, <1>6
  <2> QED
    BY <1>6, <1>9, <2>1, <2>2 DEF TalliesFrames
<1>12. MakesBeside(s, "tone")
  <2>1. \A m \in DOMAIN s : s[m].op \in Making /\ s[m].file = "tone" => m = 4
    BY <1>4, <1>6, <1>7 DEF Making
  <2>2. s[4].op = "make" /\ ~s[4].each /\ s[4].needs = "" /\ s[4].fails \in {"stop", "go"}
    BY <1>3 DEF Is
  <2> QED
    BY <2>1, <2>2 DEF MakesBeside
<1> QED
  BY <1>8, <1>10, <1>11, <1>12 DEF s

LEMMA ReadImpInfoIsFit ==
  Sane(ReadImpInfo)
<1> DEFINE s == ReadImpInfo
<1>1. /\ Len(s) = 1 /\ DOMAIN s = 1 .. 1 /\ s[1] = Check
  BY DEF ReadImpInfo
<1>2. /\ Is(s[1], "check", "", "stop", "any", "any", FALSE, "", FALSE)
  BY <1>1, Asking
<1> HIDE DEF s
<1>3. DOMAIN s = {1} /\ DOMAIN s = 1 .. Len(s) /\ Len(s) \in Nat
  BY <1>1, Intervals
<1>4. /\ Regular(s[1])
  BY <1>2 DEF Regular, Is, Making
<1>5. /\ s[1].op = "check"
  BY <1>2 DEF Is
<1>6. Sane(s)
  <2>1. \A k \in DOMAIN s : Regular(s[k])
    BY <1>3, <1>4
  <2>2. \A k \in DOMAIN s : s[k].op # "list"
    BY <1>3, <1>5
  <2> QED
    BY <1>3, <2>1, <2>2 DEF Sane
<1> QED
  BY <1>6 DEF s

LEMMA ExtractFromImpIsFit ==
  Sane(ExtractFromImp)
<1> DEFINE s == ExtractFromImp
<1>1. /\ Len(s) = 6 /\ DOMAIN s = 1 .. 6 /\ s[1] = Input /\ s[2] = Check /\ s[3] = Of("video", List)
      /\ s[4] = Of("video", Else(Each(Run("frame")))) /\ s[5] = Of("video", IfOk(Tally))
      /\ s[6] = Of("audio", Ignore(Run("wav")))
  BY DEF ExtractFromImp, ReadImpInfo
<1>2. {"frame", "wav"} \subseteq Names
  BY DEF Names
<1>3. /\ Is(s[1], "input", "", "stop", "any", "any", FALSE, "", FALSE)
      /\ Is(s[2], "check", "", "stop", "any", "any", FALSE, "", FALSE)
      /\ Is(s[3], "list", "", "stop", "any", "video", FALSE, "", FALSE)
      /\ Is(s[4], "make", "frame", "next", "any", "video", TRUE, "", FALSE)
      /\ Is(s[5], "tally", "frame", "stop", "ok", "video", FALSE, "", FALSE)
      /\ Is(s[6], "make", "wav", "go", "any", "audio", FALSE, "", FALSE)
  BY <1>1, <1>2, Asking, MakingOnce, MakingEach
<1> HIDE DEF s
<1>4. DOMAIN s = {1, 2, 3, 4, 5, 6} /\ DOMAIN s = 1 .. Len(s) /\ Len(s) \in Nat
  BY <1>1, Intervals
<1>5. /\ Regular(s[1]) /\ Regular(s[2]) /\ Regular(s[3]) /\ Regular(s[4]) /\ Regular(s[5])
      /\ Regular(s[6])
  BY <1>3 DEF Regular, Is, Making
<1>6. /\ s[1].op = "input" /\ s[2].op = "check" /\ s[3].op = "list" /\ s[4].op = "make"
      /\ s[5].op = "tally" /\ s[6].op = "make"
  BY <1>3 DEF Is
<1>7. Sane(s)
  <2>1. \A k \in DOMAIN s : Regular(s[k])
    BY <1>4, <1>5
  <2>2. \A k \in DOMAIN s : s[k].op = "list" => k = 3
    BY <1>4, <1>6
  <2> QED
    BY <1>4, <2>1, <2>2 DEF Sane
<1> QED
  BY <1>7 DEF s

LEMMA DecodePreviewIsFit ==
  /\ Sane(DecodePreview)
  /\ MakesOne(DecodePreview, "still")
  /\ ListsFrames(DecodePreview)
  /\ StopsAtNone(DecodePreview)
<1> DEFINE s == DecodePreview
<1>1. /\ Len(s) = 6 /\ DOMAIN s = 1 .. 6 /\ s[1] = List /\ s[2] = Check /\ s[3] = Check
      /\ s[4] = Else(Run("still")) /\ s[5] = IfOk(Else(Run("thumb")))
      /\ s[6] = IfFailed(Run("still"))
  BY DEF DecodePreview
<1>2. {"still", "thumb"} \subseteq Names
  BY DEF Names
<1>3. /\ Is(s[1], "list", "", "stop", "any", "any", FALSE, "", FALSE)
      /\ Is(s[2], "check", "", "stop", "any", "any", FALSE, "", FALSE)
      /\ Is(s[3], "check", "", "stop", "any", "any", FALSE, "", FALSE)
      /\ Is(s[4], "make", "still", "next", "any", "any", FALSE, "", FALSE)
      /\ Is(s[5], "make", "thumb", "next", "ok", "any", FALSE, "", FALSE)
      /\ Is(s[6], "make", "still", "stop", "failed", "any", FALSE, "", FALSE)
  BY <1>1, <1>2, Asking, MakingOnce
<1> HIDE DEF s
<1>4. DOMAIN s = {1, 2, 3, 4, 5, 6} /\ DOMAIN s = 1 .. Len(s) /\ Len(s) \in Nat
  BY <1>1, Intervals
<1>5. /\ Regular(s[1]) /\ Regular(s[2]) /\ Regular(s[3]) /\ Regular(s[4]) /\ Regular(s[5])
      /\ Regular(s[6])
  BY <1>3 DEF Regular, Is, Making
<1>6. /\ s[1].op = "list" /\ s[2].op = "check" /\ s[3].op = "check" /\ s[4].op = "make"
      /\ s[5].op = "make" /\ s[6].op = "make"
  BY <1>3 DEF Is
<1>7. /\ s[1].file = "" /\ s[2].file = "" /\ s[3].file = "" /\ s[4].file = "still"
      /\ s[5].file = "thumb" /\ s[6].file = "still"
  BY <1>3 DEF Is
<1>8. Sane(s)
  <2>1. \A k \in DOMAIN s : Regular(s[k])
    BY <1>4, <1>5
  <2>2. \A k \in DOMAIN s : s[k].op = "list" => k = 1
    BY <1>4, <1>6
  <2> QED
    BY <1>4, <2>1, <2>2 DEF Sane
<1>9. MakesOne(s, "still")
  <2>1. \A m \in DOMAIN s : s[m].op \in {"make", "until", "remove"} /\ s[m].file = "still" => m \in {4, 6}
    BY <1>4, <1>6, <1>7
  <2>2. 4 \in DOMAIN s /\ 6 \in DOMAIN s
    BY <1>4
  <2>3. 4 \in 1 .. 6 - 1
    OBVIOUS
  <2>4. /\ Is(s[4], "make", "still", "next", "any", "any", FALSE, "", FALSE)
        /\ Is(s[6], "make", "still", "stop", "failed", "any", FALSE, "", FALSE)
    BY <1>3
  <2>5. \A m \in 4 + 1 .. 6 - 1 : ~Forgives(s[m])
    <3>1. ~Forgives(s[5])
      BY <1>3 DEF Is, Forgives
    <3>2. \A m \in 4 + 1 .. 6 - 1 : m = 5
      OBVIOUS
    <3> QED
      BY <3>1, <3>2
  <2>6. MadeBySteps(s, "still", 4, 6)
    BY <2>1, <2>2, <2>3, <2>4, <2>5 DEF MadeBySteps
  <2> QED
    BY <1>8, <2>6, MadeOrElse
<1>10. ListsFrames(s)
  BY <1>3, <1>4 DEF ListsFrames, Unconditional, Is
<1>11. StopsAtNone(s)
  BY <1>3, <1>4, <1>6 DEF StopsAtNone, Is
<1> QED
  BY <1>8, <1>9, <1>10, <1>11 DEF s

LEMMA ThumbnailStripIsFit ==
  /\ Sane(ThumbnailStrip)
  /\ ListsFrames(ThumbnailStrip)
  /\ StopsAtNone(ThumbnailStrip)
<1> DEFINE s == ThumbnailStrip
<1>1. /\ Len(s) = 3 /\ DOMAIN s = 1 .. 3 /\ s[1] = List /\ s[2] = Check
      /\ s[3] = Each(Ignore(Run("thumb")))
  BY DEF ThumbnailStrip
<1>2. {"thumb"} \subseteq Names
  BY DEF Names
<1>3. /\ Is(s[1], "list", "", "stop", "any", "any", FALSE, "", FALSE)
      /\ Is(s[2], "check", "", "stop", "any", "any", FALSE, "", FALSE)
      /\ Is(s[3], "make", "thumb", "go", "any", "any", TRUE, "", FALSE)
  BY <1>1, <1>2, Asking, MakingEach
<1> HIDE DEF s
<1>4. DOMAIN s = {1, 2, 3} /\ DOMAIN s = 1 .. Len(s) /\ Len(s) \in Nat
  BY <1>1, Intervals
<1>5. /\ Regular(s[1]) /\ Regular(s[2]) /\ Regular(s[3])
  BY <1>3 DEF Regular, Is, Making
<1>6. /\ s[1].op = "list" /\ s[2].op = "check" /\ s[3].op = "make"
  BY <1>3 DEF Is
<1>7. Sane(s)
  <2>1. \A k \in DOMAIN s : Regular(s[k])
    BY <1>4, <1>5
  <2>2. \A k \in DOMAIN s : s[k].op = "list" => k = 1
    BY <1>4, <1>6
  <2> QED
    BY <1>4, <2>1, <2>2 DEF Sane
<1>8. ListsFrames(s)
  BY <1>3, <1>4 DEF ListsFrames, Unconditional, Is
<1>9. StopsAtNone(s)
  BY <1>3, <1>4, <1>6 DEF StopsAtNone, Is
<1> QED
  BY <1>7, <1>8, <1>9 DEF s

LEMMA ProbeMxfIsFit ==
  Sane(ProbeMxf)
<1> DEFINE s == ProbeMxf
<1>1. /\ Len(s) = 2 /\ DOMAIN s = 1 .. 2 /\ s[1] = Input /\ s[2] = Check
  BY DEF ProbeMxf
<1>2. /\ Is(s[1], "input", "", "stop", "any", "any", FALSE, "", FALSE)
      /\ Is(s[2], "check", "", "stop", "any", "any", FALSE, "", FALSE)
  BY <1>1, Asking
<1> HIDE DEF s
<1>3. DOMAIN s = {1, 2} /\ DOMAIN s = 1 .. Len(s) /\ Len(s) \in Nat
  BY <1>1, Intervals
<1>4. /\ Regular(s[1]) /\ Regular(s[2])
  BY <1>2 DEF Regular, Is, Making
<1>5. /\ s[1].op = "input" /\ s[2].op = "check"
  BY <1>2 DEF Is
<1>6. Sane(s)
  <2>1. \A k \in DOMAIN s : Regular(s[k])
    BY <1>3, <1>4
  <2>2. \A k \in DOMAIN s : s[k].op # "list"
    BY <1>3, <1>5
  <2> QED
    BY <1>3, <2>1, <2>2 DEF Sane
<1> QED
  BY <1>6 DEF s

LEMMA ThumbnailsIsFit ==
  Sane(Thumbnails)
<1> DEFINE s == Thumbnails
<1>1. /\ Len(s) = 4 /\ DOMAIN s = 1 .. 4 /\ s[1] = Input /\ s[2] = Check /\ s[3] = AnyNumber
      /\ s[4] = Each(Ignore(Run("thumb")))
  BY DEF Thumbnails, ProbeMxf
<1>2. {"thumb"} \subseteq Names
  BY DEF Names
<1>3. /\ Is(s[1], "input", "", "stop", "any", "any", FALSE, "", FALSE)
      /\ Is(s[2], "check", "", "stop", "any", "any", FALSE, "", FALSE)
      /\ Is(s[3], "list", "", "go", "any", "any", FALSE, "", FALSE)
      /\ Is(s[4], "make", "thumb", "go", "any", "any", TRUE, "", FALSE)
  BY <1>1, <1>2, Asking, MakingEach
<1> HIDE DEF s
<1>4. DOMAIN s = {1, 2, 3, 4} /\ DOMAIN s = 1 .. Len(s) /\ Len(s) \in Nat
  BY <1>1, Intervals
<1>5. /\ Regular(s[1]) /\ Regular(s[2]) /\ Regular(s[3]) /\ Regular(s[4])
  BY <1>3 DEF Regular, Is, Making
<1>6. /\ s[1].op = "input" /\ s[2].op = "check" /\ s[3].op = "list" /\ s[4].op = "make"
  BY <1>3 DEF Is
<1>7. Sane(s)
  <2>1. \A k \in DOMAIN s : Regular(s[k])
    BY <1>4, <1>5
  <2>2. \A k \in DOMAIN s : s[k].op = "list" => k = 3
    BY <1>4, <1>6
  <2> QED
    BY <1>4, <2>1, <2>2 DEF Sane
<1> QED
  BY <1>7 DEF s

LEMMA ThumbnailsForEverIsFit ==
  Sane(ThumbnailsForEver)
<1> DEFINE s == ThumbnailsForEver
           e == [Each(Ignore(Run("thumb"))) EXCEPT !.again = TRUE]
<1>1. s = ProbeMxf \o <<AnyNumber, e>>
  BY DEF ThumbnailsForEver
<1> HIDE DEF s, e
<1>2. /\ Len(s) = 4 /\ DOMAIN s = 1 .. 4 /\ s[1] = Input /\ s[2] = Check /\ s[3] = AnyNumber
      /\ s[4] = e
  BY <1>1 DEF ProbeMxf
<1>3. {"thumb"} \subseteq Names
  BY DEF Names
<1>4. /\ Is(s[1], "input", "", "stop", "any", "any", FALSE, "", FALSE)
      /\ Is(s[2], "check", "", "stop", "any", "any", FALSE, "", FALSE)
      /\ Is(s[3], "list", "", "go", "any", "any", FALSE, "", FALSE)
      /\ Is(s[4], "make", "thumb", "go", "any", "any", TRUE, "", TRUE)
  BY <1>2, <1>3, Asking, MakingEach DEF e
<1>5. DOMAIN s = {1, 2, 3, 4} /\ DOMAIN s = 1 .. Len(s) /\ Len(s) \in Nat
  BY <1>2, Intervals
<1>6. /\ Regular(s[1]) /\ Regular(s[2]) /\ Regular(s[3]) /\ Regular(s[4])
  BY <1>4 DEF Regular, Is, Making
<1>7. /\ s[1].op = "input" /\ s[2].op = "check" /\ s[3].op = "list" /\ s[4].op = "make"
  BY <1>4 DEF Is
<1>8. Sane(s)
  <2>1. \A k \in DOMAIN s : Regular(s[k])
    BY <1>5, <1>6
  <2>2. \A k \in DOMAIN s : s[k].op = "list" => k = 3
    BY <1>5, <1>7
  <2> QED
    BY <1>5, <2>1, <2>2 DEF Sane
<1> QED
  BY <1>8 DEF s

LEMMA SdiPreviewIsFit ==
  /\ Sane(SdiPreview)
  /\ MakesOne(SdiPreview, "device")
<1> DEFINE s == SdiPreview
<1>1. /\ Len(s) = 4 /\ DOMAIN s = 1 .. 4 /\ s[1] = Check /\ s[2] = Input /\ s[3] = Check
      /\ s[4] = Run("device")
  BY DEF SdiPreview
<1>2. {"device"} \subseteq Names
  BY DEF Names
<1>3. /\ Is(s[1], "check", "", "stop", "any", "any", FALSE, "", FALSE)
      /\ Is(s[2], "input", "", "stop", "any", "any", FALSE, "", FALSE)
      /\ Is(s[3], "check", "", "stop", "any", "any", FALSE, "", FALSE)
      /\ Is(s[4], "make", "device", "stop", "any", "any", FALSE, "", FALSE)
  BY <1>1, <1>2, Asking, MakingOnce
<1> HIDE DEF s
<1>4. DOMAIN s = {1, 2, 3, 4} /\ DOMAIN s = 1 .. Len(s) /\ Len(s) \in Nat
  BY <1>1, Intervals
<1>5. /\ Regular(s[1]) /\ Regular(s[2]) /\ Regular(s[3]) /\ Regular(s[4])
  BY <1>3 DEF Regular, Is, Making
<1>6. /\ s[1].op = "check" /\ s[2].op = "input" /\ s[3].op = "check" /\ s[4].op = "make"
  BY <1>3 DEF Is
<1>7. /\ s[1].file = "" /\ s[2].file = "" /\ s[3].file = "" /\ s[4].file = "device"
  BY <1>3 DEF Is
<1>8. Sane(s)
  <2>1. \A k \in DOMAIN s : Regular(s[k])
    BY <1>4, <1>5
  <2>2. \A k \in DOMAIN s : s[k].op # "list"
    BY <1>4, <1>6
  <2> QED
    BY <1>4, <2>1, <2>2 DEF Sane
<1>9. MakesOne(s, "device")
  <2>1. \A m \in DOMAIN s : s[m].op \in {"make", "until", "remove"} /\ s[m].file = "device" => m = 4
    BY <1>4, <1>6, <1>7
  <2>2. 4 \in DOMAIN s
    BY <1>4
  <2> QED
    BY <1>3, <1>8, <2>1, <2>2, MadeOnce
<1> QED
  BY <1>8, <1>9 DEF s

-----------------------------------------------------------------------------
(* Sound, captions, metadata.                                              *)
LEMMA AudioDescriptionIsFit ==
  /\ Sane(AudioDescription)
  /\ MakesOne(AudioDescription, "wav")
<1> DEFINE s == AudioDescription
<1>1. /\ Len(s) = 3 /\ DOMAIN s = 1 .. 3 /\ s[1] = Input /\ s[2] = Input /\ s[3] = Run("wav")
  BY DEF AudioDescription
<1>2. {"wav"} \subseteq Names
  BY DEF Names
<1>3. /\ Is(s[1], "input", "", "stop", "any", "any", FALSE, "", FALSE)
      /\ Is(s[2], "input", "", "stop", "any", "any", FALSE, "", FALSE)
      /\ Is(s[3], "make", "wav", "stop", "any", "any", FALSE, "", FALSE)
  BY <1>1, <1>2, Asking, MakingOnce
<1> HIDE DEF s
<1>4. DOMAIN s = {1, 2, 3} /\ DOMAIN s = 1 .. Len(s) /\ Len(s) \in Nat
  BY <1>1, Intervals
<1>5. /\ Regular(s[1]) /\ Regular(s[2]) /\ Regular(s[3])
  BY <1>3 DEF Regular, Is, Making
<1>6. /\ s[1].op = "input" /\ s[2].op = "input" /\ s[3].op = "make"
  BY <1>3 DEF Is
<1>7. /\ s[1].file = "" /\ s[2].file = "" /\ s[3].file = "wav"
  BY <1>3 DEF Is
<1>8. Sane(s)
  <2>1. \A k \in DOMAIN s : Regular(s[k])
    BY <1>4, <1>5
  <2>2. \A k \in DOMAIN s : s[k].op # "list"
    BY <1>4, <1>6
  <2> QED
    BY <1>4, <2>1, <2>2 DEF Sane
<1>9. MakesOne(s, "wav")
  <2>1. \A m \in DOMAIN s : s[m].op \in {"make", "until", "remove"} /\ s[m].file = "wav" => m = 3
    BY <1>4, <1>6, <1>7
  <2>2. 3 \in DOMAIN s
    BY <1>4
  <2> QED
    BY <1>3, <1>8, <2>1, <2>2, MadeOnce
<1> QED
  BY <1>8, <1>9 DEF s

LEMMA RemapChannelsIsFit ==
  /\ Sane(RemapChannels)
  /\ MakesOne(RemapChannels, "wav")
<1> DEFINE s == RemapChannels
<1>1. /\ Len(s) = 2 /\ DOMAIN s = 1 .. 2 /\ s[1] = Input /\ s[2] = Run("wav")
  BY DEF RemapChannels
<1>2. {"wav"} \subseteq Names
  BY DEF Names
<1>3. /\ Is(s[1], "input", "", "stop", "any", "any", FALSE, "", FALSE)
      /\ Is(s[2], "make", "wav", "stop", "any", "any", FALSE, "", FALSE)
  BY <1>1, <1>2, Asking, MakingOnce
<1> HIDE DEF s
<1>4. DOMAIN s = {1, 2} /\ DOMAIN s = 1 .. Len(s) /\ Len(s) \in Nat
  BY <1>1, Intervals
<1>5. /\ Regular(s[1]) /\ Regular(s[2])
  BY <1>3 DEF Regular, Is, Making
<1>6. /\ s[1].op = "input" /\ s[2].op = "make"
  BY <1>3 DEF Is
<1>7. /\ s[1].file = "" /\ s[2].file = "wav"
  BY <1>3 DEF Is
<1>8. Sane(s)
  <2>1. \A k \in DOMAIN s : Regular(s[k])
    BY <1>4, <1>5
  <2>2. \A k \in DOMAIN s : s[k].op # "list"
    BY <1>4, <1>6
  <2> QED
    BY <1>4, <2>1, <2>2 DEF Sane
<1>9. MakesOne(s, "wav")
  <2>1. \A m \in DOMAIN s : s[m].op \in {"make", "until", "remove"} /\ s[m].file = "wav" => m = 2
    BY <1>4, <1>6, <1>7
  <2>2. 2 \in DOMAIN s
    BY <1>4
  <2> QED
    BY <1>3, <1>8, <2>1, <2>2, MadeOnce
<1> QED
  BY <1>8, <1>9 DEF s

LEMMA ImportAtmosIsFit ==
  /\ Sane(ImportAtmos)
  /\ MakesOne(ImportAtmos, "iab")
<1> DEFINE s == ImportAtmos
<1>1. /\ Len(s) = 5 /\ DOMAIN s = 1 .. 5 /\ s[1] = Input /\ s[2] = Check /\ s[3] = Check
      /\ s[4] = Check /\ s[5] = Run("iab")
  BY DEF ImportAtmos
<1>2. {"iab"} \subseteq Names
  BY DEF Names
<1>3. /\ Is(s[1], "input", "", "stop", "any", "any", FALSE, "", FALSE)
      /\ Is(s[2], "check", "", "stop", "any", "any", FALSE, "", FALSE)
      /\ Is(s[3], "check", "", "stop", "any", "any", FALSE, "", FALSE)
      /\ Is(s[4], "check", "", "stop", "any", "any", FALSE, "", FALSE)
      /\ Is(s[5], "make", "iab", "stop", "any", "any", FALSE, "", FALSE)
  BY <1>1, <1>2, Asking, MakingOnce
<1> HIDE DEF s
<1>4. DOMAIN s = {1, 2, 3, 4, 5} /\ DOMAIN s = 1 .. Len(s) /\ Len(s) \in Nat
  BY <1>1, Intervals
<1>5. /\ Regular(s[1]) /\ Regular(s[2]) /\ Regular(s[3]) /\ Regular(s[4]) /\ Regular(s[5])
  BY <1>3 DEF Regular, Is, Making
<1>6. /\ s[1].op = "input" /\ s[2].op = "check" /\ s[3].op = "check" /\ s[4].op = "check"
      /\ s[5].op = "make"
  BY <1>3 DEF Is
<1>7. /\ s[1].file = "" /\ s[2].file = "" /\ s[3].file = "" /\ s[4].file = "" /\ s[5].file = "iab"
  BY <1>3 DEF Is
<1>8. Sane(s)
  <2>1. \A k \in DOMAIN s : Regular(s[k])
    BY <1>4, <1>5
  <2>2. \A k \in DOMAIN s : s[k].op # "list"
    BY <1>4, <1>6
  <2> QED
    BY <1>4, <2>1, <2>2 DEF Sane
<1>9. MakesOne(s, "iab")
  <2>1. \A m \in DOMAIN s : s[m].op \in {"make", "until", "remove"} /\ s[m].file = "iab" => m = 5
    BY <1>4, <1>6, <1>7
  <2>2. 5 \in DOMAIN s
    BY <1>4
  <2> QED
    BY <1>3, <1>8, <2>1, <2>2, MadeOnce
<1> QED
  BY <1>8, <1>9 DEF s

LEMMA GenerateMcaIsFit ==
  /\ Sane(GenerateMca)
  /\ MakesOne(GenerateMca, "text")
<1> DEFINE s == GenerateMca
<1>1. /\ Len(s) = 1 /\ DOMAIN s = 1 .. 1 /\ s[1] = Write("text")
  BY DEF GenerateMca
<1>2. {"text"} \subseteq Names
  BY DEF Names
<1>3. /\ Is(s[1], "make", "text", "stop", "any", "any", FALSE, "", FALSE)
  BY <1>1, <1>2, MakingOnce
<1> HIDE DEF s
<1>4. DOMAIN s = {1} /\ DOMAIN s = 1 .. Len(s) /\ Len(s) \in Nat
  BY <1>1, Intervals
<1>5. /\ Regular(s[1])
  BY <1>3 DEF Regular, Is, Making
<1>6. /\ s[1].op = "make"
  BY <1>3 DEF Is
<1>7. /\ s[1].file = "text"
  BY <1>3 DEF Is
<1>8. Sane(s)
  <2>1. \A k \in DOMAIN s : Regular(s[k])
    BY <1>4, <1>5
  <2>2. \A k \in DOMAIN s : s[k].op # "list"
    BY <1>4, <1>6
  <2> QED
    BY <1>4, <2>1, <2>2 DEF Sane
<1>9. MakesOne(s, "text")
  <2>1. \A m \in DOMAIN s : s[m].op \in {"make", "until", "remove"} /\ s[m].file = "text" => m = 1
    BY <1>4, <1>6, <1>7
  <2>2. 1 \in DOMAIN s
    BY <1>4
  <2> QED
    BY <1>3, <1>8, <2>1, <2>2, MadeOnce
<1> QED
  BY <1>8, <1>9 DEF s

LEMMA BurnInSubtitlesIsFit ==
  /\ Sane(BurnInSubtitles)
  /\ MakesOne(BurnInSubtitles, "movie")
<1> DEFINE s == BurnInSubtitles
<1>1. /\ Len(s) = 6 /\ DOMAIN s = 1 .. 6 /\ s[1] = Check /\ s[2] = Input /\ s[3] = Input
      /\ s[4] = Check /\ s[5] = Run("movie") /\ s[6] = Check
  BY DEF BurnInSubtitles
<1>2. {"movie"} \subseteq Names
  BY DEF Names
<1>3. /\ Is(s[1], "check", "", "stop", "any", "any", FALSE, "", FALSE)
      /\ Is(s[2], "input", "", "stop", "any", "any", FALSE, "", FALSE)
      /\ Is(s[3], "input", "", "stop", "any", "any", FALSE, "", FALSE)
      /\ Is(s[4], "check", "", "stop", "any", "any", FALSE, "", FALSE)
      /\ Is(s[5], "make", "movie", "stop", "any", "any", FALSE, "", FALSE)
      /\ Is(s[6], "check", "", "stop", "any", "any", FALSE, "", FALSE)
  BY <1>1, <1>2, Asking, MakingOnce
<1> HIDE DEF s
<1>4. DOMAIN s = {1, 2, 3, 4, 5, 6} /\ DOMAIN s = 1 .. Len(s) /\ Len(s) \in Nat
  BY <1>1, Intervals
<1>5. /\ Regular(s[1]) /\ Regular(s[2]) /\ Regular(s[3]) /\ Regular(s[4]) /\ Regular(s[5])
      /\ Regular(s[6])
  BY <1>3 DEF Regular, Is, Making
<1>6. /\ s[1].op = "check" /\ s[2].op = "input" /\ s[3].op = "input" /\ s[4].op = "check"
      /\ s[5].op = "make" /\ s[6].op = "check"
  BY <1>3 DEF Is
<1>7. /\ s[1].file = "" /\ s[2].file = "" /\ s[3].file = "" /\ s[4].file = "" /\ s[5].file = "movie"
      /\ s[6].file = ""
  BY <1>3 DEF Is
<1>8. Sane(s)
  <2>1. \A k \in DOMAIN s : Regular(s[k])
    BY <1>4, <1>5
  <2>2. \A k \in DOMAIN s : s[k].op # "list"
    BY <1>4, <1>6
  <2> QED
    BY <1>4, <2>1, <2>2 DEF Sane
<1>9. MakesOne(s, "movie")
  <2>1. \A m \in DOMAIN s : s[m].op \in {"make", "until", "remove"} /\ s[m].file = "movie" => m = 5
    BY <1>4, <1>6, <1>7
  <2>2. 5 \in DOMAIN s
    BY <1>4
  <2> QED
    BY <1>3, <1>8, <2>1, <2>2, MadeOnce
<1> QED
  BY <1>8, <1>9 DEF s

LEMMA CaptionsIsFit ==
  /\ Sane(ParseCaptions \o WriteTtml)
  /\ MakesOne(ParseCaptions \o WriteTtml, "text")
<1> DEFINE s == ParseCaptions \o WriteTtml
<1>1. /\ Len(s) = 3 /\ DOMAIN s = 1 .. 3 /\ s[1] = Input /\ s[2] = Check /\ s[3] = Write("text")
  BY DEF ParseCaptions, WriteTtml
<1>2. {"text"} \subseteq Names
  BY DEF Names
<1>3. /\ Is(s[1], "input", "", "stop", "any", "any", FALSE, "", FALSE)
      /\ Is(s[2], "check", "", "stop", "any", "any", FALSE, "", FALSE)
      /\ Is(s[3], "make", "text", "stop", "any", "any", FALSE, "", FALSE)
  BY <1>1, <1>2, Asking, MakingOnce
<1> HIDE DEF s
<1>4. DOMAIN s = {1, 2, 3} /\ DOMAIN s = 1 .. Len(s) /\ Len(s) \in Nat
  BY <1>1, Intervals
<1>5. /\ Regular(s[1]) /\ Regular(s[2]) /\ Regular(s[3])
  BY <1>3 DEF Regular, Is, Making
<1>6. /\ s[1].op = "input" /\ s[2].op = "check" /\ s[3].op = "make"
  BY <1>3 DEF Is
<1>7. /\ s[1].file = "" /\ s[2].file = "" /\ s[3].file = "text"
  BY <1>3 DEF Is
<1>8. Sane(s)
  <2>1. \A k \in DOMAIN s : Regular(s[k])
    BY <1>4, <1>5
  <2>2. \A k \in DOMAIN s : s[k].op # "list"
    BY <1>4, <1>6
  <2> QED
    BY <1>4, <2>1, <2>2 DEF Sane
<1>9. MakesOne(s, "text")
  <2>1. \A m \in DOMAIN s : s[m].op \in {"make", "until", "remove"} /\ s[m].file = "text" => m = 3
    BY <1>4, <1>6, <1>7
  <2>2. 3 \in DOMAIN s
    BY <1>4
  <2> QED
    BY <1>3, <1>8, <2>1, <2>2, MadeOnce
<1> QED
  BY <1>8, <1>9 DEF s

LEMMA RetimeSubtitlesIsFit ==
  /\ Sane(RetimeSubtitles)
  /\ MakesOne(RetimeSubtitles, "text")
<1> DEFINE s == RetimeSubtitles
<1>1. /\ Len(s) = 3 /\ DOMAIN s = 1 .. 3 /\ s[1] = Input /\ s[2] = Check /\ s[3] = Write("text")
  BY DEF RetimeSubtitles
<1>2. {"text"} \subseteq Names
  BY DEF Names
<1>3. /\ Is(s[1], "input", "", "stop", "any", "any", FALSE, "", FALSE)
      /\ Is(s[2], "check", "", "stop", "any", "any", FALSE, "", FALSE)
      /\ Is(s[3], "make", "text", "stop", "any", "any", FALSE, "", FALSE)
  BY <1>1, <1>2, Asking, MakingOnce
<1> HIDE DEF s
<1>4. DOMAIN s = {1, 2, 3} /\ DOMAIN s = 1 .. Len(s) /\ Len(s) \in Nat
  BY <1>1, Intervals
<1>5. /\ Regular(s[1]) /\ Regular(s[2]) /\ Regular(s[3])
  BY <1>3 DEF Regular, Is, Making
<1>6. /\ s[1].op = "input" /\ s[2].op = "check" /\ s[3].op = "make"
  BY <1>3 DEF Is
<1>7. /\ s[1].file = "" /\ s[2].file = "" /\ s[3].file = "text"
  BY <1>3 DEF Is
<1>8. Sane(s)
  <2>1. \A k \in DOMAIN s : Regular(s[k])
    BY <1>4, <1>5
  <2>2. \A k \in DOMAIN s : s[k].op # "list"
    BY <1>4, <1>6
  <2> QED
    BY <1>4, <2>1, <2>2 DEF Sane
<1>9. MakesOne(s, "text")
  <2>1. \A m \in DOMAIN s : s[m].op \in {"make", "until", "remove"} /\ s[m].file = "text" => m = 3
    BY <1>4, <1>6, <1>7
  <2>2. 3 \in DOMAIN s
    BY <1>4
  <2> QED
    BY <1>3, <1>8, <2>1, <2>2, MadeOnce
<1> QED
  BY <1>8, <1>9 DEF s

LEMMA ConvertSubtitlesIsFit ==
  /\ Sane(ConvertSubtitles)
  /\ MakesOne(ConvertSubtitles, "text")
<1> DEFINE s == ConvertSubtitles
<1>1. /\ Len(s) = 4 /\ DOMAIN s = 1 .. 4 /\ s[1] = Input /\ s[2] = Check /\ s[3] = Check
      /\ s[4] = Write("text")
  BY DEF ConvertSubtitles
<1>2. {"text"} \subseteq Names
  BY DEF Names
<1>3. /\ Is(s[1], "input", "", "stop", "any", "any", FALSE, "", FALSE)
      /\ Is(s[2], "check", "", "stop", "any", "any", FALSE, "", FALSE)
      /\ Is(s[3], "check", "", "stop", "any", "any", FALSE, "", FALSE)
      /\ Is(s[4], "make", "text", "stop", "any", "any", FALSE, "", FALSE)
  BY <1>1, <1>2, Asking, MakingOnce
<1> HIDE DEF s
<1>4. DOMAIN s = {1, 2, 3, 4} /\ DOMAIN s = 1 .. Len(s) /\ Len(s) \in Nat
  BY <1>1, Intervals
<1>5. /\ Regular(s[1]) /\ Regular(s[2]) /\ Regular(s[3]) /\ Regular(s[4])
  BY <1>3 DEF Regular, Is, Making
<1>6. /\ s[1].op = "input" /\ s[2].op = "check" /\ s[3].op = "check" /\ s[4].op = "make"
  BY <1>3 DEF Is
<1>7. /\ s[1].file = "" /\ s[2].file = "" /\ s[3].file = "" /\ s[4].file = "text"
  BY <1>3 DEF Is
<1>8. Sane(s)
  <2>1. \A k \in DOMAIN s : Regular(s[k])
    BY <1>4, <1>5
  <2>2. \A k \in DOMAIN s : s[k].op # "list"
    BY <1>4, <1>6
  <2> QED
    BY <1>4, <2>1, <2>2 DEF Sane
<1>9. MakesOne(s, "text")
  <2>1. \A m \in DOMAIN s : s[m].op \in {"make", "until", "remove"} /\ s[m].file = "text" => m = 4
    BY <1>4, <1>6, <1>7
  <2>2. 4 \in DOMAIN s
    BY <1>4
  <2> QED
    BY <1>3, <1>8, <2>1, <2>2, MadeOnce
<1> QED
  BY <1>8, <1>9 DEF s

LEMMA InjectDv81IsFit ==
  /\ Sane(InjectDv81)
  /\ MakesOne(InjectDv81, "movie")
  /\ MakesBeside(InjectDv81, "sidecar")
<1> DEFINE s == InjectDv81
<1>1. /\ Len(s) = 7 /\ DOMAIN s = 1 .. 7 /\ s[1] = Input /\ s[2] = Input /\ s[3] = Check
      /\ s[4] = Else(Run("rpu")) /\ s[5] = Else(Run("movie")) /\ s[6] = IfFailed(Copy("movie"))
      /\ s[7] = IfFailed(Copy("sidecar"))
  BY DEF InjectDv81
<1>2. {"movie", "rpu", "sidecar"} \subseteq Names
  BY DEF Names
<1>3. /\ Is(s[1], "input", "", "stop", "any", "any", FALSE, "", FALSE)
      /\ Is(s[2], "input", "", "stop", "any", "any", FALSE, "", FALSE)
      /\ Is(s[3], "check", "", "stop", "any", "any", FALSE, "", FALSE)
      /\ Is(s[4], "make", "rpu", "next", "any", "any", FALSE, "", FALSE)
      /\ Is(s[5], "make", "movie", "next", "any", "any", FALSE, "", FALSE)
      /\ Is(s[6], "make", "movie", "stop", "failed", "any", FALSE, "", FALSE)
      /\ Is(s[7], "make", "sidecar", "stop", "failed", "any", FALSE, "", FALSE)
  BY <1>1, <1>2, Asking, MakingOnce
<1> HIDE DEF s
<1>4. DOMAIN s = {1, 2, 3, 4, 5, 6, 7} /\ DOMAIN s = 1 .. Len(s) /\ Len(s) \in Nat
  BY <1>1, Intervals
<1>5. /\ Regular(s[1]) /\ Regular(s[2]) /\ Regular(s[3]) /\ Regular(s[4]) /\ Regular(s[5])
      /\ Regular(s[6]) /\ Regular(s[7])
  BY <1>3 DEF Regular, Is, Making
<1>6. /\ s[1].op = "input" /\ s[2].op = "input" /\ s[3].op = "check" /\ s[4].op = "make"
      /\ s[5].op = "make" /\ s[6].op = "make" /\ s[7].op = "make"
  BY <1>3 DEF Is
<1>7. /\ s[1].file = "" /\ s[2].file = "" /\ s[3].file = "" /\ s[4].file = "rpu"
      /\ s[5].file = "movie" /\ s[6].file = "movie" /\ s[7].file = "sidecar"
  BY <1>3 DEF Is
<1>8. Sane(s)
  <2>1. \A k \in DOMAIN s : Regular(s[k])
    BY <1>4, <1>5
  <2>2. \A k \in DOMAIN s : s[k].op # "list"
    BY <1>4, <1>6
  <2> QED
    BY <1>4, <2>1, <2>2 DEF Sane
<1>9. MakesOne(s, "movie")
  <2>1. \A m \in DOMAIN s : s[m].op \in {"make", "until", "remove"} /\ s[m].file = "movie" => m \in {5, 6}
    BY <1>4, <1>6, <1>7
  <2>2. 5 \in DOMAIN s /\ 6 \in DOMAIN s
    BY <1>4
  <2>3. 5 \in 1 .. 6 - 1
    OBVIOUS
  <2>4. /\ Is(s[5], "make", "movie", "next", "any", "any", FALSE, "", FALSE)
        /\ Is(s[6], "make", "movie", "stop", "failed", "any", FALSE, "", FALSE)
    BY <1>3
  <2>5. \A m \in 5 + 1 .. 6 - 1 : ~Forgives(s[m])
    OBVIOUS
  <2>6. MadeBySteps(s, "movie", 5, 6)
    BY <2>1, <2>2, <2>3, <2>4, <2>5 DEF MadeBySteps
  <2> QED
    BY <1>8, <2>6, MadeOrElse
<1>10. MakesBeside(s, "sidecar")
  <2>1. \A m \in DOMAIN s : s[m].op \in Making /\ s[m].file = "sidecar" => m = 7
    BY <1>4, <1>6, <1>7 DEF Making
  <2>2. s[7].op = "make" /\ ~s[7].each /\ s[7].needs = "" /\ s[7].fails \in {"stop", "go"}
    BY <1>3 DEF Is
  <2> QED
    BY <2>1, <2>2 DEF MakesBeside
<1> QED
  BY <1>8, <1>9, <1>10 DEF s

LEMMA ConvertProfile4IsFit ==
  /\ Sane(ConvertProfile4)
  /\ MakesOne(ConvertProfile4, "movie")
  /\ MakesBeside(ConvertProfile4, "sidecar")
<1> DEFINE s == ConvertProfile4
<1>1. /\ Len(s) = 10 /\ DOMAIN s = 1 .. 10 /\ s[1] = Input /\ s[2] = Check /\ s[3] = Run("rpu4")
      /\ s[4] = Input /\ s[5] = Input /\ s[6] = Check /\ s[7] = Else(Run("rpu"))
      /\ s[8] = Else(Run("movie")) /\ s[9] = IfFailed(Copy("movie"))
      /\ s[10] = IfFailed(Copy("sidecar"))
  BY DEF ConvertProfile4, InjectDv81
<1>2. {"movie", "rpu", "rpu4", "sidecar"} \subseteq Names
  BY DEF Names
<1>3. /\ Is(s[1], "input", "", "stop", "any", "any", FALSE, "", FALSE)
      /\ Is(s[2], "check", "", "stop", "any", "any", FALSE, "", FALSE)
      /\ Is(s[3], "make", "rpu4", "stop", "any", "any", FALSE, "", FALSE)
      /\ Is(s[4], "input", "", "stop", "any", "any", FALSE, "", FALSE)
      /\ Is(s[5], "input", "", "stop", "any", "any", FALSE, "", FALSE)
      /\ Is(s[6], "check", "", "stop", "any", "any", FALSE, "", FALSE)
      /\ Is(s[7], "make", "rpu", "next", "any", "any", FALSE, "", FALSE)
      /\ Is(s[8], "make", "movie", "next", "any", "any", FALSE, "", FALSE)
      /\ Is(s[9], "make", "movie", "stop", "failed", "any", FALSE, "", FALSE)
      /\ Is(s[10], "make", "sidecar", "stop", "failed", "any", FALSE, "", FALSE)
  BY <1>1, <1>2, Asking, MakingOnce
<1> HIDE DEF s
<1>4. DOMAIN s = {1, 2, 3, 4, 5, 6, 7, 8, 9, 10} /\ DOMAIN s = 1 .. Len(s) /\ Len(s) \in Nat
  BY <1>1, Intervals
<1>5. /\ Regular(s[1]) /\ Regular(s[2]) /\ Regular(s[3]) /\ Regular(s[4]) /\ Regular(s[5])
      /\ Regular(s[6]) /\ Regular(s[7]) /\ Regular(s[8]) /\ Regular(s[9]) /\ Regular(s[10])
  BY <1>3 DEF Regular, Is, Making
<1>6. /\ s[1].op = "input" /\ s[2].op = "check" /\ s[3].op = "make" /\ s[4].op = "input"
      /\ s[5].op = "input" /\ s[6].op = "check" /\ s[7].op = "make" /\ s[8].op = "make"
      /\ s[9].op = "make" /\ s[10].op = "make"
  BY <1>3 DEF Is
<1>7. /\ s[1].file = "" /\ s[2].file = "" /\ s[3].file = "rpu4" /\ s[4].file = "" /\ s[5].file = ""
      /\ s[6].file = "" /\ s[7].file = "rpu" /\ s[8].file = "movie" /\ s[9].file = "movie"
      /\ s[10].file = "sidecar"
  BY <1>3 DEF Is
<1>8. Sane(s)
  <2>1. \A k \in DOMAIN s : Regular(s[k])
    BY <1>4, <1>5
  <2>2. \A k \in DOMAIN s : s[k].op # "list"
    BY <1>4, <1>6
  <2> QED
    BY <1>4, <2>1, <2>2 DEF Sane
<1>9. MakesOne(s, "movie")
  <2>1. \A m \in DOMAIN s : s[m].op \in {"make", "until", "remove"} /\ s[m].file = "movie" => m \in {8, 9}
    BY <1>4, <1>6, <1>7
  <2>2. 8 \in DOMAIN s /\ 9 \in DOMAIN s
    BY <1>4
  <2>3. 8 \in 1 .. 9 - 1
    OBVIOUS
  <2>4. /\ Is(s[8], "make", "movie", "next", "any", "any", FALSE, "", FALSE)
        /\ Is(s[9], "make", "movie", "stop", "failed", "any", FALSE, "", FALSE)
    BY <1>3
  <2>5. \A m \in 8 + 1 .. 9 - 1 : ~Forgives(s[m])
    OBVIOUS
  <2>6. MadeBySteps(s, "movie", 8, 9)
    BY <2>1, <2>2, <2>3, <2>4, <2>5 DEF MadeBySteps
  <2> QED
    BY <1>8, <2>6, MadeOrElse
<1>10. MakesBeside(s, "sidecar")
  <2>1. \A m \in DOMAIN s : s[m].op \in Making /\ s[m].file = "sidecar" => m = 10
    BY <1>4, <1>6, <1>7 DEF Making
  <2>2. s[10].op = "make" /\ ~s[10].each /\ s[10].needs = "" /\ s[10].fails \in {"stop", "go"}
    BY <1>3 DEF Is
  <2> QED
    BY <2>1, <2>2 DEF MakesBeside
<1> QED
  BY <1>8, <1>9, <1>10 DEF s

-----------------------------------------------------------------------------
(* Packages.                                                               *)
LEMMA CreateOvImpIsFit ==
  /\ Sane(CreateOvImp)
  /\ MakesOne(CreateOvImp, "package")
<1> DEFINE s == CreateOvImp
<1>1. /\ Len(s) = 2 /\ DOMAIN s = 1 .. 2 /\ s[1] = Input /\ s[2] = Run("package")
  BY DEF CreateOvImp
<1>2. {"package"} \subseteq Names
  BY DEF Names
<1>3. /\ Is(s[1], "input", "", "stop", "any", "any", FALSE, "", FALSE)
      /\ Is(s[2], "make", "package", "stop", "any", "any", FALSE, "", FALSE)
  BY <1>1, <1>2, Asking, MakingOnce
<1> HIDE DEF s
<1>4. DOMAIN s = {1, 2} /\ DOMAIN s = 1 .. Len(s) /\ Len(s) \in Nat
  BY <1>1, Intervals
<1>5. /\ Regular(s[1]) /\ Regular(s[2])
  BY <1>3 DEF Regular, Is, Making
<1>6. /\ s[1].op = "input" /\ s[2].op = "make"
  BY <1>3 DEF Is
<1>7. /\ s[1].file = "" /\ s[2].file = "package"
  BY <1>3 DEF Is
<1>8. Sane(s)
  <2>1. \A k \in DOMAIN s : Regular(s[k])
    BY <1>4, <1>5
  <2>2. \A k \in DOMAIN s : s[k].op # "list"
    BY <1>4, <1>6
  <2> QED
    BY <1>4, <2>1, <2>2 DEF Sane
<1>9. MakesOne(s, "package")
  <2>1. \A m \in DOMAIN s : s[m].op \in {"make", "until", "remove"} /\ s[m].file = "package" => m = 2
    BY <1>4, <1>6, <1>7
  <2>2. 2 \in DOMAIN s
    BY <1>4
  <2> QED
    BY <1>3, <1>8, <2>1, <2>2, MadeOnce
<1> QED
  BY <1>8, <1>9 DEF s

LEMMA SupplementIsFit ==
  /\ Sane(Supplement)
  /\ MakesOne(Supplement, "package")
<1> DEFINE s == Supplement
<1>1. /\ Len(s) = 3 /\ DOMAIN s = 1 .. 3 /\ s[1] = Input /\ s[2] = Input /\ s[3] = Run("package")
  BY DEF Supplement
<1>2. {"package"} \subseteq Names
  BY DEF Names
<1>3. /\ Is(s[1], "input", "", "stop", "any", "any", FALSE, "", FALSE)
      /\ Is(s[2], "input", "", "stop", "any", "any", FALSE, "", FALSE)
      /\ Is(s[3], "make", "package", "stop", "any", "any", FALSE, "", FALSE)
  BY <1>1, <1>2, Asking, MakingOnce
<1> HIDE DEF s
<1>4. DOMAIN s = {1, 2, 3} /\ DOMAIN s = 1 .. Len(s) /\ Len(s) \in Nat
  BY <1>1, Intervals
<1>5. /\ Regular(s[1]) /\ Regular(s[2]) /\ Regular(s[3])
  BY <1>3 DEF Regular, Is, Making
<1>6. /\ s[1].op = "input" /\ s[2].op = "input" /\ s[3].op = "make"
  BY <1>3 DEF Is
<1>7. /\ s[1].file = "" /\ s[2].file = "" /\ s[3].file = "package"
  BY <1>3 DEF Is
<1>8. Sane(s)
  <2>1. \A k \in DOMAIN s : Regular(s[k])
    BY <1>4, <1>5
  <2>2. \A k \in DOMAIN s : s[k].op # "list"
    BY <1>4, <1>6
  <2> QED
    BY <1>4, <2>1, <2>2 DEF Sane
<1>9. MakesOne(s, "package")
  <2>1. \A m \in DOMAIN s : s[m].op \in {"make", "until", "remove"} /\ s[m].file = "package" => m = 3
    BY <1>4, <1>6, <1>7
  <2>2. 3 \in DOMAIN s
    BY <1>4
  <2> QED
    BY <1>3, <1>8, <2>1, <2>2, MadeOnce
<1> QED
  BY <1>8, <1>9 DEF s

LEMMA ConformFromEdlIsFit ==
  /\ Sane(ConformFromEdl)
  /\ MakesOne(ConformFromEdl, "package")
<1> DEFINE s == ConformFromEdl
<1>1. /\ Len(s) = 4 /\ DOMAIN s = 1 .. 4 /\ s[1] = Input /\ s[2] = Check /\ s[3] = Check
      /\ s[4] = Run("package")
  BY DEF ConformFromEdl
<1>2. {"package"} \subseteq Names
  BY DEF Names
<1>3. /\ Is(s[1], "input", "", "stop", "any", "any", FALSE, "", FALSE)
      /\ Is(s[2], "check", "", "stop", "any", "any", FALSE, "", FALSE)
      /\ Is(s[3], "check", "", "stop", "any", "any", FALSE, "", FALSE)
      /\ Is(s[4], "make", "package", "stop", "any", "any", FALSE, "", FALSE)
  BY <1>1, <1>2, Asking, MakingOnce
<1> HIDE DEF s
<1>4. DOMAIN s = {1, 2, 3, 4} /\ DOMAIN s = 1 .. Len(s) /\ Len(s) \in Nat
  BY <1>1, Intervals
<1>5. /\ Regular(s[1]) /\ Regular(s[2]) /\ Regular(s[3]) /\ Regular(s[4])
  BY <1>3 DEF Regular, Is, Making
<1>6. /\ s[1].op = "input" /\ s[2].op = "check" /\ s[3].op = "check" /\ s[4].op = "make"
  BY <1>3 DEF Is
<1>7. /\ s[1].file = "" /\ s[2].file = "" /\ s[3].file = "" /\ s[4].file = "package"
  BY <1>3 DEF Is
<1>8. Sane(s)
  <2>1. \A k \in DOMAIN s : Regular(s[k])
    BY <1>4, <1>5
  <2>2. \A k \in DOMAIN s : s[k].op # "list"
    BY <1>4, <1>6
  <2> QED
    BY <1>4, <2>1, <2>2 DEF Sane
<1>9. MakesOne(s, "package")
  <2>1. \A m \in DOMAIN s : s[m].op \in {"make", "until", "remove"} /\ s[m].file = "package" => m = 4
    BY <1>4, <1>6, <1>7
  <2>2. 4 \in DOMAIN s
    BY <1>4
  <2> QED
    BY <1>3, <1>8, <2>1, <2>2, MadeOnce
<1> QED
  BY <1>8, <1>9 DEF s

LEMMA BatchDeliverIsFit ==
  /\ Sane(BatchDeliver)
  /\ MakesPerItem(BatchDeliver, "package")
  /\ NoFrames(BatchDeliver)
<1> DEFINE s == BatchDeliver
<1>1. /\ Len(s) = 2 /\ DOMAIN s = 1 .. 2 /\ s[1] = List /\ s[2] = Each(NoteOf(Run("package")))
  BY DEF BatchDeliver
<1>2. {"package"} \subseteq Names
  BY DEF Names
<1>3. /\ Is(s[1], "list", "", "stop", "any", "any", FALSE, "", FALSE)
      /\ Is(s[2], "make", "package", "note", "any", "any", TRUE, "", FALSE)
  BY <1>1, <1>2, Asking, MakingEach
<1> HIDE DEF s
<1>4. DOMAIN s = {1, 2} /\ DOMAIN s = 1 .. Len(s) /\ Len(s) \in Nat
  BY <1>1, Intervals
<1>5. /\ Regular(s[1]) /\ Regular(s[2])
  BY <1>3 DEF Regular, Is, Making
<1>6. /\ s[1].op = "list" /\ s[2].op = "make"
  BY <1>3 DEF Is
<1>7. /\ s[1].file = "" /\ s[2].file = "package"
  BY <1>3 DEF Is
<1>8. Sane(s)
  <2>1. \A k \in DOMAIN s : Regular(s[k])
    BY <1>4, <1>5
  <2>2. \A k \in DOMAIN s : s[k].op = "list" => k = 1
    BY <1>4, <1>6
  <2> QED
    BY <1>4, <2>1, <2>2 DEF Sane
<1>9. ListedBefore(s, 2)
  <2>1. 1 \in 1 .. 2 - 1
    OBVIOUS
  <2> QED
    BY <1>6, <2>1 DEF ListedBefore
<1>10. EachStep(s, 2) /\ MakesPerItem(s, "package")
  <2>1. \A m \in DOMAIN s : s[m].op \in Making /\ s[m].file = "package" => m = 2
    BY <1>4, <1>6, <1>7 DEF Making
  <2> QED
    BY <1>3, <1>4, <1>8, <1>9, <2>1, MadeForEach DEF Is
<1>11. NoFrames(s)
  BY <1>4, <1>6, <1>7 DEF NoFrames, Making
<1> QED
  BY <1>8, <1>10, <1>11 DEF s

LEMMA CreateProresImpIsFit ==
  /\ Sane(CreateProresImp)
  /\ MakesOne(CreateProresImp, "video")
  /\ MakesOne(CreateProresImp, "pkl")
  /\ MakesOne(CreateProresImp, "cpl")
  /\ MakesOne(CreateProresImp, "ASSETMAP.xml")
  /\ MakesBeside(CreateProresImp, "audio")
<1> DEFINE s == CreateProresImp
<1>1. /\ Len(s) = 8 /\ DOMAIN s = 1 .. 8 /\ s[1] = Input /\ s[2] = Check /\ s[3] = Run("video")
      /\ s[4] = Check /\ s[5] = Maybe(Ignore(Run("audio"))) /\ s[6] = Write("pkl")
      /\ s[7] = Write("cpl") /\ s[8] = Write("ASSETMAP.xml")
  BY DEF CreateProresImp
<1>2. {"ASSETMAP.xml", "audio", "cpl", "pkl", "video"} \subseteq Names
  BY DEF Names
<1>3. /\ Is(s[1], "input", "", "stop", "any", "any", FALSE, "", FALSE)
      /\ Is(s[2], "check", "", "stop", "any", "any", FALSE, "", FALSE)
      /\ Is(s[3], "make", "video", "stop", "any", "any", FALSE, "", FALSE)
      /\ Is(s[4], "check", "", "stop", "any", "any", FALSE, "", FALSE)
      /\ Is(s[5], "make", "audio", "go", "maybe", "any", FALSE, "", FALSE)
      /\ Is(s[6], "make", "pkl", "stop", "any", "any", FALSE, "", FALSE)
      /\ Is(s[7], "make", "cpl", "stop", "any", "any", FALSE, "", FALSE)
      /\ Is(s[8], "make", "ASSETMAP.xml", "stop", "any", "any", FALSE, "", FALSE)
  BY <1>1, <1>2, Asking, MakingOnce
<1> HIDE DEF s
<1>4. DOMAIN s = {1, 2, 3, 4, 5, 6, 7, 8} /\ DOMAIN s = 1 .. Len(s) /\ Len(s) \in Nat
  BY <1>1, Intervals
<1>5. /\ Regular(s[1]) /\ Regular(s[2]) /\ Regular(s[3]) /\ Regular(s[4]) /\ Regular(s[5])
      /\ Regular(s[6]) /\ Regular(s[7]) /\ Regular(s[8])
  BY <1>3 DEF Regular, Is, Making
<1>6. /\ s[1].op = "input" /\ s[2].op = "check" /\ s[3].op = "make" /\ s[4].op = "check"
      /\ s[5].op = "make" /\ s[6].op = "make" /\ s[7].op = "make" /\ s[8].op = "make"
  BY <1>3 DEF Is
<1>7. /\ s[1].file = "" /\ s[2].file = "" /\ s[3].file = "video" /\ s[4].file = ""
      /\ s[5].file = "audio" /\ s[6].file = "pkl" /\ s[7].file = "cpl" /\ s[8].file = "ASSETMAP.xml"
  BY <1>3 DEF Is
<1>8. Sane(s)
  <2>1. \A k \in DOMAIN s : Regular(s[k])
    BY <1>4, <1>5
  <2>2. \A k \in DOMAIN s : s[k].op # "list"
    BY <1>4, <1>6
  <2> QED
    BY <1>4, <2>1, <2>2 DEF Sane
<1>9. MakesOne(s, "video")
  <2>1. \A m \in DOMAIN s : s[m].op \in {"make", "until", "remove"} /\ s[m].file = "video" => m = 3
    BY <1>4, <1>6, <1>7
  <2>2. 3 \in DOMAIN s
    BY <1>4
  <2> QED
    BY <1>3, <1>8, <2>1, <2>2, MadeOnce
<1>10. MakesOne(s, "pkl")
  <2>1. \A m \in DOMAIN s : s[m].op \in {"make", "until", "remove"} /\ s[m].file = "pkl" => m = 6
    BY <1>4, <1>6, <1>7
  <2>2. 6 \in DOMAIN s
    BY <1>4
  <2> QED
    BY <1>3, <1>8, <2>1, <2>2, MadeOnce
<1>11. MakesOne(s, "cpl")
  <2>1. \A m \in DOMAIN s : s[m].op \in {"make", "until", "remove"} /\ s[m].file = "cpl" => m = 7
    BY <1>4, <1>6, <1>7
  <2>2. 7 \in DOMAIN s
    BY <1>4
  <2> QED
    BY <1>3, <1>8, <2>1, <2>2, MadeOnce
<1>12. MakesOne(s, "ASSETMAP.xml")
  <2>1. \A m \in DOMAIN s : s[m].op \in {"make", "until", "remove"} /\ s[m].file = "ASSETMAP.xml" => m = 8
    BY <1>4, <1>6, <1>7
  <2>2. 8 \in DOMAIN s
    BY <1>4
  <2> QED
    BY <1>3, <1>8, <2>1, <2>2, MadeOnce
<1>13. MakesBeside(s, "audio")
  <2>1. \A m \in DOMAIN s : s[m].op \in Making /\ s[m].file = "audio" => m = 5
    BY <1>4, <1>6, <1>7 DEF Making
  <2>2. s[5].op = "make" /\ ~s[5].each /\ s[5].needs = "" /\ s[5].fails \in {"stop", "go"}
    BY <1>3 DEF Is
  <2> QED
    BY <2>1, <2>2 DEF MakesBeside
<1> QED
  BY <1>8, <1>9, <1>10, <1>11, <1>12, <1>13 DEF s

LEMMA ConvertImpToDcpIsFit ==
  /\ Sane(ConvertImpToDcp)
  /\ MakesOne(ConvertImpToDcp, "video")
  /\ MakesOne(ConvertImpToDcp, "CPL.xml")
  /\ MakesOne(ConvertImpToDcp, "VOLINDEX.xml")
  /\ MakesOne(ConvertImpToDcp, "ASSETMAP.xml")
  /\ MakesBeside(ConvertImpToDcp, "audio")
<1> DEFINE s == ConvertImpToDcp
<1>1. /\ Len(s) = 10 /\ DOMAIN s = 1 .. 10 /\ s[1] = Input /\ s[2] = Check /\ s[3] = Need("video")
      /\ s[4] = Else(Run("video")) /\ s[5] = IfFailed(Copy("video"))
      /\ s[6] = Maybe(Else(Run("audio"))) /\ s[7] = IfFailed(Copy("audio"))
      /\ s[8] = Write("CPL.xml") /\ s[9] = Write("VOLINDEX.xml") /\ s[10] = Write("ASSETMAP.xml")
  BY DEF ConvertImpToDcp, ReadImpInfo
<1>2. {"ASSETMAP.xml", "CPL.xml", "VOLINDEX.xml", "audio", "video"} \subseteq Names
  BY DEF Names
<1>3. /\ Is(s[1], "input", "", "stop", "any", "any", FALSE, "", FALSE)
      /\ Is(s[2], "check", "", "stop", "any", "any", FALSE, "", FALSE)
      /\ Is(s[3], "need", "video", "stop", "any", "any", FALSE, "", FALSE)
      /\ Is(s[4], "make", "video", "next", "any", "any", FALSE, "", FALSE)
      /\ Is(s[5], "make", "video", "stop", "failed", "any", FALSE, "", FALSE)
      /\ Is(s[6], "make", "audio", "next", "maybe", "any", FALSE, "", FALSE)
      /\ Is(s[7], "make", "audio", "stop", "failed", "any", FALSE, "", FALSE)
      /\ Is(s[8], "make", "CPL.xml", "stop", "any", "any", FALSE, "", FALSE)
      /\ Is(s[9], "make", "VOLINDEX.xml", "stop", "any", "any", FALSE, "", FALSE)
      /\ Is(s[10], "make", "ASSETMAP.xml", "stop", "any", "any", FALSE, "", FALSE)
  BY <1>1, <1>2, Asking, MakingOnce
<1> HIDE DEF s
<1>4. DOMAIN s = {1, 2, 3, 4, 5, 6, 7, 8, 9, 10} /\ DOMAIN s = 1 .. Len(s) /\ Len(s) \in Nat
  BY <1>1, Intervals
<1>5. /\ Regular(s[1]) /\ Regular(s[2]) /\ Regular(s[3]) /\ Regular(s[4]) /\ Regular(s[5])
      /\ Regular(s[6]) /\ Regular(s[7]) /\ Regular(s[8]) /\ Regular(s[9]) /\ Regular(s[10])
  BY <1>3 DEF Regular, Is, Making
<1>6. /\ s[1].op = "input" /\ s[2].op = "check" /\ s[3].op = "need" /\ s[4].op = "make"
      /\ s[5].op = "make" /\ s[6].op = "make" /\ s[7].op = "make" /\ s[8].op = "make"
      /\ s[9].op = "make" /\ s[10].op = "make"
  BY <1>3 DEF Is
<1>7. /\ s[1].file = "" /\ s[2].file = "" /\ s[3].file = "video" /\ s[4].file = "video"
      /\ s[5].file = "video" /\ s[6].file = "audio" /\ s[7].file = "audio" /\ s[8].file = "CPL.xml"
      /\ s[9].file = "VOLINDEX.xml" /\ s[10].file = "ASSETMAP.xml"
  BY <1>3 DEF Is
<1>8. Sane(s)
  <2>1. \A k \in DOMAIN s : Regular(s[k])
    BY <1>4, <1>5
  <2>2. \A k \in DOMAIN s : s[k].op # "list"
    BY <1>4, <1>6
  <2> QED
    BY <1>4, <2>1, <2>2 DEF Sane
<1>9. MakesOne(s, "video")
  <2>1. \A m \in DOMAIN s : s[m].op \in {"make", "until", "remove"} /\ s[m].file = "video" => m \in {4, 5}
    BY <1>4, <1>6, <1>7
  <2>2. 4 \in DOMAIN s /\ 5 \in DOMAIN s
    BY <1>4
  <2>3. 4 \in 1 .. 5 - 1
    OBVIOUS
  <2>4. /\ Is(s[4], "make", "video", "next", "any", "any", FALSE, "", FALSE)
        /\ Is(s[5], "make", "video", "stop", "failed", "any", FALSE, "", FALSE)
    BY <1>3
  <2>5. \A m \in 4 + 1 .. 5 - 1 : ~Forgives(s[m])
    OBVIOUS
  <2>6. MadeBySteps(s, "video", 4, 5)
    BY <2>1, <2>2, <2>3, <2>4, <2>5 DEF MadeBySteps
  <2> QED
    BY <1>8, <2>6, MadeOrElse
<1>10. MakesOne(s, "CPL.xml")
  <2>1. \A m \in DOMAIN s : s[m].op \in {"make", "until", "remove"} /\ s[m].file = "CPL.xml" => m = 8
    BY <1>4, <1>6, <1>7
  <2>2. 8 \in DOMAIN s
    BY <1>4
  <2> QED
    BY <1>3, <1>8, <2>1, <2>2, MadeOnce
<1>11. MakesOne(s, "VOLINDEX.xml")
  <2>1. \A m \in DOMAIN s : s[m].op \in {"make", "until", "remove"} /\ s[m].file = "VOLINDEX.xml" => m = 9
    BY <1>4, <1>6, <1>7
  <2>2. 9 \in DOMAIN s
    BY <1>4
  <2> QED
    BY <1>3, <1>8, <2>1, <2>2, MadeOnce
<1>12. MakesOne(s, "ASSETMAP.xml")
  <2>1. \A m \in DOMAIN s : s[m].op \in {"make", "until", "remove"} /\ s[m].file = "ASSETMAP.xml" => m = 10
    BY <1>4, <1>6, <1>7
  <2>2. 10 \in DOMAIN s
    BY <1>4
  <2> QED
    BY <1>3, <1>8, <2>1, <2>2, MadeOnce
<1>13. MakesBeside(s, "audio")
  <2>1. \A m \in DOMAIN s : s[m].op \in Making /\ s[m].file = "audio" => m \in {6, 7}
    BY <1>4, <1>6, <1>7 DEF Making
  <2>2. 6 + 1 = 7 /\ 7 \in DOMAIN s
    BY <1>4
  <2>3. Amends(s, 7, "audio")
    BY <1>3, <2>2 DEF Amends, Is, Writes, Making
  <2>4. /\ s[6].op = "make" /\ ~s[6].each /\ s[6].needs = "" /\ s[6].fails = "next"
        /\ s[7].op = "make" /\ ~s[7].each /\ s[7].needs = "" /\ s[7].fails = "stop"
    BY <1>3 DEF Is
  <2> QED
    BY <2>1, <2>2, <2>3, <2>4 DEF MakesBeside
<1> QED
  BY <1>8, <1>9, <1>10, <1>11, <1>12, <1>13 DEF s

LEMMA CreatePartialVersionIsFit ==
  /\ Sane(CreatePartialVersion)
  /\ MakesOne(CreatePartialVersion, "movie")
  /\ MakesOne(CreatePartialVersion, "CPL.xml")
  /\ MakesBeside(CreatePartialVersion, "wav")
<1> DEFINE s == CreatePartialVersion
<1>1. /\ Len(s) = 6 /\ DOMAIN s = 1 .. 6 /\ s[1] = Input /\ s[2] = Input /\ s[3] = Check
      /\ s[4] = Copy("movie") /\ s[5] = Maybe(Copy("wav")) /\ s[6] = Write("CPL.xml")
  BY DEF CreatePartialVersion, ReadImpInfo
<1>2. {"CPL.xml", "movie", "wav"} \subseteq Names
  BY DEF Names
<1>3. /\ Is(s[1], "input", "", "stop", "any", "any", FALSE, "", FALSE)
      /\ Is(s[2], "input", "", "stop", "any", "any", FALSE, "", FALSE)
      /\ Is(s[3], "check", "", "stop", "any", "any", FALSE, "", FALSE)
      /\ Is(s[4], "make", "movie", "stop", "any", "any", FALSE, "", FALSE)
      /\ Is(s[5], "make", "wav", "stop", "maybe", "any", FALSE, "", FALSE)
      /\ Is(s[6], "make", "CPL.xml", "stop", "any", "any", FALSE, "", FALSE)
  BY <1>1, <1>2, Asking, MakingOnce
<1> HIDE DEF s
<1>4. DOMAIN s = {1, 2, 3, 4, 5, 6} /\ DOMAIN s = 1 .. Len(s) /\ Len(s) \in Nat
  BY <1>1, Intervals
<1>5. /\ Regular(s[1]) /\ Regular(s[2]) /\ Regular(s[3]) /\ Regular(s[4]) /\ Regular(s[5])
      /\ Regular(s[6])
  BY <1>3 DEF Regular, Is, Making
<1>6. /\ s[1].op = "input" /\ s[2].op = "input" /\ s[3].op = "check" /\ s[4].op = "make"
      /\ s[5].op = "make" /\ s[6].op = "make"
  BY <1>3 DEF Is
<1>7. /\ s[1].file = "" /\ s[2].file = "" /\ s[3].file = "" /\ s[4].file = "movie"
      /\ s[5].file = "wav" /\ s[6].file = "CPL.xml"
  BY <1>3 DEF Is
<1>8. Sane(s)
  <2>1. \A k \in DOMAIN s : Regular(s[k])
    BY <1>4, <1>5
  <2>2. \A k \in DOMAIN s : s[k].op # "list"
    BY <1>4, <1>6
  <2> QED
    BY <1>4, <2>1, <2>2 DEF Sane
<1>9. MakesOne(s, "movie")
  <2>1. \A m \in DOMAIN s : s[m].op \in {"make", "until", "remove"} /\ s[m].file = "movie" => m = 4
    BY <1>4, <1>6, <1>7
  <2>2. 4 \in DOMAIN s
    BY <1>4
  <2> QED
    BY <1>3, <1>8, <2>1, <2>2, MadeOnce
<1>10. MakesOne(s, "CPL.xml")
  <2>1. \A m \in DOMAIN s : s[m].op \in {"make", "until", "remove"} /\ s[m].file = "CPL.xml" => m = 6
    BY <1>4, <1>6, <1>7
  <2>2. 6 \in DOMAIN s
    BY <1>4
  <2> QED
    BY <1>3, <1>8, <2>1, <2>2, MadeOnce
<1>11. MakesBeside(s, "wav")
  <2>1. \A m \in DOMAIN s : s[m].op \in Making /\ s[m].file = "wav" => m = 5
    BY <1>4, <1>6, <1>7 DEF Making
  <2>2. s[5].op = "make" /\ ~s[5].each /\ s[5].needs = "" /\ s[5].fails \in {"stop", "go"}
    BY <1>3 DEF Is
  <2> QED
    BY <2>1, <2>2 DEF MakesBeside
<1> QED
  BY <1>8, <1>9, <1>10, <1>11 DEF s

LEMMA GenerateKdmIsFit ==
  /\ Sane(GenerateKdm)
  /\ MakesPerItem(GenerateKdm, "kdm")
  /\ NoFrames(GenerateKdm)
<1> DEFINE s == GenerateKdm
<1>1. /\ Len(s) = 6 /\ DOMAIN s = 1 .. 6 /\ s[1] = Input /\ s[2] = List /\ s[3] = Check
      /\ s[4] = Check /\ s[5] = Check /\ s[6] = Each(Write("kdm"))
  BY DEF GenerateKdm
<1>2. {"kdm"} \subseteq Names
  BY DEF Names
<1>3. /\ Is(s[1], "input", "", "stop", "any", "any", FALSE, "", FALSE)
      /\ Is(s[2], "list", "", "stop", "any", "any", FALSE, "", FALSE)
      /\ Is(s[3], "check", "", "stop", "any", "any", FALSE, "", FALSE)
      /\ Is(s[4], "check", "", "stop", "any", "any", FALSE, "", FALSE)
      /\ Is(s[5], "check", "", "stop", "any", "any", FALSE, "", FALSE)
      /\ Is(s[6], "make", "kdm", "stop", "any", "any", TRUE, "", FALSE)
  BY <1>1, <1>2, Asking, MakingEach
<1> HIDE DEF s
<1>4. DOMAIN s = {1, 2, 3, 4, 5, 6} /\ DOMAIN s = 1 .. Len(s) /\ Len(s) \in Nat
  BY <1>1, Intervals
<1>5. /\ Regular(s[1]) /\ Regular(s[2]) /\ Regular(s[3]) /\ Regular(s[4]) /\ Regular(s[5])
      /\ Regular(s[6])
  BY <1>3 DEF Regular, Is, Making
<1>6. /\ s[1].op = "input" /\ s[2].op = "list" /\ s[3].op = "check" /\ s[4].op = "check"
      /\ s[5].op = "check" /\ s[6].op = "make"
  BY <1>3 DEF Is
<1>7. /\ s[1].file = "" /\ s[2].file = "" /\ s[3].file = "" /\ s[4].file = "" /\ s[5].file = ""
      /\ s[6].file = "kdm"
  BY <1>3 DEF Is
<1>8. Sane(s)
  <2>1. \A k \in DOMAIN s : Regular(s[k])
    BY <1>4, <1>5
  <2>2. \A k \in DOMAIN s : s[k].op = "list" => k = 2
    BY <1>4, <1>6
  <2> QED
    BY <1>4, <2>1, <2>2 DEF Sane
<1>9. ListedBefore(s, 6)
  <2>1. 2 \in 1 .. 6 - 1
    OBVIOUS
  <2> QED
    BY <1>6, <2>1 DEF ListedBefore
<1>10. EachStep(s, 6) /\ MakesPerItem(s, "kdm")
  <2>1. \A m \in DOMAIN s : s[m].op \in Making /\ s[m].file = "kdm" => m = 6
    BY <1>4, <1>6, <1>7 DEF Making
  <2> QED
    BY <1>3, <1>4, <1>8, <1>9, <2>1, MadeForEach DEF Is
<1>11. NoFrames(s)
  BY <1>4, <1>6, <1>7 DEF NoFrames, Making
<1> QED
  BY <1>8, <1>10, <1>11 DEF s

LEMMA AsperaTransferIsFit ==
  /\ Sane(AsperaTransfer)
  /\ MakesOne(AsperaTransfer, "remote")
<1> DEFINE s == AsperaTransfer
<1>1. /\ Len(s) = 3 /\ DOMAIN s = 1 .. 3 /\ s[1] = Check /\ s[2] = Input /\ s[3] = Run("remote")
  BY DEF AsperaTransfer
<1>2. {"remote"} \subseteq Names
  BY DEF Names
<1>3. /\ Is(s[1], "check", "", "stop", "any", "any", FALSE, "", FALSE)
      /\ Is(s[2], "input", "", "stop", "any", "any", FALSE, "", FALSE)
      /\ Is(s[3], "make", "remote", "stop", "any", "any", FALSE, "", FALSE)
  BY <1>1, <1>2, Asking, MakingOnce
<1> HIDE DEF s
<1>4. DOMAIN s = {1, 2, 3} /\ DOMAIN s = 1 .. Len(s) /\ Len(s) \in Nat
  BY <1>1, Intervals
<1>5. /\ Regular(s[1]) /\ Regular(s[2]) /\ Regular(s[3])
  BY <1>3 DEF Regular, Is, Making
<1>6. /\ s[1].op = "check" /\ s[2].op = "input" /\ s[3].op = "make"
  BY <1>3 DEF Is
<1>7. /\ s[1].file = "" /\ s[2].file = "" /\ s[3].file = "remote"
  BY <1>3 DEF Is
<1>8. Sane(s)
  <2>1. \A k \in DOMAIN s : Regular(s[k])
    BY <1>4, <1>5
  <2>2. \A k \in DOMAIN s : s[k].op # "list"
    BY <1>4, <1>6
  <2> QED
    BY <1>4, <2>1, <2>2 DEF Sane
<1>9. MakesOne(s, "remote")
  <2>1. \A m \in DOMAIN s : s[m].op \in {"make", "until", "remove"} /\ s[m].file = "remote" => m = 3
    BY <1>4, <1>6, <1>7
  <2>2. 3 \in DOMAIN s
    BY <1>4
  <2> QED
    BY <1>3, <1>8, <2>1, <2>2, MadeOnce
<1> QED
  BY <1>8, <1>9 DEF s

LEMMA UploadToS3IsFit ==
  /\ Sane(UploadToS3)
  /\ MakesOne(UploadToS3, "remote")
<1> DEFINE s == UploadToS3
<1>1. /\ Len(s) = 3 /\ DOMAIN s = 1 .. 3 /\ s[1] = Check /\ s[2] = Input /\ s[3] = Run("remote")
  BY DEF UploadToS3
<1>2. {"remote"} \subseteq Names
  BY DEF Names
<1>3. /\ Is(s[1], "check", "", "stop", "any", "any", FALSE, "", FALSE)
      /\ Is(s[2], "input", "", "stop", "any", "any", FALSE, "", FALSE)
      /\ Is(s[3], "make", "remote", "stop", "any", "any", FALSE, "", FALSE)
  BY <1>1, <1>2, Asking, MakingOnce
<1> HIDE DEF s
<1>4. DOMAIN s = {1, 2, 3} /\ DOMAIN s = 1 .. Len(s) /\ Len(s) \in Nat
  BY <1>1, Intervals
<1>5. /\ Regular(s[1]) /\ Regular(s[2]) /\ Regular(s[3])
  BY <1>3 DEF Regular, Is, Making
<1>6. /\ s[1].op = "check" /\ s[2].op = "input" /\ s[3].op = "make"
  BY <1>3 DEF Is
<1>7. /\ s[1].file = "" /\ s[2].file = "" /\ s[3].file = "remote"
  BY <1>3 DEF Is
<1>8. Sane(s)
  <2>1. \A k \in DOMAIN s : Regular(s[k])
    BY <1>4, <1>5
  <2>2. \A k \in DOMAIN s : s[k].op # "list"
    BY <1>4, <1>6
  <2> QED
    BY <1>4, <2>1, <2>2 DEF Sane
<1>9. MakesOne(s, "remote")
  <2>1. \A m \in DOMAIN s : s[m].op \in {"make", "until", "remove"} /\ s[m].file = "remote" => m = 3
    BY <1>4, <1>6, <1>7
  <2>2. 3 \in DOMAIN s
    BY <1>4
  <2> QED
    BY <1>3, <1>8, <2>1, <2>2, MadeOnce
<1> QED
  BY <1>8, <1>9 DEF s

LEMMA ImportOtiozIsFit ==
  /\ Sane(ImportOtioz)
  /\ MakesPerItem(ImportOtioz, "media")
  /\ MakesBeside(ImportOtioz, "CPL.xml")
  /\ NoFrames(ImportOtioz)
<1> DEFINE s == ImportOtioz
<1>1. /\ Len(s) = 6 /\ DOMAIN s = 1 .. 6 /\ s[1] = Input /\ s[2] = Check /\ s[3] = Check
      /\ s[4] = AnyNumber /\ s[5] = Each(Write("media")) /\ s[6] = Maybe(Write("CPL.xml"))
  BY DEF ImportOtioz
<1>2. {"CPL.xml", "media"} \subseteq Names
  BY DEF Names
<1>3. /\ Is(s[1], "input", "", "stop", "any", "any", FALSE, "", FALSE)
      /\ Is(s[2], "check", "", "stop", "any", "any", FALSE, "", FALSE)
      /\ Is(s[3], "check", "", "stop", "any", "any", FALSE, "", FALSE)
      /\ Is(s[4], "list", "", "go", "any", "any", FALSE, "", FALSE)
      /\ Is(s[5], "make", "media", "stop", "any", "any", TRUE, "", FALSE)
      /\ Is(s[6], "make", "CPL.xml", "stop", "maybe", "any", FALSE, "", FALSE)
  BY <1>1, <1>2, Asking, MakingOnce, MakingEach
<1> HIDE DEF s
<1>4. DOMAIN s = {1, 2, 3, 4, 5, 6} /\ DOMAIN s = 1 .. Len(s) /\ Len(s) \in Nat
  BY <1>1, Intervals
<1>5. /\ Regular(s[1]) /\ Regular(s[2]) /\ Regular(s[3]) /\ Regular(s[4]) /\ Regular(s[5])
      /\ Regular(s[6])
  BY <1>3 DEF Regular, Is, Making
<1>6. /\ s[1].op = "input" /\ s[2].op = "check" /\ s[3].op = "check" /\ s[4].op = "list"
      /\ s[5].op = "make" /\ s[6].op = "make"
  BY <1>3 DEF Is
<1>7. /\ s[1].file = "" /\ s[2].file = "" /\ s[3].file = "" /\ s[4].file = "" /\ s[5].file = "media"
      /\ s[6].file = "CPL.xml"
  BY <1>3 DEF Is
<1>8. Sane(s)
  <2>1. \A k \in DOMAIN s : Regular(s[k])
    BY <1>4, <1>5
  <2>2. \A k \in DOMAIN s : s[k].op = "list" => k = 4
    BY <1>4, <1>6
  <2> QED
    BY <1>4, <2>1, <2>2 DEF Sane
<1>9. ListedBefore(s, 5)
  <2>1. 4 \in 1 .. 5 - 1
    OBVIOUS
  <2> QED
    BY <1>6, <2>1 DEF ListedBefore
<1>10. EachStep(s, 5) /\ MakesPerItem(s, "media")
  <2>1. \A m \in DOMAIN s : s[m].op \in Making /\ s[m].file = "media" => m = 5
    BY <1>4, <1>6, <1>7 DEF Making
  <2> QED
    BY <1>3, <1>4, <1>8, <1>9, <2>1, MadeForEach DEF Is
<1>11. MakesBeside(s, "CPL.xml")
  <2>1. \A m \in DOMAIN s : s[m].op \in Making /\ s[m].file = "CPL.xml" => m = 6
    BY <1>4, <1>6, <1>7 DEF Making
  <2>2. s[6].op = "make" /\ ~s[6].each /\ s[6].needs = "" /\ s[6].fails \in {"stop", "go"}
    BY <1>3 DEF Is
  <2> QED
    BY <2>1, <2>2 DEF MakesBeside
<1>12. NoFrames(s)
  BY <1>4, <1>6, <1>7 DEF NoFrames, Making
<1> QED
  BY <1>8, <1>10, <1>11, <1>12 DEF s

-----------------------------------------------------------------------------
(* Reports, and what only looks.                                           *)
LEMMA WriteQcReportIsFit ==
  /\ Sane(WriteQcReport)
  /\ MakesOne(WriteQcReport, "html")
<1> DEFINE s == WriteQcReport
<1>1. /\ Len(s) = 1 /\ DOMAIN s = 1 .. 1 /\ s[1] = Write("html")
  BY DEF WriteQcReport
<1>2. {"html"} \subseteq Names
  BY DEF Names
<1>3. /\ Is(s[1], "make", "html", "stop", "any", "any", FALSE, "", FALSE)
  BY <1>1, <1>2, MakingOnce
<1> HIDE DEF s
<1>4. DOMAIN s = {1} /\ DOMAIN s = 1 .. Len(s) /\ Len(s) \in Nat
  BY <1>1, Intervals
<1>5. /\ Regular(s[1])
  BY <1>3 DEF Regular, Is, Making
<1>6. /\ s[1].op = "make"
  BY <1>3 DEF Is
<1>7. /\ s[1].file = "html"
  BY <1>3 DEF Is
<1>8. Sane(s)
  <2>1. \A k \in DOMAIN s : Regular(s[k])
    BY <1>4, <1>5
  <2>2. \A k \in DOMAIN s : s[k].op # "list"
    BY <1>4, <1>6
  <2> QED
    BY <1>4, <2>1, <2>2 DEF Sane
<1>9. MakesOne(s, "html")
  <2>1. \A m \in DOMAIN s : s[m].op \in {"make", "until", "remove"} /\ s[m].file = "html" => m = 1
    BY <1>4, <1>6, <1>7
  <2>2. 1 \in DOMAIN s
    BY <1>4
  <2> QED
    BY <1>3, <1>8, <2>1, <2>2, MadeOnce
<1> QED
  BY <1>8, <1>9 DEF s

LEMMA GeneratePdfReportIsFit ==
  /\ Sane(GeneratePdfReport)
  /\ MakesOne(GeneratePdfReport, "pdf")
<1> DEFINE s == GeneratePdfReport
<1>1. /\ Len(s) = 7 /\ DOMAIN s = 1 .. 7 /\ s[1] = Check /\ s[2] = Input /\ s[3] = Check
      /\ s[4] = Write("report.html") /\ s[5] = Else(From("report.html", Run("pdf")))
      /\ s[6] = Remove("report.html") /\ s[7] = Abort
  BY DEF GeneratePdfReport
<1>2. {"pdf", "report.html"} \subseteq Names
  BY DEF Names
<1>3. /\ Is(s[1], "check", "", "stop", "any", "any", FALSE, "", FALSE)
      /\ Is(s[2], "input", "", "stop", "any", "any", FALSE, "", FALSE)
      /\ Is(s[3], "check", "", "stop", "any", "any", FALSE, "", FALSE)
      /\ Is(s[4], "make", "report.html", "stop", "any", "any", FALSE, "", FALSE)
      /\ Is(s[5], "make", "pdf", "next", "any", "any", FALSE, "report.html", FALSE)
      /\ Is(s[6], "remove", "report.html", "stop", "any", "any", FALSE, "", FALSE)
      /\ Is(s[7], "abort", "", "stop", "failed", "any", FALSE, "", FALSE)
  BY <1>1, <1>2, Asking, MakingOnce
<1> HIDE DEF s
<1>4. DOMAIN s = {1, 2, 3, 4, 5, 6, 7} /\ DOMAIN s = 1 .. Len(s) /\ Len(s) \in Nat
  BY <1>1, Intervals
<1>5. /\ Regular(s[1]) /\ Regular(s[2]) /\ Regular(s[3]) /\ Regular(s[4]) /\ Regular(s[5])
      /\ Regular(s[6]) /\ Regular(s[7])
  BY <1>3 DEF Regular, Is, Making
<1>6. /\ s[1].op = "check" /\ s[2].op = "input" /\ s[3].op = "check" /\ s[4].op = "make"
      /\ s[5].op = "make" /\ s[6].op = "remove" /\ s[7].op = "abort"
  BY <1>3 DEF Is
<1>7. /\ s[1].file = "" /\ s[2].file = "" /\ s[3].file = "" /\ s[4].file = "report.html"
      /\ s[5].file = "pdf" /\ s[6].file = "report.html" /\ s[7].file = ""
  BY <1>3 DEF Is
<1>8. Sane(s)
  <2>1. \A k \in DOMAIN s : Regular(s[k])
    BY <1>4, <1>5
  <2>2. \A k \in DOMAIN s : s[k].op # "list"
    BY <1>4, <1>6
  <2> QED
    BY <1>4, <2>1, <2>2 DEF Sane
<1>9. MakesOne(s, "pdf")
  <2>1. /\ \A m \in DOMAIN s : Touches(s[m], "pdf") => m = 5
        /\ \A k \in DOMAIN s : s[k].op \in Making /\ s[k].file = "pdf" => k = 5
    BY <1>4, <1>6, <1>7 DEF Touches, Writes, Making
  <2>2. /\ 4 \in 1 .. 5 - 1 /\ 5 \in 1 .. 7 - 1 /\ 7 \in 1 .. (Len(s) + 1) - 1
        /\ \A m \in 4 + 1 .. 5 - 1 : FALSE
        /\ \A m \in 5 + 1 .. 7 - 1 : m = 6
        /\ \A m \in 7 + 1 .. (Len(s) + 1) - 1 : FALSE
    BY <1>1
  <2>3. SelfMade(s, "report.html", 5)
    <3>1. Insists(s[4], "report.html") /\ s[4].when = "any" /\ s[4].needs = ""
      BY <1>3 DEF Is, Insists, Writes, Making
    <3>2. Untouched(s, "report.html", 4, 5)
      BY <2>2 DEF Untouched
    <3> QED
      BY <2>2, <3>1, <3>2 DEF SelfMade
  <2>4. ThereUnlessFailed(s, "pdf", 7)
    <3>1. /\ Writes(s[5], "pdf") /\ s[5].op = "make" /\ s[5].fails = "next" /\ Unconditional(s[5])
          /\ s[5].needs = "report.html" /\ s[5].file = "pdf"
      BY <1>3 DEF Is, Unconditional, Writes, Making
    <3>2. Supplied(s, 5)
      BY <2>3, <3>1 DEF Supplied
    <3>3. ~Touches(s[6], "pdf") /\ ~Forgives(s[6])
      BY <1>3 DEF Is, Touches, Writes, Forgives, Making
    <3>4. Untouched(s, "pdf", 5, 7) /\ \A m \in 5 + 1 .. 7 - 1 : ~Forgives(s[m])
      BY <2>2, <3>3 DEF Untouched
    <3> QED
      BY <2>2, <3>1, <3>2, <3>4 DEF ThereUnlessFailed
  <2>5. There(s, "pdf", Len(s) + 1)
    <3>1. s[7].op = "abort" /\ s[7].when = "failed" /\ s[7].track = "any" /\ ~s[7].each
      BY <1>3 DEF Is
    <3>2. Untouched(s, "pdf", 7, Len(s) + 1)
      BY <2>2 DEF Untouched
    <3> QED
      BY <2>2, <2>4, <3>1, <3>2 DEF There
  <2>6. ~s[5].each
    BY <1>3 DEF Is
  <2> QED
    BY <2>1, <2>5, <2>6 DEF MakesOne
<1> QED
  BY <1>8, <1>9 DEF s

LEMMA AnalyticsIsFit ==
  /\ Sane(ComputeAnalytics \o PrintAnalytics)
  /\ MakesBeside(ComputeAnalytics \o PrintAnalytics, "text")
  /\ ListsFrames(ComputeAnalytics \o PrintAnalytics)
  /\ StopsAtNone(ComputeAnalytics \o PrintAnalytics)
<1> DEFINE s == ComputeAnalytics \o PrintAnalytics
<1>1. /\ Len(s) = 3 /\ DOMAIN s = 1 .. 3 /\ s[1] = List /\ s[2] = Report
      /\ s[3] = Maybe(Write("text"))
  BY DEF ComputeAnalytics, PrintAnalytics
<1>2. {"text"} \subseteq Names
  BY DEF Names
<1>3. /\ Is(s[1], "list", "", "stop", "any", "any", FALSE, "", FALSE)
      /\ Is(s[2], "report", "", "stop", "any", "any", FALSE, "", FALSE)
      /\ Is(s[3], "make", "text", "stop", "maybe", "any", FALSE, "", FALSE)
  BY <1>1, <1>2, Asking, MakingOnce
<1> HIDE DEF s
<1>4. DOMAIN s = {1, 2, 3} /\ DOMAIN s = 1 .. Len(s) /\ Len(s) \in Nat
  BY <1>1, Intervals
<1>5. /\ Regular(s[1]) /\ Regular(s[2]) /\ Regular(s[3])
  BY <1>3 DEF Regular, Is, Making
<1>6. /\ s[1].op = "list" /\ s[2].op = "report" /\ s[3].op = "make"
  BY <1>3 DEF Is
<1>7. /\ s[1].file = "" /\ s[2].file = "" /\ s[3].file = "text"
  BY <1>3 DEF Is
<1>8. Sane(s)
  <2>1. \A k \in DOMAIN s : Regular(s[k])
    BY <1>4, <1>5
  <2>2. \A k \in DOMAIN s : s[k].op = "list" => k = 1
    BY <1>4, <1>6
  <2> QED
    BY <1>4, <2>1, <2>2 DEF Sane
<1>9. MakesBeside(s, "text")
  <2>1. \A m \in DOMAIN s : s[m].op \in Making /\ s[m].file = "text" => m = 3
    BY <1>4, <1>6, <1>7 DEF Making
  <2>2. s[3].op = "make" /\ ~s[3].each /\ s[3].needs = "" /\ s[3].fails \in {"stop", "go"}
    BY <1>3 DEF Is
  <2> QED
    BY <2>1, <2>2 DEF MakesBeside
<1>10. ListsFrames(s)
  BY <1>3, <1>4 DEF ListsFrames, Unconditional, Is
<1>11. StopsAtNone(s)
  BY <1>3, <1>4, <1>6 DEF StopsAtNone, Is
<1> QED
  BY <1>8, <1>9, <1>10, <1>11 DEF s

LEMMA DiffPackagesIsFit ==
  Sane(DiffPackages)
<1> DEFINE s == DiffPackages
<1>1. /\ Len(s) = 2 /\ DOMAIN s = 1 .. 2 /\ s[1] = Input /\ s[2] = Input
  BY DEF DiffPackages
<1>2. /\ Is(s[1], "input", "", "stop", "any", "any", FALSE, "", FALSE)
      /\ Is(s[2], "input", "", "stop", "any", "any", FALSE, "", FALSE)
  BY <1>1, Asking
<1> HIDE DEF s
<1>3. DOMAIN s = {1, 2} /\ DOMAIN s = 1 .. Len(s) /\ Len(s) \in Nat
  BY <1>1, Intervals
<1>4. /\ Regular(s[1]) /\ Regular(s[2])
  BY <1>2 DEF Regular, Is, Making
<1>5. /\ s[1].op = "input" /\ s[2].op = "input"
  BY <1>2 DEF Is
<1>6. Sane(s)
  <2>1. \A k \in DOMAIN s : Regular(s[k])
    BY <1>3, <1>4
  <2>2. \A k \in DOMAIN s : s[k].op # "list"
    BY <1>3, <1>5
  <2> QED
    BY <1>3, <2>1, <2>2 DEF Sane
<1> QED
  BY <1>6 DEF s

LEMMA ParseEdlIsFit ==
  Sane(ParseEdl)
<1> DEFINE s == ParseEdl
<1>1. /\ Len(s) = 2 /\ DOMAIN s = 1 .. 2 /\ s[1] = Input /\ s[2] = Check
  BY DEF ParseEdl
<1>2. /\ Is(s[1], "input", "", "stop", "any", "any", FALSE, "", FALSE)
      /\ Is(s[2], "check", "", "stop", "any", "any", FALSE, "", FALSE)
  BY <1>1, Asking
<1> HIDE DEF s
<1>3. DOMAIN s = {1, 2} /\ DOMAIN s = 1 .. Len(s) /\ Len(s) \in Nat
  BY <1>1, Intervals
<1>4. /\ Regular(s[1]) /\ Regular(s[2])
  BY <1>2 DEF Regular, Is, Making
<1>5. /\ s[1].op = "input" /\ s[2].op = "check"
  BY <1>2 DEF Is
<1>6. Sane(s)
  <2>1. \A k \in DOMAIN s : Regular(s[k])
    BY <1>3, <1>4
  <2>2. \A k \in DOMAIN s : s[k].op # "list"
    BY <1>3, <1>5
  <2> QED
    BY <1>3, <2>1, <2>2 DEF Sane
<1> QED
  BY <1>6 DEF s

LEMMA CheckDriftIsFit ==
  Sane(CheckDrift)
<1> DEFINE s == CheckDrift
<1>1. /\ Len(s) = 1 /\ DOMAIN s = 1 .. 1 /\ s[1] = Check
  BY DEF CheckDrift
<1>2. /\ Is(s[1], "check", "", "stop", "any", "any", FALSE, "", FALSE)
  BY <1>1, Asking
<1> HIDE DEF s
<1>3. DOMAIN s = {1} /\ DOMAIN s = 1 .. Len(s) /\ Len(s) \in Nat
  BY <1>1, Intervals
<1>4. /\ Regular(s[1])
  BY <1>2 DEF Regular, Is, Making
<1>5. /\ s[1].op = "check"
  BY <1>2 DEF Is
<1>6. Sane(s)
  <2>1. \A k \in DOMAIN s : Regular(s[k])
    BY <1>3, <1>4
  <2>2. \A k \in DOMAIN s : s[k].op # "list"
    BY <1>3, <1>5
  <2> QED
    BY <1>3, <2>1, <2>2 DEF Sane
<1> QED
  BY <1>6 DEF s

LEMMA SendWebhookIsFit ==
  Sane(SendWebhook)
<1> DEFINE s == SendWebhook
<1>1. /\ Len(s) = 2 /\ DOMAIN s = 1 .. 2 /\ s[1] = List
      /\ s[2] = [Each(Run("post")) EXCEPT !.op = "until"]
  BY DEF SendWebhook
<1>2. {"post"} \subseteq Names
  BY DEF Names
<1>3. /\ Is(s[1], "list", "", "stop", "any", "any", FALSE, "", FALSE)
      /\ Is(s[2], "until", "post", "stop", "any", "any", TRUE, "", FALSE)
  BY <1>1, <1>2, Asking, MakingEach
<1> HIDE DEF s
<1>4. DOMAIN s = {1, 2} /\ DOMAIN s = 1 .. Len(s) /\ Len(s) \in Nat
  BY <1>1, Intervals
<1>5. /\ Regular(s[1]) /\ Regular(s[2])
  BY <1>3 DEF Regular, Is, Making
<1>6. /\ s[1].op = "list" /\ s[2].op = "until"
  BY <1>3 DEF Is
<1>7. Sane(s)
  <2>1. \A k \in DOMAIN s : Regular(s[k])
    BY <1>4, <1>5
  <2>2. \A k \in DOMAIN s : s[k].op = "list" => k = 1
    BY <1>4, <1>6
  <2> QED
    BY <1>4, <2>1, <2>2 DEF Sane
<1> QED
  BY <1>7 DEF s

LEMMA DoctorIsFit ==
  Sane(Doctor)
<1> DEFINE s == Doctor
<1>1. /\ Len(s) = 1 /\ DOMAIN s = 1 .. 1 /\ s[1] = Check
  BY DEF Doctor
<1>2. /\ Is(s[1], "check", "", "stop", "any", "any", FALSE, "", FALSE)
  BY <1>1, Asking
<1> HIDE DEF s
<1>3. DOMAIN s = {1} /\ DOMAIN s = 1 .. Len(s) /\ Len(s) \in Nat
  BY <1>1, Intervals
<1>4. /\ Regular(s[1])
  BY <1>2 DEF Regular, Is, Making
<1>5. /\ s[1].op = "check"
  BY <1>2 DEF Is
<1>6. Sane(s)
  <2>1. \A k \in DOMAIN s : Regular(s[k])
    BY <1>3, <1>4
  <2>2. \A k \in DOMAIN s : s[k].op # "list"
    BY <1>3, <1>5
  <2> QED
    BY <1>3, <2>1, <2>2 DEF Sane
<1> QED
  BY <1>6 DEF s

LEMMA NothingIsFit ==
  Sane(<<>>)
<1> DEFINE s == <<>>
<1>1. /\ Len(s) = 0 /\ DOMAIN s = 1 .. 0
  OBVIOUS
<1> HIDE DEF s
<1>2. DOMAIN s = {} /\ DOMAIN s = 1 .. Len(s) /\ Len(s) \in Nat
  BY <1>1, Intervals
<1>3. Sane(s)
  BY <1>2 DEF Sane
<1> QED
  BY <1>3 DEF s

LEMMA WritesHtmlIsFit ==
  /\ Sane(<<Run("html")>>)
  /\ MakesOne(<<Run("html")>>, "html")
<1> DEFINE s == <<Run("html")>>
<1>1. /\ Len(s) = 1 /\ DOMAIN s = 1 .. 1 /\ s[1] = Run("html")
  OBVIOUS
<1>2. {"html"} \subseteq Names
  BY DEF Names
<1>3. /\ Is(s[1], "make", "html", "stop", "any", "any", FALSE, "", FALSE)
  BY <1>1, <1>2, MakingOnce
<1> HIDE DEF s
<1>4. DOMAIN s = {1} /\ DOMAIN s = 1 .. Len(s) /\ Len(s) \in Nat
  BY <1>1, Intervals
<1>5. /\ Regular(s[1])
  BY <1>3 DEF Regular, Is, Making
<1>6. /\ s[1].op = "make"
  BY <1>3 DEF Is
<1>7. /\ s[1].file = "html"
  BY <1>3 DEF Is
<1>8. Sane(s)
  <2>1. \A k \in DOMAIN s : Regular(s[k])
    BY <1>4, <1>5
  <2>2. \A k \in DOMAIN s : s[k].op # "list"
    BY <1>4, <1>6
  <2> QED
    BY <1>4, <2>1, <2>2 DEF Sane
<1>9. MakesOne(s, "html")
  <2>1. \A m \in DOMAIN s : s[m].op \in {"make", "until", "remove"} /\ s[m].file = "html" => m = 1
    BY <1>4, <1>6, <1>7
  <2>2. 1 \in DOMAIN s
    BY <1>4
  <2> QED
    BY <1>3, <1>8, <2>1, <2>2, MadeOnce
<1> QED
  BY <1>8, <1>9 DEF s

LEMMA ListsFramesIsFit ==
  /\ Sane(<<List, Each(Run("frame"))>>)
  /\ MakesPerItem(<<List, Each(Run("frame"))>>, "frame")
<1> DEFINE s == <<List, Each(Run("frame"))>>
<1>1. /\ Len(s) = 2 /\ DOMAIN s = 1 .. 2 /\ s[1] = List /\ s[2] = Each(Run("frame"))
  OBVIOUS
<1>2. {"frame"} \subseteq Names
  BY DEF Names
<1>3. /\ Is(s[1], "list", "", "stop", "any", "any", FALSE, "", FALSE)
      /\ Is(s[2], "make", "frame", "stop", "any", "any", TRUE, "", FALSE)
  BY <1>1, <1>2, Asking, MakingEach
<1> HIDE DEF s
<1>4. DOMAIN s = {1, 2} /\ DOMAIN s = 1 .. Len(s) /\ Len(s) \in Nat
  BY <1>1, Intervals
<1>5. /\ Regular(s[1]) /\ Regular(s[2])
  BY <1>3 DEF Regular, Is, Making
<1>6. /\ s[1].op = "list" /\ s[2].op = "make"
  BY <1>3 DEF Is
<1>7. /\ s[1].file = "" /\ s[2].file = "frame"
  BY <1>3 DEF Is
<1>8. Sane(s)
  <2>1. \A k \in DOMAIN s : Regular(s[k])
    BY <1>4, <1>5
  <2>2. \A k \in DOMAIN s : s[k].op = "list" => k = 1
    BY <1>4, <1>6
  <2> QED
    BY <1>4, <2>1, <2>2 DEF Sane
<1>9. ListedBefore(s, 2)
  <2>1. 1 \in 1 .. 2 - 1
    OBVIOUS
  <2> QED
    BY <1>6, <2>1 DEF ListedBefore
<1>10. EachStep(s, 2) /\ MakesPerItem(s, "frame")
  <2>1. \A m \in DOMAIN s : s[m].op \in Making /\ s[m].file = "frame" => m = 2
    BY <1>4, <1>6, <1>7 DEF Making
  <2> QED
    BY <1>3, <1>4, <1>8, <1>9, <2>1, MadeForEach DEF Is
<1> QED
  BY <1>8, <1>10 DEF s

-----------------------------------------------------------------------------
(* The commands, table by table: what a command is for, its script makes.  *)
LEMMA ValidatorsFit == \A c \in DOMAIN Validators : Fits(c, Validators[c])
<1>1. DOMAIN Validators = {"validate", "schema_validate", "compliance", "frame_qc", "qc_report"}
  BY DEF Validators
<1>2. Fits("validate", Validators["validate"])
  <2>1. /\ PerItem("validate") = {} /\ Single("validate") = {}
        /\ Besides("validate") = {} /\ Takes("validate") = {}
        /\ "validate" \notin Frames /\ "validate" \notin UserNamed
    BY DEF PerItem, Single, Frames, Besides, Takes, UserNamed
  <2>2. Validators["validate"] = Judged(<<>>)
    BY DEF Validators
  <2>3. Extras("validate", <<>>)
    BY <2>1 DEF Extras
  <2>4. Fits("validate", Judged(<<>>))
    BY <2>1, <2>3, NothingIsFit, ForNothing
  <2> QED
    BY <2>2, <2>4
<1>3. Fits("schema_validate", Validators["schema_validate"])
  <2>1. /\ PerItem("schema_validate") = {} /\ Single("schema_validate") = {}
        /\ Besides("schema_validate") = {} /\ Takes("schema_validate") = {}
        /\ "schema_validate" \notin Frames /\ "schema_validate" \notin UserNamed
    BY DEF PerItem, Single, Frames, Besides, Takes, UserNamed
  <2>2. Validators["schema_validate"] = Judged(<<>>)
    BY DEF Validators
  <2>3. Extras("schema_validate", <<>>)
    BY <2>1 DEF Extras
  <2>4. Fits("schema_validate", Judged(<<>>))
    BY <2>1, <2>3, NothingIsFit, ForNothing
  <2> QED
    BY <2>2, <2>4
<1>4. Fits("compliance", Validators["compliance"])
  <2>1. /\ PerItem("compliance") = {} /\ Single("compliance") = {}
        /\ Besides("compliance") = {} /\ Takes("compliance") = {}
        /\ "compliance" \notin Frames /\ "compliance" \notin UserNamed
    BY DEF PerItem, Single, Frames, Besides, Takes, UserNamed
  <2>2. Validators["compliance"] = Judged(Doctor)
    BY DEF Validators
  <2>3. Extras("compliance", Doctor)
    BY <2>1 DEF Extras
  <2>4. Fits("compliance", Judged(Doctor))
    BY <2>1, <2>3, DoctorIsFit, ForNothing
  <2> QED
    BY <2>2, <2>4
<1>5. Fits("frame_qc", Validators["frame_qc"])
  <2>1. /\ PerItem("frame_qc") = {} /\ Single("frame_qc") = {}
        /\ Besides("frame_qc") = {} /\ Takes("frame_qc") = {}
        /\ "frame_qc" \notin Frames /\ "frame_qc" \notin UserNamed
    BY DEF PerItem, Single, Frames, Besides, Takes, UserNamed
  <2>2. Validators["frame_qc"] = Handled(Doctor)
    BY DEF Validators
  <2>3. Extras("frame_qc", Doctor)
    BY <2>1 DEF Extras
  <2>4. Fits("frame_qc", Handled(Doctor))
    BY <2>1, <2>3, DoctorIsFit, ForNothing
  <2> QED
    BY <2>2, <2>4
<1>6. Fits("qc_report", Validators["qc_report"])
  <2>1. /\ PerItem("qc_report") = {} /\ Single("qc_report") = {"html"}
        /\ Besides("qc_report") = {} /\ Takes("qc_report") = {}
        /\ "qc_report" \notin Frames /\ "qc_report" \notin UserNamed
    BY DEF PerItem, Single, Frames, Besides, Takes, UserNamed
  <2>2. Validators["qc_report"] = Handled(<<Run("html")>>)
    BY DEF Validators
  <2>3. Extras("qc_report", <<Run("html")>>)
    BY <2>1 DEF Extras
  <2>4. Sane(<<Run("html")>>) /\ \A x \in {"html"} : x \notin Shared /\ MakesOne(<<Run("html")>>, x)
    BY WritesHtmlIsFit DEF Shared
  <2>5. Fits("qc_report", Handled(<<Run("html")>>))
    BY <2>1, <2>3, <2>4, ForFiles
  <2> QED
    BY <2>2, <2>5
<1> QED
  BY <1>1, <1>2, <1>3, <1>4, <1>5, <1>6

LEMMA DoctorsFit == \A c \in DOMAIN Doctors : Fits(c, Doctors[c])
<1>1. DOMAIN Doctors = {"loudness", "av_sync", "hdr_validate", "frame_compare", "checksum_verify", "mxf_extract", "auto_qc"}
  BY DEF Doctors
<1>2. Fits("loudness", Doctors["loudness"])
  <2>1. /\ PerItem("loudness") = {} /\ Single("loudness") = {}
        /\ Besides("loudness") = {} /\ Takes("loudness") = {}
        /\ "loudness" \notin Frames /\ "loudness" \notin UserNamed
    BY DEF PerItem, Single, Frames, Besides, Takes, UserNamed
  <2>2. Doctors["loudness"] = Handled(Doctor)
    BY DEF Doctors
  <2>3. Extras("loudness", Doctor)
    BY <2>1 DEF Extras
  <2>4. Fits("loudness", Handled(Doctor))
    BY <2>1, <2>3, DoctorIsFit, ForNothing
  <2> QED
    BY <2>2, <2>4
<1>3. Fits("av_sync", Doctors["av_sync"])
  <2>1. /\ PerItem("av_sync") = {} /\ Single("av_sync") = {}
        /\ Besides("av_sync") = {} /\ Takes("av_sync") = {}
        /\ "av_sync" \notin Frames /\ "av_sync" \notin UserNamed
    BY DEF PerItem, Single, Frames, Besides, Takes, UserNamed
  <2>2. Doctors["av_sync"] = Handled(Doctor)
    BY DEF Doctors
  <2>3. Extras("av_sync", Doctor)
    BY <2>1 DEF Extras
  <2>4. Fits("av_sync", Handled(Doctor))
    BY <2>1, <2>3, DoctorIsFit, ForNothing
  <2> QED
    BY <2>2, <2>4
<1>4. Fits("hdr_validate", Doctors["hdr_validate"])
  <2>1. /\ PerItem("hdr_validate") = {} /\ Single("hdr_validate") = {}
        /\ Besides("hdr_validate") = {} /\ Takes("hdr_validate") = {}
        /\ "hdr_validate" \notin Frames /\ "hdr_validate" \notin UserNamed
    BY DEF PerItem, Single, Frames, Besides, Takes, UserNamed
  <2>2. Doctors["hdr_validate"] = Judged(Doctor)
    BY DEF Doctors
  <2>3. Extras("hdr_validate", Doctor)
    BY <2>1 DEF Extras
  <2>4. Fits("hdr_validate", Judged(Doctor))
    BY <2>1, <2>3, DoctorIsFit, ForNothing
  <2> QED
    BY <2>2, <2>4
<1>5. Fits("frame_compare", Doctors["frame_compare"])
  <2>1. /\ PerItem("frame_compare") = {} /\ Single("frame_compare") = {}
        /\ Besides("frame_compare") = {} /\ Takes("frame_compare") = {}
        /\ "frame_compare" \notin Frames /\ "frame_compare" \notin UserNamed
    BY DEF PerItem, Single, Frames, Besides, Takes, UserNamed
  <2>2. Doctors["frame_compare"] = Judged(Doctor)
    BY DEF Doctors
  <2>3. Extras("frame_compare", Doctor)
    BY <2>1 DEF Extras
  <2>4. Fits("frame_compare", Judged(Doctor))
    BY <2>1, <2>3, DoctorIsFit, ForNothing
  <2> QED
    BY <2>2, <2>4
<1>6. Fits("checksum_verify", Doctors["checksum_verify"])
  <2>1. /\ PerItem("checksum_verify") = {} /\ Single("checksum_verify") = {}
        /\ Besides("checksum_verify") = {} /\ Takes("checksum_verify") = {}
        /\ "checksum_verify" \notin Frames /\ "checksum_verify" \notin UserNamed
    BY DEF PerItem, Single, Frames, Besides, Takes, UserNamed
  <2>2. Doctors["checksum_verify"] = Judged(Doctor)
    BY DEF Doctors
  <2>3. Extras("checksum_verify", Doctor)
    BY <2>1 DEF Extras
  <2>4. Fits("checksum_verify", Judged(Doctor))
    BY <2>1, <2>3, DoctorIsFit, ForNothing
  <2> QED
    BY <2>2, <2>4
<1>7. Fits("mxf_extract", Doctors["mxf_extract"])
  <2>1. /\ PerItem("mxf_extract") = {"frame"} /\ Single("mxf_extract") = {}
        /\ Besides("mxf_extract") = {} /\ Takes("mxf_extract") = {}
        /\ "mxf_extract" \notin UserNamed
    BY DEF PerItem, Single, Frames, Besides, Takes, UserNamed
  <2>2. Doctors["mxf_extract"] = Handled(<<List, Each(Run("frame"))>>)
    BY DEF Doctors
  <2>3. Extras("mxf_extract", <<List, Each(Run("frame"))>>)
    BY <2>1 DEF Extras
  <2>4. Sane(<<List, Each(Run("frame"))>>) /\ MakesPerItem(<<List, Each(Run("frame"))>>, "frame")
    BY ListsFramesIsFit
  <2>5. "frame" \notin Shared
    BY DEF Shared
  <2>6. Fits("mxf_extract", Handled(<<List, Each(Run("frame"))>>))
    BY <2>1, <2>3, <2>4, <2>5, ForEveryItem
  <2> QED
    BY <2>2, <2>6
<1>8. Fits("auto_qc", Doctors["auto_qc"])
  <2>1. /\ PerItem("auto_qc") = {} /\ Single("auto_qc") = {}
        /\ Besides("auto_qc") = {} /\ Takes("auto_qc") = {}
        /\ "auto_qc" \notin Frames /\ "auto_qc" \notin UserNamed
    BY DEF PerItem, Single, Frames, Besides, Takes, UserNamed
  <2>2. Doctors["auto_qc"] = Handled(Doctor)
    BY DEF Doctors
  <2>3. Extras("auto_qc", Doctor)
    BY <2>1 DEF Extras
  <2>4. Fits("auto_qc", Handled(Doctor))
    BY <2>1, <2>3, DoctorIsFit, ForNothing
  <2> QED
    BY <2>2, <2>4
<1> QED
  BY <1>1, <1>2, <1>3, <1>4, <1>5, <1>6, <1>7, <1>8

LEMMA PackagersFit == \A c \in DOMAIN Packagers : Fits(c, Packagers[c])
<1>1. DOMAIN Packagers = {"create", "info", "supplement", "encode", "encode_j2k"}
  BY DEF Packagers
<1>2. Fits("create", Packagers["create"])
  <2>1. /\ PerItem("create") = {} /\ Single("create") = {"package"}
        /\ Besides("create") = {} /\ Takes("create") = {}
        /\ "create" \notin Frames /\ "create" \notin UserNamed
    BY DEF PerItem, Single, Frames, Besides, Takes, UserNamed
  <2>2. Packagers["create"] = Handled(CreateOvImp)
    BY DEF Packagers
  <2>3. Extras("create", CreateOvImp)
    BY <2>1 DEF Extras
  <2>4. Sane(CreateOvImp) /\ \A x \in {"package"} : x \notin Shared /\ MakesOne(CreateOvImp, x)
    BY CreateOvImpIsFit DEF Shared
  <2>5. Fits("create", Handled(CreateOvImp))
    BY <2>1, <2>3, <2>4, ForFiles
  <2> QED
    BY <2>2, <2>5
<1>3. Fits("info", Packagers["info"])
  <2>1. /\ PerItem("info") = {} /\ Single("info") = {}
        /\ Besides("info") = {} /\ Takes("info") = {}
        /\ "info" \notin Frames /\ "info" \notin UserNamed
    BY DEF PerItem, Single, Frames, Besides, Takes, UserNamed
  <2>2. Packagers["info"] = Handled(ReadImpInfo)
    BY DEF Packagers
  <2>3. Extras("info", ReadImpInfo)
    BY <2>1 DEF Extras
  <2>4. Fits("info", Handled(ReadImpInfo))
    BY <2>1, <2>3, ReadImpInfoIsFit, ForNothing
  <2> QED
    BY <2>2, <2>4
<1>4. Fits("supplement", Packagers["supplement"])
  <2>1. /\ PerItem("supplement") = {} /\ Single("supplement") = {"package"}
        /\ Besides("supplement") = {} /\ Takes("supplement") = {}
        /\ "supplement" \notin Frames /\ "supplement" \notin UserNamed
    BY DEF PerItem, Single, Frames, Besides, Takes, UserNamed
  <2>2. Packagers["supplement"] = Handled(Supplement)
    BY DEF Packagers
  <2>3. Extras("supplement", Supplement)
    BY <2>1 DEF Extras
  <2>4. Sane(Supplement) /\ \A x \in {"package"} : x \notin Shared /\ MakesOne(Supplement, x)
    BY SupplementIsFit DEF Shared
  <2>5. Fits("supplement", Handled(Supplement))
    BY <2>1, <2>3, <2>4, ForFiles
  <2> QED
    BY <2>2, <2>5
<1>5. Fits("encode", Packagers["encode"])
  <2>1. /\ PerItem("encode") = {"frame"} /\ Single("encode") = {}
        /\ Besides("encode") = {} /\ Takes("encode") = {"tiff", "png"}
        /\ "encode" \notin UserNamed
    BY DEF PerItem, Single, Frames, Besides, Takes, UserNamed
  <2>2. Packagers["encode"] = Handled(EncodeToJ2k)
    BY DEF Packagers
  <2>3. Extras("encode", EncodeToJ2k)
    BY <2>1, EncodeToJ2kIsFit DEF Extras, Shared
  <2>4. Sane(EncodeToJ2k) /\ MakesPerItem(EncodeToJ2k, "frame") /\ TalliesFrames(EncodeToJ2k)
    BY EncodeToJ2kIsFit
  <2>5. "frame" \notin Shared
    BY DEF Shared
  <2>6. Fits("encode", Handled(EncodeToJ2k))
    BY <2>1, <2>3, <2>4, <2>5, ForEveryItem
  <2> QED
    BY <2>2, <2>6
<1>6. Fits("encode_j2k", Packagers["encode_j2k"])
  <2>1. /\ PerItem("encode_j2k") = {} /\ Single("encode_j2k") = {}
        /\ Besides("encode_j2k") = {} /\ Takes("encode_j2k") = {"j2k"}
        /\ "encode_j2k" \notin Frames /\ "encode_j2k" \notin UserNamed
    BY DEF PerItem, Single, Frames, Besides, Takes, UserNamed
  <2>2. Packagers["encode_j2k"] = Handled(AlreadyJ2k)
    BY DEF Packagers
  <2>3. Extras("encode_j2k", AlreadyJ2k)
    BY <2>1, AlreadyJ2kIsFit DEF Extras, Shared
  <2>4. Fits("encode_j2k", Handled(AlreadyJ2k))
    BY <2>1, <2>3, AlreadyJ2kIsFit, ForNothing
  <2> QED
    BY <2>2, <2>4
<1> QED
  BY <1>1, <1>2, <1>3, <1>4, <1>5, <1>6

LEMMA SequencersFit == \A c \in DOMAIN Sequencers : Fits(c, Sequencers[c])
<1>1. DOMAIN Sequencers = {"transcode", "transcode_png", "extract", "conform"}
  BY DEF Sequencers
<1>2. Fits("transcode", Sequencers["transcode"])
  <2>1. /\ PerItem("transcode") = {"frame"} /\ Single("transcode") = {}
        /\ Besides("transcode") = {} /\ Takes("transcode") = {}
        /\ "transcode" \notin UserNamed
    BY DEF PerItem, Single, Frames, Besides, Takes, UserNamed
  <2>2. Sequencers["transcode"] = Handled(TranscodeToSequence)
    BY DEF Sequencers
  <2>3. Extras("transcode", TranscodeToSequence)
    BY <2>1 DEF Extras
  <2>4. Sane(TranscodeToSequence) /\ MakesPerItem(TranscodeToSequence, "frame") /\ TalliesFrames(TranscodeToSequence)
    BY TranscodeToSequenceIsFit
  <2>5. "frame" \notin Shared
    BY DEF Shared
  <2>6. Fits("transcode", Handled(TranscodeToSequence))
    BY <2>1, <2>3, <2>4, <2>5, ForEveryItem
  <2> QED
    BY <2>2, <2>6
<1>3. Fits("transcode_png", Sequencers["transcode_png"])
  <2>1. /\ PerItem("transcode_png") = {"frame"} /\ Single("transcode_png") = {}
        /\ Besides("transcode_png") = {} /\ Takes("transcode_png") = {}
        /\ "transcode_png" \notin UserNamed
    BY DEF PerItem, Single, Frames, Besides, Takes, UserNamed
  <2>2. Sequencers["transcode_png"] = Handled(TranscodeToSequence)
    BY DEF Sequencers
  <2>3. Extras("transcode_png", TranscodeToSequence)
    BY <2>1 DEF Extras
  <2>4. Sane(TranscodeToSequence) /\ MakesPerItem(TranscodeToSequence, "frame") /\ TalliesFrames(TranscodeToSequence)
    BY TranscodeToSequenceIsFit
  <2>5. "frame" \notin Shared
    BY DEF Shared
  <2>6. Fits("transcode_png", Handled(TranscodeToSequence))
    BY <2>1, <2>3, <2>4, <2>5, ForEveryItem
  <2> QED
    BY <2>2, <2>6
<1>4. Fits("extract", Sequencers["extract"])
  <2>1. /\ PerItem("extract") = {} /\ Single("extract") = {}
        /\ Besides("extract") = {} /\ Takes("extract") = {}
        /\ "extract" \notin Frames /\ "extract" \notin UserNamed
    BY DEF PerItem, Single, Frames, Besides, Takes, UserNamed
  <2>2. Sequencers["extract"] = IfSome(ExtractFromImp)
    BY DEF Sequencers
  <2>3. Extras("extract", ExtractFromImp)
    BY <2>1 DEF Extras
  <2>4. Fits("extract", IfSome(ExtractFromImp))
    BY <2>1, <2>3, ExtractFromImpIsFit, ForNothing
  <2> QED
    BY <2>2, <2>4
<1>5. Fits("conform", Sequencers["conform"])
  <2>1. /\ PerItem("conform") = {} /\ Single("conform") = {"package"}
        /\ Besides("conform") = {} /\ Takes("conform") = {}
        /\ "conform" \notin Frames /\ "conform" \notin UserNamed
    BY DEF PerItem, Single, Frames, Besides, Takes, UserNamed
  <2>2. Sequencers["conform"] = Handled(ConformFromEdl)
    BY DEF Sequencers
  <2>3. Extras("conform", ConformFromEdl)
    BY <2>1 DEF Extras
  <2>4. Sane(ConformFromEdl) /\ \A x \in {"package"} : x \notin Shared /\ MakesOne(ConformFromEdl, x)
    BY ConformFromEdlIsFit DEF Shared
  <2>5. Fits("conform", Handled(ConformFromEdl))
    BY <2>1, <2>3, <2>4, ForFiles
  <2> QED
    BY <2>2, <2>5
<1> QED
  BY <1>1, <1>2, <1>3, <1>4, <1>5

LEMMA ConvertersFit == \A c \in DOMAIN Converters : Fits(c, Converters[c])
<1>1. DOMAIN Converters = {"report", "channel_map", "upload", "aspera", "captions", "watermark"}
  BY DEF Converters
<1>2. Fits("report", Converters["report"])
  <2>1. /\ PerItem("report") = {} /\ Single("report") = {"html"}
        /\ Besides("report") = {} /\ Takes("report") = {}
        /\ "report" \notin Frames /\ "report" \notin UserNamed
    BY DEF PerItem, Single, Frames, Besides, Takes, UserNamed
  <2>2. Converters["report"] = Always(WriteQcReport)
    BY DEF Converters
  <2>3. Extras("report", WriteQcReport)
    BY <2>1 DEF Extras
  <2>4. Sane(WriteQcReport) /\ \A x \in {"html"} : x \notin Shared /\ MakesOne(WriteQcReport, x)
    BY WriteQcReportIsFit DEF Shared
  <2>5. Fits("report", Always(WriteQcReport))
    BY <2>1, <2>3, <2>4, ForFiles
  <2> QED
    BY <2>2, <2>5
<1>3. Fits("channel_map", Converters["channel_map"])
  <2>1. /\ PerItem("channel_map") = {} /\ Single("channel_map") = {"wav"}
        /\ Besides("channel_map") = {} /\ Takes("channel_map") = {}
        /\ "channel_map" \notin Frames /\ "channel_map" \notin UserNamed
    BY DEF PerItem, Single, Frames, Besides, Takes, UserNamed
  <2>2. Converters["channel_map"] = Handled(RemapChannels)
    BY DEF Converters
  <2>3. Extras("channel_map", RemapChannels)
    BY <2>1 DEF Extras
  <2>4. Sane(RemapChannels) /\ \A x \in {"wav"} : x \notin Shared /\ MakesOne(RemapChannels, x)
    BY RemapChannelsIsFit DEF Shared
  <2>5. Fits("channel_map", Handled(RemapChannels))
    BY <2>1, <2>3, <2>4, ForFiles
  <2> QED
    BY <2>2, <2>5
<1>4. Fits("upload", Converters["upload"])
  <2>1. /\ PerItem("upload") = {} /\ Single("upload") = {"remote"}
        /\ Besides("upload") = {} /\ Takes("upload") = {}
        /\ "upload" \notin Frames /\ "upload" \notin UserNamed
    BY DEF PerItem, Single, Frames, Besides, Takes, UserNamed
  <2>2. Converters["upload"] = Handled(UploadToS3)
    BY DEF Converters
  <2>3. Extras("upload", UploadToS3)
    BY <2>1 DEF Extras
  <2>4. Sane(UploadToS3) /\ \A x \in {"remote"} : x \notin Shared /\ MakesOne(UploadToS3, x)
    BY UploadToS3IsFit DEF Shared
  <2>5. Fits("upload", Handled(UploadToS3))
    BY <2>1, <2>3, <2>4, ForFiles
  <2> QED
    BY <2>2, <2>5
<1>5. Fits("aspera", Converters["aspera"])
  <2>1. /\ PerItem("aspera") = {} /\ Single("aspera") = {"remote"}
        /\ Besides("aspera") = {} /\ Takes("aspera") = {}
        /\ "aspera" \notin Frames /\ "aspera" \notin UserNamed
    BY DEF PerItem, Single, Frames, Besides, Takes, UserNamed
  <2>2. Converters["aspera"] = Handled(AsperaTransfer)
    BY DEF Converters
  <2>3. Extras("aspera", AsperaTransfer)
    BY <2>1 DEF Extras
  <2>4. Sane(AsperaTransfer) /\ \A x \in {"remote"} : x \notin Shared /\ MakesOne(AsperaTransfer, x)
    BY AsperaTransferIsFit DEF Shared
  <2>5. Fits("aspera", Handled(AsperaTransfer))
    BY <2>1, <2>3, <2>4, ForFiles
  <2> QED
    BY <2>2, <2>5
<1>6. Fits("captions", Converters["captions"])
  <2>1. /\ PerItem("captions") = {} /\ Single("captions") = {"text"}
        /\ Besides("captions") = {} /\ Takes("captions") = {}
        /\ "captions" \notin Frames /\ "captions" \notin UserNamed
    BY DEF PerItem, Single, Frames, Besides, Takes, UserNamed
  <2>2. Converters["captions"] = Handled(ParseCaptions \o WriteTtml)
    BY DEF Converters
  <2>3. Extras("captions", ParseCaptions \o WriteTtml)
    BY <2>1 DEF Extras
  <2>4. Sane(ParseCaptions \o WriteTtml) /\ \A x \in {"text"} : x \notin Shared /\ MakesOne(ParseCaptions \o WriteTtml, x)
    BY CaptionsIsFit DEF Shared
  <2>5. Fits("captions", Handled(ParseCaptions \o WriteTtml))
    BY <2>1, <2>3, <2>4, ForFiles
  <2> QED
    BY <2>2, <2>5
<1>7. Fits("watermark", Converters["watermark"])
  <2>1. /\ PerItem("watermark") = {"frame"} /\ Single("watermark") = {}
        /\ Besides("watermark") = {} /\ Takes("watermark") = {"j2k"}
        /\ "watermark" \notin UserNamed
    BY DEF PerItem, Single, Frames, Besides, Takes, UserNamed
  <2>2. Converters["watermark"] = Handled(ApplyWatermark)
    BY DEF Converters
  <2>3. Extras("watermark", ApplyWatermark)
    BY <2>1, ApplyWatermarkIsFit DEF Extras, Shared
  <2>4. Sane(ApplyWatermark) /\ MakesPerItem(ApplyWatermark, "frame") /\ TalliesFrames(ApplyWatermark)
    BY ApplyWatermarkIsFit
  <2>5. "frame" \notin Shared
    BY DEF Shared
  <2>6. Fits("watermark", Handled(ApplyWatermark))
    BY <2>1, <2>3, <2>4, <2>5, ForEveryItem
  <2> QED
    BY <2>2, <2>6
<1> QED
  BY <1>1, <1>2, <1>3, <1>4, <1>5, <1>6, <1>7

LEMMA DeliverersFit == \A c \in DOMAIN Deliverers : Fits(c, Deliverers[c])
<1>1. DOMAIN Deliverers = {"preview", "strip", "prores", "burn_in", "to_dcp", "deliver"}
  BY DEF Deliverers
<1>2. Fits("preview", Deliverers["preview"])
  <2>1. /\ PerItem("preview") = {} /\ Single("preview") = {"still"}
        /\ Besides("preview") = {} /\ Takes("preview") = {"j2k"}
        /\ "preview" \notin Frames /\ "preview" \notin UserNamed
    BY DEF PerItem, Single, Frames, Besides, Takes, UserNamed
  <2>2. Deliverers["preview"] = Handled(DecodePreview)
    BY DEF Deliverers
  <2>3. Extras("preview", DecodePreview)
    BY <2>1, DecodePreviewIsFit DEF Extras, Shared
  <2>4. Sane(DecodePreview) /\ \A x \in {"still"} : x \notin Shared /\ MakesOne(DecodePreview, x)
    BY DecodePreviewIsFit DEF Shared
  <2>5. Fits("preview", Handled(DecodePreview))
    BY <2>1, <2>3, <2>4, ForFiles
  <2> QED
    BY <2>2, <2>5
<1>3. Fits("strip", Deliverers["strip"])
  <2>1. /\ PerItem("strip") = {} /\ Single("strip") = {}
        /\ Besides("strip") = {} /\ Takes("strip") = {"j2k"}
        /\ "strip" \notin Frames /\ "strip" \notin UserNamed
    BY DEF PerItem, Single, Frames, Besides, Takes, UserNamed
  <2>2. Deliverers["strip"] = IfSome(ThumbnailStrip)
    BY DEF Deliverers
  <2>3. Extras("strip", ThumbnailStrip)
    BY <2>1, ThumbnailStripIsFit DEF Extras, Shared
  <2>4. Fits("strip", IfSome(ThumbnailStrip))
    BY <2>1, <2>3, ThumbnailStripIsFit, ForNothing
  <2> QED
    BY <2>2, <2>4
<1>4. Fits("prores", Deliverers["prores"])
  <2>1. /\ PerItem("prores") = {} /\ Single("prores") = {"video", "pkl", "cpl", "ASSETMAP.xml"}
        /\ Besides("prores") = {"audio"} /\ Takes("prores") = {}
        /\ "prores" \notin Frames /\ "prores" \notin UserNamed
    BY DEF PerItem, Single, Frames, Besides, Takes, UserNamed
  <2>2. Deliverers["prores"] = Handled(CreateProresImp)
    BY DEF Deliverers
  <2>3. Extras("prores", CreateProresImp)
    BY <2>1, CreateProresImpIsFit DEF Extras, Shared
  <2>4. Sane(CreateProresImp) /\ \A x \in {"video", "pkl", "cpl", "ASSETMAP.xml"} : x \notin Shared /\ MakesOne(CreateProresImp, x)
    BY CreateProresImpIsFit DEF Shared
  <2>5. Fits("prores", Handled(CreateProresImp))
    BY <2>1, <2>3, <2>4, ForFiles
  <2> QED
    BY <2>2, <2>5
<1>5. Fits("burn_in", Deliverers["burn_in"])
  <2>1. /\ PerItem("burn_in") = {} /\ Single("burn_in") = {"movie"}
        /\ Besides("burn_in") = {} /\ Takes("burn_in") = {}
        /\ "burn_in" \notin Frames /\ "burn_in" \notin UserNamed
    BY DEF PerItem, Single, Frames, Besides, Takes, UserNamed
  <2>2. Deliverers["burn_in"] = Handled(BurnInSubtitles)
    BY DEF Deliverers
  <2>3. Extras("burn_in", BurnInSubtitles)
    BY <2>1 DEF Extras
  <2>4. Sane(BurnInSubtitles) /\ \A x \in {"movie"} : x \notin Shared /\ MakesOne(BurnInSubtitles, x)
    BY BurnInSubtitlesIsFit DEF Shared
  <2>5. Fits("burn_in", Handled(BurnInSubtitles))
    BY <2>1, <2>3, <2>4, ForFiles
  <2> QED
    BY <2>2, <2>5
<1>6. Fits("to_dcp", Deliverers["to_dcp"])
  <2>1. /\ PerItem("to_dcp") = {} /\ Single("to_dcp") = {"video", "CPL.xml", "VOLINDEX.xml", "ASSETMAP.xml"}
        /\ Besides("to_dcp") = {"audio"} /\ Takes("to_dcp") = {}
        /\ "to_dcp" \notin Frames /\ "to_dcp" \notin UserNamed
    BY DEF PerItem, Single, Frames, Besides, Takes, UserNamed
  <2>2. Deliverers["to_dcp"] = Handled(ConvertImpToDcp)
    BY DEF Deliverers
  <2>3. Extras("to_dcp", ConvertImpToDcp)
    BY <2>1, ConvertImpToDcpIsFit DEF Extras, Shared
  <2>4. Sane(ConvertImpToDcp) /\ \A x \in {"video", "CPL.xml", "VOLINDEX.xml", "ASSETMAP.xml"} : x \notin Shared /\ MakesOne(ConvertImpToDcp, x)
    BY ConvertImpToDcpIsFit DEF Shared
  <2>5. Fits("to_dcp", Handled(ConvertImpToDcp))
    BY <2>1, <2>3, <2>4, ForFiles
  <2> QED
    BY <2>2, <2>5
<1>7. Fits("deliver", Deliverers["deliver"])
  <2>1. /\ PerItem("deliver") = {"package"} /\ Single("deliver") = {}
        /\ Besides("deliver") = {} /\ Takes("deliver") = {}
        /\ "deliver" \notin Frames
    BY DEF PerItem, Single, Frames, Besides, Takes, UserNamed
  <2>2. Deliverers["deliver"] = Handled(BatchDeliver)
    BY DEF Deliverers
  <2>3. Extras("deliver", BatchDeliver)
    BY <2>1, BatchDeliverIsFit DEF Extras, Shared
  <2>4. Sane(BatchDeliver) /\ MakesPerItem(BatchDeliver, "package")
    BY BatchDeliverIsFit
  <2>5. "package" \notin Shared
    BY DEF Shared
  <2>6. Fits("deliver", Handled(BatchDeliver))
    BY <2>1, <2>3, <2>4, <2>5, ForEveryItem
  <2> QED
    BY <2>2, <2>6
<1> QED
  BY <1>1, <1>2, <1>3, <1>4, <1>5, <1>6, <1>7

LEMMA ImportsFit == \A c \in DOMAIN Imports : Fits(c, Imports[c])
<1>1. DOMAIN Imports = {"analytics", "edl_import"}
  BY DEF Imports
<1>2. Fits("analytics", Imports["analytics"])
  <2>1. /\ PerItem("analytics") = {} /\ Single("analytics") = {}
        /\ Besides("analytics") = {"text"} /\ Takes("analytics") = {"j2k"}
        /\ "analytics" \notin Frames /\ "analytics" \notin UserNamed
    BY DEF PerItem, Single, Frames, Besides, Takes, UserNamed
  <2>2. Imports["analytics"] = Handled(ComputeAnalytics \o PrintAnalytics)
    BY DEF Imports
  <2>3. Extras("analytics", ComputeAnalytics \o PrintAnalytics)
    BY <2>1, AnalyticsIsFit DEF Extras, Shared
  <2>4. Fits("analytics", Handled(ComputeAnalytics \o PrintAnalytics))
    BY <2>1, <2>3, AnalyticsIsFit, ForNothing
  <2> QED
    BY <2>2, <2>4
<1>3. Fits("edl_import", Imports["edl_import"])
  <2>1. /\ PerItem("edl_import") = {} /\ Single("edl_import") = {}
        /\ Besides("edl_import") = {} /\ Takes("edl_import") = {}
        /\ "edl_import" \notin Frames /\ "edl_import" \notin UserNamed
    BY DEF PerItem, Single, Frames, Besides, Takes, UserNamed
  <2>2. Imports["edl_import"] = Handled(ParseEdl)
    BY DEF Imports
  <2>3. Extras("edl_import", ParseEdl)
    BY <2>1 DEF Extras
  <2>4. Fits("edl_import", Handled(ParseEdl))
    BY <2>1, <2>3, ParseEdlIsFit, ForNothing
  <2> QED
    BY <2>2, <2>4
<1> QED
  BY <1>1, <1>2, <1>3

LEMMA ProcessorsFit == \A c \in DOMAIN Processors : Fits(c, Processors[c])
<1>1. DOMAIN Processors = {"atmos", "mca", "audio_desc", "lut", "aces", "aces_ctl"}
  BY DEF Processors
<1>2. Fits("atmos", Processors["atmos"])
  <2>1. /\ PerItem("atmos") = {} /\ Single("atmos") = {"iab"}
        /\ Besides("atmos") = {} /\ Takes("atmos") = {}
        /\ "atmos" \notin Frames /\ "atmos" \notin UserNamed
    BY DEF PerItem, Single, Frames, Besides, Takes, UserNamed
  <2>2. Processors["atmos"] = Handled(ImportAtmos)
    BY DEF Processors
  <2>3. Extras("atmos", ImportAtmos)
    BY <2>1 DEF Extras
  <2>4. Sane(ImportAtmos) /\ \A x \in {"iab"} : x \notin Shared /\ MakesOne(ImportAtmos, x)
    BY ImportAtmosIsFit DEF Shared
  <2>5. Fits("atmos", Handled(ImportAtmos))
    BY <2>1, <2>3, <2>4, ForFiles
  <2> QED
    BY <2>2, <2>5
<1>3. Fits("mca", Processors["mca"])
  <2>1. /\ PerItem("mca") = {} /\ Single("mca") = {"text"}
        /\ Besides("mca") = {} /\ Takes("mca") = {}
        /\ "mca" \notin Frames /\ "mca" \notin UserNamed
    BY DEF PerItem, Single, Frames, Besides, Takes, UserNamed
  <2>2. Processors["mca"] = Always(GenerateMca)
    BY DEF Processors
  <2>3. Extras("mca", GenerateMca)
    BY <2>1 DEF Extras
  <2>4. Sane(GenerateMca) /\ \A x \in {"text"} : x \notin Shared /\ MakesOne(GenerateMca, x)
    BY GenerateMcaIsFit DEF Shared
  <2>5. Fits("mca", Always(GenerateMca))
    BY <2>1, <2>3, <2>4, ForFiles
  <2> QED
    BY <2>2, <2>5
<1>4. Fits("audio_desc", Processors["audio_desc"])
  <2>1. /\ PerItem("audio_desc") = {} /\ Single("audio_desc") = {"wav"}
        /\ Besides("audio_desc") = {} /\ Takes("audio_desc") = {}
        /\ "audio_desc" \notin Frames /\ "audio_desc" \notin UserNamed
    BY DEF PerItem, Single, Frames, Besides, Takes, UserNamed
  <2>2. Processors["audio_desc"] = Handled(AudioDescription)
    BY DEF Processors
  <2>3. Extras("audio_desc", AudioDescription)
    BY <2>1 DEF Extras
  <2>4. Sane(AudioDescription) /\ \A x \in {"wav"} : x \notin Shared /\ MakesOne(AudioDescription, x)
    BY AudioDescriptionIsFit DEF Shared
  <2>5. Fits("audio_desc", Handled(AudioDescription))
    BY <2>1, <2>3, <2>4, ForFiles
  <2> QED
    BY <2>2, <2>5
<1>5. Fits("lut", Processors["lut"])
  <2>1. /\ PerItem("lut") = {"frame"} /\ Single("lut") = {}
        /\ Besides("lut") = {} /\ Takes("lut") = {"tiff", "png"}
        /\ "lut" \notin UserNamed
    BY DEF PerItem, Single, Frames, Besides, Takes, UserNamed
  <2>2. Processors["lut"] = Handled(ApplyLut)
    BY DEF Processors
  <2>3. Extras("lut", ApplyLut)
    BY <2>1, ApplyLutIsFit DEF Extras, Shared
  <2>4. Sane(ApplyLut) /\ MakesPerItem(ApplyLut, "frame") /\ TalliesFrames(ApplyLut)
    BY ApplyLutIsFit
  <2>5. "frame" \notin Shared
    BY DEF Shared
  <2>6. Fits("lut", Handled(ApplyLut))
    BY <2>1, <2>3, <2>4, <2>5, ForEveryItem
  <2> QED
    BY <2>2, <2>6
<1>6. Fits("aces", Processors["aces"])
  <2>1. /\ PerItem("aces") = {"frame"} /\ Single("aces") = {}
        /\ Besides("aces") = {} /\ Takes("aces") = {"tiff"}
        /\ "aces" \notin UserNamed
    BY DEF PerItem, Single, Frames, Besides, Takes, UserNamed
  <2>2. Processors["aces"] = Handled(ApplyAces)
    BY DEF Processors
  <2>3. Extras("aces", ApplyAces)
    BY <2>1, ApplyAcesIsFit DEF Extras, Shared
  <2>4. Sane(ApplyAces) /\ MakesPerItem(ApplyAces, "frame") /\ TalliesFrames(ApplyAces)
    BY ApplyAcesIsFit
  <2>5. "frame" \notin Shared
    BY DEF Shared
  <2>6. Fits("aces", Handled(ApplyAces))
    BY <2>1, <2>3, <2>4, <2>5, ForEveryItem
  <2> QED
    BY <2>2, <2>6
<1>7. Fits("aces_ctl", Processors["aces_ctl"])
  <2>1. /\ PerItem("aces_ctl") = {} /\ Single("aces_ctl") = {}
        /\ Besides("aces_ctl") = {} /\ Takes("aces_ctl") = {"tiff"}
        /\ "aces_ctl" \notin Frames /\ "aces_ctl" \notin UserNamed
    BY DEF PerItem, Single, Frames, Besides, Takes, UserNamed
  <2>2. Processors["aces_ctl"] = IfSome(ApplyAcesByCtl)
    BY DEF Processors
  <2>3. Sane(ApplyAcesByCtl) /\ ListsFrames(ApplyAcesByCtl) /\ AllEach(ApplyAcesByCtl)
    BY ApplyAcesByCtlIsFit
  <2>4. Fits("aces_ctl", IfSome(ApplyAcesByCtl))
    BY <2>1, <2>3, ForEachLeftOut
  <2> QED
    BY <2>2, <2>4
<1> QED
  BY <1>1, <1>2, <1>3, <1>4, <1>5, <1>6, <1>7

LEMMA VersionsFit == \A c \in DOMAIN Versions : Fits(c, Versions[c])
<1>1. DOMAIN Versions = {"partial_version"}
  BY DEF Versions
<1>2. Fits("partial_version", Versions["partial_version"])
  <2>1. /\ PerItem("partial_version") = {} /\ Single("partial_version") = {"movie", "CPL.xml"}
        /\ Besides("partial_version") = {"wav"} /\ Takes("partial_version") = {}
        /\ "partial_version" \notin Frames /\ "partial_version" \notin UserNamed
    BY DEF PerItem, Single, Frames, Besides, Takes, UserNamed
  <2>2. Versions["partial_version"] = Handled(CreatePartialVersion)
    BY DEF Versions
  <2>3. Extras("partial_version", CreatePartialVersion)
    BY <2>1, CreatePartialVersionIsFit DEF Extras, Shared
  <2>4. Sane(CreatePartialVersion) /\ \A x \in {"movie", "CPL.xml"} : x \notin Shared /\ MakesOne(CreatePartialVersion, x)
    BY CreatePartialVersionIsFit DEF Shared
  <2>5. Fits("partial_version", Handled(CreatePartialVersion))
    BY <2>1, <2>3, <2>4, ForFiles
  <2> QED
    BY <2>2, <2>5
<1> QED
  BY <1>1, <1>2

LEMMA GeneratorsFit == \A c \in DOMAIN Generators : Fits(c, Generators[c])
<1>1. DOMAIN Generators = {"slate", "retime", "sdi_preview"}
  BY DEF Generators
<1>2. Fits("slate", Generators["slate"])
  <2>1. /\ PerItem("slate") = {"frame"} /\ Single("slate") = {}
        /\ Besides("slate") = {"tone"} /\ Takes("slate") = {}
        /\ "slate" \notin UserNamed
    BY DEF PerItem, Single, Frames, Besides, Takes, UserNamed
  <2>2. Generators["slate"] = Handled(GenerateSlate)
    BY DEF Generators
  <2>3. Extras("slate", GenerateSlate)
    BY <2>1, GenerateSlateIsFit DEF Extras, Shared
  <2>4. Sane(GenerateSlate) /\ MakesPerItem(GenerateSlate, "frame") /\ TalliesFrames(GenerateSlate)
    BY GenerateSlateIsFit
  <2>5. "frame" \notin Shared
    BY DEF Shared
  <2>6. Fits("slate", Handled(GenerateSlate))
    BY <2>1, <2>3, <2>4, <2>5, ForEveryItem
  <2> QED
    BY <2>2, <2>6
<1>3. Fits("retime", Generators["retime"])
  <2>1. /\ PerItem("retime") = {} /\ Single("retime") = {"text"}
        /\ Besides("retime") = {} /\ Takes("retime") = {}
        /\ "retime" \notin Frames /\ "retime" \notin UserNamed
    BY DEF PerItem, Single, Frames, Besides, Takes, UserNamed
  <2>2. Generators["retime"] = Handled(RetimeSubtitles)
    BY DEF Generators
  <2>3. Extras("retime", RetimeSubtitles)
    BY <2>1 DEF Extras
  <2>4. Sane(RetimeSubtitles) /\ \A x \in {"text"} : x \notin Shared /\ MakesOne(RetimeSubtitles, x)
    BY RetimeSubtitlesIsFit DEF Shared
  <2>5. Fits("retime", Handled(RetimeSubtitles))
    BY <2>1, <2>3, <2>4, ForFiles
  <2> QED
    BY <2>2, <2>5
<1>4. Fits("sdi_preview", Generators["sdi_preview"])
  <2>1. /\ PerItem("sdi_preview") = {} /\ Single("sdi_preview") = {"device"}
        /\ Besides("sdi_preview") = {} /\ Takes("sdi_preview") = {}
        /\ "sdi_preview" \notin Frames /\ "sdi_preview" \notin UserNamed
    BY DEF PerItem, Single, Frames, Besides, Takes, UserNamed
  <2>2. Generators["sdi_preview"] = Handled(SdiPreview)
    BY DEF Generators
  <2>3. Extras("sdi_preview", SdiPreview)
    BY <2>1 DEF Extras
  <2>4. Sane(SdiPreview) /\ \A x \in {"device"} : x \notin Shared /\ MakesOne(SdiPreview, x)
    BY SdiPreviewIsFit DEF Shared
  <2>5. Fits("sdi_preview", Handled(SdiPreview))
    BY <2>1, <2>3, <2>4, ForFiles
  <2> QED
    BY <2>2, <2>5
<1> QED
  BY <1>1, <1>2, <1>3, <1>4

LEMMA TimelinesFit == \A c \in DOMAIN Timelines : Fits(c, Timelines[c])
<1>1. DOMAIN Timelines = {"imp_diff", "otioz_import"}
  BY DEF Timelines
<1>2. Fits("imp_diff", Timelines["imp_diff"])
  <2>1. /\ PerItem("imp_diff") = {} /\ Single("imp_diff") = {}
        /\ Besides("imp_diff") = {} /\ Takes("imp_diff") = {}
        /\ "imp_diff" \notin Frames /\ "imp_diff" \notin UserNamed
    BY DEF PerItem, Single, Frames, Besides, Takes, UserNamed
  <2>2. Timelines["imp_diff"] = Handled(DiffPackages)
    BY DEF Timelines
  <2>3. Extras("imp_diff", DiffPackages)
    BY <2>1 DEF Extras
  <2>4. Fits("imp_diff", Handled(DiffPackages))
    BY <2>1, <2>3, DiffPackagesIsFit, ForNothing
  <2> QED
    BY <2>2, <2>4
<1>3. Fits("otioz_import", Timelines["otioz_import"])
  <2>1. /\ PerItem("otioz_import") = {"media"} /\ Single("otioz_import") = {}
        /\ Besides("otioz_import") = {"CPL.xml"} /\ Takes("otioz_import") = {}
        /\ "otioz_import" \notin Frames
    BY DEF PerItem, Single, Frames, Besides, Takes, UserNamed
  <2>2. Timelines["otioz_import"] = Handled(ImportOtioz)
    BY DEF Timelines
  <2>3. Extras("otioz_import", ImportOtioz)
    BY <2>1, ImportOtiozIsFit DEF Extras, Shared
  <2>4. Sane(ImportOtioz) /\ MakesPerItem(ImportOtioz, "media")
    BY ImportOtiozIsFit
  <2>5. "media" \notin Shared
    BY DEF Shared
  <2>6. Fits("otioz_import", Handled(ImportOtioz))
    BY <2>1, <2>3, <2>4, <2>5, ForEveryItem
  <2> QED
    BY <2>2, <2>6
<1> QED
  BY <1>1, <1>2, <1>3

LEMMA PlayersFit == \A c \in DOMAIN Players : Fits(c, Players[c])
<1>1. DOMAIN Players = {"kdm", "dv81", "dv81_p4", "mxf_probe", "mxf_thumbs", "mxf_thumbs_0"}
  BY DEF Players
<1>2. Fits("kdm", Players["kdm"])
  <2>1. /\ PerItem("kdm") = {"kdm"} /\ Single("kdm") = {}
        /\ Besides("kdm") = {} /\ Takes("kdm") = {}
        /\ "kdm" \notin Frames
    BY DEF PerItem, Single, Frames, Besides, Takes, UserNamed
  <2>2. Players["kdm"] = Handled(GenerateKdm)
    BY DEF Players
  <2>3. Extras("kdm", GenerateKdm)
    BY <2>1, GenerateKdmIsFit DEF Extras, Shared
  <2>4. Sane(GenerateKdm) /\ MakesPerItem(GenerateKdm, "kdm")
    BY GenerateKdmIsFit
  <2>5. "kdm" \notin Shared
    BY DEF Shared
  <2>6. Fits("kdm", Handled(GenerateKdm))
    BY <2>1, <2>3, <2>4, <2>5, ForEveryItem
  <2> QED
    BY <2>2, <2>6
<1>3. Fits("dv81", Players["dv81"])
  <2>1. /\ PerItem("dv81") = {} /\ Single("dv81") = {"movie"}
        /\ Besides("dv81") = {"sidecar"} /\ Takes("dv81") = {}
        /\ "dv81" \notin Frames /\ "dv81" \notin UserNamed
    BY DEF PerItem, Single, Frames, Besides, Takes, UserNamed
  <2>2. Players["dv81"] = Handled(InjectDv81)
    BY DEF Players
  <2>3. Extras("dv81", InjectDv81)
    BY <2>1, InjectDv81IsFit DEF Extras, Shared
  <2>4. Sane(InjectDv81) /\ \A x \in {"movie"} : x \notin Shared /\ MakesOne(InjectDv81, x)
    BY InjectDv81IsFit DEF Shared
  <2>5. Fits("dv81", Handled(InjectDv81))
    BY <2>1, <2>3, <2>4, ForFiles
  <2> QED
    BY <2>2, <2>5
<1>4. Fits("dv81_p4", Players["dv81_p4"])
  <2>1. /\ PerItem("dv81_p4") = {} /\ Single("dv81_p4") = {"movie"}
        /\ Besides("dv81_p4") = {"sidecar"} /\ Takes("dv81_p4") = {}
        /\ "dv81_p4" \notin Frames /\ "dv81_p4" \notin UserNamed
    BY DEF PerItem, Single, Frames, Besides, Takes, UserNamed
  <2>2. Players["dv81_p4"] = Handled(ConvertProfile4)
    BY DEF Players
  <2>3. Extras("dv81_p4", ConvertProfile4)
    BY <2>1, ConvertProfile4IsFit DEF Extras, Shared
  <2>4. Sane(ConvertProfile4) /\ \A x \in {"movie"} : x \notin Shared /\ MakesOne(ConvertProfile4, x)
    BY ConvertProfile4IsFit DEF Shared
  <2>5. Fits("dv81_p4", Handled(ConvertProfile4))
    BY <2>1, <2>3, <2>4, ForFiles
  <2> QED
    BY <2>2, <2>5
<1>5. Fits("mxf_probe", Players["mxf_probe"])
  <2>1. /\ PerItem("mxf_probe") = {} /\ Single("mxf_probe") = {}
        /\ Besides("mxf_probe") = {} /\ Takes("mxf_probe") = {}
        /\ "mxf_probe" \notin Frames /\ "mxf_probe" \notin UserNamed
    BY DEF PerItem, Single, Frames, Besides, Takes, UserNamed
  <2>2. Players["mxf_probe"] = Handled(ProbeMxf)
    BY DEF Players
  <2>3. Extras("mxf_probe", ProbeMxf)
    BY <2>1 DEF Extras
  <2>4. Fits("mxf_probe", Handled(ProbeMxf))
    BY <2>1, <2>3, ProbeMxfIsFit, ForNothing
  <2> QED
    BY <2>2, <2>4
<1>6. Fits("mxf_thumbs", Players["mxf_thumbs"])
  <2>1. /\ PerItem("mxf_thumbs") = {} /\ Single("mxf_thumbs") = {}
        /\ Besides("mxf_thumbs") = {} /\ Takes("mxf_thumbs") = {}
        /\ "mxf_thumbs" \notin Frames /\ "mxf_thumbs" \notin UserNamed
    BY DEF PerItem, Single, Frames, Besides, Takes, UserNamed
  <2>2. Players["mxf_thumbs"] = Handled(Thumbnails)
    BY DEF Players
  <2>3. Extras("mxf_thumbs", Thumbnails)
    BY <2>1 DEF Extras
  <2>4. Fits("mxf_thumbs", Handled(Thumbnails))
    BY <2>1, <2>3, ThumbnailsIsFit, ForNothing
  <2> QED
    BY <2>2, <2>4
<1>7. Fits("mxf_thumbs_0", Players["mxf_thumbs_0"])
  <2>1. /\ PerItem("mxf_thumbs_0") = {} /\ Single("mxf_thumbs_0") = {}
        /\ Besides("mxf_thumbs_0") = {} /\ Takes("mxf_thumbs_0") = {}
        /\ "mxf_thumbs_0" \notin Frames /\ "mxf_thumbs_0" \notin UserNamed
    BY DEF PerItem, Single, Frames, Besides, Takes, UserNamed
  <2>2. Players["mxf_thumbs_0"] = Handled(ThumbnailsForEver)
    BY DEF Players
  <2>3. Extras("mxf_thumbs_0", ThumbnailsForEver)
    BY <2>1 DEF Extras
  <2>4. Fits("mxf_thumbs_0", Handled(ThumbnailsForEver))
    BY <2>1, <2>3, ThumbnailsForEverIsFit, ForNothing
  <2> QED
    BY <2>2, <2>4
<1> QED
  BY <1>1, <1>2, <1>3, <1>4, <1>5, <1>6, <1>7

LEMMA NotifiersFit == \A c \in DOMAIN Notifiers : Fits(c, Notifiers[c])
<1>1. DOMAIN Notifiers = {"webhook"}
  BY DEF Notifiers
<1>2. Fits("webhook", Notifiers["webhook"])
  <2>1. /\ PerItem("webhook") = {} /\ Single("webhook") = {}
        /\ Besides("webhook") = {} /\ Takes("webhook") = {}
        /\ "webhook" \notin Frames /\ "webhook" \notin UserNamed
    BY DEF PerItem, Single, Frames, Besides, Takes, UserNamed
  <2>2. Notifiers["webhook"] = Handled(SendWebhook)
    BY DEF Notifiers
  <2>3. Extras("webhook", SendWebhook)
    BY <2>1 DEF Extras
  <2>4. Fits("webhook", Handled(SendWebhook))
    BY <2>1, <2>3, SendWebhookIsFit, ForNothing
  <2> QED
    BY <2>2, <2>4
<1> QED
  BY <1>1, <1>2

LEMMA ReportersFit == \A c \in DOMAIN Reporters : Fits(c, Reporters[c])
<1>1. DOMAIN Reporters = {"pdf_report", "subtitle_convert", "timecode_drift"}
  BY DEF Reporters
<1>2. Fits("pdf_report", Reporters["pdf_report"])
  <2>1. /\ PerItem("pdf_report") = {} /\ Single("pdf_report") = {"pdf"}
        /\ Besides("pdf_report") = {} /\ Takes("pdf_report") = {}
        /\ "pdf_report" \notin Frames /\ "pdf_report" \notin UserNamed
    BY DEF PerItem, Single, Frames, Besides, Takes, UserNamed
  <2>2. Reporters["pdf_report"] = Handled(GeneratePdfReport)
    BY DEF Reporters
  <2>3. Extras("pdf_report", GeneratePdfReport)
    BY <2>1 DEF Extras
  <2>4. Sane(GeneratePdfReport) /\ \A x \in {"pdf"} : x \notin Shared /\ MakesOne(GeneratePdfReport, x)
    BY GeneratePdfReportIsFit DEF Shared
  <2>5. Fits("pdf_report", Handled(GeneratePdfReport))
    BY <2>1, <2>3, <2>4, ForFiles
  <2> QED
    BY <2>2, <2>5
<1>3. Fits("subtitle_convert", Reporters["subtitle_convert"])
  <2>1. /\ PerItem("subtitle_convert") = {} /\ Single("subtitle_convert") = {"text"}
        /\ Besides("subtitle_convert") = {} /\ Takes("subtitle_convert") = {}
        /\ "subtitle_convert" \notin Frames /\ "subtitle_convert" \notin UserNamed
    BY DEF PerItem, Single, Frames, Besides, Takes, UserNamed
  <2>2. Reporters["subtitle_convert"] = Handled(ConvertSubtitles)
    BY DEF Reporters
  <2>3. Extras("subtitle_convert", ConvertSubtitles)
    BY <2>1 DEF Extras
  <2>4. Sane(ConvertSubtitles) /\ \A x \in {"text"} : x \notin Shared /\ MakesOne(ConvertSubtitles, x)
    BY ConvertSubtitlesIsFit DEF Shared
  <2>5. Fits("subtitle_convert", Handled(ConvertSubtitles))
    BY <2>1, <2>3, <2>4, ForFiles
  <2> QED
    BY <2>2, <2>5
<1>4. Fits("timecode_drift", Reporters["timecode_drift"])
  <2>1. /\ PerItem("timecode_drift") = {} /\ Single("timecode_drift") = {}
        /\ Besides("timecode_drift") = {} /\ Takes("timecode_drift") = {}
        /\ "timecode_drift" \notin Frames /\ "timecode_drift" \notin UserNamed
    BY DEF PerItem, Single, Frames, Besides, Takes, UserNamed
  <2>2. Reporters["timecode_drift"] = Judged(CheckDrift)
    BY DEF Reporters
  <2>3. Extras("timecode_drift", CheckDrift)
    BY <2>1 DEF Extras
  <2>4. Fits("timecode_drift", Judged(CheckDrift))
    BY <2>1, <2>3, CheckDriftIsFit, ForNothing
  <2> QED
    BY <2>2, <2>4
<1> QED
  BY <1>1, <1>2, <1>3, <1>4

(* The script of every command is fit for what the command is for: each    *)
(* file is made by a step whose failure ends the command, or is made up    *)
(* for by a later one; a file for every item is made after the items were  *)
(* listed, once; nothing takes the file away again; the frames are counted *)
(* after they were made; and a command that works on the frames it finds   *)
(* lists them, and fails if there are none, watermark excepted.            *)
THEOREM ScriptsAreFit == ScriptsFit
<1>1. \A t \in Tables : \A c \in DOMAIN t : Fits(c, t[c])
  BY ValidatorsFit, DoctorsFit, PackagersFit, SequencersFit, ConvertersFit, DeliverersFit, ImportsFit, ProcessorsFit, VersionsFit, GeneratorsFit, TimelinesFit, PlayersFit, NotifiersFit, ReportersFit DEF Tables
<1>2. ASSUME NEW c \in DOMAIN Scripts PROVE Fits(c, Scripts[c])
  <2>1. \E t \in Tables : c \in DOMAIN t
    BY DEF Scripts
  <2> DEFINE t == CHOOSE u \in Tables : c \in DOMAIN u
  <2>2. t \in Tables /\ c \in DOMAIN t
    BY <2>1
  <2>3. Scripts[c] = t[c]
    BY DEF Scripts
  <2> HIDE DEF t
  <2> QED
    BY <1>1, <2>2, <2>3
<1> QED
  BY <1>2 DEF ScriptsFit
=============================================================================
