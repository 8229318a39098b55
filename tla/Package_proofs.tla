---------------------------- MODULE Package_proofs ----------------------------
(***************************************************************************)
(* Proofs about Package: the types, and the inductive invariant PackageInv *)
(* from which the four safety properties of the packaging commands follow, *)
(* for any number of commands, directories, frames and annotate commands.  *)
(***************************************************************************)
EXTENDS Package, TLAPS

USE DEF Tracks, FileStates, Working, Ended

LEMMA OpTyped == ASSUME NEW o \in Ops PROVE o \in 0 .. MaxOps /\ o # 0
BY PackageAssumption DEF Ops

(* What a step names is one of the steps.                                  *)
LEMMA StepsTyped ==
  ASSUME NEW r \in Request
  PROVE  /\ FromSubtitle(r) \in Working /\ FromAudio(r) \in Working
         /\ FromVideo(r) \in Working /\ FromStart(r) \in Working
         /\ FromCpl \in Working /\ FromMap(r) \in Working \cup {"done"}
         /\ \A k \in Tracks : AfterTrack(r, k) \in Working
BY DEF FromSubtitle, FromAudio, FromVideo, FromStart, FromCpl, FromMap, AfterTrack

LEMMA InitTypeOK == Init => TypeOK
BY PackageAssumption DEF Init, TypeOK, Ops, NoFrames, NoCpl, NoPkl, Sha1, Cpl, Pkl, Hash, Request

LEMMA RequestTyped ==
  ASSUME TypeOK, NEW o \in Ops
  PROVE  /\ req[o] \in Request /\ req[o].dir \in Dirs /\ req[o].ov \in Dirs
         /\ req[o].len \in 1 .. MaxFrames
<1>1. req[o] \in Request
  BY DEF TypeOK
<1> QED BY <1>1 DEF Request

LEMMA GotoTyped ==
  ASSUME TypeOK, NEW o \in Ops, NEW step \in Working \cup Ended, Goto(o, step)
  PROVE  pc' \in [Ops -> {"idle"} \cup Working \cup Ended]
BY DEF TypeOK, Goto

LEMMA PartialTyped ==
  ASSUME TypeOK, NEW o \in Ops, LeavePartial(o)
  PROVE  /\ mxf' \in [Ops -> [Tracks -> FileStates]]
         /\ cpl' \in [Ops -> Cpl]
         /\ pkl' \in [Ops -> Pkl]
         /\ map' \in [Dirs -> [state : FileStates, by : 0 .. MaxOps]]
<1> USE DEF LeavePartial
<1>1. mxf' \in [Ops -> [Tracks -> FileStates]]
  <2>1. mxf \in [Ops -> [Tracks -> FileStates]]
    BY DEF TypeOK
  <2>2. mxf' = mxf \/ (pc[o] \in Tracks /\ mxf' = [mxf EXCEPT ![o][pc[o]] = "torn"])
    OBVIOUS
  <2>3. ASSUME pc[o] \in Tracks
        PROVE  [mxf[o] EXCEPT ![pc[o]] = "torn"] \in [Tracks -> FileStates]
    BY <2>1, <2>3
  <2> QED BY <2>1, <2>2, <2>3
<1>2. cpl' \in [Ops -> Cpl]
  <2>1. cpl \in [Ops -> Cpl]
    BY DEF TypeOK
  <2>2. cpl' = cpl \/ cpl' = [cpl EXCEPT ![o].state = "torn"]
    OBVIOUS
  <2>3. [cpl[o] EXCEPT !.state = "torn"] \in Cpl
    BY <2>1 DEF Cpl
  <2> QED BY <2>1, <2>2, <2>3
<1>3. pkl' \in [Ops -> Pkl]
  <2>1. pkl \in [Ops -> Pkl]
    BY DEF TypeOK
  <2>2. pkl' = pkl \/ pkl' = [pkl EXCEPT ![o].state = "torn"]
    OBVIOUS
  <2>3. [pkl[o] EXCEPT !.state = "torn"] \in Pkl
    BY <2>1 DEF Pkl
  <2> QED BY <2>1, <2>2, <2>3
<1>4. map' \in [Dirs -> [state : FileStates, by : 0 .. MaxOps]]
  <2>1. map \in [Dirs -> [state : FileStates, by : 0 .. MaxOps]]
    BY DEF TypeOK
  <2>2. map' = map \/ map' = [map EXCEPT ![req[o].dir] = [state |-> "torn", by |-> o]]
    OBVIOUS
  <2>3. [state |-> "torn", by |-> o] \in [state : FileStates, by : 0 .. MaxOps]
    BY OpTyped
  <2> QED BY <2>1, <2>2, <2>3, RequestTyped
<1> QED BY <1>1, <1>2, <1>3, <1>4

LEMMA NextTypeOK == TypeOK /\ [Next]_vars => TypeOK'
<1> SUFFICES ASSUME TypeOK, [Next]_vars PROVE TypeOK'
  OBVIOUS
<1> USE DEF TypeOK
<1>1. ASSUME NEW o \in Ops, Launch(o) PROVE TypeOK'
  BY <1>1 DEF Launch, Goto, result, disk
<1>2. ASSUME NEW o \in Ops, Begin(o) PROVE TypeOK'
  <2>1. pc' \in [Ops -> {"idle"} \cup Working \cup Ended]
    BY <1>2, StepsTyped, RequestTyped, GotoTyped DEF Begin
  <2> QED BY <1>2, <2>1 DEF Begin, result, disk
<1>3. ASSUME NEW o \in Ops, EncodeFrame(o) PROVE TypeOK'
  <2>1. encoded[o] + 1 \in 1 .. MaxFrames
    <3>1. encoded[o] \in 0 .. MaxFrames /\ encoded[o] < req[o].len
      BY <1>3 DEF EncodeFrame, MoreFrames
    <3>2. req[o].len \in 1 .. MaxFrames
      BY RequestTyped
    <3> QED BY <3>1, <3>2, PackageAssumption
  <2>2. frames' \in [Dirs -> [1 .. MaxFrames -> 0 .. MaxOps]]
    <3> DEFINE d == req[o].dir
    <3>1. d \in Dirs
      BY RequestTyped
    <3>2. [frames[d] EXCEPT ![encoded[o] + 1] = o] \in [1 .. MaxFrames -> 0 .. MaxOps]
      BY <2>1, <3>1, OpTyped
    <3>3. frames' = [frames EXCEPT ![d] = [frames[d] EXCEPT ![encoded[o] + 1] = o]]
      BY <1>3, <3>1 DEF EncodeFrame
    <3> QED BY <3>1, <3>2, <3>3
  <2>3. encoded[o] + 1 \in 0 .. MaxFrames
    BY <2>1
  <2>4. encoded' \in [Ops -> 0 .. MaxFrames]
    BY <1>3, <2>3 DEF EncodeFrame
  <2> QED BY <1>3, <2>2, <2>4 DEF EncodeFrame
<1>4. ASSUME NEW o \in Ops, EncodeEnds(o) PROVE TypeOK'
  <2>1. pc' \in [Ops -> {"idle"} \cup Working \cup Ended]
    BY <1>4, StepsTyped, RequestTyped, GotoTyped DEF EncodeEnds
  <2> QED BY <1>4, <2>1 DEF EncodeEnds, result, disk
<1>5. ASSUME NEW o \in Ops, NEW k \in Tracks, Wrap(o, k) PROVE TypeOK'
  <2>1. pc' \in [Ops -> {"idle"} \cup Working \cup Ended]
    BY <1>5, StepsTyped, RequestTyped, GotoTyped DEF Wrap
  <2>2. Sequence(o) \in [1 .. MaxFrames -> 0 .. MaxOps]
    <3>1. frames[req[o].dir] \in [1 .. MaxFrames -> 0 .. MaxOps]
      BY RequestTyped
    <3>2. 0 \in 0 .. MaxOps /\ o \in 0 .. MaxOps
      BY OpTyped, PackageAssumption
    <3> QED BY <3>1, <3>2 DEF Sequence
  <2>3. video' \in [Ops -> [1 .. MaxFrames -> 0 .. MaxOps]]
    <3>1. \A n \in 1 .. MaxFrames :
            [i \in 1 .. MaxFrames |-> IF i <= n THEN Sequence(o)[i] ELSE 0]
              \in [1 .. MaxFrames -> 0 .. MaxOps]
      BY <2>2, PackageAssumption
    <3>2. \/ video' = video
          \/ \E n \in 1 .. MaxFrames : video' = [video EXCEPT ![o] =
               [i \in 1 .. MaxFrames |-> IF i <= n THEN Sequence(o)[i] ELSE 0]]
      BY <1>5 DEF Wrap
    <3>3. video \in [Ops -> [1 .. MaxFrames -> 0 .. MaxOps]]
      OBVIOUS
    <3> HIDE DEF TypeOK
    <3> QED BY <3>1, <3>2, <3>3
  <2>4. mxf' \in [Ops -> [Tracks -> FileStates]] /\ track' \in [Ops -> SUBSET Tracks]
    BY <1>5 DEF Wrap
  <2> QED BY <1>5, <2>1, <2>3, <2>4 DEF Wrap
<1>6. ASSUME NEW o \in Ops, NEW k \in Tracks, SkipMissing(o, k) PROVE TypeOK'
  <2>1. pc' \in [Ops -> {"idle"} \cup Working \cup Ended]
    BY <1>6, StepsTyped, RequestTyped, GotoTyped DEF SkipMissing
  <2> QED BY <1>6, <2>1 DEF SkipMissing, result, disk
<1>7. ASSUME NEW o \in Ops, WriteCpl(o) PROVE TypeOK'
  <2>1. PICK s \in {"torn", "whole"} :
          LET file == [state |-> s, refs |-> {<<o, k>> : k \in track[o] \ {"subtitle"}},
                       notes |-> {}, signed |-> FALSE]
          IN /\ cpl' = [cpl EXCEPT ![o] = file]
             /\ hash' = [hash EXCEPT ![o] = Sha1(file)]
    BY <1>7 DEF WriteCpl
  <2> DEFINE file == [state |-> s, refs |-> {<<o, k>> : k \in track[o] \ {"subtitle"}},
                      notes |-> {}, signed |-> FALSE]
  <2>2. file \in Cpl
    BY DEF Cpl
  <2> HIDE DEF file
  <2>3. cpl' \in [Ops -> Cpl] /\ hash' \in [Ops -> Hash]
    <3>1. cpl' = [cpl EXCEPT ![o] = file] /\ hash' = [hash EXCEPT ![o] = Sha1(file)]
      BY <2>1 DEF file
    <3> QED BY <3>1, <2>2 DEF Hash, Sha1
  <2>4. pc' \in [Ops -> {"idle"} \cup Working \cup Ended]
    BY <1>7, StepsTyped, RequestTyped, GotoTyped DEF WriteCpl
  <2> QED BY <1>7, <2>3, <2>4 DEF WriteCpl
<1>8. ASSUME NEW o \in Ops, WritePkl(o) PROVE TypeOK'
  <2>1. pkl' \in [Ops -> Pkl]
    <3>1. PICK s \in {"torn", "whole"} :
            pkl' = [pkl EXCEPT ![o] = [state |-> s, tracks |-> track[o], cpl |-> hash[o]]]
      BY <1>8 DEF WritePkl
    <3>2. [state |-> s, tracks |-> track[o], cpl |-> hash[o]] \in Pkl
      BY DEF Pkl
    <3> QED BY <3>1, <3>2
  <2> QED BY <1>8, <2>1 DEF WritePkl, Goto, result
<1>9. ASSUME NEW o \in Ops, WriteMap(o) PROVE TypeOK'
  <2>1. map' \in [Dirs -> [state : FileStates, by : 0 .. MaxOps]]
    <3>1. \A s \in {"torn", "whole"} :
            [state |-> s, by |-> o] \in [state : FileStates, by : 0 .. MaxOps]
      BY OpTyped
    <3>2. \/ map' = map
          \/ \E s \in {"torn", "whole"} :
               map' = [map EXCEPT ![req[o].dir] = [state |-> s, by |-> o]]
      BY <1>9 DEF WriteMap
    <3>3. map \in [Dirs -> [state : FileStates, by : 0 .. MaxOps]]
      OBVIOUS
    <3> HIDE DEF TypeOK
    <3> QED BY <3>1, <3>2, <3>3
  <2>2. pc' \in [Ops -> {"idle"} \cup Working \cup Ended]
    BY <1>9, StepsTyped, RequestTyped, GotoTyped DEF WriteMap
  <2> QED BY <1>9, <2>1, <2>2 DEF WriteMap, result
<1>10. ASSUME NEW o \in Ops, Sign(o) PROVE TypeOK'
  BY <1>10, GotoTyped DEF Sign, SignXml, result
<1>11. ASSUME NEW o \in Ops, Break(o) PROVE TypeOK'
  BY <1>11, PartialTyped, GotoTyped DEF Break, result
<1>12. ASSUME NEW o \in Ops, Kill(o) PROVE TypeOK'
  BY <1>12, PartialTyped, GotoTyped DEF Kill, result
<1>13. ASSUME NEW e \in Editors, AnnotateRead(e) PROVE TypeOK'
  <2>1. edit' \in [Editors -> [pc : {"none", "read", "ok", "refused", "killed"},
                               op : 0 .. MaxOps, seen : Cpl]]
    <3>1. PICK o \in Ops : edit' = [edit EXCEPT ![e] =
            [pc |-> IF cpl[o].state = "torn" THEN "refused" ELSE "read",
             op |-> o, seen |-> cpl[o]]]
      BY <1>13 DEF AnnotateRead
    <3>2. o \in 0 .. MaxOps /\ cpl[o] \in Cpl
      BY OpTyped
    <3> QED BY <3>1, <3>2
  <2> QED BY <1>13, <2>1 DEF AnnotateRead, result, disk
<1>14. ASSUME NEW e \in Editors, AnnotateWrite(e) PROVE TypeOK'
  <2>1. cpl' \in [Ops -> Cpl]
    <3>1. \A s \in {"torn", "whole"} :
            [edit[e].seen EXCEPT !.state = s, !.notes = @ \cup {e}] \in Cpl
      <4>1. edit[e].seen \in Cpl
        OBVIOUS
      <4> QED BY <4>1 DEF Cpl
    <3>2. \/ cpl' = cpl
          \/ \E s \in {"torn", "whole"} : cpl' = [cpl EXCEPT ![edit[e].op] =
               [edit[e].seen EXCEPT !.state = s, !.notes = @ \cup {e}]]
      BY <1>14 DEF AnnotateWrite
    <3>3. cpl \in [Ops -> Cpl]
      OBVIOUS
    <3> HIDE DEF TypeOK
    <3> QED BY <3>1, <3>2, <3>3
  <2>2. edit' \in [Editors -> [pc : {"none", "read", "ok", "refused", "killed"},
                               op : 0 .. MaxOps, seen : Cpl]]
    BY <1>14 DEF AnnotateWrite
  <2> QED BY <1>14, <2>1, <2>2 DEF AnnotateWrite, result
<1>15. ASSUME NEW e \in Editors, AnnotateKilled(e) PROVE TypeOK'
  <2>1. cpl' \in [Ops -> Cpl]
    <3>0. cpl \in [Ops -> Cpl]
      OBVIOUS
    <3>1. ASSUME NEW o \in Ops PROVE [cpl[o] EXCEPT !.state = "torn"] \in Cpl
      <4>1. cpl[o] \in Cpl
        BY <3>0
      <4> HIDE DEF TypeOK
      <4> QED BY <4>1 DEF Cpl
    <3>2. cpl' = cpl \/ cpl' = [cpl EXCEPT ![edit[e].op].state = "torn"]
      BY <1>15 DEF AnnotateKilled
    <3> HIDE DEF TypeOK
    <3> QED BY <3>0, <3>1, <3>2
  <2>2. edit' \in [Editors -> [pc : {"none", "read", "ok", "refused", "killed"},
                               op : 0 .. MaxOps, seen : Cpl]]
    BY <1>15 DEF AnnotateKilled
  <2> QED BY <1>15, <2>1, <2>2 DEF AnnotateKilled, result
<1>16. CASE UNCHANGED vars
  BY <1>16 DEF vars, result, disk
<1> HIDE DEF TypeOK
<1> QED
  BY <1>1, <1>2, <1>3, <1>4, <1>5, <1>6, <1>7, <1>8, <1>9, <1>10, <1>11, <1>12,
     <1>13, <1>14, <1>15, <1>16 DEF Next, CommandStep

(* Every variable of the packaging commands keeps its type.                *)
THEOREM PackageTypes == Spec => []TypeOK
BY InitTypeOK, NextTypeOK, PTL DEF Spec
-----------------------------------------------------------------------------
(* What a step leaves alone of a command it is not a step of.              *)
SameFor(p) ==
  /\ pc'[p] = pc[p] /\ track'[p] = track[p] /\ hash'[p] = hash[p]
  /\ mxf'[p] = mxf[p] /\ cpl'[p] = cpl[p] /\ pkl'[p] = pkl[p]

(* What it leaves alone of a package that may be listed.                   *)
ListedKept(q) ==
  pc[q] \in {"sign", "done", "killed"} =>
    /\ pc'[q] \in {"sign", "done", "killed"}
    /\ track'[q] = track[q] /\ pkl'[q] = pkl[q]
    /\ cpl[q].state # "absent" => cpl'[q].state # "absent"

LEMMA CommandFrame ==
  ASSUME TypeOK, NEW p \in Ops, CommandInv(p), req' = req, SameFor(p),
         Annotated \subseteq Annotated',
         \A d \in Dirs : Readable(d) => Readable(d)'
  PROVE  CommandInv(p)'
BY RequestTyped DEF CommandInv, SameFor

LEMMA MapFrame ==
  ASSUME NEW d \in Dirs, MapInv(d), map'[d] = map[d], req' = req,
         \A q \in Ops : ListedKept(q)
  PROVE  MapInv(d)'
BY DEF MapInv, ListedKept

(* A step of command o keeps the invariant if it keeps o's part of it.     *)
LEMMA OwnStep ==
  ASSUME TypeOK, PackageInv, NEW o \in Ops, req' = req, edit' = edit,
         \A p \in Ops : p # o => SameFor(p),
         \A d \in Dirs : map'[d] = map[d] \/ (Readable(d)' /\ MapInv(d)'),
         ListedKept(o), CommandInv(o)'
  PROVE  PackageInv'
<1>1. \A d \in Dirs : Readable(d) => Readable(d)'
  BY DEF Readable
<1>2. Annotated' = Annotated
  BY DEF Annotated
<1>3. ASSUME NEW p \in Ops PROVE CommandInv(p)'
  <2>1. CASE p = o
    BY <2>1
  <2>2. CASE p # o
    BY <1>1, <1>2, <2>2, CommandFrame DEF PackageInv
  <2> QED BY <2>1, <2>2
<1>4. \A q \in Ops : ListedKept(q)
  BY DEF ListedKept, SameFor
<1>5. ASSUME NEW d \in Dirs PROVE MapInv(d)'
  BY <1>4, MapFrame DEF PackageInv
<1> QED BY <1>3, <1>5 DEF PackageInv

(* A step that writes no file of o and no ASSETMAP only moves o on.        *)
LEMMA MoveOn ==
  ASSUME TypeOK, PackageInv, NEW o \in Ops,
         NEW step, Goto(o, step), UNCHANGED <<result, mxf, cpl, pkl, map, edit>>,
         ListedKept(o), CommandInv(o)'
  PROVE  PackageInv'
<1>1. \A p \in Ops : p # o => SameFor(p)
  BY DEF SameFor, Goto, TypeOK, result
<1> QED BY <1>1, OwnStep DEF result

LEMMA InitPackageInv == Init => PackageInv
BY OpTyped DEF Init, PackageInv, CommandInv, MapInv, TracksBefore, NoCpl, NoPkl

(* The tracks that can have been wrapped after a step of the order.        *)
LEMMA TracksAfter ==
  ASSUME NEW r \in Request
  PROVE  /\ {"video", "audio"} \subseteq TracksBefore(FromSubtitle(r))
         /\ {"video"} \subseteq TracksBefore(FromAudio(r))
         /\ \A k \in Tracks :
              TracksBefore(k) \cup {k} \subseteq TracksBefore(AfterTrack(r, k))
         /\ \A k \in Tracks : k \notin TracksBefore(k)
         /\ \A k \in Tracks : AfterTrack(r, k) \in {"audio", "subtitle", "cpl"}
         /\ FromVideo(r) \in {"video", "audio", "subtitle", "cpl"}
         /\ FromStart(r) \in {"encode", "video", "audio", "subtitle", "cpl"}
BY DEF TracksBefore, FromSubtitle, FromAudio, FromVideo, FromStart, AfterTrack

LEMMA AnnotatedGrows ==
  ASSUME NEW e \in Editors, NEW new,
         edit \in [Editors -> [pc : {"none", "read", "ok", "refused", "killed"},
                               op : 0 .. MaxOps, seen : Cpl]],
         edit[e].pc \notin {"ok", "killed"}, edit' = [edit EXCEPT ![e] = new]
  PROVE  /\ Annotated \subseteq Annotated'
         /\ new.pc \in {"ok", "killed"} => new.op \in Annotated'
BY DEF Annotated

(* A step of an editor: at most the CPL it holds is rewritten, and then it *)
(* counts as annotated.                                                    *)
LEMMA EditorStep ==
  ASSUME TypeOK, PackageInv,
         UNCHANGED <<pc, result, mxf, pkl, map>>, Annotated \subseteq Annotated',
         \A o \in Ops : cpl[o].state # "absent" => cpl'[o].state # "absent",
         \A o \in Ops : cpl'[o] = cpl[o] \/ o \in Annotated'
  PROVE  PackageInv'
<1>1. ASSUME NEW o \in Ops PROVE CommandInv(o)'
  <2>1. CommandInv(o)
    BY DEF PackageInv
  <2>2. Readable(req[o].ov)' = Readable(req[o].ov)
    BY DEF Readable, result
  <2>3. cpl'[o] = cpl[o] \/ o \in Annotated'
    OBVIOUS
  <2> QED BY <2>1, <2>2, <2>3 DEF CommandInv, result
<1>2. ASSUME NEW d \in Dirs PROVE MapInv(d)'
  <2>1. MapInv(d)
    BY DEF PackageInv
  <2>2. \A q \in Ops : ListedKept(q)
    BY DEF ListedKept, result
  <2> QED BY <2>1, <2>2, MapFrame DEF result
<1> QED BY <1>1, <1>2 DEF PackageInv

LEMMA PartialKeeps ==
  ASSUME TypeOK, PackageInv, NEW o \in Ops, NEW end \in {"failed", "killed"},
         pc[o] \in Working, end = "failed" => pc[o] \in CanThrow,
         LeavePartial(o), Goto(o, end), UNCHANGED <<result, edit>>
  PROVE  PackageInv'
<1>1. CommandInv(o)
  BY DEF PackageInv
<1>2. pc' = [pc EXCEPT ![o] = end] /\ pc'[o] = end
  BY DEF Goto, TypeOK
<1>3. \A p \in Ops : p # o =>
        mxf'[p] = mxf[p] /\ cpl'[p] = cpl[p] /\ pkl'[p] = pkl[p]
  BY DEF LeavePartial, TypeOK
<1>4. \A p \in Ops : p # o => SameFor(p)
  BY <1>2, <1>3 DEF SameFor, result, TypeOK
<1>5. ListedKept(o)
  <2>1. ASSUME pc[o] = "sign" PROVE UNCHANGED <<mxf, cpl, pkl, map>> /\ end = "killed"
    BY <2>1 DEF LeavePartial, CanThrow
  <2> QED BY <1>2, <2>1 DEF ListedKept, result
<1>6. Annotated' = Annotated
  BY DEF Annotated
<1>7. CommandInv(o)'
  <2>1. track'[o] = track[o] /\ track[o] \subseteq Tracks /\ hash' = hash /\ req' = req
    BY DEF result, TypeOK
  <2>2. \A k \in track[o] : mxf'[o][k] = "whole"
    <3>1. pc[o] \notin track[o]
      BY <1>1 DEF CommandInv, TracksBefore
    <3> QED BY <1>1, <3>1 DEF LeavePartial, CommandInv, TypeOK
  <2>3. pkl'[o].state = "whole" => pkl'[o] = pkl[o] /\ cpl'[o] = cpl[o]
    <3>1. CASE pc[o] = "pkl"
      BY <1>1, <3>1 DEF LeavePartial, CommandInv, TypeOK, Pkl
    <3>2. CASE pc[o] = "cpl"
      BY <1>1, <3>2 DEF LeavePartial, CommandInv, TypeOK
    <3>3. CASE pc[o] \notin {"cpl", "pkl"}
      BY <3>3 DEF LeavePartial
    <3> QED BY <3>1, <3>2, <3>3
  <2>4. TracksBefore(end) = Tracks
    BY DEF TracksBefore
  <2> QED BY <1>1, <1>2, <1>6, <2>1, <2>2, <2>3, <2>4 DEF CommandInv
<1>8. ASSUME NEW d \in Dirs PROVE map'[d] = map[d] \/ (Readable(d)' /\ MapInv(d)')
  <2>1. CASE map' = map
    BY <2>1
  <2>2. CASE pc[o] = "map" /\ map' = [map EXCEPT ![req[o].dir] = [state |-> "torn", by |-> o]]
             /\ UNCHANGED <<mxf, cpl, pkl>>
    <3>1. CASE d = req[o].dir
      <4>1. map'[d] = [state |-> "torn", by |-> o]
        BY <2>2, <3>1 DEF TypeOK
      <4>2. cpl'[o].state # "absent" /\ pkl'[o].state # "absent" /\ pkl'[o].tracks = track'[o]
        BY <1>1, <2>2 DEF CommandInv, result
      <4>3. pc'[o] = "killed"
        BY <1>2, <2>2 DEF CanThrow
      <4> QED BY <3>1, <4>1, <4>2, <4>3 DEF MapInv, Readable, result
    <3>2. CASE d # req[o].dir
      BY <2>2, <3>2 DEF TypeOK
    <3> QED BY <3>1, <3>2
  <2> QED BY <2>1, <2>2 DEF LeavePartial
<1> QED BY <1>4, <1>5, <1>7, <1>8, OwnStep DEF result

LEMMA NextPackageInv == TypeOK /\ PackageInv /\ [Next]_vars => PackageInv'
<1> SUFFICES ASSUME TypeOK, PackageInv, [Next]_vars PROVE PackageInv'
  OBVIOUS
<1>0. /\ \A o \in Ops : CommandInv(o)
      /\ pc \in [Ops -> {"idle"} \cup Working \cup Ended]
      /\ mxf \in [Ops -> [Tracks -> FileStates]] /\ track \in [Ops -> SUBSET Tracks]
      /\ cpl \in [Ops -> Cpl] /\ pkl \in [Ops -> Pkl] /\ hash \in [Ops -> Hash]
      /\ map \in [Dirs -> [state : FileStates, by : 0 .. MaxOps]]
  BY DEF PackageInv, TypeOK
<1>1. ASSUME NEW o \in Ops, Launch(o) PROVE PackageInv'
  <2>1. pc[o] = "idle" /\ Goto(o, "start") /\ UNCHANGED <<result, disk, edit>>
    BY <1>1 DEF Launch
  <2>2. ListedKept(o)
    BY <2>1 DEF ListedKept
  <2>3. CommandInv(o)'
    BY <1>0, <2>1 DEF CommandInv, Goto, TracksBefore, Annotated, result, disk
  <2> QED BY <2>1, <2>2, <2>3, MoveOn DEF disk
<1>2. ASSUME NEW o \in Ops, Begin(o) PROVE PackageInv'
  <2>1. PICK step \in {"failed", FromStart(req[o])} :
          /\ Goto(o, step) /\ pc[o] = "start" /\ UNCHANGED <<result, disk, edit>>
          /\ step # "failed" => req[o].kind # "sup" \/ Readable(req[o].ov)
    BY <1>2 DEF Begin
  <2>2. ListedKept(o)
    BY <2>1 DEF ListedKept
  <2>3. step \in {"failed", "encode", "video", "audio", "subtitle", "cpl"}
    BY <2>1, TracksAfter, RequestTyped
  <2>4. CommandInv(o)'
    BY <1>0, <2>1, <2>3 DEF CommandInv, Goto, TracksBefore, Readable, Annotated, result, disk
  <2> QED BY <2>1, <2>2, <2>4, MoveOn DEF disk
<1>3. ASSUME NEW o \in Ops, EncodeFrame(o) PROVE PackageInv'
  <2>1. \A p \in Ops : SameFor(p)
    BY <1>3 DEF EncodeFrame, SameFor
  <2>2. ListedKept(o) /\ CommandInv(o)'
    BY <1>0, <1>3 DEF EncodeFrame, ListedKept, CommandInv, Readable, Annotated
  <2> QED BY <1>3, <2>1, <2>2, OwnStep DEF EncodeFrame
<1>4. ASSUME NEW o \in Ops, EncodeEnds(o) PROVE PackageInv'
  <2>1. /\ pc[o] = "encode" /\ Goto(o, FromVideo(req[o]))
        /\ UNCHANGED <<result, disk, edit>>
    BY <1>4 DEF EncodeEnds
  <2>2. ListedKept(o)
    BY <2>1 DEF ListedKept
  <2>3. FromVideo(req[o]) \in {"video", "audio", "subtitle", "cpl"}
    BY TracksAfter, RequestTyped
  <2>4. CommandInv(o)'
    BY <1>0, <2>1, <2>3 DEF CommandInv, Goto, TracksBefore, Readable, Annotated, result, disk
  <2> QED BY <2>1, <2>2, <2>4, MoveOn DEF disk
<1>5. ASSUME NEW o \in Ops, NEW k \in Tracks, Wrap(o, k) PROVE PackageInv'
  <2> DEFINE step == AfterTrack(req[o], k)
  <2>1. /\ pc[o] = k /\ pc' = [pc EXCEPT ![o] = step]
        /\ mxf' = [mxf EXCEPT ![o][k] = "whole"]
        /\ track' = [track EXCEPT ![o] = @ \cup {k}]
        /\ UNCHANGED <<req, hash, encoded, cpl, pkl, map, frames, edit>>
    BY <1>5 DEF Wrap, Goto
  <2>2. \A p \in Ops : p # o => SameFor(p)
    BY <1>0, <2>1 DEF SameFor
  <2>3. ListedKept(o)
    BY <2>1 DEF ListedKept
  <2>4. step \in {"audio", "subtitle", "cpl"} /\ TracksBefore(k) \cup {k} \subseteq TracksBefore(step)
    BY TracksAfter, RequestTyped
  <2>5. track'[o] = track[o] \cup {k} /\ track'[o] \subseteq TracksBefore(step)
    BY <1>0, <2>1, <2>4 DEF CommandInv
  <2>6. \A j \in track'[o] : mxf'[o][j] = "whole"
    BY <1>0, <2>1, <2>5 DEF CommandInv
  <2>7. pkl[o].state = "absent" /\ pc'[o] = step
    BY <1>0, <2>1 DEF CommandInv
  <2>8. CommandInv(o)'
    BY <1>0, <2>1, <2>4, <2>5, <2>6, <2>7 DEF CommandInv, Readable
  <2> QED BY <2>1, <2>2, <2>3, <2>8, OwnStep
<1>6. ASSUME NEW o \in Ops, NEW k \in Tracks, SkipMissing(o, k) PROVE PackageInv'
  <2> DEFINE step == AfterTrack(req[o], k)
  <2>1. pc[o] = k /\ Goto(o, step) /\ UNCHANGED <<result, disk, edit>>
    BY <1>6 DEF SkipMissing
  <2>2. ListedKept(o)
    BY <2>1 DEF ListedKept
  <2>3. step \in {"audio", "subtitle", "cpl"} /\ TracksBefore(k) \subseteq TracksBefore(step)
    BY TracksAfter, RequestTyped
  <2> HIDE DEF step
  <2>4. CommandInv(o)'
    BY <1>0, <2>1, <2>3 DEF CommandInv, Goto, Readable, Annotated, result, disk
  <2> QED BY <2>1, <2>2, <2>4, MoveOn DEF disk
<1>7. ASSUME NEW o \in Ops, WriteCpl(o) PROVE PackageInv'
  <2>1. PICK s \in {"torn", "whole"} :
          LET file == [state |-> s, refs |-> {<<o, k>> : k \in track[o] \ {"subtitle"}},
                       notes |-> {}, signed |-> FALSE]
          IN /\ cpl' = [cpl EXCEPT ![o] = file]
             /\ hash' = [hash EXCEPT ![o] = Sha1(file)]
    BY <1>7 DEF WriteCpl
  <2>2. /\ pc[o] = "cpl" /\ pc' = [pc EXCEPT ![o] = "pkl"]
        /\ UNCHANGED <<req, track, encoded, mxf, video, pkl, map, frames, edit>>
    BY <1>7 DEF WriteCpl, Goto, FromCpl
  <2>3. \A p \in Ops : p # o => SameFor(p)
    BY <1>0, <2>1, <2>2 DEF SameFor
  <2>4. ListedKept(o)
    BY <2>2 DEF ListedKept
  <2>5. cpl'[o].state # "absent" /\ hash'[o] = Sha1(cpl'[o])
    BY <1>0, <2>1
  <2>6. CommandInv(o)'
    BY <1>0, <2>2, <2>5 DEF CommandInv, TracksBefore, Readable
  <2> QED BY <2>2, <2>3, <2>4, <2>6, OwnStep
<1>8. ASSUME NEW o \in Ops, WritePkl(o) PROVE PackageInv'
  <2>1. PICK s \in {"torn", "whole"} :
          pkl' = [pkl EXCEPT ![o] = [state |-> s, tracks |-> track[o], cpl |-> hash[o]]]
    BY <1>8 DEF WritePkl
  <2>2. /\ pc[o] = "pkl" /\ pc' = [pc EXCEPT ![o] = "map"]
        /\ UNCHANGED <<req, track, hash, mxf, cpl, map, edit>>
    BY <1>8 DEF WritePkl, Goto, result
  <2>3. \A p \in Ops : p # o => SameFor(p)
    BY <1>0, <2>1, <2>2 DEF SameFor
  <2>4. ListedKept(o)
    BY <2>2 DEF ListedKept
  <2>5. pkl'[o].state # "absent" /\ pkl'[o].tracks = track[o] /\ pkl'[o].cpl = hash[o]
    BY <1>0, <2>1
  <2>6. CommandInv(o)'
    BY <1>0, <2>2, <2>5 DEF CommandInv, TracksBefore, Readable, Annotated
  <2> QED BY <2>2, <2>3, <2>4, <2>6, OwnStep
<1>9. ASSUME NEW o \in Ops, WriteMap(o) PROVE PackageInv'
  <2>1. /\ pc[o] = "map" /\ pc' = [pc EXCEPT ![o] = FromMap(req[o])]
        /\ UNCHANGED <<result, mxf, cpl, pkl, edit>>
    BY <1>9 DEF WriteMap, Goto
  <2>2. pc'[o] \in {"sign", "done"}
    BY <1>0, <2>1 DEF FromMap
  <2>3. \A p \in Ops : p # o => SameFor(p)
    BY <1>0, <2>1 DEF SameFor, result
  <2>4. ListedKept(o)
    BY <2>1 DEF ListedKept
  <2>5. CommandInv(o)
    BY <1>0
  <2>6. ASSUME NEW d \in Dirs PROVE map'[d] = map[d] \/ (Readable(d)' /\ MapInv(d)')
    <3>1. CASE map' = map
      BY <3>1
    <3>2. CASE \E s \in {"torn", "whole"} :
                 map' = [map EXCEPT ![req[o].dir] = [state |-> s, by |-> o]]
      <4>1. CASE d # req[o].dir
        BY <1>0, <3>2, <4>1
      <4>2. CASE d = req[o].dir
        <5>1. map'[d].state # "absent" /\ map'[d].by = o
          BY <1>0, <3>2, <4>2
        <5>2. cpl'[o].state # "absent" /\ pkl'[o].state # "absent" /\ pkl'[o].tracks = track'[o]
          BY <2>1, <2>5 DEF CommandInv, result
        <5> QED BY <2>1, <2>2, <4>2, <5>1, <5>2 DEF MapInv, Readable, result
      <4> QED BY <4>1, <4>2
    <3> QED BY <1>9, <3>1, <3>2 DEF WriteMap
  <2>7. \A d \in Dirs : Readable(d) => Readable(d)'
    BY <2>6 DEF Readable
  <2>8. CommandInv(o)'
    BY <2>1, <2>2, <2>5, <2>7, RequestTyped DEF CommandInv, TracksBefore, Annotated, result
  <2> QED BY <2>1, <2>3, <2>4, <2>6, <2>8, OwnStep DEF result
<1>10. ASSUME NEW o \in Ops, Sign(o) PROVE PackageInv'
  <2>1. /\ pc[o] = "sign" /\ Goto(o, "done") /\ cpl' = cpl
        /\ UNCHANGED <<result, mxf, pkl, map, edit>>
    BY <1>0, <1>10 DEF Sign, SignXml
  <2>2. ListedKept(o)
    BY <1>0, <2>1 DEF ListedKept, Goto, result
  <2>3. CommandInv(o)'
    BY <1>0, <2>1 DEF CommandInv, Goto, TracksBefore, Readable, Annotated, result
  <2> QED BY <2>1, <2>2, <2>3, MoveOn
<1>11. ASSUME NEW o \in Ops, Break(o) PROVE PackageInv'
  BY <1>11, PartialKeeps DEF Break, CanThrow
<1>12. ASSUME NEW o \in Ops, Kill(o) PROVE PackageInv'
  BY <1>12, PartialKeeps DEF Kill
<1>13. ASSUME NEW e \in Editors, AnnotateRead(e) PROVE PackageInv'
  <2>1. PICK o \in Ops : edit' = [edit EXCEPT ![e] =
          [pc |-> IF cpl[o].state = "torn" THEN "refused" ELSE "read",
           op |-> o, seen |-> cpl[o]]]
    BY <1>13 DEF AnnotateRead
  <2>2. Annotated \subseteq Annotated'
    BY <1>13, <2>1, AnnotatedGrows DEF AnnotateRead, TypeOK
  <2> QED BY <1>13, <2>2, EditorStep DEF AnnotateRead, disk
<1>14. ASSUME NEW e \in Editors, AnnotateWrite(e) PROVE PackageInv'
  <2> DEFINE new == [edit[e] EXCEPT !.pc = "ok"]
  <2>1. edit[e].pc = "read" /\ edit' = [edit EXCEPT ![e] = new]
        /\ new.pc = "ok" /\ new.op = edit[e].op
    BY <1>14 DEF AnnotateWrite, TypeOK
  <2>2. Annotated \subseteq Annotated' /\ edit[e].op \in Annotated'
    BY <2>1, AnnotatedGrows DEF TypeOK
  <2>3. ASSUME NEW o \in Ops
        PROVE  /\ cpl'[o] = cpl[o] \/ o \in Annotated'
               /\ cpl[o].state # "absent" => cpl'[o].state # "absent"
    <3>1. CASE cpl' = cpl
      BY <3>1
    <3>2. CASE \E s \in {"torn", "whole"} : cpl' = [cpl EXCEPT ![edit[e].op] =
                 [edit[e].seen EXCEPT !.state = s, !.notes = @ \cup {e}]]
      <4>1. PICK s \in {"torn", "whole"} : cpl' = [cpl EXCEPT ![edit[e].op] =
              [edit[e].seen EXCEPT !.state = s, !.notes = @ \cup {e}]]
        BY <3>2
      <4>2. edit[e].seen \in Cpl
        BY DEF TypeOK
      <4>3. [edit[e].seen EXCEPT !.state = s, !.notes = @ \cup {e}].state = s
        BY <4>2 DEF Cpl
      <4> QED BY <1>0, <2>2, <4>1, <4>3
    <3> QED BY <1>14, <3>1, <3>2 DEF AnnotateWrite
  <2> QED BY <1>14, <2>2, <2>3, EditorStep DEF AnnotateWrite
<1>15. ASSUME NEW e \in Editors, AnnotateKilled(e) PROVE PackageInv'
  <2> DEFINE new == [edit[e] EXCEPT !.pc = "killed"]
  <2>1. edit[e].pc = "read" /\ edit' = [edit EXCEPT ![e] = new]
        /\ new.pc = "killed" /\ new.op = edit[e].op
    BY <1>15 DEF AnnotateKilled, TypeOK
  <2>2. Annotated \subseteq Annotated' /\ edit[e].op \in Annotated'
    BY <2>1, AnnotatedGrows DEF TypeOK
  <2>3. ASSUME NEW o \in Ops
        PROVE  /\ cpl'[o] = cpl[o] \/ o \in Annotated'
               /\ cpl[o].state # "absent" => cpl'[o].state # "absent"
    <3>1. CASE cpl' = cpl
      BY <3>1
    <3>2. CASE cpl' = [cpl EXCEPT ![edit[e].op].state = "torn"]
      <4>1. ASSUME cpl[o] \in Cpl PROVE [cpl[o] EXCEPT !.state = "torn"].state = "torn"
        BY <4>1 DEF Cpl
      <4> QED BY <1>0, <2>2, <3>2, <4>1
    <3> QED BY <1>15, <3>1, <3>2 DEF AnnotateKilled
  <2> QED BY <1>15, <2>2, <2>3, EditorStep DEF AnnotateKilled
<1>16. CASE UNCHANGED vars
  <2>1. /\ UNCHANGED <<pc, result, mxf, cpl, pkl, map, edit>>
        /\ Annotated' = Annotated
    BY <1>16 DEF vars, disk, Annotated
  <2> QED BY <2>1, EditorStep
<1> QED
  BY <1>1, <1>2, <1>3, <1>4, <1>5, <1>6, <1>7, <1>8, <1>9, <1>10, <1>11, <1>12,
     <1>13, <1>14, <1>15, <1>16 DEF Next, CommandStep

LEMMA PackageInvariant == Spec => [](TypeOK /\ PackageInv)
<1>1. Init => TypeOK /\ PackageInv
  BY InitTypeOK, InitPackageInv
<1>2. TypeOK /\ PackageInv /\ [Next]_vars => (TypeOK /\ PackageInv)'
  BY NextTypeOK, NextPackageInv
<1> QED BY <1>1, <1>2, PTL DEF Spec

(* A PKL that can be read lists complete track files with the hashes of    *)
(* what is on disk, except for a CPL annotated since.                      *)
THEOREM PklVouchesForDisk == Spec => []PklMatchesDisk
<1>1. PackageInv => PklMatchesDisk
  BY DEF PackageInv, CommandInv, PklMatchesDisk
<1> QED BY <1>1, PackageInvariant, PTL

(* ASSETMAP.xml always belongs to a package all of whose files were written.*)
THEOREM AssetMapIsLast == Spec => []MapIsClosed
<1>1. PackageInv => MapIsClosed
  BY DEF PackageInv, CommandInv, MapInv, MapIsClosed
<1> QED BY <1>1, PackageInvariant, PTL

(* A command that reports an error is not listed by an ASSETMAP.xml.       *)
THEOREM FailuresAreUnlisted == Spec => []FailureIsUnlisted
<1>1. PackageInv => FailureIsUnlisted
  <2> SUFFICES ASSUME PackageInv, NEW o \in Ops, pc[o] = "failed", NEW d \in Dirs
               PROVE  map[d].by # o
    BY DEF FailureIsUnlisted
  <2>1. MapInv(d)
    BY DEF PackageInv
  <2> QED BY <2>1, OpTyped DEF MapInv
<1> QED BY <1>1, PackageInvariant, PTL

(* A supplement past its check has an Original Version with CPL and PKL.   *)
THEOREM SupplementsHaveOv == Spec => []SupplementHasOv
<1>1. TypeOK /\ PackageInv => SupplementHasOv
  BY RequestTyped DEF PackageInv, CommandInv, MapInv, Readable, SupplementHasOv
<1> QED BY <1>1, PackageInvariant, PTL
=============================================================================
