------------------------------ MODULE MCPackage ------------------------------
(* TLC instances of Package.                                               *)
EXTENDS Package

Ov(d, tracks, raw, len, sign) ==
  [kind |-> "ov", dir |-> d, ov |-> d, tracks |-> tracks, raw |-> raw, len |-> len, sign |-> sign]
Sup(d, ov, tracks) ==
  [kind |-> "sup", dir |-> d, ov |-> ov, tracks |-> tracks, raw |-> FALSE, len |-> 1, sign |-> FALSE]

(* Both lengths, with and without encoding, audio, subtitle and signature, *)
(* in a directory shared with others and in one of its own.                *)
SomeRequests ==
  {Ov("d1", {"video"}, TRUE, 1, FALSE),
   Ov("d1", {"video", "audio", "subtitle"}, FALSE, 2, TRUE),
   Ov("d2", {"video", "subtitle"}, TRUE, 2, FALSE),
   Sup("d1", "d1", {"audio"}),
   Sup("d2", "d1", {"video", "audio"})}
=============================================================================
