---------------------------- MODULE MCWatchFolder ----------------------------
(* TLC instances of WatchFolder.                                           *)
EXTENDS WatchFolder

(* One action that lists the folder and one that does not.                 *)
TwoActions == <<"imp", "custom">>
=============================================================================
