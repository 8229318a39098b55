----------------------------- MODULE MCWinDaemon -----------------------------
(* TLC instance of WinDaemon.                                              *)
EXTENDS WinDaemon
=============================================================================
