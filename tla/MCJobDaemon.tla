----------------------------- MODULE MCJobDaemon -----------------------------
(* TLC instances of JobDaemon.                                             *)
EXTENDS JobDaemon

MCPriorities == {0, 1}
OnePriority  == {0}
=============================================================================
