------------------------------ MODULE MCGuiQueue ------------------------------
(* TLC instances of GuiQueue.                                              *)
EXTENDS GuiQueue
=============================================================================
