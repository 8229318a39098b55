----------------------------- MODULE MCMultiNode -----------------------------
(* TLC instance of MultiNode.                                              *)
EXTENDS MultiNode
=============================================================================
