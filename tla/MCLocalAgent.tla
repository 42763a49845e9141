---------------------------- MODULE MCLocalAgent ----------------------------
(* Two sessions of a local agent with helpers of any kind, or one that has an *)
(* Apple helper, with connections that may be replaced while they run.      *)
EXTENDS AppleLocalAgent
=============================================================================
