------------------------------ MODULE MCBridge ------------------------------
(* The bridge with one descriptor beside standard input: a poll group and a *)
(* main thread on one client, in each of the three modes.                   *)
EXTENDS Bridge
=============================================================================
