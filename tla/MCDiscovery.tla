---------------------------- MODULE MCDiscovery -----------------------------
(***************************************************************************)
(* Discovery for TLC: processes and threads are model values.              *)
(***************************************************************************)
EXTENDS Discovery
=============================================================================
