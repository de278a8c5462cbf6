---------------------------- MODULE MCThreadPool ----------------------------
(***************************************************************************)
(* ThreadPool for TLC: workers are model values.  Liveness is checked in   *)
(* every run, so that no symmetry is used.                                 *)
(***************************************************************************)
EXTENDS ThreadPool
=============================================================================
