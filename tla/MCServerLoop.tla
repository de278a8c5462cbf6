---------------------------- MODULE MCServerLoop ----------------------------
(***************************************************************************)
(* ServerLoop for TLC: threads are model values.  Liveness is checked in   *)
(* every run, so that no symmetry is used.                                 *)
(***************************************************************************)
EXTENDS ServerLoop
=============================================================================
