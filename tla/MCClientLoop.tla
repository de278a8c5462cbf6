---------------------------- MODULE MCClientLoop ----------------------------
(***************************************************************************)
(* ClientLoop for TLC: threads and addresses are model values.             *)
(***************************************************************************)
EXTENDS ClientLoop, TLC

\* Senders are interchangeable, and so are connectors and addresses.
Symmetry == Permutations(Senders) \cup Permutations(Connectors) \cup Permutations(Ips)
=============================================================================
