-------------------------------- MODULE GenId --------------------------------
(***************************************************************************)
(* The connection-id generator of Communication/core/gen_id.cpp.  The      *)
(* counter is an unsigned integer that wraps after maxId (65535 in the     *)
(* code); the value INVALID_CONNID is skipped.  One generator serves the   *)
(* client connections and another one the server connections.  The task-id *)
(* generator is a plain 64-bit counter and is a variable of its users.     *)
(***************************************************************************)
EXTENDS Naturals

INVALID_CONNID == 0

\* The id handed out when the counter taskId_ holds k: zero is skipped.
ConnIdOf(k) == IF k = INVALID_CONNID THEN k + 1 ELSE k

\* Fault: a counter wider than the id.
Fault_ConnCounterAfter(k, maxId) == ConnIdOf(k) + 1

\* The counter after that id was handed out: x = taskId_++ on an unsigned type.
ConnCounterAfter(k, maxId) == (ConnIdOf(k) + 1) % (maxId + 1)
=============================================================================
