------------------------------- MODULE Bridge -------------------------------
(***************************************************************************)
(* The class HostChangeReq of bridge/connreq_mgr.cpp: the discovery and    *)
(* the application hand it addresses of servers, the list reqs keeps an    *)
(* address from being handed out twice, and the workers of a pool connect. *)
(* The pool is the one of WorkPool, which ThreadPool implements.           *)
(*                                                                         *)
(* The object is static: its destructor runs when main has returned, while *)
(* the threads of the process are still there.                             *)
(***************************************************************************)
EXTENDS Naturals, Sequences, FiniteSets

CONSTANTS
    Servers,    \* addresses of servers
    Workers,    \* threads of the pool, 4 in the code
    NoServer,   \* an idle worker
    MaxQueue    \* 64 in the code: a longer queue refuses work

ASSUME BridgeAssumption == IsFiniteSet(Servers) /\ NoServer \notin Servers /\ MaxQueue \in Nat

VARIABLES
    reqs,       \* the list of addresses under way
    waiting, doing, ended, phase, broken,   \* the pool, see WorkPool
    connecting, \* workers inside ssn_connect
    up,         \* addresses the client loop has a connection to
    mutex,      \* mutex_: "alive" or "destroyed"
    refused,    \* history: addresses whose job the full queue refused
    exitBusy,   \* history: a request was under way when the destructor began
    crashed     \* the process was killed by undefined behaviour

poolVars   == <<waiting, doing, ended, phase, broken>>
bridgeVars == <<reqs, poolVars, connecting, up, mutex, refused, exitBusy, crashed>>

Pool == INSTANCE WorkPool WITH Items <- Servers, NoItem <- NoServer

BridgeInit ==
    /\ reqs = {} /\ Pool!Init /\ connecting = {} /\ up = {}
    /\ mutex = "alive" /\ refused = {} /\ exitBusy = FALSE /\ crashed = FALSE
-----------------------------------------------------------------------------
\* uv_mutex_lock on a destroyed mutex aborts the process.
Abort ==
    /\ mutex = "destroyed" /\ crashed' = TRUE
    /\ UNCHANGED <<reqs, poolVars, connecting, up, mutex, refused, exitBusy>>

\* Fault: the list is not searched for the address.
Fault_Listed(s) == FALSE

\* addsvrconn finds the address in reqs.
Listed(s) == s \in reqs

\* addsvrconn: an address that is not listed is listed and its job pushed.  Nobody looks
\* at the result of the push: a refused address stays listed.
addsvrconn(s) ==
    \/ Abort
    \/ /\ mutex = "alive" /\ Listed(s)
       /\ UNCHANGED bridgeVars
    \/ /\ mutex = "alive" /\ ~Listed(s)
       /\ reqs' = reqs \cup {s}
       /\ \/ Pool!Push(s) /\ UNCHANGED refused
          \/ ~Pool!HasRoom /\ refused' = refused \cup {s} /\ UNCHANGED poolVars
       /\ UNCHANGED <<connecting, up, mutex, exitBusy, crashed>>

\* deliver_addsvr_msg, called by the discovery and by ssn_connect_oriented.
deliver_addsvr_msg(s) == ~crashed /\ addsvrconn(s)

\* A worker takes an address from the queue and calls ssn_connect.
threadpool_work(w) ==
    /\ ~crashed /\ Pool!Take(w)
    /\ connecting' = connecting \cup {w}
    /\ UNCHANGED <<reqs, up, mutex, refused, exitBusy, crashed>>

\* ssn_connect returns: there is a new connection, or there was one already, or the client
\* is not running, or the server did not answer within CONN_TIMEOUT.
ssn_connect(w, connected) ==
    /\ ~crashed /\ w \in connecting
    /\ connecting' = connecting \ {w}
    /\ \/ connected /\ doing[w] \notin up /\ up' = up \cup {doing[w]}
       \/ ~connected /\ UNCHANGED up
    /\ UNCHANGED <<reqs, poolVars, mutex, refused, exitBusy, crashed>>

\* Fault: an address that could not be connected stays listed.
Fault_Unlist(s) == IF s \in up THEN reqs \ {s} ELSE reqs

\* delsvrconn: the list without the address.
Unlist(s) == reqs \ {s}

\* The end of threadpool_work: delsvrconn, and the worker returns to the pool.
delsvrconn(w) ==
    /\ ~crashed /\ doing[w] # NoServer /\ w \notin connecting
    /\ \/ Abort
       \/ /\ mutex = "alive"
          /\ reqs' = Unlist(doing[w])
          /\ Pool!Done(w)
          /\ UNCHANGED <<connecting, up, mutex, refused, exitBusy, crashed>>

\* The connection ends; the client loop closes it and forgets it.
ConnectionLost(s) ==
    /\ ~crashed /\ s \in up
    /\ up' = up \ {s}
    /\ UNCHANGED <<reqs, poolVars, connecting, mutex, refused, exitBusy, crashed>>

\* ~HostChangeReq: the mutex is destroyed first ...
DestroyMutex(listening) ==
    /\ ~crashed /\ mutex = "alive"
    /\ mutex' = "destroyed"
    /\ exitBusy' = (listening \/ waiting # <<>> \/ \E w \in Workers : doing[w] # NoServer)
    /\ UNCHANGED <<reqs, poolVars, connecting, up, refused, crashed>>

\* ... and then the pool is shut down: threadpool_uninit, the queue, the join.
UninitPool ==
    /\ ~crashed /\ mutex = "destroyed"
    /\ \/ Pool!Stop /\ UNCHANGED crashed
       \/ Pool!Clear /\ crashed' = broken'
       \/ Pool!Joined /\ UNCHANGED crashed
    /\ UNCHANGED <<reqs, connecting, up, mutex, refused, exitBusy>>

\* A worker of the pool that is being shut down ends.
LeavePool(w) ==
    /\ ~crashed /\ Pool!End(w)
    /\ UNCHANGED <<reqs, connecting, up, mutex, refused, exitBusy, crashed>>

WorkerStep(w) ==
    \/ threadpool_work(w) \/ delsvrconn(w) \/ LeavePool(w)
    \/ \E connected \in BOOLEAN : ssn_connect(w, connected)

\* The process dies for another reason.
ProcessDies ==
    /\ ~crashed /\ crashed' = TRUE
    /\ UNCHANGED <<reqs, poolVars, connecting, up, mutex, refused, exitBusy>>

\* The bridge with callers that do what they like.
BridgeNext ==
    \/ \E s \in Servers : deliver_addsvr_msg(s) \/ ConnectionLost(s)
    \/ \E w \in Workers : WorkerStep(w)
    \/ \E listening \in BOOLEAN : DestroyMutex(listening)
    \/ UninitPool \/ ProcessDies

BridgeSpec == BridgeInit /\ [][BridgeNext]_bridgeVars
-----------------------------------------------------------------------------
(* Properties.                                                             *)

BridgeTypes ==
    /\ reqs \subseteq Servers /\ Pool!TypeOK /\ connecting \subseteq Workers
    /\ up \subseteq Servers /\ refused \subseteq Servers
    /\ mutex \in {"alive", "destroyed"} /\ exitBusy \in BOOLEAN /\ crashed \in BOOLEAN

\* Positions of the queue that hold the address, and workers that are at it.
Queued(s) == {n \in DOMAIN waiting : waiting[n] = s}
AtIt(s)   == {w \in Workers : doing[w] = s}

\* At most one job for each address, in the queue or in the hands of one worker, however
\* often and by whomever the server is announced: no server is connected by two workers
\* at once.
OneJobPerServer ==
    \A s \in Servers :
        /\ \A m, n \in Queued(s) : m = n
        /\ \A v, w \in AtIt(s) : v = w
        /\ Queued(s) = {} \/ AtIt(s) = {}

\* An address is in reqs exactly while it has a job, so that a server which could not be
\* connected is connected when it is announced again.  The exception are addresses whose
\* job the full queue refused: those are never connected again.
ListedWhileAtWork ==
    ~crashed => \A s \in Servers :
        s \in reqs <=> s \in refused \/ Queued(s) # {} \/ AtIt(s) # {}

\* However fast servers are announced and however slow the workers are, the full queue
\* costs no more servers than the network has beyond the length of the queue: 65 servers
\* and fewer are never refused.
RefusedBound == refused = {} \/ Cardinality(refused) + MaxQueue + 1 <= Cardinality(Servers)
=============================================================================
