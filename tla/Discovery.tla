----------------------------- MODULE Discovery ------------------------------
(***************************************************************************)
(* How a client finds servers: servers broadcast their address every ten   *)
(* seconds, a client that starts broadcasts once and is answered by the    *)
(* servers, and every announcement a client hears goes to the bridge, which*)
(* connects.  Datagrams may be lost, delayed and reordered.                *)
(*                                                                         *)
(* One client process and several server processes.  (A process may have   *)
(* both roles; their state is separate.)  In each, the main thread calls   *)
(* ssn_set_boardcast_model, which makes and ends the threads of the role:  *)
(* one that listens, and in a server one that broadcasts.                  *)
(***************************************************************************)
EXTENDS Bridge

CONSTANTS
    Client,     \* the client process
    Hosts,      \* servers that announce themselves; the others the application may name
    Strangers,  \* other programs that send datagrams to the client's port
    MaxCall     \* bound: calls of ssn_set_boardcast_model, of all processes

ASSUME DiscoveryAssumption ==
    /\ Hosts \subseteq Servers /\ Client \notin Servers /\ Strangers \cap Servers = {} /\ MaxCall \in Nat

VARIABLES
    role,       \* the role's bit of g_runType and what came of it: "off", "on" or
                \* "failed" (the bit is set, nothing runs)
    main,       \* where each main thread is; "stuck" is a call that never returns or,
                \* in a server, the end of the process
    calls,      \* calls of ssn_set_boardcast_model so far
    clt,        \* the client's listening thread: "none", "run", "left"
    cltExit,    \* g_cltbc_listen.sem_exit
    cltBox,     \* senders of the datagrams in the client's socket
    ls,         \* the listening thread of each server
    lsExit,     \* g_svrbc_listen.sem_exit
    svrBox,     \* servers with the client's datagram in their socket
    bc,         \* the broadcasting thread: "none", "top", "send", "tired" (about to sleep),
                \* "asleep", "left"
    bcExit,     \* g_svr_bc.sem_exit
    late        \* history: broadcasts since the thread was told to exit, up to 2

mainVars == <<role, main, calls>>
cltVars  == <<clt, cltExit, cltBox>>
lsVars   == <<ls, lsExit, svrBox>>
bcVars   == <<bc, bcExit, late>>
vars     == <<mainVars, cltVars, lsVars, bcVars, bridgeVars>>

Init ==
    /\ role = [h \in Hosts \cup {Client} |-> "off"]
    /\ main = [h \in Hosts \cup {Client} |-> "idle"] /\ calls = 0
    /\ clt = "none" /\ cltExit = FALSE /\ cltBox = {}
    /\ ls = [s \in Hosts |-> "none"] /\ lsExit = [s \in Hosts |-> FALSE] /\ svrBox = {}
    /\ bc = [s \in Hosts |-> "none"] /\ bcExit = [s \in Hosts |-> FALSE]
    /\ late = [s \in Hosts |-> 0]
    /\ BridgeInit

\* A call of ssn_set_boardcast_model that finds the role as it is and changes its bit.
Call(h, before) ==
    /\ main[h] = "idle" /\ role[h] = before /\ calls < MaxCall /\ calls' = calls + 1
    /\ h = Client => ~crashed
-----------------------------------------------------------------------------
(* The client.                                                             *)

\* clt_model_start: two sockets and the listening thread.  When a socket fails there is no
\* thread, and ssn_set_boardcast_model sets g_runType all the same.
clt_model_start(ok) ==
    /\ Call(Client, "off")
    /\ IF ok
       THEN /\ role' = [role EXCEPT ![Client] = "on"]
            /\ main' = [main EXCEPT ![Client] = "announce"]
            /\ clt' = "run" /\ cltExit' = FALSE /\ UNCHANGED cltBox
       ELSE /\ role' = [role EXCEPT ![Client] = "failed"]
            /\ UNCHANGED <<main, cltVars>>
    /\ UNCHANGED <<lsVars, bcVars, bridgeVars>>

\* _client_startup_boardcast: the datagram gets through to the servers reached.
client_startup_boardcast(reached) ==
    /\ ~crashed /\ main[Client] = "announce"
    /\ reached \subseteq {s \in Hosts : ls[s] = "run"}
    /\ svrBox' = svrBox \cup reached
    /\ main' = [main EXCEPT ![Client] = "idle"]
    /\ UNCHANGED <<role, calls, cltVars, ls, lsExit, bcVars, bridgeVars>>

\* Fault: the thread is neither told to exit nor joined.
Fault_clt_model_stop ==
    /\ Call(Client, "on")
    /\ role' = [role EXCEPT ![Client] = "off"]
    /\ UNCHANGED <<main, cltVars, lsVars, bcVars, bridgeVars>>

\* clt_model_stop: the thread is told to exit.
clt_model_stop ==
    /\ Call(Client, "on")
    /\ cltExit' = TRUE
    /\ main' = [main EXCEPT ![Client] = "join"]
    /\ UNCHANGED <<role, clt, cltBox, lsVars, bcVars, bridgeVars>>

\* clt_model_stop after a failed start posts a semaphore that was not made and joins a
\* thread that does not exist, or one that was joined before: the process dies, the join
\* does not return, or nothing happens.
clt_model_stop_failed ==
    /\ Call(Client, "failed")
    /\ \/ ProcessDies /\ UNCHANGED <<role, main>>
       \/ main' = [main EXCEPT ![Client] = "stuck"] /\ UNCHANGED <<role, bridgeVars>>
       \/ role' = [role EXCEPT ![Client] = "off"] /\ UNCHANGED <<main, bridgeVars>>
    /\ UNCHANGED <<cltVars, lsVars, bcVars>>

\* uv_thread_join returns; the sockets are closed.
JoinClient ==
    /\ ~crashed /\ main[Client] = "join" /\ clt = "left"
    /\ clt' = "none" /\ cltBox' = {} /\ UNCHANGED cltExit
    /\ role' = [role EXCEPT ![Client] = "off"] /\ main' = [main EXCEPT ![Client] = "idle"]
    /\ UNCHANGED <<calls, lsVars, bcVars, bridgeVars>>

\* Fault: datagrams of other programs are not filtered out.
Fault_Ours(d) == TRUE

\* The magic number of the datagram is BOARDCAST_MAGIC_NUM.
Ours(d) == d \in Hosts

\* _cltbc_listen_thread: uv_sem_trywait takes the token and the thread ends ...
cltbc_listen_exit ==
    /\ ~crashed /\ clt = "run" /\ cltExit
    /\ clt' = "left" /\ cltExit' = FALSE
    /\ UNCHANGED <<mainVars, cltBox, lsVars, bcVars, bridgeVars>>

\* ... or it receives a datagram and handles a STARTUP message.
cltbc_listen_thread(d) ==
    /\ ~crashed /\ clt = "run" /\ ~cltExit /\ d \in cltBox
    /\ cltBox' = cltBox \ {d}
    /\ IF Ours(d) THEN deliver_addsvr_msg(d) ELSE UNCHANGED bridgeVars
    /\ UNCHANGED <<mainVars, clt, cltExit, lsVars, bcVars>>

\* ssn_connect_oriented: the application names a server.
ssn_connect_oriented(s) ==
    /\ main[Client] = "idle" /\ deliver_addsvr_msg(s)
    /\ UNCHANGED <<mainVars, cltVars, lsVars, bcVars>>

\* main returns; the destructor of the bridge begins.
ClientExit ==
    /\ main[Client] = "idle" /\ DestroyMutex(role[Client] = "on")
    /\ main' = [main EXCEPT ![Client] = "gone"]
    /\ UNCHANGED <<role, calls, cltVars, lsVars, bcVars>>

\* A datagram from d arrives at the client's port, or is lost.
ToClient(d, lost) ==
    cltBox' = IF clt = "none" \/ lost THEN cltBox ELSE cltBox \cup {d}

\* Another program sends to the client's port.
Noise(d) ==
    /\ ToClient(d, FALSE)
    /\ UNCHANGED <<mainVars, clt, cltExit, lsVars, bcVars, bridgeVars>>
-----------------------------------------------------------------------------
(* The servers.                                                            *)

\* svr_model_start: _svr_listen_start and _svr_boardcast_start.  g_runType is set whether
\* they succeed or not.
svr_model_start(s, listens, broadcasts) ==
    /\ Call(s, "off")
    /\ role' = [role EXCEPT ![s] = IF listens /\ broadcasts THEN "on" ELSE "failed"]
    /\ main' = [main EXCEPT ![s] = IF listens = broadcasts THEN "idle" ELSE "undo"]
    /\ ls' = [ls EXCEPT ![s] = IF listens THEN "run" ELSE "none"]
    /\ lsExit' = [lsExit EXCEPT ![s] = FALSE]
    /\ bc' = [bc EXCEPT ![s] = IF broadcasts THEN "top" ELSE "none"]
    /\ bcExit' = [bcExit EXCEPT ![s] = FALSE] /\ late' = [late EXCEPT ![s] = 0]
    /\ UNCHANGED <<cltVars, svrBox, bridgeVars>>

\* Fault: the listening thread is left alone when the broadcasting thread has failed.
Fault_UndoStart(s) ==
    /\ main[s] = "undo"
    /\ bcExit' = [bcExit EXCEPT ![s] = bc[s] # "none"]
    /\ main' = [main EXCEPT ![s] = IF bc[s] # "none" THEN "wake" ELSE "idle"]
    /\ UNCHANGED <<role, calls, cltVars, lsVars, bc, late, bridgeVars>>

\* The rest of svr_model_start when one of the two has failed: the other one is stopped, as
\* in svr_model_stop.
UndoStart(s) ==
    /\ main[s] = "undo"
    /\ lsExit' = [lsExit EXCEPT ![s] = ls[s] # "none"]
    /\ bcExit' = [bcExit EXCEPT ![s] = bc[s] # "none"]
    /\ main' = [main EXCEPT ![s] = IF bc[s] # "none" THEN "wake" ELSE "join_ls"]
    /\ UNCHANGED <<role, calls, cltVars, ls, svrBox, bc, late, bridgeVars>>

\* svr_model_stop, _svr_boardcast_stop: the token is posted ...
svr_model_stop(s) ==
    /\ Call(s, "on")
    /\ role' = [role EXCEPT ![s] = "off"]
    /\ main' = [main EXCEPT ![s] = "wake"]
    /\ bcExit' = [bcExit EXCEPT ![s] = TRUE]
    /\ UNCHANGED <<cltVars, lsVars, bc, late, bridgeVars>>

\* svr_model_stop after a failed start: as in the client.
svr_model_stop_failed(s) ==
    /\ Call(s, "failed")
    /\ \/ main' = [main EXCEPT ![s] = "stuck"] /\ UNCHANGED role
       \/ role' = [role EXCEPT ![s] = "off"] /\ UNCHANGED main
    /\ UNCHANGED <<cltVars, lsVars, bcVars, bridgeVars>>

\* ... sleeper::wakeup signals without the mutex, which a thread that is about to sleep
\* does not notice ...
wakeup(s) ==
    /\ main[s] = "wake"
    /\ main' = [main EXCEPT ![s] = "join_bc"]
    /\ bc' = [bc EXCEPT ![s] = IF @ = "asleep" THEN "top" ELSE @]
    /\ UNCHANGED <<role, calls, cltVars, lsVars, bcExit, late, bridgeVars>>

\* ... the thread is joined, and _svr_listen_stop tells the other one to exit ...
JoinBroadcaster(s) ==
    /\ main[s] = "join_bc" /\ bc[s] = "left"
    /\ bc' = [bc EXCEPT ![s] = "none"]
    /\ IF ls[s] = "none"
       THEN main' = [main EXCEPT ![s] = "idle"] /\ UNCHANGED lsExit
       ELSE main' = [main EXCEPT ![s] = "join_ls"] /\ lsExit' = [lsExit EXCEPT ![s] = TRUE]
    /\ UNCHANGED <<role, calls, cltVars, ls, svrBox, bcExit, late, bridgeVars>>

\* ... and joins it; its socket is closed.
JoinListener(s) ==
    /\ main[s] = "join_ls" /\ ls[s] = "left"
    /\ ls' = [ls EXCEPT ![s] = "none"] /\ svrBox' = svrBox \ {s}
    /\ main' = [main EXCEPT ![s] = "idle"]
    /\ UNCHANGED <<role, calls, cltVars, lsExit, bcVars, bridgeVars>>

\* _svrbc_listen_thread: the token, or the client's datagram, which is answered to the
\* client alone (_oriented_feedback).
svrbc_listen_exit(s) ==
    /\ ls[s] = "run" /\ lsExit[s]
    /\ ls' = [ls EXCEPT ![s] = "left"] /\ lsExit' = [lsExit EXCEPT ![s] = FALSE]
    /\ UNCHANGED <<mainVars, cltVars, svrBox, bcVars, bridgeVars>>

oriented_feedback(s, lost) ==
    /\ ls[s] = "run" /\ ~lsExit[s] /\ s \in svrBox
    /\ svrBox' = svrBox \ {s}
    /\ ToClient(s, lost)
    /\ UNCHANGED <<mainVars, clt, cltExit, ls, lsExit, bcVars, bridgeVars>>

\* Fault: the token is looked for only while it is not there.
Fault_boardcast_top(s) ==
    /\ bc[s] = "top" /\ bc' = [bc EXCEPT ![s] = "send"]
    /\ UNCHANGED <<mainVars, cltVars, lsVars, bcExit, late, bridgeVars>>

\* _boardcast_svr_msg, the top of the loop: uv_sem_trywait.
boardcast_top(s) ==
    /\ bc[s] = "top"
    /\ IF bcExit[s]
       THEN bc' = [bc EXCEPT ![s] = "left"] /\ bcExit' = [bcExit EXCEPT ![s] = FALSE]
       ELSE bc' = [bc EXCEPT ![s] = "send"] /\ UNCHANGED bcExit
    /\ UNCHANGED <<mainVars, cltVars, lsVars, late, bridgeVars>>

\* sendto.
boardcast_send(s, lost) ==
    /\ bc[s] = "send"
    /\ bc' = [bc EXCEPT ![s] = "tired"]
    /\ ToClient(s, lost)
    /\ late' = [late EXCEPT ![s] = IF bcExit[s] /\ @ < 2 THEN @ + 1 ELSE @]
    /\ UNCHANGED <<mainVars, clt, cltExit, lsVars, bcExit, bridgeVars>>

\* sleeper::sleep: uv_cond_timedwait, which ends after SVR_BOARDCAST_TIMESPACE at the latest.
sleep(s) ==
    /\ bc[s] \in {"tired", "asleep"}
    /\ bc' = [bc EXCEPT ![s] = IF @ = "tired" THEN "asleep" ELSE "top"]
    /\ UNCHANGED <<mainVars, cltVars, lsVars, bcExit, late, bridgeVars>>
-----------------------------------------------------------------------------
Others == <<mainVars, cltVars, lsVars, bcVars>>

ClientStep ==
    \/ \E ok \in BOOLEAN : clt_model_start(ok)
    \/ \E reached \in SUBSET Hosts : client_startup_boardcast(reached)
    \/ clt_model_stop \/ clt_model_stop_failed \/ JoinClient
    \/ cltbc_listen_exit \/ \E d \in cltBox : cltbc_listen_thread(d)
    \/ \E s \in Servers : ssn_connect_oriented(s)
    \/ ClientExit
    \/ \E d \in Strangers : Noise(d)

ServerStep(s) ==
    \/ \E listens, broadcasts \in BOOLEAN : svr_model_start(s, listens, broadcasts)
    \/ UndoStart(s) \/ svr_model_stop(s) \/ svr_model_stop_failed(s)
    \/ wakeup(s) \/ JoinBroadcaster(s) \/ JoinListener(s)
    \/ svrbc_listen_exit(s) \/ boardcast_top(s) \/ sleep(s)
    \/ \E lost \in BOOLEAN : oriented_feedback(s, lost) \/ boardcast_send(s, lost)

BridgeStep ==
    /\ \/ \E w \in Workers : WorkerStep(w)
       \/ \E s \in Servers : ConnectionLost(s)
       \/ UninitPool
    /\ UNCHANGED Others

Next == ClientStep \/ BridgeStep \/ \E s \in Hosts : ServerStep(s)

Spec == Init /\ [][Next]_vars

\* A connection attempt to a server that runs.
Reaches(w) ==
    doing[w] \in Hosts /\ role[doing[w]] = "on" /\ ssn_connect(w, TRUE) /\ UNCHANGED Others

\* Threads that can go on do; a socket hands out every datagram in the end; of infinitely
\* many broadcasts and of infinitely many connection attempts some get through.
FairSpec ==
    /\ Spec
    /\ WF_vars(JoinClient) /\ WF_vars(cltbc_listen_exit)
    /\ WF_vars(\E reached \in SUBSET Hosts : client_startup_boardcast(reached))
    /\ \A w \in Workers :
        WF_vars(WorkerStep(w) /\ UNCHANGED Others) /\ SF_vars(Reaches(w))
    /\ \A s \in Hosts :
        /\ WF_vars(cltbc_listen_thread(s))
        /\ WF_vars(UndoStart(s))
        /\ WF_vars(wakeup(s)) /\ WF_vars(JoinBroadcaster(s)) /\ WF_vars(JoinListener(s))
        /\ WF_vars(svrbc_listen_exit(s)) /\ WF_vars(boardcast_top(s)) /\ WF_vars(sleep(s))
        /\ WF_vars(\E lost \in BOOLEAN : boardcast_send(s, lost))
        /\ SF_vars(boardcast_send(s, FALSE))
-----------------------------------------------------------------------------
(* Properties.                                                             *)

\* Every variable has its type; in particular the bridge is handed only addresses of
\* servers, whatever else arrives at the client's port.
TypeOK ==
    /\ role \in [Hosts \cup {Client} -> {"off", "on", "failed"}]
    /\ main \in [Hosts \cup {Client} ->
                    {"idle", "announce", "join", "undo", "wake", "join_bc", "join_ls", "stuck",
                     "gone"}]
    /\ calls \in 0 .. MaxCall
    /\ clt \in {"none", "run", "left"} /\ cltExit \in BOOLEAN
    /\ cltBox \subseteq Hosts \cup Strangers
    /\ ls \in [Hosts -> {"none", "run", "left"}] /\ lsExit \in [Hosts -> BOOLEAN]
    /\ svrBox \subseteq Hosts
    /\ bc \in [Hosts -> {"none", "top", "send", "tired", "asleep", "left"}]
    /\ bcExit \in [Hosts -> BOOLEAN] /\ late \in [Hosts -> 0 .. 2]
    /\ BridgeTypes

\* The two threads of a server come and go together: after every call, also one that
\* failed half way, either both run or none is left behind.
RolesWhole ==
    \A s \in Hosts : main[s] = "idle" =>
        IF role[s] = "on" THEN bc[s] \in {"top", "send", "tired", "asleep"} /\ ls[s] = "run"
                          ELSE bc[s] = "none" /\ ls[s] = "none"

\* A server that is told to stop broadcasts at most once more, also when the wakeup is lost.
AtMostOneMore == \A s \in Hosts : late[s] <= 1

\* If the client has stopped listening and nothing is under way when main returns, the
\* destructor of the bridge does no harm, although it destroys the mutex before it joins
\* the workers.  The only other way to die is to stop a role whose start had failed.
\* (Whether the join of the workers returns is the pool's matter, see ThreadPool.)
CleanExit == crashed => exitBusy \/ role[Client] = "failed"

\* Every ssn_set_boardcast_model returns, although wakeups can be lost and starts can
\* fail half way; the exception is a stop of a role whose start had failed, which joins
\* a thread that is not there.
StopReturns ==
    \A h \in Hosts \cup {Client} :
        main[h] \notin {"idle", "gone"} ~> (main[h] \in {"idle", "gone", "stuck"} \/ crashed)

\* While a client listens and a server broadcasts, the client is connected to the server
\* again and again, whatever datagrams, connections and connection attempts are lost,
\* unless the full queue has refused the server.
Found ==
    \A s \in Hosts :
        \/ <>[](s \in refused)
        \/ []<>(s \in up)
        \/ []<>(role[s] # "on" \/ clt # "run" \/ cltExit \/ crashed \/ mutex = "destroyed")
=============================================================================
