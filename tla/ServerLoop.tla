----------------------------- MODULE ServerLoop -----------------------------
(***************************************************************************)
(* The server half of the Communication library: one libuv loop thread     *)
(* accepts connections and reads requests, a pool of workers runs the      *)
(* application's handler on each request and hands the answer back to the  *)
(* loop, application threads push messages to every client, and the main   *)
(* thread starts the server and shuts it down.                             *)
(*                                                                         *)
(* The pool is the one of WorkPool, which ThreadPool implements.  A RESP   *)
(* task is a heap object that the loop allocates per request and that the  *)
(* worker deletes after uv_sem_wait; PUSH and CLOSE tasks are in the stack *)
(* frames of their callers.  A callback is one action; threads take one    *)
(* action per point at which they touch shared state.  Connections and     *)
(* requests are numbered in the order in which they arrive.                *)
(***************************************************************************)
EXTENDS Naturals, Sequences, FiniteSets, GenId

CONSTANTS
    Workers,    \* threads of the pool
    Pushers,    \* application threads that call ssn_push
    Main,       \* the thread that starts the server and shuts it down
    AcceptResults,  \* how accepting a connection may end, see ServerAccepts
    MaxQueue,   \* 64 in the code: a longer queue refuses work
    MaxConnId,  \* largest connection id, 65535 in the code
    MaxConn,    \* bound: connections accepted
    MaxReq,     \* bound: requests read
    MaxPush,    \* bound: calls of ssn_push
    MaxStart    \* bound: calls of ssn_startup_server

ASSUME ServerThreads ==
    /\ Workers \cap Pushers = {}
    /\ Main \notin Workers \cup Pushers

\* "accept_failed": uv_accept fails; "peer_gone": uv_tcp_getpeername fails.
ASSUME ServerAccepts == AcceptResults \subseteq {"ok", "accept_failed", "peer_gone"}

ASSUME ServerBounds ==
    /\ MaxQueue \in Nat /\ MaxConnId \in Nat \ {0}
    /\ MaxConn \in Nat /\ MaxReq \in Nat /\ MaxPush \in Nat /\ MaxStart \in Nat

Conns   == 1 .. MaxConn
ConnIds == 1 .. MaxConnId
Reqs    == 1 .. MaxReq
NoConn  == 0
NoReq   == 0

\* An outstanding uv_write_t: an answer to a request, or a pushed message (NoReq) with
\* the number of its push, the connection, and whether the kernel has taken the bytes.
WriteReq == [req : Reqs \cup {NoReq}, push : 0 .. MaxPush, conn : Conns, sent : BOOLEAN]

VARIABLES
    inited,     \* g_serverLoop.loop_info.inited
    running,    \* g_serverLoop.loop_info.running
    loop,       \* the loop thread: "none", "run", "spin" (in _server_handler_req),
                \* "uninit" (in threadpool_uninit), "stop" (listen closed), "exit"
    spin,       \* the request that _server_handler_req pushes again and again
    starts,     \* calls of ssn_startup_server so far
    main,       \* where the main thread is
    closeSem,   \* notify of its CLOSE task
    waiting, doing, ended, phase, broken,   \* the pool, see WorkPool
    wpc,        \* where in svr_work_cb each worker is
    task,       \* the RESP task of each request: "none", "alive", "deleted"
    sem,        \* its notify
    asker,      \* the connection it was read from, which the task does not hold
    respId,     \* task->connId
    nreq,       \* requests read so far
    ppc,        \* where each pusher is
    psem,       \* notify of its PUSH task
    npush,      \* calls of ssn_push so far
    asyncs,     \* threads whose uv_async_t is signalled and not yet run
    connTable,  \* g_serverLoop.connTable.table
    nextConn,   \* g_ConnIdForSvr
    accepted,   \* connections accepted so far
    st,         \* each connection's handle
    connId,     \* conn->connId
    writes,     \* outstanding uv_write_t
    answers,    \* the connections on which the answer to each request was written
    crashed     \* the process was killed by undefined behaviour

mainVars == <<inited, starts, main, closeSem>>
poolVars == <<waiting, doing, ended, phase, broken>>
taskVars == <<task, sem, asker, respId, nreq>>
pushVars == <<ppc, psem, npush>>
connVars == <<connTable, nextConn, accepted, st, connId>>
netVars  == <<writes, answers>>
vars == <<mainVars, running, loop, spin, poolVars, wpc, taskVars, pushVars, asyncs,
          connVars, netVars, crashed>>

Pool == INSTANCE WorkPool WITH Items <- Reqs, NoItem <- NoReq

Init ==
    /\ inited = FALSE /\ running = FALSE /\ loop = "none" /\ spin = NoReq
    /\ starts = 0 /\ main = "idle" /\ closeSem = 0
    /\ Pool!Init /\ wpc = [w \in Workers |-> "idle"]
    /\ task = [r \in Reqs |-> "none"] /\ sem = [r \in Reqs |-> 0]
    /\ asker = [r \in Reqs |-> NoConn] /\ respId = [r \in Reqs |-> INVALID_CONNID]
    /\ nreq = 0
    /\ ppc = [p \in Pushers |-> "idle"] /\ psem = [p \in Pushers |-> 0] /\ npush = 0
    /\ asyncs = {}
    /\ connTable = [i \in ConnIds |-> NoConn] /\ nextConn = 0 /\ accepted = 0
    /\ st = [c \in Conns |-> "none"] /\ connId = [c \in Conns |-> INVALID_CONNID]
    /\ writes = {} /\ answers = [r \in Reqs |-> <<>>]
    /\ crashed = FALSE
-----------------------------------------------------------------------------
(* The connection table.                                                   *)

\* sl_conn_find: NoConn for an id that is not filed, also for a value that is no id.
sl_conn_find(i) == IF i \in ConnIds THEN connTable[i] ELSE NoConn

\* Fault: nothing is taken out.
Fault_sl_conn_del(i) == connTable

\* sl_conn_del: the table without the entry of i, whatever connection it is.
sl_conn_del(i) == [k \in ConnIds |-> IF k = i THEN NoConn ELSE connTable[k]]

\* sl_conn_list: the connections of the table.
sl_conn_list == {connTable[i] : i \in ConnIds} \ {NoConn}

\* Fault: the lowest free id is handed out, so that an id comes back at once.
Fault_ApplyConnIdForSvr ==
    LET free == {k \in ConnIds : connTable[k] = NoConn}
    IN IF free = {} THEN 1 ELSE CHOOSE k \in free : \A j \in free : k <= j

\* ApplyConnIdForSvr: the id that the next accepted connection gets.
ApplyConnIdForSvr == ConnIdOf(nextConn)
-----------------------------------------------------------------------------
(* The main thread.                                                        *)

\* ssn_startup_server: init_server_loop makes a fresh pool and a fresh uv_loop_t, which
\* knows nothing of posts to the old one; start_server_loop listens and creates the loop
\* thread.  If the port cannot be bound the pool stays and the thread is not created.
ssn_startup_server(listening) ==
    /\ ~crashed /\ main = "idle" /\ starts < MaxStart
    /\ starts' = starts + 1
    /\ inited' = TRUE /\ running' = FALSE
    /\ waiting' = <<>> /\ doing' = [w \in Workers |-> NoReq] /\ ended' = {}
    /\ phase' = "up" /\ broken' = FALSE
    /\ wpc' = [w \in Workers |-> "idle"]
    /\ asyncs' = {}
    /\ IF listening THEN loop' = "run" /\ main' = "started" ELSE UNCHANGED <<loop, main>>
    /\ UNCHANGED <<spin, closeSem, taskVars, pushVars, connVars, netVars, crashed>>

\* running is set after the thread was created.
start_server_loop ==
    /\ ~crashed /\ main = "started"
    /\ running' = TRUE /\ main' = "up"
    /\ UNCHANGED <<inited, starts, closeSem, loop, spin, poolVars, wpc, taskVars, pushVars,
                   asyncs, connVars, netVars, crashed>>

\* sl_create_async returns a handle.
Admitted == inited /\ running

\* ssn_shutdown_server up to the test in sl_create_async; otherwise ERR_NOT_READY.
ssn_shutdown_server ==
    /\ ~crashed /\ main = "up" /\ Admitted
    /\ main' = "admitted"
    /\ UNCHANGED <<inited, starts, closeSem, running, loop, spin, poolVars, wpc, taskVars,
                   pushVars, asyncs, connVars, netVars, crashed>>

\* The rest of async_close_server up to the wait.
async_close_server ==
    /\ ~crashed /\ main = "admitted"
    /\ main' = "waiting" /\ asyncs' = asyncs \cup {Main}
    /\ UNCHANGED <<inited, starts, closeSem, running, loop, spin, poolVars, wpc, taskVars,
                   pushVars, connVars, netVars, crashed>>

\* async_close_server returns the unassigned field err: anything but zero makes
\* ssn_shutdown_server return; zero leads to stop_server_loop.
CloseReturn(zero) ==
    /\ ~crashed /\ main = "waiting" /\ closeSem > 0
    /\ closeSem' = closeSem - 1
    /\ IF zero THEN main' = "join" /\ running' = FALSE ELSE main' = "failed" /\ UNCHANGED running
    /\ UNCHANGED <<inited, starts, loop, spin, poolVars, wpc, taskVars, pushVars, asyncs,
                   connVars, netVars, crashed>>

\* uv_thread_join returns and uninit_server_loop ends.
uninit_server_loop ==
    /\ ~crashed /\ main = "join" /\ loop = "exit"
    /\ main' = "idle" /\ inited' = FALSE /\ loop' = "none"
    /\ UNCHANGED <<starts, closeSem, running, spin, poolVars, wpc, taskVars, pushVars, asyncs,
                   connVars, netVars, crashed>>
-----------------------------------------------------------------------------
(* ssn_push.                                                               *)

ssn_push(p) ==
    /\ ~crashed /\ ppc[p] = "idle" /\ npush < MaxPush /\ Admitted
    /\ ppc' = [ppc EXCEPT ![p] = "admitted"] /\ npush' = npush + 1
    /\ UNCHANGED <<mainVars, running, loop, spin, poolVars, wpc, taskVars, psem, asyncs,
                   connVars, netVars, crashed>>

\* The rest of async_push up to the wait.
async_push(p) ==
    /\ ~crashed /\ ppc[p] = "admitted"
    /\ ppc' = [ppc EXCEPT ![p] = "waiting"] /\ asyncs' = asyncs \cup {p}
    /\ UNCHANGED <<mainVars, running, loop, spin, poolVars, wpc, taskVars, psem, npush,
                   connVars, netVars, crashed>>

PushReturn(p) ==
    /\ ~crashed /\ ppc[p] = "waiting" /\ psem[p] > 0
    /\ ppc' = [ppc EXCEPT ![p] = "idle"] /\ psem' = [psem EXCEPT ![p] = @ - 1]
    /\ UNCHANGED <<mainVars, running, loop, spin, poolVars, wpc, taskVars, npush, asyncs,
                   connVars, netVars, crashed>>
-----------------------------------------------------------------------------
(* The workers: svr_work_cb.                                               *)

\* A worker takes a request from the queue and runs the application's handler.
TakeRequest(w) ==
    /\ ~crashed /\ Pool!Take(w)
    /\ wpc' = [wpc EXCEPT ![w] = "handler"]
    /\ UNCHANGED <<mainVars, running, loop, spin, taskVars, pushVars, asyncs, connVars,
                   netVars, crashed>>

\* The handler has returned.  Without a handle from sl_create_async the worker
\* dereferences NULL.
sl_create_async(w) ==
    /\ ~crashed /\ wpc[w] = "handler"
    /\ IF Admitted THEN wpc' = [wpc EXCEPT ![w] = "admitted"] /\ UNCHANGED crashed
                   ELSE crashed' = TRUE /\ UNCHANGED wpc
    /\ UNCHANGED <<mainVars, running, loop, spin, poolVars, taskVars, pushVars, asyncs,
                   connVars, netVars>>

\* uv_async_send; the worker waits for the loop.
PostAnswer(w) ==
    /\ ~crashed /\ wpc[w] = "admitted"
    /\ wpc' = [wpc EXCEPT ![w] = "waiting"] /\ asyncs' = asyncs \cup {w}
    /\ UNCHANGED <<mainVars, running, loop, spin, poolVars, taskVars, pushVars, connVars,
                   netVars, crashed>>

\* Fault: the worker does not wait for the loop before it deletes the task.
Fault_DeleteTask(w) ==
    /\ ~crashed /\ wpc[w] = "waiting"
    /\ task' = [task EXCEPT ![doing[w]] = "deleted"]
    /\ Pool!Done(w) /\ wpc' = [wpc EXCEPT ![w] = "idle"]
    /\ UNCHANGED <<mainVars, running, loop, spin, sem, asker, respId, nreq, pushVars, asyncs,
                   connVars, netVars, crashed>>

\* uv_sem_wait returns, the task is deleted and svr_work_cb returns to the pool.
DeleteTask(w) ==
    /\ ~crashed /\ wpc[w] = "waiting" /\ sem[doing[w]] > 0
    /\ sem' = [sem EXCEPT ![doing[w]] = @ - 1]
    /\ task' = [task EXCEPT ![doing[w]] = "deleted"]
    /\ Pool!Done(w) /\ wpc' = [wpc EXCEPT ![w] = "idle"]
    /\ UNCHANGED <<mainVars, running, loop, spin, asker, respId, nreq, pushVars, asyncs,
                   connVars, netVars, crashed>>

\* The pool is being joined and the worker leaves.
LeavePool(w) ==
    /\ ~crashed /\ Pool!End(w)
    /\ UNCHANGED <<mainVars, running, loop, spin, wpc, taskVars, pushVars, asyncs, connVars,
                   netVars, crashed>>
-----------------------------------------------------------------------------
(* Callbacks of the connections.                                           *)

\* The loop thread is in uv_run and not inside a callback.
Looping == ~crashed /\ loop \in {"run", "stop"}

\* listen_cb.  A failed uv_accept deletes a connection whose handle is linked in the
\* loop: libuv may follow the link.  When the peer is gone uv_tcp_getpeername fails, and
\* the connection is deleted although its close callback is to come.  The result of
\* sl_conn_add is ignored: a connection whose id is taken is read, is in no table, and
\* its field connId holds whatever was in the memory.
listen_cb(result) ==
    /\ ~crashed /\ loop = "run" /\ accepted < MaxConn
    /\ accepted' = accepted + 1
    /\ \/ /\ result = "ok"
          /\ nextConn' = ConnCounterAfter(nextConn, MaxConnId)
          /\ st' = [st EXCEPT ![accepted + 1] = "open"]
          /\ \/ /\ connTable[ApplyConnIdForSvr] = NoConn
                /\ connTable' = [connTable EXCEPT ![ApplyConnIdForSvr] = accepted + 1]
                /\ connId' = [connId EXCEPT ![accepted + 1] = ApplyConnIdForSvr]
             \/ /\ connTable[ApplyConnIdForSvr] # NoConn
                /\ \E garbage \in ConnIds \cup {INVALID_CONNID} :
                    connId' = [connId EXCEPT ![accepted + 1] = garbage]
                /\ UNCHANGED connTable
          /\ UNCHANGED crashed
       \/ /\ result = "accept_failed"
          /\ crashed' \in BOOLEAN
          /\ st' = [st EXCEPT ![accepted + 1] = "freed"]
          /\ UNCHANGED <<connTable, connId, nextConn>>
       \/ /\ result = "peer_gone"
          /\ st' = [st EXCEPT ![accepted + 1] = "dangling"]
          /\ UNCHANGED <<connTable, connId, nextConn, crashed>>
    /\ UNCHANGED <<mainVars, running, loop, spin, poolVars, wpc, taskVars, pushVars, asyncs,
                   netVars>>

\* read_cb on a request, if the connection's id is filed: _server_handler_req makes a RESP
\* task and pushes it.  If the queue is full it does not leave its loop any more, since err
\* keeps the result of the first push.
read_cb_request(c) ==
    /\ Looping /\ st[c] = "open" /\ nreq < MaxReq
    /\ sl_conn_find(connId[c]) # NoConn
    /\ nreq' = nreq + 1
    /\ task' = [task EXCEPT ![nreq + 1] = "alive"]
    /\ asker' = [asker EXCEPT ![nreq + 1] = c]
    /\ respId' = [respId EXCEPT ![nreq + 1] = connId[c]]
    /\ \/ Pool!Push(nreq + 1) /\ UNCHANGED <<loop, spin>>
       \/ ~Pool!HasRoom /\ loop' = "spin" /\ spin' = nreq + 1 /\ UNCHANGED poolVars
    /\ UNCHANGED <<mainVars, running, wpc, sem, pushVars, asyncs, connVars, netVars, crashed>>

\* The loop of _server_handler_req pushes the same task whenever there is room.
PushAgain ==
    /\ ~crashed /\ loop = "spin"
    /\ Pool!Push(spin)
    /\ UNCHANGED <<mainVars, running, loop, spin, wpc, taskVars, pushVars, asyncs, connVars,
                   netVars, crashed>>

\* read_cb on the end of the connection or an error.
read_cb_eof(c) ==
    /\ Looping /\ st[c] = "open"
    /\ st' = [st EXCEPT ![c] = "closing"]
    /\ connTable' = sl_conn_del(connId[c])
    /\ UNCHANGED <<mainVars, running, loop, spin, poolVars, wpc, taskVars, pushVars, asyncs,
                   nextConn, accepted, connId, netVars, crashed>>

\* close_cb, after the callbacks of the connection's writes.
close_cb(c) ==
    /\ Looping /\ st[c] = "closing" /\ \A x \in writes : x.conn # c
    /\ st' = [st EXCEPT ![c] = "freed"]
    /\ connTable' = sl_conn_del(connId[c])
    /\ UNCHANGED <<mainVars, running, loop, spin, poolVars, wpc, taskVars, pushVars, asyncs,
                   nextConn, accepted, connId, netVars, crashed>>

\* close_cb on a connection that listen_cb has deleted: the process dies, or the entry of
\* whatever id is in the freed memory is taken out of the table.
close_cb_dangling(c) ==
    /\ Looping /\ st[c] = "dangling"
    /\ st' = [st EXCEPT ![c] = "freed"]
    /\ \E garbage \in ConnIds \cup {INVALID_CONNID} : connTable' = sl_conn_del(garbage)
    /\ crashed' \in BOOLEAN
    /\ UNCHANGED <<mainVars, running, loop, spin, poolVars, wpc, taskVars, pushVars, asyncs,
                   nextConn, accepted, connId, netVars>>

\* The kernel takes the bytes of an answer; for a pushed message, which nobody waits for,
\* write_cb alone stands for the end of the write.
Flush(x) ==
    /\ ~crashed /\ x \in writes /\ x.req # NoReq /\ ~x.sent
    /\ writes' = (writes \ {x}) \cup {[x EXCEPT !.sent = TRUE]}
    /\ UNCHANGED <<mainVars, running, loop, spin, poolVars, wpc, taskVars, pushVars, asyncs,
                   connVars, answers, crashed>>

\* _sl_finish_task on the RESP task of r.
sl_finish_task(r) == sem' = [sem EXCEPT ![r] = @ + 1]

\* Fault: an answer that could not be sent is not reported to its worker.
Fault_write_cb(x) ==
    /\ Looping /\ x \in writes
    /\ writes' = writes \ {x}
    /\ IF x.req # NoReq /\ x.sent THEN sl_finish_task(x.req) ELSE UNCHANGED sem
    /\ UNCHANGED <<mainVars, running, loop, spin, poolVars, wpc, task, asker, respId, nreq,
                   pushVars, asyncs, connVars, answers, crashed>>

\* write_cb: the bytes are sent, the write failed or the connection is closing.  A RESP task
\* is finished in any case; a pushed message is deleted.
write_cb(x) ==
    /\ Looping /\ x \in writes
    /\ writes' = writes \ {x}
    /\ IF x.req # NoReq THEN sl_finish_task(x.req) ELSE UNCHANGED sem
    /\ UNCHANGED <<mainVars, running, loop, spin, poolVars, wpc, task, asker, respId, nreq,
                   pushVars, asyncs, connVars, answers, crashed>>
-----------------------------------------------------------------------------
(* async_cb.                                                               *)

\* Fault: the handle stays signalled and is run again.
Fault_AsyncRuns(t) == Looping /\ t \in asyncs /\ UNCHANGED asyncs

\* The callback of the handle of thread t runs and closes the handle.
AsyncRuns(t) == Looping /\ t \in asyncs /\ asyncs' = asyncs \ {t}

\* The server is not running: every task is finished with ERR_NOT_READY.
async_cb_not_ready(t) ==
    /\ ~Admitted /\ AsyncRuns(t)
    /\ \/ t = Main /\ closeSem' = closeSem + 1 /\ UNCHANGED <<sem, psem>>
       \/ t \in Pushers /\ psem' = [psem EXCEPT ![t] = @ + 1] /\ UNCHANGED <<sem, closeSem>>
       \/ t \in Workers /\ sl_finish_task(doing[t]) /\ UNCHANGED <<psem, closeSem>>
    /\ UNCHANGED <<inited, starts, main, running, loop, spin, poolVars, wpc, task, asker,
                   respId, nreq, ppc, npush, connVars, netVars, crashed>>

\* RESP: the answer is written on the connection that is filed under the task's id; the
\* task is finished here if there is none or if uv_write fails.
async_cb_resp(w, written) ==
    /\ Admitted /\ AsyncRuns(w)
    /\ LET r == doing[w]
           c == sl_conn_find(respId[r])
       IN \/ /\ written /\ c # NoConn
             /\ writes' = writes \cup {[req |-> r, push |-> 0, conn |-> c, sent |-> FALSE]}
             /\ answers' = [answers EXCEPT ![r] = Append(@, c)]
             /\ UNCHANGED sem
          \/ /\ ~written
             /\ sl_finish_task(r)
             /\ UNCHANGED netVars
    /\ UNCHANGED <<mainVars, running, loop, spin, poolVars, wpc, task, asker, respId, nreq,
                   pushVars, connVars, crashed>>

\* Fault: the caller of a push to no client is not woken.
Fault_async_cb_push(p, reached) ==
    /\ Admitted /\ AsyncRuns(p) /\ reached \subseteq sl_conn_list
    /\ writes' = writes \cup {[req |-> NoReq, push |-> npush, conn |-> c, sent |-> FALSE] :
                                  c \in reached}
    /\ IF reached # {} THEN psem' = [psem EXCEPT ![p] = @ + 1] ELSE UNCHANGED psem
    /\ UNCHANGED <<mainVars, running, loop, spin, poolVars, wpc, taskVars, ppc, npush,
                   connVars, answers, crashed>>

\* PUSH: _do_push writes to every connection of the table; uv_write fails on those that are
\* not reached, and nobody learns of it.
async_cb_push(p, reached) ==
    /\ Admitted /\ AsyncRuns(p) /\ reached \subseteq sl_conn_list
    /\ writes' = writes \cup {[req |-> NoReq, push |-> npush, conn |-> c, sent |-> FALSE] :
                                  c \in reached}
    /\ psem' = [psem EXCEPT ![p] = @ + 1]
    /\ UNCHANGED <<mainVars, running, loop, spin, poolVars, wpc, taskVars, ppc, npush,
                   connVars, answers, crashed>>

\* CLOSE: _server_shutdown closes the listening socket, stops reading, and calls
\* threadpool_uninit on the loop thread.
async_cb_close ==
    /\ Admitted /\ AsyncRuns(Main)
    /\ running' = FALSE /\ loop' = "uninit"
    /\ Pool!Stop
    /\ UNCHANGED <<mainVars, spin, wpc, taskVars, pushVars, connVars, netVars, crashed>>

\* threadpool_uninit empties the queue; an item in it kills the process.
CancelPool ==
    /\ ~crashed /\ loop = "uninit"
    /\ Pool!Clear /\ crashed' = broken'
    /\ UNCHANGED <<mainVars, running, loop, spin, wpc, taskVars, pushVars, asyncs, connVars,
                   netVars>>

\* Fault: the connections are only taken out of the table.
Fault_ClosedAtShutdown == st

\* The connections of the table are closed at the end of _server_shutdown.
ClosedAtShutdown ==
    [c \in Conns |-> IF c \in sl_conn_list /\ st[c] = "open" THEN "closing" ELSE st[c]]

\* The rest of _server_shutdown, after the join: the connections of the table are closed,
\* the table is cleared, and the CLOSE task is finished.
ShutdownDone ==
    /\ ~crashed /\ loop = "uninit"
    /\ Pool!Joined
    /\ loop' = "stop"
    /\ st' = ClosedAtShutdown
    /\ connTable' = [i \in ConnIds |-> NoConn]
    /\ closeSem' = closeSem + 1
    /\ UNCHANGED <<inited, starts, main, running, spin, wpc, taskVars, pushVars, asyncs,
                   nextConn, accepted, connId, netVars, crashed>>

\* uv_run returns when no handle is left.
LoopExit ==
    /\ ~crashed /\ loop = "stop" /\ asyncs = {} /\ writes = {}
    /\ \A c \in Conns : st[c] \in {"none", "freed"}
    /\ loop' = "exit"
    /\ UNCHANGED <<mainVars, running, spin, poolVars, wpc, taskVars, pushVars, asyncs,
                   connVars, netVars, crashed>>
-----------------------------------------------------------------------------
WorkerStep(w) ==
    TakeRequest(w) \/ sl_create_async(w) \/ PostAnswer(w) \/ DeleteTask(w) \/ LeavePool(w)

MainStep == start_server_loop \/ async_close_server \/ uninit_server_loop
            \/ \E zero \in BOOLEAN : CloseReturn(zero)

ConnStep(c) == read_cb_request(c) \/ read_cb_eof(c) \/ close_cb(c) \/ close_cb_dangling(c)

AsyncStep ==
    \/ \E t \in Workers \cup Pushers \cup {Main} : async_cb_not_ready(t)
    \/ \E w \in Workers, written \in BOOLEAN : async_cb_resp(w, written)
    \/ \E p \in Pushers, reached \in SUBSET Conns : async_cb_push(p, reached)
    \/ async_cb_close

Next ==
    \/ \E listening \in BOOLEAN : ssn_startup_server(listening)
    \/ ssn_shutdown_server \/ MainStep
    \/ \E p \in Pushers : ssn_push(p) \/ async_push(p) \/ PushReturn(p)
    \/ \E w \in Workers : WorkerStep(w)
    \/ \E result \in AcceptResults : listen_cb(result)
    \/ \E c \in Conns : ConnStep(c)
    \/ \E x \in writes : Flush(x) \/ write_cb(x)
    \/ PushAgain \/ AsyncStep \/ CancelPool \/ ShutdownDone \/ LoopExit

Spec == Init /\ [][Next]_vars

\* Threads that can go on do, handlers return, and libuv runs the callbacks that are due.
\* Nothing is assumed of clients that read, ask or leave, or of the application.
FairSpec ==
    /\ Spec
    /\ WF_vars(MainStep) /\ WF_vars(CancelPool) /\ WF_vars(ShutdownDone) /\ WF_vars(LoopExit)
    /\ WF_vars(async_cb_close) /\ WF_vars(PushAgain)
    /\ \A w \in Workers :
        /\ WF_vars(WorkerStep(w))
        /\ WF_vars(\E written \in BOOLEAN : async_cb_resp(w, written))
    /\ \A p \in Pushers :
        /\ WF_vars(async_push(p)) /\ WF_vars(PushReturn(p))
        /\ WF_vars(\E reached \in SUBSET Conns : async_cb_push(p, reached))
    /\ \A t \in Workers \cup Pushers \cup {Main} : WF_vars(async_cb_not_ready(t))
    /\ \A c \in Conns :
        /\ WF_vars(close_cb(c)) /\ WF_vars(close_cb_dangling(c))
        /\ WF_vars(\E x \in writes :
                        x.conn = c /\ (x.sent \/ st[c] = "closing") /\ write_cb(x))
-----------------------------------------------------------------------------
(* Properties.                                                             *)

ThreadTypes ==
    /\ inited \in BOOLEAN /\ running \in BOOLEAN /\ crashed \in BOOLEAN
    /\ loop \in {"none", "run", "spin", "uninit", "stop", "exit"} /\ spin \in Reqs \cup {NoReq}
    /\ starts \in 0 .. MaxStart /\ closeSem \in Nat
    /\ main \in {"idle", "started", "up", "admitted", "waiting", "join", "failed"}
    /\ wpc \in [Workers -> {"idle", "handler", "admitted", "waiting"}]
    /\ ppc \in [Pushers -> {"idle", "admitted", "waiting"}]
    /\ psem \in [Pushers -> Nat] /\ npush \in 0 .. MaxPush
    /\ asyncs \subseteq Workers \cup Pushers \cup {Main}

TaskTypes ==
    /\ task \in [Reqs -> {"none", "alive", "deleted"}] /\ sem \in [Reqs -> Nat]
    /\ asker \in [Reqs -> Conns \cup {NoConn}]
    /\ respId \in [Reqs -> ConnIds \cup {INVALID_CONNID}]
    /\ nreq \in 0 .. MaxReq

ConnTypes ==
    /\ connTable \in [ConnIds -> Conns \cup {NoConn}]
    /\ nextConn \in 0 .. MaxConnId /\ accepted \in 0 .. MaxConn
    /\ st \in [Conns -> {"none", "open", "closing", "dangling", "freed"}]
    /\ connId \in [Conns -> ConnIds \cup {INVALID_CONNID}]
    /\ writes \subseteq WriteReq /\ answers \in [Reqs -> Seq(Conns)]

\* Every variable has its type; in particular the counter of connection ids stays within
\* 16 bits.
TypeOK == ThreadTypes /\ TaskTypes /\ ConnTypes /\ Pool!TypeOK

\* The connection table holds raw pointers that the answers and pushes of other threads
\* are written to.  Each of them is an open connection under its own id, also when ids
\* wrap, when an accept fails half way and when a connection carries a garbage id.
TableSafe ==
    \A i \in ConnIds :
        connTable[i] # NoConn => st[connTable[i]] = "open" /\ connId[connTable[i]] = i

\* The loop follows the pointers to RESP tasks in the queue, in its pending handles and in
\* its write requests; the worker deletes the task.  It never does so while one is left.
RespTaskAlive ==
    ~crashed =>
        /\ \A n \in 1 .. Len(waiting) : task[waiting[n]] = "alive"
        /\ \A w \in asyncs \cap Workers : \E r \in Reqs : doing[w] = r /\ task[r] = "alive"
        /\ \A x \in writes : x.req # NoReq => task[x.req] = "alive"

\* An answer goes to the connection its request came from, as long as the server has not
\* accepted more connections than there are ids; after that the id in the task may have
\* been given to another client.
AnswerToAsker ==
    accepted <= MaxConnId =>
        \A r \in Reqs : \A n \in DOMAIN answers[r] : answers[r][n] = asker[r]

\* No request is answered twice, whatever the loop does with a full queue.
AnsweredOnce == \A r \in Reqs : Len(answers[r]) <= 1

\* Worker w waits for an answer that the client of an open connection does not read.
Stalled(w) == \E x \in writes : x.req = doing[w] /\ ~x.sent /\ st[x.conn] = "open"

\* The task of every request is answered and freed, unless the loop is caught in
\* _server_handler_req or the server is shut down.  A client that does not read keeps the
\* worker of its request, and no other: requests of others are held up only when all
\* workers are kept.
RequestServed ==
    \A r \in Reqs :
        \/ <>[](loop = "spin")
        \/ <>[](\E w \in Workers : doing[w] = r /\ Stalled(w))
        \/ <>[](\A w \in Workers : Stalled(w))
        \/ task[r] = "alive" ~> (task[r] = "deleted" \/ crashed \/ loop \notin {"run", "spin"})

\* A posted ssn_push returns, also when the server is shut down meanwhile, unless the loop
\* thread is caught in one of its two waits or has ended.
PushReturns ==
    \A p \in Pushers :
        \/ <>[](loop \in {"spin", "uninit"})
        \/ p \in asyncs ~> (ppc[p] = "idle" \/ crashed \/ loop \in {"exit", "none"})

\* More connections than ids, or an accept that was given up half way: the table may lack a
\* connection that is open.
TableIncomplete ==
    accepted > MaxConnId \/ \E c \in 1 .. accepted : connId[c] = INVALID_CONNID

\* When the pool is joined, the loop thread ends and ssn_shutdown_server can join it, unless
\* a connection is open that was in no table: nobody closes it.
LoopEnds ==
    loop = "stop" ~> \/ loop = "exit" \/ crashed
                     \/ TableIncomplete /\ \E c \in Conns : st[c] = "open"
-----------------------------------------------------------------------------
(* What comments of the code say and the code does not do.                 *)

\* _server_shutdown waits so that "the tasks of the pool are finished as far as possible"
\* (comm_core.cpp:760): then the pool can be joined and ssn_shutdown_server returns.
ShutdownReturns == main = "waiting" ~> (main # "waiting" \/ crashed)

\* With a full queue _server_handler_req is to "go on trying, the probability is small"
\* (comm_core.cpp:254): a try succeeds at last and the loop thread goes on.
HandlerReturns == loop = "spin" ~> (loop # "spin" \/ crashed)
=============================================================================
