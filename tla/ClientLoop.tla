----------------------------- MODULE ClientLoop -----------------------------
(***************************************************************************)
(* The client half of the Communication library: application threads call  *)
(* ssn_send, bridge workers call ssn_connect, the main thread calls        *)
(* ssn_startup_client and ssn_shutdown_client, and ONE libuv loop thread   *)
(* executes every callback of comm_core.cpp on the connection, task and    *)
(* timer tables of comm_res.cpp.                                           *)
(*                                                                         *)
(* A call puts its task object on its own stack, posts the task to the     *)
(* loop with a uv_async_t and blocks on the semaphore inside the task.     *)
(* The pointer to a task is therefore modelled by the thread, and the      *)
(* memory behind the pointer by task[thread]: after the call has returned  *)
(* task[thread] still holds the old frame, and the thread's next call      *)
(* overwrites it.  A callback that keeps the pointer too long reads        *)
(* whatever is there, as the code does.                                    *)
(*                                                                         *)
(* A callback runs to completion on the loop thread, so each one is one    *)
(* action; the calling threads interleave with it between the steps at     *)
(* which they take a lock, read the running flag or post.                  *)
(*                                                                         *)
(* A connection object is identified by the id of the CONNECT task that    *)
(* allocated it; addresses are not reused, so that a stale one shows.      *)
(***************************************************************************)
EXTENDS Integers, FiniteSets, GenId

CONSTANTS
    Senders,      \* threads that call ssn_send
    Connectors,   \* bridge workers, the only callers of ssn_connect
    Main,         \* the thread that starts the client and shuts it down
    Ips,          \* server addresses
    MaxConnId,    \* largest connection id, 65535 in the code
    MaxTask,      \* bound: calls that reach ApplyTaskId
    MaxStart,     \* bound: calls of ssn_startup_client
    Env,          \* what the environment may do, see EnvAssumption
    NoThread,     \* the NULL of the task table
    NoIp          \* a connector that serves no request

\* "eof": peers may close a connection; "shutdown": the application may shut the
\* client down.
ASSUME EnvAssumption == Env \subseteq {"eof", "shutdown"}

ASSUME ThreadAssumption ==
    /\ Senders \cap Connectors = {}
    /\ Main \notin Senders \cup Connectors
    /\ NoThread \notin Senders \cup Connectors \cup {Main}
    /\ NoIp \notin Ips

ASSUME BoundAssumption ==
    /\ MaxConnId \in Nat \ {0}
    /\ MaxTask \in Nat \ {0}
    /\ MaxStart \in Nat

Threads == Senders \cup Connectors \cup {Main}
TaskIds == 0 .. MaxTask - 1
ConnIds == 1 .. MaxConnId
NoTask  == -1
NoConn  == -1

\* The values task->err can have; "uninit" is what an unassigned field holds.
Errors == {"uninit", "ok", "not_ready", "no_conn", "exists", "timeout",
           "shutdown", "uv"}

\* A request on the wire: the id in the package, and who sent it (which the
\* package does not say).
Request == [thr : Senders, id : TaskIds]
NoRequest == [thr |-> NoThread, id |-> NoTask]

\* A task object: its id, whether a timeout was given, the error field, and the
\* request whose answer filled outdata.
Task == [id : TaskIds \cup {NoTask}, timeout : BOOLEAN, err : Errors,
         out : Request \cup {NoRequest}]

\* An outstanding uv_write_t: req->data, the task id in the package, the
\* connection, and whether the kernel has taken the bytes.
WriteReq == [thr : Senders, id : TaskIds, conn : TaskIds, sent : BOOLEAN]

VARIABLES
    inited,      \* g_ClientLoop.loop_info.inited
    running,     \* g_ClientLoop.loop_info.running
    loop,        \* the loop thread: "none", "run", "stop" (no_exit closed), "exit"
    starts,      \* how often the client was started
    pc,          \* where each thread is
    sendTo,      \* connId argument of each sender's call
    connTo,      \* ip each connector works on: the bridge's list reqs
    task,        \* the task object in each thread's stack frame
    sem,         \* its semaphore "notify"
    nextTask,    \* g_taskId
    asyncs,      \* threads whose uv_async_t is signalled and not yet run
    taskTable,   \* taskTable.table
    timerTable,  \* keys of timerTable.table
    armed,       \* running timers per task id
    connTable,   \* connTable.table
    nextConn,    \* g_ConnIdForClt
    st,          \* each connection's handle
    cid,         \* conn->connId
    connIp,      \* conn->info.ip
    creq,        \* a uv_connect_t is outstanding on the handle
    writes,      \* outstanding uv_write_t
    peer,        \* requests that reached the peer of their connection
    overtaken,   \* history: senders an answer reached before the write callback
                 \* of its request had run; no guard reads it
    appUp,       \* connection ids the application believes to be up
    contract,    \* the callbacks made so far respect their order
    crashed      \* the process was killed by undefined behaviour

loopVars == <<inited, running, loop, starts>>
callVars == <<pc, sendTo, connTo, nextTask>>
taskVars == <<task, sem, taskTable, timerTable, armed>>
connVars == <<connTable, nextConn, st, cid, connIp, creq>>
netVars  == <<writes, peer, overtaken>>
appVars  == <<appUp, contract>>
vars == <<loopVars, callVars, taskVars, asyncs, connVars, netVars, appVars, crashed>>

Init ==
    /\ inited = FALSE /\ running = FALSE /\ loop = "none" /\ starts = 0
    /\ pc = [t \in Threads |-> "idle"]
    /\ sendTo = [t \in Senders |-> 1]
    /\ connTo = [t \in Connectors |-> NoIp]
    /\ task = [t \in Threads |-> [id |-> NoTask, timeout |-> FALSE,
                                  err |-> "uninit", out |-> NoRequest]]
    /\ sem = [t \in Threads |-> 0]
    /\ nextTask = 0
    /\ asyncs = {}
    /\ taskTable = [i \in TaskIds |-> NoThread]
    /\ timerTable = {}
    /\ armed = [i \in TaskIds |-> 0]
    /\ connTable = [k \in ConnIds |-> NoConn]
    /\ nextConn = 0
    /\ st = [c \in TaskIds |-> "none"]
    /\ cid = [c \in TaskIds |-> INVALID_CONNID]
    /\ connIp = [c \in TaskIds |-> NoIp]
    /\ creq = [c \in TaskIds |-> FALSE]
    /\ writes = {} /\ peer = {} /\ overtaken = {}
    /\ appUp = {} /\ contract = TRUE
    /\ crashed = FALSE
-----------------------------------------------------------------------------
(* The tables.                                                             *)

\* The loop thread exists.
LoopAlive == ~crashed /\ loop \in {"run", "stop"}

\* cl_conn_find2: some connection in the table has this address.
cl_conn_find2(ip) ==
    \E k \in ConnIds : connTable[k] # NoConn /\ connIp[connTable[k]] = ip

\* Fault: the entry is found but not erased.
Fault_cl_conn_del(ct, k) == ct

\* cl_conn_del on the table ct.
cl_conn_del(ct, k) == [j \in ConnIds |-> IF j = k THEN NoConn ELSE ct[j]]

\* Fault: the caller does not look at what cl_conn_del returned.
Fault_KnownConn(k) == TRUE

\* cl_conn_del returned a connection: the id was in the table.
KnownConn(k) == k \in ConnIds /\ connTable[k] # NoConn

\* cl_conn_add: an id that is taken is left alone (and nobody looks at the error).
cl_conn_add(k, c) ==
    IF connTable[k] = NoConn THEN [connTable EXCEPT ![k] = c] ELSE connTable

\* cl_task_del_by_connId: the RW tasks that were sent to connection id k.
TasksOfConn(k) ==
    {i \in TaskIds : taskTable[i] \in Senders /\ sendTo[taskTable[i]] = k}

\* Fault: the timers leave the table but uv_timer_stop is forgotten.
Fault_CancelTimers_NotStopped(ids) == timerTable' = timerTable \ ids /\ UNCHANGED armed

\* Fault: a timer that cl_timer_find did not find is stopped all the same.
Fault_CancelTimers_NoLookup(ids) ==
    /\ timerTable' = timerTable \ ids
    /\ armed' = [j \in TaskIds |-> IF j \in ids THEN armed[j] - 1 ELSE armed[j]]

\* cl_timer_del, uv_timer_stop and uv_close of the timers of the tasks ids that have one.
CancelTimers(ids) ==
    /\ timerTable' = timerTable \ ids
    /\ armed' = [j \in TaskIds |-> IF j \in timerTable \cap ids
                                   THEN armed[j] - 1 ELSE armed[j]]

\* Fault: the timer is filed but never started.
Fault_StartTimer(i) == timerTable' = timerTable \cup {i} /\ UNCHANGED armed

\* uv_timer_start and cl_timer_add: an older entry of the table is overwritten.
StartTimer(i) ==
    /\ timerTable' = timerTable \cup {i}
    /\ armed' = [armed EXCEPT ![i] = @ + 1]

\* Fault: the semaphore is posted but cl_task_del is forgotten.
Fault_cl_finish_task(t, err, out, tt, ids) ==
    /\ task' = [task EXCEPT ![t] = [@ EXCEPT !.err = err, !.out = out]]
    /\ taskTable' = tt
    /\ CancelTimers(ids \cup {task[t].id})
    /\ sem' = [sem EXCEPT ![t] = @ + 1]

\* _cl_finish_task on the task of thread t, found in the task table tt: forget the
\* task and its timer, then post the semaphore.  The caller cancelled the timers ids.
cl_finish_task(t, err, out, tt, ids) ==
    /\ task' = [task EXCEPT ![t] = [@ EXCEPT !.err = err, !.out = out]]
    /\ taskTable' = [tt EXCEPT ![task[t].id] = NoThread]
    /\ CancelTimers(ids \cup {task[t].id})
    /\ sem' = [sem EXCEPT ![t] = @ + 1]

\* A callback into the application: it is in order when legal holds and the
\* client has not been shut down.
Callback(legal) == contract' = (contract /\ loop = "run" /\ legal)
-----------------------------------------------------------------------------
(* The calling threads.                                                    *)

\* Thread t is at this point of its call.
At(t, point) == ~crashed /\ pc[t] = point

\* Bound: enough task ids are left for the calls under way.
MayCall ==
    nextTask + Cardinality({t \in Threads : pc[t] \in {"checked", "admitted"}}) < MaxTask

\* Fault: two calls are given the same id.
Fault_ApplyTaskId == UNCHANGED nextTask

\* ApplyTaskId: the caller's id is nextTask.
ApplyTaskId == nextTask' = nextTask + 1

\* Fault: addsvrconn does not look for the address in reqs.
Fault_addsvrconn(ip) == TRUE

\* addsvrconn of the bridge: an address some worker has is not given to another.
addsvrconn(ip) == \A u \in Connectors : connTo[u] # ip

\* ssn_startup_client: init_client_loop (a fresh uv_loop_t) and start_client_loop.  The
\* code does not test inited; that no client is started is the caller's part (a second
\* start would re-initialise the loop and the locks that the first one uses).
ssn_startup_client ==
    /\ At(Main, "idle") /\ ~inited /\ starts < MaxStart
    /\ inited' = TRUE /\ running' = TRUE /\ loop' = "run" /\ starts' = starts + 1
    /\ asyncs' = {}
    /\ UNCHANGED <<callVars, taskVars, connVars, netVars, appVars, crashed>>

\* ssn_send up to the check of cl_conn_valid; otherwise it returns at once.
ssn_send(t, k) ==
    /\ At(t, "idle") /\ MayCall
    /\ connTable[k] # NoConn
    /\ pc' = [pc EXCEPT ![t] = "checked"]
    /\ sendTo' = [sendTo EXCEPT ![t] = k]
    /\ UNCHANGED <<loopVars, connTo, nextTask, taskVars, asyncs, connVars, netVars,
                   appVars, crashed>>

\* ssn_connect up to the check of ssn_connect_is_exist.  The bridge
\* decides which worker serves the address.
ssn_connect(t, ip) ==
    /\ At(t, "idle") /\ MayCall
    /\ addsvrconn(ip)
    /\ ~cl_conn_find2(ip)
    /\ pc' = [pc EXCEPT ![t] = "checked"]
    /\ connTo' = [connTo EXCEPT ![t] = ip]
    /\ UNCHANGED <<loopVars, sendTo, nextTask, taskVars, asyncs, connVars, netVars,
                   appVars, crashed>>

\* The call returns; a connector also takes its ip off reqs (delsvrconn).
LeaveCall(t) ==
    /\ pc' = [pc EXCEPT ![t] = "idle"]
    /\ connTo' = [u \in Connectors |-> IF u = t THEN NoIp ELSE connTo[u]]

\* cl_create_async, its test of inited and running: ERR_NOT_READY or go on.
cl_create_async(t) ==
    /\ At(t, "checked")
    /\ IF inited /\ running
       THEN pc' = [pc EXCEPT ![t] = "admitted"] /\ UNCHANGED connTo
       ELSE LeaveCall(t)
    /\ UNCHANGED <<loopVars, sendTo, nextTask, taskVars, asyncs, connVars, netVars,
                   appVars, crashed>>

\* The rest of cl_create_async and of async_send or async_conn up to the wait: the
\* task is filled in (err and outdata are not) and posted with uv_async_send.  Bound: a
\* thread whose last call ended while its uv_async_t is still pending (only a stale
\* pointer of write_cb does that, after an overtaking answer) posts no further one
\* before async_cb has filed the dead frame.
async_post(t, timeout) ==
    /\ At(t, "admitted") /\ nextTask < MaxTask /\ t \notin asyncs
    /\ task' = [task EXCEPT ![t] = [id |-> nextTask, timeout |-> timeout,
                                    err |-> "uninit", out |-> NoRequest]]
    /\ sem' = [sem EXCEPT ![t] = 0]
    /\ ApplyTaskId
    /\ asyncs' = asyncs \cup {t}
    /\ pc' = [pc EXCEPT ![t] = "waiting"]
    /\ UNCHANGED <<loopVars, sendTo, connTo, taskTable, timerTable, armed, connVars,
                   netVars, appVars, crashed>>

\* uv_sem_wait returns and with it the call.
CallReturn(t) ==
    /\ At(t, "waiting") /\ sem[t] > 0
    /\ sem' = [sem EXCEPT ![t] = @ - 1]
    /\ LeaveCall(t)
    /\ UNCHANGED <<loopVars, sendTo, nextTask, task, taskTable, timerTable, armed,
                   asyncs, connVars, netVars, appVars, crashed>>

\* ssn_shutdown_client: async_close_client finds the loop ready ...
ssn_shutdown_client ==
    /\ "shutdown" \in Env
    /\ At(Main, "idle") /\ inited /\ running
    /\ pc' = [pc EXCEPT ![Main] = "admitted"]
    /\ UNCHANGED <<loopVars, sendTo, connTo, nextTask, taskVars, asyncs, connVars,
                   netVars, appVars, crashed>>

\* ... and posts a CLOSE task with id 0, whose err field nobody ever assigns: it
\* holds zero or anything else.
async_close_client(err) ==
    /\ At(Main, "admitted")
    /\ task' = [task EXCEPT ![Main] = [id |-> 0, timeout |-> FALSE,
                                       err |-> err, out |-> NoRequest]]
    /\ sem' = [sem EXCEPT ![Main] = 0]
    /\ asyncs' = asyncs \cup {Main}
    /\ pc' = [pc EXCEPT ![Main] = "waiting"]
    /\ UNCHANGED <<loopVars, sendTo, connTo, nextTask, taskTable, timerTable, armed,
                   connVars, netVars, appVars, crashed>>

\* async_close_client returns err; only on zero does uninit_client_loop follow,
\* which clears running and joins the loop thread.
CloseReturn ==
    /\ At(Main, "waiting") /\ sem[Main] > 0
    /\ sem' = [sem EXCEPT ![Main] = @ - 1]
    /\ IF task[Main].err = "ok"
       THEN pc' = [pc EXCEPT ![Main] = "join"] /\ running' = FALSE
       ELSE pc' = [pc EXCEPT ![Main] = "idle"] /\ UNCHANGED running
    /\ UNCHANGED <<inited, loop, starts, sendTo, connTo, nextTask, task, taskTable,
                   timerTable, armed, asyncs, connVars, netVars, appVars, crashed>>

\* The loop thread has ended: uv_loop_close, the locks are destroyed.
uninit_client_loop ==
    /\ At(Main, "join") /\ loop = "exit"
    /\ inited' = FALSE
    /\ pc' = [pc EXCEPT ![Main] = "idle"]
    /\ UNCHANGED <<running, loop, starts, sendTo, connTo, nextTask, taskVars, asyncs,
                   connVars, netVars, appVars, crashed>>
-----------------------------------------------------------------------------
(* The loop thread.                                                        *)

\* async_cb on the async of thread t; the handle is closed in every case.
AsyncRuns(t) == LoopAlive /\ t \in asyncs /\ asyncs' = asyncs \ {t}

\* async_cb of a loop that is not running any more.
async_cb_not_ready(t) ==
    /\ AsyncRuns(t)
    /\ ~running \/ ~inited
    /\ cl_finish_task(t, "not_ready", task[t].out, taskTable, {})
    /\ UNCHANGED <<loopVars, callVars, connVars, netVars, appVars, crashed>>

\* async_cb, case RW: the task enters the table; _do_write on the connection, if it
\* is still there; wrote is the result of uv_write.
async_cb_rw(t, wrote) ==
    LET i  == task[t].id
        c  == connTable[sendTo[t]]
        tt == [taskTable EXCEPT ![i] = t]
    IN
    /\ AsyncRuns(t)
    /\ running /\ inited
    /\ wrote => c # NoConn
    /\ IF wrote
       THEN /\ taskTable' = tt
            /\ writes' = writes \cup {[thr |-> t, id |-> i, conn |-> c, sent |-> FALSE]}
            /\ UNCHANGED <<task, sem, timerTable, armed>>
       ELSE /\ cl_finish_task(t, IF c = NoConn THEN "no_conn" ELSE "uv", task[t].out, tt, {})
            /\ UNCHANGED writes
    /\ UNCHANGED <<loopVars, callVars, connVars, peer, overtaken, appVars, crashed>>

\* async_cb, case CONNECT, and _do_connect: refuse an address that is in the table;
\* init_tcp_conn and uv_tcp_connect may fail, the second leaves a handle to close.
async_cb_connect(t, result) ==
    LET i  == task[t].id
        tt == [taskTable EXCEPT ![i] = t]
    IN
    /\ AsyncRuns(t)
    /\ running /\ inited
    /\ result = "exists" <=> cl_conn_find2(connTo[t])
    /\ IF result = "ok"
       THEN /\ taskTable' = tt
            /\ IF task[t].timeout THEN StartTimer(i) ELSE UNCHANGED <<timerTable, armed>>
            /\ UNCHANGED <<task, sem>>
       ELSE cl_finish_task(t, IF result = "exists" THEN "exists" ELSE "uv", task[t].out, tt, {})
    /\ st' = [st EXCEPT ![i] = CASE result = "ok" -> "connecting"
                                 [] result = "connect_failed" -> "closing"
                                 [] OTHER -> @]
    /\ connIp' = [connIp EXCEPT ![i] = IF result \in {"ok", "connect_failed"}
                                       THEN connTo[t] ELSE @]
    /\ creq' = [creq EXCEPT ![i] = (result = "ok")]
    /\ UNCHANGED <<loopVars, callVars, connTable, nextConn, cid, netVars, appVars, crashed>>

\* Fault: the connections of the table are forgotten.
Fault_ClosedAtShutdown == timerTable

\* The connections _client_shutdown closes: those of the connection table and the
\* ones the CONNECT timers point to.
ClosedAtShutdown == {connTable[k] : k \in ConnIds} \cup timerTable

\* async_cb, case CLOSE, and _client_shutdown: close the handles of the connection
\* table and of the timers, clear the tables, finish every task with ERR_SHUTDOWN,
\* close no_exit, and finish the CLOSE task itself.
async_cb_close ==
    LET waiting == {taskTable[i] : i \in TaskIds} IN
    /\ AsyncRuns(Main)
    /\ running /\ inited
    /\ running' = FALSE
    /\ loop' = "stop"
    /\ st' = [c \in TaskIds |-> IF c \in ClosedAtShutdown /\ st[c] \in {"connecting", "open"}
                                THEN "closing" ELSE st[c]]
    /\ armed' = [i \in TaskIds |-> IF i \in timerTable THEN armed[i] - 1 ELSE armed[i]]
    /\ timerTable' = {}
    /\ connTable' = [k \in ConnIds |-> NoConn]
    /\ task' = [t \in Threads |-> IF t \in waiting
                                  THEN [task[t] EXCEPT !.err = "shutdown"] ELSE task[t]]
    /\ sem' = [t \in Threads |-> IF t \in waiting \cup {Main} THEN sem[t] + 1 ELSE sem[t]]
    /\ taskTable' = [i \in TaskIds |-> NoThread]
    /\ UNCHANGED <<inited, starts, callVars, nextConn, cid, connIp, creq, netVars,
                   appVars, crashed>>

\* write_cb: task = req->data is dereferenced without looking at the task table.  A
\* request the kernel took ends with status 0, any other one with an error.
write_cb(w) ==
    LET t == w.thr
        stale == pc[t] # "waiting" \/ task[t].id # w.id
    IN
    /\ LoopAlive /\ w \in writes
    /\ writes' = writes \ {w}
    /\ \/ /\ w.sent
          /\ IF task[t].timeout
             THEN StartTimer(task[t].id) ELSE UNCHANGED <<timerTable, armed>>
          /\ UNCHANGED <<task, sem, taskTable, crashed>>
       \/ /\ ~w.sent
          /\ cl_finish_task(t, "uv", task[t].out, taskTable, {})
          /\ UNCHANGED crashed
       \/ /\ stale
          /\ crashed' = TRUE
          /\ UNCHANGED taskVars
    /\ UNCHANGED <<loopVars, callVars, asyncs, connVars, peer, overtaken, appVars>>

\* timer_cb: the task, if it is still in the table, times out; the handle a CONNECT
\* timer carries in td->data is closed.
timer_cb(i) ==
    LET t    == taskTable[i]
        done == IF t = NoThread THEN {i} ELSE {i, task[t].id}
    IN
    /\ LoopAlive /\ armed[i] > 0
    /\ timerTable' = timerTable \ done
    /\ armed' = [j \in TaskIds |-> IF j = i \/ j \in timerTable \cap done
                                   THEN armed[j] - 1 ELSE armed[j]]
    /\ taskTable' = [j \in TaskIds |-> IF j \in done THEN NoThread ELSE taskTable[j]]
    /\ IF t # NoThread
       THEN /\ task' = [task EXCEPT ![t] = [@ EXCEPT !.err = "timeout"]]
            /\ sem' = [sem EXCEPT ![t] = @ + 1]
       ELSE UNCHANGED <<task, sem>>
    /\ st' = [st EXCEPT ![i] = IF @ \in {"connecting", "open"} THEN "closing" ELSE @]
    /\ UNCHANGED <<loopVars, callVars, asyncs, connTable, nextConn, cid, connIp, creq,
                   netVars, appVars, crashed>>

\* connect_cb: a request whose task is gone is dropped.  Otherwise the timer is
\* cancelled, and the connection is closed or gets an id, enters the table, is
\* reported to the application and starts reading.
connect_cb(c, connected) ==
    LET t == taskTable[c]
        k == ConnIdOf(nextConn)
    IN
    /\ LoopAlive /\ creq[c]
    /\ connected => st[c] = "connecting"
    /\ creq' = [creq EXCEPT ![c] = FALSE]
    /\ IF t = NoThread
       THEN UNCHANGED <<taskVars, connTable, nextConn, st, cid, appVars>>
       ELSE /\ cl_finish_task(t, IF connected THEN "ok" ELSE "uv", task[t].out,
                              [taskTable EXCEPT ![c] = NoThread], {})
            /\ IF connected
               THEN /\ nextConn' = ConnCounterAfter(nextConn, MaxConnId)
                    /\ cid' = [cid EXCEPT ![c] = k]
                    /\ connTable' = cl_conn_add(k, c)
                    /\ Callback(k \notin appUp)
                    /\ appUp' = appUp \cup {k}
                    /\ st' = [st EXCEPT ![c] = "open"]
               ELSE /\ st' = [st EXCEPT ![c] = "closing"]
                    /\ UNCHANGED <<nextConn, cid, connTable, appVars>>
    /\ UNCHANGED <<loopVars, callVars, asyncs, connIp, netVars, crashed>>

\* read_cb, an answer (PKG_TYPE_COMMON) to request r: the timer goes, and the task,
\* if it is still in the table, is finished with the data.  The peer may answer late
\* and more than once.  The answer may also be read before the write callback of its
\* request has run: uv_write sends at once and leaves write_cb to the next round of
\* the loop, and a readiness event of the round under way can still read.
read_cb_common(c, r) ==
    LET i == r.id
        t == taskTable[i]
    IN
    /\ LoopAlive /\ st[c] = "open" /\ <<c, r>> \in peer
    /\ IF t = NoThread
       THEN CancelTimers({i}) /\ UNCHANGED <<task, sem, taskTable>>
       ELSE cl_finish_task(t, "ok", r, [taskTable EXCEPT ![i] = NoThread], {i})
    /\ overtaken' = overtaken \cup {w.thr : w \in {v \in writes : v.id = i}}
    /\ UNCHANGED <<loopVars, callVars, asyncs, connVars, writes, peer, appVars, crashed>>

\* read_cb, a PKG_TYPE_PUSH package: pushmsg_cb for the connection.
read_cb_push(c) ==
    /\ LoopAlive /\ st[c] = "open"
    /\ Callback(cid[c] \in appUp)
    /\ UNCHANGED <<loopVars, callVars, taskVars, asyncs, connVars, netVars, appUp, crashed>>

\* Fault: the lost tasks are finished although write_cb still holds their address.
Fault_FinishLost(lost) ==
    /\ task' = [t \in Threads |-> IF \E i \in lost : taskTable[i] = t
                                  THEN [task[t] EXCEPT !.err = "uv"] ELSE task[t]]
    /\ sem' = [t \in Threads |-> IF \E i \in lost : taskTable[i] = t
                                 THEN sem[t] + 1 ELSE sem[t]]
    /\ UNCHANGED crashed

\* The loop over cl_task_del_by_connId in read_cb.  The tasks get their error but are
\* NOT finished: _cl_finish_task is given the address of the vector element instead
\* of the task, so that its writes and its post hit unrelated memory.
FinishLost(lost) ==
    /\ task' = [t \in Threads |-> IF \E i \in lost : taskTable[i] = t
                                  THEN [task[t] EXCEPT !.err = "uv"] ELSE task[t]]
    /\ UNCHANGED sem
    /\ crashed' \in IF lost = {} THEN {FALSE} ELSE BOOLEAN

\* read_cb with nread < 0: the handle is closed, the connection leaves the table and
\* is reported as down, and its RW tasks leave the task table.
read_cb_eof(c) ==
    LET lost == TasksOfConn(cid[c]) IN
    /\ "eof" \in Env
    /\ LoopAlive /\ st[c] = "open"
    /\ st' = [st EXCEPT ![c] = "closing"]
    /\ connTable' = cl_conn_del(connTable, cid[c])
    /\ Callback(cid[c] \in appUp)
    /\ appUp' = appUp \ {cid[c]}
    /\ FinishLost(lost)
    /\ taskTable' = [i \in TaskIds |-> IF i \in lost THEN NoThread ELSE taskTable[i]]
    /\ UNCHANGED <<loopVars, callVars, timerTable, armed, asyncs, nextConn, cid,
                   connIp, creq, netVars>>

\* close_cb of a connection: libuv has run the callbacks of all its requests.  A
\* connection that is still in the table is taken out and reported as down.
close_cb(c) ==
    LET k == cid[c] IN
    /\ LoopAlive /\ st[c] = "closing" /\ ~creq[c]
    /\ \A w \in writes : w.conn # c
    /\ st' = [st EXCEPT ![c] = "freed"]
    /\ connTable' = cl_conn_del(connTable, k)
    /\ IF KnownConn(k)
       THEN Callback(k \in appUp) /\ appUp' = appUp \ {k}
       ELSE UNCHANGED appVars
    /\ UNCHANGED <<loopVars, callVars, taskVars, asyncs, nextConn, cid, connIp, creq,
                   netVars, crashed>>

\* uv_run returns: no_exit is closed and no handle or request is left.
LoopExit ==
    /\ LoopAlive /\ loop = "stop"
    /\ asyncs = {} /\ writes = {}
    /\ \A i \in TaskIds : armed[i] = 0 /\ ~creq[i] /\ st[i] \in {"none", "freed"}
    /\ loop' = "exit"
    /\ UNCHANGED <<inited, running, starts, callVars, taskVars, asyncs, connVars, netVars,
                   appVars, crashed>>

\* The kernel takes the bytes of a write request and they reach the peer (code
\* outside the repository).
Flush(w) ==
    /\ ~crashed /\ w \in writes /\ ~w.sent /\ st[w.conn] = "open"
    /\ writes' = (writes \ {w}) \cup {[w EXCEPT !.sent = TRUE]}
    /\ peer' = peer \cup {<<w.conn, [thr |-> w.thr, id |-> w.id]>>}
    /\ UNCHANGED <<loopVars, callVars, taskVars, asyncs, connVars, overtaken, appVars, crashed>>
-----------------------------------------------------------------------------
ConnectResults == {"ok", "exists", "init_failed", "connect_failed"}

CallStep ==
    \/ ssn_startup_client
    \/ \E t \in Senders, k \in ConnIds : ssn_send(t, k)
    \/ \E t \in Connectors, ip \in Ips : ssn_connect(t, ip)
    \/ \E t \in Senders \cup Connectors : cl_create_async(t)
    \/ \E t \in Senders, timeout \in BOOLEAN : async_post(t, timeout)
    \/ \E t \in Connectors : async_post(t, TRUE)
    \/ \E t \in Senders \cup Connectors : CallReturn(t)
    \/ ssn_shutdown_client
    \/ \E err \in {"ok", "uninit"} : async_close_client(err)
    \/ CloseReturn
    \/ uninit_client_loop

LoopStep ==
    \/ \E t \in Threads : async_cb_not_ready(t)
    \/ \E t \in Senders, wrote \in BOOLEAN : async_cb_rw(t, wrote)
    \/ \E t \in Connectors, result \in ConnectResults : async_cb_connect(t, result)
    \/ async_cb_close
    \/ \E w \in writes : write_cb(w)
    \/ \E i \in TaskIds : timer_cb(i)
    \/ \E c \in TaskIds, connected \in BOOLEAN : connect_cb(c, connected)
    \/ \E p \in peer : read_cb_common(p[1], p[2])
    \/ \E c \in TaskIds : read_cb_push(c)
    \/ \E c \in TaskIds : read_cb_eof(c)
    \/ \E c \in TaskIds : close_cb(c)
    \/ LoopExit

Next == CallStep \/ LoopStep \/ \E w \in writes : Flush(w)

Spec == Init /\ [][Next]_vars

\* A thread that can go on does; libuv runs every callback that is due.
ThreadFairness ==
    /\ \A t \in Senders \cup Connectors :
        /\ WF_vars(cl_create_async(t))
        /\ WF_vars(async_post(t, TRUE))
        /\ WF_vars(CallReturn(t))
    /\ WF_vars(\E err \in {"ok", "uninit"} : async_close_client(err))
    /\ WF_vars(CloseReturn)
    /\ WF_vars(uninit_client_loop)

LoopFairness ==
    /\ \A t \in Senders : WF_vars(\E wrote \in BOOLEAN : async_cb_rw(t, wrote))
    /\ \A t \in Connectors :
        WF_vars(\E result \in ConnectResults : async_cb_connect(t, result))
    /\ \A t \in Threads : WF_vars(async_cb_not_ready(t))
    /\ WF_vars(async_cb_close)
    /\ \A t \in Senders : WF_vars(\E w \in writes : w.thr = t /\ w.sent /\ write_cb(w))
    /\ \A c \in TaskIds :
        /\ WF_vars(timer_cb(c))
        /\ WF_vars(close_cb(c))
        /\ WF_vars(st[c] = "closing" /\ connect_cb(c, FALSE))
        /\ WF_vars(\E w \in writes : w.conn = c /\ st[c] = "closing" /\ write_cb(w))
    /\ WF_vars(LoopExit)

FairSpec == Spec /\ ThreadFairness /\ LoopFairness
-----------------------------------------------------------------------------
(* Properties.                                                             *)

Callers == Senders \cup Connectors

LoopTypes ==
    /\ inited \in BOOLEAN /\ running \in BOOLEAN
    /\ loop \in {"none", "run", "stop", "exit"}
    /\ starts \in 0 .. MaxStart

CallTypes ==
    /\ pc \in [Threads -> {"idle", "checked", "admitted", "waiting", "join"}]
    /\ sendTo \in [Senders -> ConnIds]
    /\ connTo \in [Connectors -> Ips \cup {NoIp}]
    /\ nextTask \in 0 .. MaxTask

TaskTypes ==
    /\ task \in [Threads -> Task]
    /\ sem \in [Threads -> Nat]
    /\ taskTable \in [TaskIds -> Callers \cup {NoThread}]
    /\ timerTable \in SUBSET TaskIds
    /\ armed \in [TaskIds -> Nat]

ConnTypes ==
    /\ connTable \in [ConnIds -> TaskIds \cup {NoConn}]
    /\ nextConn \in 0 .. MaxConnId
    /\ st \in [TaskIds -> {"none", "connecting", "open", "closing", "freed"}]
    /\ cid \in [TaskIds -> 0 .. MaxConnId]
    /\ connIp \in [TaskIds -> Ips \cup {NoIp}]
    /\ creq \in [TaskIds -> BOOLEAN]

\* Every variable has its type; in particular no timer is stopped that does not
\* run, so that armed never drops below zero.
TypeOK ==
    /\ LoopTypes /\ CallTypes /\ TaskTypes /\ ConnTypes
    /\ asyncs \in SUBSET Threads
    /\ writes \in SUBSET WriteReq /\ peer \in SUBSET (TaskIds \X Request)
    /\ overtaken \in SUBSET Senders
    /\ appUp \in SUBSET ConnIds /\ contract \in BOOLEAN /\ crashed \in BOOLEAN

\* The frame of the call of thread t is alive: t is blocked in uv_sem_wait on the task
\* with id i, and nobody has completed it.
FrameAlive(t, i) == pc[t] = "waiting" /\ task[t].id = i /\ sem[t] = 0

\* The task table holds raw pointers into the callers' stacks.  Every one of them
\* points to the frame of a call that is still blocked in uv_sem_wait, with the id
\* it is filed under, and whose semaphore was not posted: what timer_cb, read_cb,
\* connect_cb and _client_shutdown dereference is alive and completed only once.
\* This holds for every thread none of whose answers overtook a write callback,
\* whatever happened to the other threads; on a thread in overtaken a stale write_cb
\* can end a call whose async is still pending, and async_cb then files a dead frame.
TaskTableLive ==
    \A i \in TaskIds : LET t == taskTable[i] IN
        t \notin overtaken \cup {NoThread} => FrameAlive(t, i) /\ t \notin asyncs

\* The connection table holds raw pointers to connections.  None of them is closing
\* or deleted, and each is filed under its own id, whatever close_cb, read_cb and
\* _client_shutdown do in whatever order, and also when connection ids wrap around.
ConnTableSafe ==
    \A k \in ConnIds : LET c == connTable[k] IN
        c # NoConn => st[c] = "open" /\ cid[c] = k

\* The timer of a CONNECT keeps a pointer to the connection it would close.  It runs
\* only while the connection is connecting, so timer_cb never closes an established
\* connection and never touches a deleted one; and while it runs, connect_cb or the
\* timer will find the task to complete.
ConnectTimerSafe ==
    \A c \in TaskIds :
        /\ st[c] = "connecting" => /\ creq[c] /\ taskTable[c] \in Connectors
                                   /\ c \in timerTable /\ armed[c] = 1
        /\ st[c] \in {"open", "closing", "freed"} =>
                /\ taskTable[c] = NoThread /\ c \notin timerTable /\ armed[c] = 0

\* Connection ids have wrapped around: two connections were given the same one.
IdsReused ==
    \E c, d \in TaskIds : c # d /\ cid[c] = cid[d] /\ cid[c] # INVALID_CONNID

\* The client never has two connections to one server: the list reqs of the bridge,
\* ssn_connect_is_exist and the second test in _do_connect together exclude it, until
\* the 16-bit connection ids wrap around: then cl_conn_add leaves a connection out of
\* the table, where neither test finds it.
OneConnPerIp ==
    ~IdsReused =>
        \A c, d \in TaskIds :
            /\ c # d /\ connIp[c] = connIp[d]
            => ~ (st[c] \in {"connecting", "open"} /\ st[d] \in {"connecting", "open"})

\* The application hears "up" for an id only when it is not up, "down" and pushed
\* messages only for an id that is up, and nothing once the client is shut down:
\* read_cb and close_cb together report a closed connection exactly once, until the
\* 16-bit connection ids wrap around.
CallbackContract == ~IdsReused => contract

\* A call of thread t that ends with success holds the answer to its own request.
OwnAnswer(t) ==
    pc[t] = "waiting" /\ sem[t] > 0 /\ task[t].err = "ok"
    => task[t].out = [thr |-> t, id |-> task[t].id]

\* A call that ends with success holds the answer to its own request and no other, on
\* every thread none of whose answers overtook a write callback.  read_cb finds the task
\* by the id in the package alone.
ResponseMatches == \A t \in Senders \ overtaken : OwnAnswer(t)

\* What the comment on taskId in the package header (comm_protocol.h) says: the id
\* identifies the task an answer belongs to.  So no call of any thread ends with the
\* answer to another one.
AnswerBelongsToTask == \A t \in Senders : OwnAnswer(t)

\* write_cb dereferences the task pointer in req->data without asking the task table:
\* until the client is shut down the call is still waiting at that time, on every thread
\* none of whose answers overtook a write callback.
WriteTaskLive ==
    running => \A w \in writes : w.thr \notin overtaken => FrameAlive(w.thr, w.id)

\* Until the client is shut down, only a call that waits is completed, only once, and
\* only with its error field assigned, whichever of answer, timeout, failed write,
\* failed connect and shutdown comes first and however late the others are: on every
\* thread none of whose answers overtook a write callback.
CompletedOnce ==
    [][running => \A t \in Callers \ overtaken :
            sem'[t] > sem[t] => pc[t] = "waiting" /\ sem[t] = 0 /\ task'[t].err # "uninit"]_vars

\* The request of thread t stays in the send buffer of a peer that does not read.
Stalled(t) == <>[](\E w \in writes : w.thr = t /\ ~w.sent)

\* The task of thread t was posted to a loop that had already ended.
Orphaned(t) == loop = "exit" /\ t \in asyncs

\* A call with a timeout returns, whatever the server answers and whenever the client
\* is shut down, with these two exceptions.  (When the peer may also close the
\* connection this is refuted: read_cb drops the calls on it without waking them.)
CallReturns ==
    \A t \in Callers :
        \/ Stalled(t)
        \/ (pc[t] = "waiting" /\ task[t].timeout) ~> (pc[t] = "idle" \/ Orphaned(t) \/ crashed)

\* After ssn_shutdown_client the loop thread runs out of handles and ends, so that
\* the join in uninit_client_loop returns.
ShutdownTerminates == [](pc[Main] # "idle" => <>(loop = "exit" \/ crashed))
=============================================================================
