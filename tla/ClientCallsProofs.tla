------------------------- MODULE ClientCallsProofs --------------------------
(***************************************************************************)
(* Proofs about what the client promises its callers and the application:  *)
(* one connection per server, callbacks in order, every call completed     *)
(* once and with its own answer.                                           *)
(***************************************************************************)
EXTENDS ClientLoopProofs

USE DEF Threads, Callers
-----------------------------------------------------------------------------
(* Connections and callbacks, until connection ids wrap around.            *)

\* An id that the application takes for up was given to some connection.
UpGiven == \A k \in appUp : \E c \in TaskIds : cid[c] = k

\* Only connect_cb gives an id.
NoIdYet == \A c \in TaskIds : st[c] \in {"none", "connecting"} => cid[c] = INVALID_CONNID

\* An open connection is in the table, and the application was told of it.
OpenKnown ==
    \A c \in TaskIds : st[c] = "open" =>
        cid[c] \in ConnIds /\ connTable[cid[c]] = c /\ cid[c] \in appUp

\* No two connectors work on one address, and a connection that is being made has the
\* address of its connector.
ConnectorIps ==
    /\ \A t, u \in Connectors : connTo[t] = connTo[u] /\ connTo[t] # NoIp => t = u
    /\ \A t \in Connectors : pc[t] # "idle" => connTo[t] # NoIp
    /\ \A c \in TaskIds : st[c] = "connecting" => connIp[c] = connTo[taskTable[c]]

\* A loop that is shut down has no connection that lives.
LoopRuns ==
    /\ running => loop = "run"
    /\ loop # "run" => \A c \in TaskIds : st[c] \notin {"connecting", "open"}

AppInv ==
    /\ ~IdsReused /\ UpGiven /\ NoIdYet /\ OpenKnown /\ ConnectorIps /\ LoopRuns
    /\ OneConnPerIp /\ CallbackContract

\* The step takes connectors only out of the task table.
TableShrinks ==
    \A c \in TaskIds : taskTable'[c] = taskTable[c] \/ taskTable'[c] \notin Connectors

\* Connectors keep their addresses until their calls return.
ConnToKept ==
    \A t \in Connectors :
        \/ connTo'[t] = connTo[t] /\ (pc'[t] # "idle" => pc[t] # "idle")
        \/ connTo'[t] = NoIp /\ pc'[t] = "idle"

\* Steps that make no connection: some may close.
LEMMA AppKept ==
    ASSUME TypeInv, ConnInv, AppInv, ConnInv', UNCHANGED <<nextConn, cid>>,
           contract', appUp' \subseteq appUp, TableShrinks, ConnToKept,
           \A c \in TaskIds : st'[c] = st[c] \/ st'[c] \notin {"none", "connecting", "open"},
           \A c \in TaskIds : connIp'[c] = connIp[c] \/ st'[c] \notin {"connecting", "open"},
           \A c \in TaskIds : st[c] = "open" /\ st'[c] = "open" =>
                connTable'[cid[c]] = connTable[cid[c]] /\ cid[c] \in appUp',
           running' => loop' = "run",
           loop' # "run" => \A c \in TaskIds : st'[c] \notin {"connecting", "open"}
    PROVE  AppInv'
<1>1. ~IdsReused' /\ UpGiven'
    BY DEF AppInv, IdsReused, UpGiven
<1>2. NoIdYet' /\ OpenKnown' /\ LoopRuns'
    BY DEF AppInv, NoIdYet, OpenKnown, LoopRuns
<1>3. ConnectorIps'
    <2>1. \A t, u \in Connectors : connTo'[t] = connTo'[u] /\ connTo'[t] # NoIp => t = u
        BY DEF AppInv, ConnectorIps, ConnToKept
    <2>2. \A t \in Connectors : pc'[t] # "idle" => connTo'[t] # NoIp
        BY DEF AppInv, ConnectorIps, ConnToKept
    <2>3. ASSUME NEW c \in TaskIds, st'[c] = "connecting"
          PROVE  connIp'[c] = connTo'[taskTable'[c]]
        <3>1. st[c] = "connecting" /\ connIp'[c] = connIp[c]
            BY <2>3
        <3>2. taskTable'[c] \in Connectors /\ pc'[taskTable'[c]] = "waiting"
            BY <2>3 DEF ConnInv, ConnectTimerSafe, ConnectorTable
        <3>3. taskTable'[c] = taskTable[c]
            BY <3>2 DEF TableShrinks
        <3> QED BY <3>1, <3>2, <3>3 DEF AppInv, ConnectorIps, ConnToKept
    <2> QED BY <2>1, <2>2, <2>3 DEF ConnectorIps
<1>4. OneConnPerIp' /\ CallbackContract'
    BY DEF AppInv, OneConnPerIp, CallbackContract
<1> QED BY <1>1, <1>2, <1>3, <1>4 DEF AppInv

\* Steps that leave connections and callbacks alone.
LEMMA AppQuiet ==
    ASSUME TypeInv, ConnInv, AppInv, ConnInv', UNCHANGED <<connVars, appVars>>,
           TableShrinks, ConnToKept, running' => loop' = "run", loop' # "run" => loop # "run"
    PROVE  AppInv'
<1>1. UNCHANGED <<connTable, nextConn, st, cid, connIp, appUp, contract>>
    BY DEF connVars, appVars
<1>2. contract'
    BY <1>1 DEF AppInv, CallbackContract
<1> QED BY <1>1, <1>2, AppKept DEF AppInv, OpenKnown, LoopRuns

\* _cl_finish_task only takes entries out of the table it is given.
LEMMA FinishShrinks ==
    ASSUME NEW t, NEW err, NEW out, NEW tt \in [TaskIds -> Callers \cup {NoThread}], NEW ids,
           cl_finish_task(t, err, out, tt, ids),
           \A c \in TaskIds : tt[c] = taskTable[c] \/ tt[c] \notin Connectors \/ c = task[t].id
    PROVE  TableShrinks
BY ThreadAssumption DEF cl_finish_task, TableShrinks

\* Steps of the callers.
LEMMA AppCallers ==
    ASSUME TypeInv, ConnInv, AppInv, ConnInv', CallStep
    PROVE  AppInv'
<1> USE ThreadAssumption
<1>0. running => loop = "run"
    BY DEF AppInv, LoopRuns
<1>1. CASE ssn_startup_client
    BY <1>1, AppQuiet DEF ssn_startup_client, callVars, taskVars, TableShrinks, ConnToKept
<1>2. ASSUME NEW t \in Senders, NEW k \in ConnIds, ssn_send(t, k) PROVE AppInv'
    BY <1>0, <1>2, AppQuiet DEF ssn_send, At, loopVars, taskVars, TableShrinks, ConnToKept, TypeInv,
        TypeOK, CallTypes
<1>3. ASSUME NEW t \in Connectors, NEW ip \in Ips, ssn_connect(t, ip) PROVE AppInv'
    <2>1. /\ connTo' = [connTo EXCEPT ![t] = ip] /\ connTo \in [Connectors -> Ips \cup {NoIp}]
          /\ pc' = [pc EXCEPT ![t] = "checked"] /\ pc[t] = "idle"
          /\ \A u \in Connectors : connTo[u] # ip
          /\ UNCHANGED <<running, loop, taskTable, nextConn, cid, st, connIp, connTable, appUp, contract>>
        BY <1>3 DEF ssn_connect, At, addsvrconn, loopVars, taskVars, connVars, appVars, TypeInv,
            TypeOK, CallTypes
    <2>2. ~IdsReused' /\ UpGiven'
        BY <2>1 DEF AppInv, IdsReused, UpGiven
    <2>3. NoIdYet' /\ OpenKnown' /\ LoopRuns' /\ OneConnPerIp' /\ CallbackContract'
        BY <2>1 DEF AppInv, NoIdYet, OpenKnown, LoopRuns, OneConnPerIp, CallbackContract
    <2>4. ConnectorIps'
        <3>1. \A v, u \in Connectors : connTo'[v] = connTo'[u] /\ connTo'[v] # NoIp => v = u
            BY <2>1 DEF AppInv, ConnectorIps
        <3>2. \A u \in Connectors : pc'[u] # "idle" => connTo'[u] # NoIp
            BY <2>1 DEF AppInv, ConnectorIps, TypeInv, TypeOK, CallTypes
        <3>3. ASSUME NEW c \in TaskIds, st[c] = "connecting"
              PROVE  connIp[c] = connTo'[taskTable[c]]
            <4>1. taskTable[c] \in Connectors /\ pc[taskTable[c]] = "waiting"
                BY <3>3 DEF ConnInv, ConnectTimerSafe, ConnectorTable
            <4> QED BY <2>1, <3>3, <4>1 DEF AppInv, ConnectorIps
        <3> QED BY <2>1, <3>1, <3>2, <3>3 DEF ConnectorIps
    <2> QED BY <2>2, <2>3, <2>4 DEF AppInv
<1>4. ASSUME NEW t \in Senders \cup Connectors, cl_create_async(t) PROVE AppInv'
    BY <1>0, <1>4, AppQuiet DEF cl_create_async, LeaveCall, At, loopVars, taskVars, TableShrinks,
        ConnToKept, TypeInv, TypeOK, CallTypes
<1>5. ASSUME NEW t \in Senders \cup Connectors, NEW b \in BOOLEAN, async_post(t, b) PROVE AppInv'
    BY <1>0, <1>5, AppQuiet DEF async_post, At, loopVars, TableShrinks, ConnToKept, TypeInv, TypeOK,
        CallTypes
<1>6. ASSUME NEW t \in Senders \cup Connectors, CallReturn(t) PROVE AppInv'
    BY <1>0, <1>6, AppQuiet DEF CallReturn, LeaveCall, At, loopVars, TableShrinks, ConnToKept,
        TypeInv, TypeOK, CallTypes
<1>7. CASE ssn_shutdown_client
    BY <1>0, <1>7, AppQuiet DEF ssn_shutdown_client, loopVars, taskVars, TableShrinks, ConnToKept,
        TypeInv, TypeOK, CallTypes
<1>8. ASSUME NEW err \in {"ok", "uninit"}, async_close_client(err) PROVE AppInv'
    BY <1>0, <1>8, AppQuiet DEF async_close_client, loopVars, TableShrinks, ConnToKept, TypeInv,
        TypeOK, CallTypes
<1>9. CASE CloseReturn
    BY <1>0, <1>9, AppQuiet DEF CloseReturn, TableShrinks, ConnToKept, TypeInv, TypeOK, CallTypes
<1>10. CASE uninit_client_loop
    BY <1>0, <1>10, AppQuiet DEF uninit_client_loop, taskVars, TableShrinks, ConnToKept, TypeInv,
        TypeOK, CallTypes
<1> QED BY <1>1, <1>2, <1>3, <1>4, <1>5, <1>6, <1>7, <1>8, <1>9, <1>10 DEF CallStep

\* Callbacks of the loop that concern calls, not connections.
LEMMA AppTasks ==
    ASSUME TypeInv, ConnInv, AppInv, ConnInv'
    PROVE  /\ \A t \in Threads : async_cb_not_ready(t) => AppInv'
           /\ \A t \in Senders, wrote \in BOOLEAN : async_cb_rw(t, wrote) => AppInv'
           /\ \A w \in writes : write_cb(w) \/ Flush(w) => AppInv'
           /\ \A q \in peer : read_cb_common(q[1], q[2]) => AppInv'
           /\ LoopExit => AppInv'
<1> USE ThreadAssumption
<1>0. /\ running => loop = "run"
      /\ taskTable \in [TaskIds -> Callers \cup {NoThread}]
    BY DEF AppInv, LoopRuns, TypeInv, TypeOK, TaskTypes
<1>1. ASSUME UNCHANGED <<loopVars, callVars, connVars, appVars>>, TableShrinks PROVE AppInv'
    BY <1>0, <1>1, AppQuiet DEF loopVars, callVars, ConnToKept
<1>2. ASSUME NEW t \in Threads, async_cb_not_ready(t) PROVE AppInv'
    <2>1. TableShrinks
        BY <1>0, <1>2, FinishShrinks DEF async_cb_not_ready
    <2> QED BY <1>1, <1>2, <2>1 DEF async_cb_not_ready
<1>3. ASSUME NEW t \in Senders, NEW wrote \in BOOLEAN, async_cb_rw(t, wrote) PROVE AppInv'
    <2> DEFINE tt == [taskTable EXCEPT ![task[t].id] = t]
    <2>1. /\ tt \in [TaskIds -> Callers \cup {NoThread}]
          /\ \A c \in TaskIds : tt[c] = taskTable[c] \/ tt[c] \notin Connectors
        BY <1>0
    <2>2. CASE wrote
        <3>1. taskTable' = tt
            BY <1>3, <2>2 DEF async_cb_rw
        <3>2. TableShrinks
            BY <2>1, <3>1 DEF TableShrinks
        <3> QED BY <1>1, <1>3, <3>2 DEF async_cb_rw
    <2>3. CASE ~wrote
        <3>1. PICK err : cl_finish_task(t, err, task[t].out, tt, {})
            BY <1>3, <2>3 DEF async_cb_rw
        <3>2. TableShrinks
            <4> HIDE DEF tt
            <4> QED BY <2>1, <3>1, FinishShrinks
        <3> QED BY <1>1, <1>3, <3>2 DEF async_cb_rw
    <2> QED BY <2>2, <2>3
<1>4. ASSUME NEW w \in writes, write_cb(w) PROVE AppInv'
    <2>1. TableShrinks
        <3>1. CASE cl_finish_task(w.thr, "uv", task[w.thr].out, taskTable, {})
            BY <1>0, <3>1, FinishShrinks
        <3>2. CASE UNCHANGED taskTable
            BY <3>2 DEF TableShrinks
        <3> QED BY <1>4, <3>1, <3>2 DEF write_cb, taskVars
    <2> QED BY <1>1, <1>4, <2>1 DEF write_cb
<1>5. ASSUME NEW w \in writes, Flush(w) PROVE AppInv'
    BY <1>1, <1>5 DEF Flush, taskVars, TableShrinks
<1>6. ASSUME NEW q \in peer, read_cb_common(q[1], q[2]) PROVE AppInv'
    <2> DEFINE i  == q[2].id
               tt == [taskTable EXCEPT ![i] = NoThread]
    <2>1. /\ tt \in [TaskIds -> Callers \cup {NoThread}]
          /\ \A c \in TaskIds : tt[c] = taskTable[c] \/ tt[c] \notin Connectors
        BY <1>0
    <2>2. TableShrinks
        <3>1. CASE UNCHANGED taskTable
            BY <3>1 DEF TableShrinks
        <3>2. CASE cl_finish_task(taskTable[i], "ok", q[2], tt, {i})
            <4> HIDE DEF tt, i
            <4> QED BY <2>1, <3>2, FinishShrinks
        <3> QED BY <1>6, <3>1, <3>2 DEF read_cb_common
    <2> QED BY <1>1, <1>6, <2>2 DEF read_cb_common
<1>7. ASSUME LoopExit PROVE AppInv'
    BY <1>0, <1>7, AppQuiet DEF LoopExit, callVars, taskVars, TableShrinks, ConnToKept
<1> QED BY <1>2, <1>3, <1>4, <1>5, <1>6, <1>7

\* Callbacks of the loop that close connections or report them.
LEMMA AppCloses ==
    ASSUME TypeInv, ConnInv, AppInv, ConnInv'
    PROVE  /\ \A i \in TaskIds : timer_cb(i) => AppInv'
           /\ async_cb_close => AppInv'
           /\ \A c \in TaskIds : read_cb_push(c) \/ read_cb_eof(c) \/ close_cb(c) => AppInv'
<1> USE ThreadAssumption
<1>0. /\ running => loop = "run"
      /\ loop # "run" => \A c \in TaskIds : st[c] \notin {"connecting", "open"}
      /\ contract /\ OpenKnown /\ ~IdsReused /\ ConnTableSafe
      /\ connTable \in [ConnIds -> TaskIds \cup {NoConn}] /\ cid \in [TaskIds -> 0 .. MaxConnId]
      /\ st \in [TaskIds -> {"none", "connecting", "open", "closing", "freed"}]
    BY DEF AppInv, LoopRuns, CallbackContract, ConnInv, TypeInv, TypeOK, ConnTypes
<1>1. ASSUME NEW i \in TaskIds, timer_cb(i) PROVE AppInv'
    <2>1. /\ UNCHANGED <<running, loop, pc, connTo, connTable, nextConn, cid, connIp, appUp, contract>>
          /\ \A c \in TaskIds : st'[c] = st[c] \/ st'[c] = "closing"
          /\ \A c \in TaskIds : taskTable'[c] \in {NoThread, taskTable[c]}
        BY <1>0, <1>1 DEF timer_cb, loopVars, callVars, appVars
    <2> QED BY <1>0, <2>1, AppKept DEF OpenKnown, TableShrinks, ConnToKept
<1>2. ASSUME async_cb_close PROVE AppInv'
    <2>1. /\ UNCHANGED <<pc, connTo, nextConn, cid, connIp, appUp, contract>> /\ ~running'
          /\ \A c \in TaskIds : st'[c] = IF c \in ClosedAtShutdown /\ st[c] \in {"connecting", "open"}
                                        THEN "closing" ELSE st[c]
          /\ \A c \in TaskIds : taskTable'[c] = NoThread
        BY <1>0, <1>2 DEF async_cb_close, callVars, appVars
    <2>2. \A c \in TaskIds : st[c] \in {"connecting", "open"} => c \in ClosedAtShutdown
        BY <1>0 DEF OpenKnown, ClosedAtShutdown, ConnInv, ConnectTimerSafe
    <2>3. \A c \in TaskIds : st'[c] \notin {"connecting", "open"}
        BY <2>1, <2>2
    <2> QED BY <1>0, <2>1, <2>3, AppKept DEF TableShrinks, ConnToKept
<1>3. ASSUME NEW c \in TaskIds, read_cb_push(c) PROVE AppInv'
    <2>1. /\ UNCHANGED <<running, loop, pc, connTo, taskTable, connTable, nextConn, st, cid, connIp, appUp>>
          /\ st[c] = "open" /\ contract' = (contract /\ loop = "run" /\ cid[c] \in appUp)
        BY <1>3 DEF read_cb_push, Callback, loopVars, callVars, taskVars, connVars
    <2>2. loop = "run" /\ cid[c] \in appUp
        BY <1>0, <2>1 DEF OpenKnown
    <2>3. contract'
        BY <1>0, <2>1, <2>2
    <2> QED BY <1>0, <2>1, <2>3, AppKept DEF OpenKnown, TableShrinks, ConnToKept
<1>4. ASSUME NEW c \in TaskIds, read_cb_eof(c) PROVE AppInv'
    <2>1. /\ UNCHANGED <<running, loop, pc, connTo, nextConn, cid, connIp>>
          /\ st[c] = "open" /\ contract' = (contract /\ loop = "run" /\ cid[c] \in appUp)
          /\ st'[c] = "closing" /\ \A d \in TaskIds \ {c} : st'[d] = st[d]
          /\ appUp' = appUp \ {cid[c]}
          /\ \A k \in ConnIds : k # cid[c] => connTable'[k] = connTable[k]
          /\ \A d \in TaskIds : taskTable'[d] \in {NoThread, taskTable[d]}
        BY <1>0, <1>4 DEF read_cb_eof, cl_conn_del, Callback, loopVars, callVars
    <2>2. loop = "run" /\ cid[c] \in appUp /\ cid[c] \in ConnIds
        BY <1>0, <2>1 DEF OpenKnown
    <2>3. contract'
        BY <1>0, <2>1, <2>2
    <2>4. ASSUME NEW d \in TaskIds, st[d] = "open", st'[d] = "open"
          PROVE  connTable'[cid[d]] = connTable[cid[d]] /\ cid[d] \in appUp'
        <3>1. d # c /\ cid[d] \in ConnIds /\ cid[d] \in appUp
            BY <1>0, <2>1, <2>4 DEF OpenKnown
        <3>2. cid[d] # cid[c]
            BY <1>0, <3>1 DEF IdsReused, ConnIds, INVALID_CONNID
        <3> QED BY <2>1, <3>1, <3>2
    <2> QED BY <1>0, <2>1, <2>2, <2>3, <2>4, AppKept DEF TableShrinks, ConnToKept
<1>5. ASSUME NEW c \in TaskIds, close_cb(c) PROVE AppInv'
    <2>1. /\ UNCHANGED <<running, loop, pc, connTo, taskTable, nextConn, cid, connIp>>
          /\ st[c] = "closing" /\ st'[c] = "freed" /\ \A d \in TaskIds \ {c} : st'[d] = st[d]
          /\ \A k \in ConnIds : k # cid[c] => connTable'[k] = connTable[k]
          /\ ~KnownConn(cid[c]) => UNCHANGED appVars
        BY <1>0, <1>5 DEF close_cb, cl_conn_del, loopVars, callVars, taskVars
    <2>2. ASSUME NEW d \in TaskIds, st[d] = "open" PROVE cid[d] # cid[c] /\ cid[d] \in ConnIds
        BY <1>0, <2>1, <2>2 DEF OpenKnown, IdsReused, ConnIds, INVALID_CONNID
    <2>3. ~KnownConn(cid[c])
        BY <1>0, <2>2 DEF KnownConn, ConnTableSafe
    <2>4. UNCHANGED <<appUp, contract>>
        BY <2>1, <2>3 DEF appVars
    <2>5. contract'
        BY <1>0, <2>4
    <2> QED BY <1>0, <2>1, <2>2, <2>4, <2>5, AppKept DEF TableShrinks, ConnToKept, OpenKnown
<1> QED BY <1>1, <1>2, <1>3, <1>4, <1>5

\* _do_connect.
LEMMA AppConnect ==
    ASSUME TypeInv, ConnInv, AppInv, ConnInv', NEW t \in Connectors,
           NEW result \in ConnectResults, async_cb_connect(t, result)
    PROVE  AppInv'
<1> USE ThreadAssumption
<1> DEFINE i  == task[t].id
           tt == [taskTable EXCEPT ![i] = t]
<1>0. /\ running => loop = "run"
      /\ loop # "run" => \A c \in TaskIds : st[c] \notin {"connecting", "open"}
      /\ contract /\ OpenKnown /\ ~IdsReused /\ UpGiven /\ OneConnPerIp /\ ConnectorIps /\ NoIdYet
      /\ taskTable \in [TaskIds -> Callers \cup {NoThread}]
      /\ st \in [TaskIds -> {"none", "connecting", "open", "closing", "freed"}]
      /\ connIp \in [TaskIds -> Ips \cup {NoIp}]
    BY DEF AppInv, LoopRuns, CallbackContract, TypeInv, TypeOK, ConnTypes, TaskTypes
<1>1. /\ t \in asyncs /\ running /\ i \in TaskIds /\ st[i] = "none" /\ pc[t] = "waiting"
      /\ UNCHANGED <<running, loop, pc, connTo, connTable, nextConn, cid, appUp, contract>>
    BY DEF async_cb_connect, AsyncRuns, loopVars, callVars, appVars, TypeInv, IdsGiven, ConnInv,
        PendingConnect
<1>2. /\ tt \in [TaskIds -> Callers \cup {NoThread}] /\ tt[i] = t
      /\ \A c \in TaskIds \ {i} : tt[c] = taskTable[c]
    BY <1>0, <1>1
<1>3. CASE result # "ok"
    <2>1. PICK err : cl_finish_task(t, err, task[t].out, tt, {})
        BY <1>3 DEF async_cb_connect
    <2>2. TableShrinks
        <3>1. \A c \in TaskIds : tt[c] = taskTable[c] \/ c = task[t].id
            BY <1>2
        <3> HIDE DEF tt
        <3> QED BY <1>2, <2>1, <3>1, FinishShrinks
    <2>3. /\ \A c \in TaskIds : st'[c] = st[c] \/ st'[c] = "closing"
          /\ \A c \in TaskIds : connIp'[c] = connIp[c] \/ st'[c] \notin {"connecting", "open"}
        <3>1. /\ st' = [st EXCEPT ![i] = IF result = "connect_failed" THEN "closing" ELSE @]
              /\ connIp' = [connIp EXCEPT ![i] = IF result = "connect_failed" THEN connTo[t] ELSE @]
            BY <1>3 DEF async_cb_connect, ConnectResults
        <3> HIDE DEF i
        <3> QED BY <1>0, <1>1, <3>1
    <2> QED BY <1>0, <1>1, <2>2, <2>3, AppKept DEF ConnToKept, OpenKnown
<1>4. CASE result = "ok"
    <2>1. /\ taskTable' = tt /\ ~cl_conn_find2(connTo[t])
          /\ st' = [st EXCEPT ![i] = "connecting"] /\ connIp' = [connIp EXCEPT ![i] = connTo[t]]
        BY <1>4 DEF async_cb_connect
    <2> HIDE DEF i
    <2>2. /\ st'[i] = "connecting" /\ connIp'[i] = connTo[t] /\ taskTable'[i] = t
          /\ \A c \in TaskIds \ {i} :
                st'[c] = st[c] /\ connIp'[c] = connIp[c] /\ taskTable'[c] = taskTable[c]
        BY <1>0, <1>1, <1>2, <2>1
    <2>3. ~IdsReused' /\ UpGiven'
        BY <1>0, <1>1 DEF IdsReused, UpGiven
    <2>4. NoIdYet' /\ OpenKnown' /\ LoopRuns' /\ CallbackContract'
        BY <1>0, <1>1, <2>2 DEF NoIdYet, OpenKnown, LoopRuns, CallbackContract
    <2>5. ConnectorIps'
        BY <1>0, <1>1, <2>2 DEF ConnectorIps
    <2>6. ASSUME NEW c \in TaskIds \ {i}, st[c] \in {"connecting", "open"} PROVE connIp[c] # connTo[t]
        <3>1. CASE st[c] = "open"
            BY <1>0, <2>1, <3>1 DEF OpenKnown, cl_conn_find2, TaskIds, NoConn
        <3>2. CASE st[c] = "connecting"
            <4>1. taskTable[c] \in Connectors /\ taskTable[c] # t
                BY <1>1, <3>2 DEF ConnInv, ConnectTimerSafe, ConnectorTable
            <4>2. connTo[t] # NoIp
                BY <1>0, <1>1 DEF ConnectorIps
            <4> QED BY <1>0, <3>2, <4>1, <4>2 DEF ConnectorIps
        <3> QED BY <2>6, <3>1, <3>2
    <2>7. OneConnPerIp'
        BY <1>0, <2>2, <2>6 DEF OneConnPerIp
    <2> QED BY <2>3, <2>4, <2>5, <2>7 DEF AppInv
<1> QED BY <1>3, <1>4

\* connect_cb, when the id it hands out is a new one.
LEMMA AppConnected ==
    ASSUME TypeInv, ConnInv, AppInv, ConnInv', ~IdsReused',
           NEW c \in TaskIds, NEW connected \in BOOLEAN, connect_cb(c, connected)
    PROVE  AppInv'
<1> USE ThreadAssumption
<1> DEFINE t  == taskTable[c]
           tt == [taskTable EXCEPT ![c] = NoThread]
           k  == ConnIdOf(nextConn)
<1>0. /\ running => loop = "run"
      /\ loop # "run" => \A d \in TaskIds : st[d] \notin {"connecting", "open"}
      /\ contract /\ OpenKnown /\ ~IdsReused /\ UpGiven /\ OneConnPerIp /\ ConnectorIps /\ NoIdYet
      /\ taskTable \in [TaskIds -> Callers \cup {NoThread}] /\ ConnTableSafe
      /\ st \in [TaskIds -> {"none", "connecting", "open", "closing", "freed"}]
      /\ cid \in [TaskIds -> 0 .. MaxConnId] /\ nextConn \in 0 .. MaxConnId
      /\ connTable \in [ConnIds -> TaskIds \cup {NoConn}] /\ appUp \in SUBSET ConnIds
    BY DEF AppInv, LoopRuns, CallbackContract, TypeInv, TypeOK, ConnTypes, TaskTypes, ConnInv
<1>1. UNCHANGED <<running, loop, pc, connTo, connIp>>
    BY DEF connect_cb, loopVars, callVars
<1>2. /\ tt \in [TaskIds -> Callers \cup {NoThread}]
      /\ \A d \in TaskIds : tt[d] = taskTable[d] \/ tt[d] \notin Connectors
    BY <1>0
<1>3. TableShrinks
    <2>1. CASE UNCHANGED taskTable
        BY <2>1 DEF TableShrinks
    <2>2. CASE \E err : cl_finish_task(t, err, task[t].out, tt, {})
        <3> HIDE DEF tt, t
        <3> QED BY <1>2, <2>2, FinishShrinks
    <2> QED BY <2>1, <2>2 DEF connect_cb, taskVars
<1>4. CASE t = NoThread \/ ~connected
    <2>1. /\ UNCHANGED <<connTable, nextConn, cid, appUp, contract>>
          /\ \A d \in TaskIds : st'[d] = st[d] \/ st'[d] = "closing"
        BY <1>0, <1>4 DEF connect_cb, appVars
    <2> QED BY <1>0, <1>1, <1>3, <2>1, AppKept DEF ConnToKept, OpenKnown
<1>5. CASE t # NoThread /\ connected
    <2>1. /\ nextConn' = ConnCounterAfter(nextConn, MaxConnId) /\ cid' = [cid EXCEPT ![c] = k]
          /\ connTable' = cl_conn_add(k, c) /\ contract' = (contract /\ loop = "run" /\ k \notin appUp)
          /\ appUp' = appUp \cup {k} /\ st' = [st EXCEPT ![c] = "open"] /\ st[c] = "connecting"
        BY <1>5 DEF connect_cb, Callback
    <2>2. cid[c] = INVALID_CONNID /\ loop = "run"
        BY <1>0, <2>1 DEF NoIdYet
    <2>3. k \in ConnIds /\ k # INVALID_CONNID
        BY <1>0, BoundAssumption DEF ConnIdOf, ConnIds, INVALID_CONNID
    <2> HIDE DEF k, tt, t
    <2>4. /\ cid'[c] = k /\ st'[c] = "open"
          /\ \A d \in TaskIds \ {c} : cid'[d] = cid[d] /\ st'[d] = st[d]
        BY <1>0, <2>1
    <2>5. \A d \in TaskIds : cid[d] # k
        BY <2>2, <2>3, <2>4 DEF IdsReused
    <2>6. k \notin appUp
        BY <1>0, <2>5 DEF UpGiven
    <2>7. connTable[k] = NoConn
        BY <1>0, <2>3, <2>5 DEF ConnTableSafe
    <2>8. connTable'[k] = c /\ \A j \in ConnIds \ {k} : connTable'[j] = connTable[j]
        BY <1>0, <2>1, <2>3, <2>7 DEF cl_conn_add
    <2>9. UpGiven'
        <3>1. \A d \in TaskIds : cid[d] # INVALID_CONNID => cid'[d] = cid[d]
            BY <2>2, <2>4
        <3>2. ASSUME NEW j \in appUp PROVE \E d \in TaskIds : cid'[d] = j
            <4>1. PICK d \in TaskIds : cid[d] = j
                BY <1>0 DEF UpGiven
            <4>2. j # INVALID_CONNID
                BY <1>0 DEF ConnIds, INVALID_CONNID
            <4> QED BY <3>1, <4>1, <4>2
        <3> QED BY <2>1, <2>4, <3>2 DEF UpGiven
    <2>10. NoIdYet' /\ LoopRuns'
        BY <1>0, <1>1, <2>2, <2>4 DEF NoIdYet, LoopRuns
    <2>11. OpenKnown'
        BY <1>0, <2>1, <2>3, <2>4, <2>5, <2>8 DEF OpenKnown
    <2>12. ConnectorIps'
        <3>1. ASSUME NEW d \in TaskIds, st'[d] = "connecting"
              PROVE  connIp'[d] = connTo'[taskTable'[d]]
            <4>1. st[d] = "connecting" /\ taskTable'[d] \in Connectors
                BY <2>4, <3>1 DEF ConnInv, ConnectTimerSafe
            <4> QED BY <1>0, <1>1, <1>3, <4>1 DEF TableShrinks, ConnectorIps
        <3> QED BY <1>0, <1>1, <3>1 DEF ConnectorIps
    <2>13. OneConnPerIp'
        BY <1>0, <1>1, <2>1, <2>4 DEF OneConnPerIp
    <2>14. CallbackContract'
        BY <1>0, <2>1, <2>2, <2>6 DEF CallbackContract
    <2> QED BY <2>9, <2>10, <2>11, <2>12, <2>13, <2>14 DEF AppInv
<1> QED BY <1>4, <1>5

\* A connection gets its id once, in connect_cb, so that reused ids stay so.
LEMMA IdsStay ==
    ASSUME TypeInv, ConnInv, NoIdYet, [Next]_vars
    PROVE  NoIdYet' /\ (IdsReused => IdsReused')
<1> USE ThreadAssumption
<1>0. /\ st \in [TaskIds -> {"none", "connecting", "open", "closing", "freed"}]
      /\ cid \in [TaskIds -> 0 .. MaxConnId]
    BY DEF TypeInv, TypeOK, ConnTypes
<1>1. ASSUME UNCHANGED cid, \A c \in TaskIds :
                st'[c] \in {"none", "connecting"} => st[c] \in {"none", "connecting"}
      PROVE  NoIdYet' /\ (IdsReused => IdsReused')
    BY <1>1 DEF NoIdYet, IdsReused
<1>2. CASE UNCHANGED connVars
    BY <1>1, <1>2 DEF connVars
<1>3. CASE CallStep
    BY <1>2, <1>3 DEF CallStep, ssn_startup_client, ssn_send, ssn_connect, cl_create_async, async_post,
        CallReturn, ssn_shutdown_client, async_close_client, CloseReturn, uninit_client_loop
<1>4. ASSUME NEW t \in Connectors, NEW result \in ConnectResults, async_cb_connect(t, result)
      PROVE  NoIdYet' /\ (IdsReused => IdsReused')
    <2>1. /\ UNCHANGED cid /\ t \in asyncs /\ st[task[t].id] = "none"
          /\ \A c \in TaskIds : c # task[t].id => st'[c] = st[c]
        BY <1>0, <1>4 DEF async_cb_connect, AsyncRuns, ConnInv, PendingConnect
    <2> QED BY <1>1, <2>1
<1>5. CASE async_cb_close
    <2>1. UNCHANGED cid /\ \A c \in TaskIds : st'[c] \in {st[c], "closing"}
        BY <1>0, <1>5 DEF async_cb_close
    <2> QED BY <1>1, <2>1
<1>6. ASSUME NEW i \in TaskIds, timer_cb(i) PROVE NoIdYet' /\ (IdsReused => IdsReused')
    <2>1. UNCHANGED cid /\ \A c \in TaskIds : st'[c] \in {st[c], "closing"}
        BY <1>0, <1>6 DEF timer_cb
    <2> QED BY <1>1, <2>1
<1>7. ASSUME NEW c \in TaskIds, read_cb_eof(c) \/ close_cb(c)
      PROVE  NoIdYet' /\ (IdsReused => IdsReused')
    <2>1. UNCHANGED cid /\ \A d \in TaskIds : st'[d] \in {st[d], "closing", "freed"}
        BY <1>0, <1>7 DEF read_cb_eof, close_cb
    <2> QED BY <1>1, <2>1
<1>8. ASSUME NEW c \in TaskIds, NEW connected \in BOOLEAN, connect_cb(c, connected)
      PROVE  NoIdYet' /\ (IdsReused => IdsReused')
    <2>1. CASE UNCHANGED cid /\ \A d \in TaskIds : st'[d] \in {st[d], "closing"}
        BY <1>1, <2>1
    <2>2. CASE /\ st[c] = "connecting" /\ st' = [st EXCEPT ![c] = "open"]
               /\ cid' = [cid EXCEPT ![c] = ConnIdOf(nextConn)]
        <3>1. /\ st'[c] = "open" /\ cid[c] = INVALID_CONNID
              /\ \A d \in TaskIds \ {c} : st'[d] = st[d] /\ cid'[d] = cid[d]
            BY <1>0, <2>2 DEF NoIdYet
        <3> QED BY <3>1 DEF NoIdYet, IdsReused
    <2> QED BY <1>0, <1>8, <2>1, <2>2 DEF connect_cb
<1>9. CASE LoopStep
    <2>1. ASSUME NEW c \in TaskIds, read_cb_push(c) PROVE UNCHANGED connVars
        BY <2>1 DEF read_cb_push
    <2>2. CASE \/ \E t \in Threads : async_cb_not_ready(t)
               \/ \E t \in Senders, wrote \in BOOLEAN : async_cb_rw(t, wrote)
               \/ \E w \in writes : write_cb(w)
               \/ \E q \in peer : read_cb_common(q[1], q[2])
               \/ LoopExit
        BY <1>2, <2>2 DEF async_cb_not_ready, async_cb_rw, write_cb, read_cb_common, LoopExit
    <2> QED BY <1>2, <1>4, <1>5, <1>6, <1>7, <1>8, <1>9, <2>1, <2>2 DEF LoopStep
<1>10. ASSUME NEW w \in writes, Flush(w) PROVE UNCHANGED connVars
    BY <1>10 DEF Flush
<1>11. CASE UNCHANGED vars
    BY <1>2, <1>11 DEF vars, connVars
<1> QED BY <1>2, <1>3, <1>9, <1>10, <1>11 DEF Next

\* Until ids are reused, every state has AppInv.
LEMMA AppInvHolds == Spec => [](NoIdYet /\ (IdsReused \/ AppInv))
<1> DEFINE Inv == NoIdYet /\ (IdsReused \/ AppInv)
<1>1. Init => Inv
    <2> SUFFICES ASSUME Init PROVE NoIdYet /\ AppInv
        OBVIOUS
    <2>1. /\ \A c \in TaskIds : st[c] = "none" /\ cid[c] = INVALID_CONNID
          /\ appUp = {} /\ ~running /\ contract
          /\ \A t \in Connectors : connTo[t] = NoIp /\ pc[t] = "idle"
        BY DEF Init
    <2> QED BY <2>1 DEF AppInv, IdsReused, UpGiven, NoIdYet, OpenKnown, ConnectorIps, LoopRuns,
            OneConnPerIp, CallbackContract
<1>2. TypeInv /\ ConnInv /\ Inv /\ (TypeInv /\ ConnInv)' /\ [Next]_vars => Inv'
    <2> SUFFICES ASSUME TypeInv, ConnInv, Inv, ConnInv', [Next]_vars PROVE Inv'
        OBVIOUS
    <2>1. NoIdYet' /\ (IdsReused => IdsReused')
        BY IdsStay
    <2>2. ASSUME AppInv, ~IdsReused' PROVE AppInv'
        <3>1. CASE UNCHANGED vars
            BY <2>2, <3>1, AppQuiet DEF vars, loopVars, callVars, taskVars, TableShrinks, ConnToKept,
                AppInv, LoopRuns
        <3>2. ASSUME NEW w \in writes, Flush(w) PROVE AppInv'
            BY <2>2, <3>2, AppTasks
        <3>3. CASE LoopStep
            BY <2>2, <3>3, AppTasks, AppCloses, AppConnect, AppConnected DEF LoopStep
        <3> QED BY <2>2, <3>1, <3>2, <3>3, AppCallers DEF Next
    <2> QED BY <2>1, <2>2
<1> QED BY <1>1, <1>2, ConnInvInductive, PTL DEF Spec

\* The list reqs of the bridge, ssn_connect_is_exist and the second test in _do_connect
\* exclude two connections to one server until connection ids wrap around.  (After that
\* cl_conn_add refuses an id that is taken, and the connection is open but not in the table,
\* where both tests look.)
THEOREM OneConnPerIpCorrect == Spec => []OneConnPerIp
<1>1. IdsReused \/ AppInv => OneConnPerIp
    BY DEF AppInv, OneConnPerIp
<1> QED BY <1>1, AppInvHolds, PTL

\* connect_cb, read_cb and close_cb report each connection up and down once and in turn, push
\* messages only while it is up, and nothing after the shutdown, until connection ids wrap
\* around.
THEOREM CallbackContractCorrect == Spec => []CallbackContract
<1>1. IdsReused \/ AppInv => CallbackContract
    BY DEF AppInv, CallbackContract
<1> QED BY <1>1, AppInvHolds, PTL
-----------------------------------------------------------------------------
(* Answers and completions.                                                *)

\* The task id in a request names the call of the thread that sent it, or none.
RequestOwner ==
    /\ \A w \in writes : \A t \in Callers : task[t].id = w.id => t = w.thr
    /\ \A p \in peer : \A t \in Callers : task[t].id = p[2].id => t = p[2].thr

\* A call of ssn_send whose error is zero has the answer to its own request, if no answer
\* to its thread has overtaken a write callback.
ZeroIsOwn ==
    \A t \in Senders \ overtaken : task[t].err = "ok" => task[t].out = [thr |-> t, id |-> task[t].id]

AnswerInv == RequestOwner /\ ZeroIsOwn

\* What _cl_finish_task assigns: the error and the answer of one task, whose semaphore
\* it posts.
LEMMA FinishAssigns ==
    ASSUME TypeInv, NEW t \in Threads, NEW err, NEW out, NEW tt, NEW ids,
           cl_finish_task(t, err, out, tt, ids)
    PROVE  /\ task'[t].err = err /\ task'[t].out = out /\ task'[t].id = task[t].id
           /\ \A u \in Threads : u # t => task'[u] = task[u] /\ sem'[u] = sem[u]
<1>1. task \in [Threads -> Task] /\ sem \in [Threads -> Nat] /\ task[t] \in Task
    BY DEF TypeInv, TypeOK, TaskTypes
<1> QED BY <1>1 DEF cl_finish_task, Task

\* Steps that give no task a new id, send requests only for the calls that have their
\* ids, and complete a call without an error only with its own answer.
LEMMA AnswerKept ==
    ASSUME TypeInv, AnswerInv, overtaken \subseteq overtaken',
           \A t \in Callers : task'[t].id = task[t].id,
           \A t \in Senders \ overtaken' : task'[t].err = "ok" =>
                \/ task[t].err = "ok" /\ task'[t].out = task[t].out
                \/ task'[t].out = [thr |-> t, id |-> task[t].id],
           \A w \in writes' :
                \/ \E v \in writes : v.thr = w.thr /\ v.id = w.id
                \/ \A t \in Callers : task[t].id = w.id => t = w.thr,
           \A p \in peer' :
                \/ p \in peer
                \/ \E v \in writes : p[2].thr = v.thr /\ p[2].id = v.id
    PROVE  AnswerInv'
<1>1. RequestOwner'
    BY DEF AnswerInv, RequestOwner
<1>2. ZeroIsOwn'
    BY DEF AnswerInv, ZeroIsOwn
<1> QED BY <1>1, <1>2 DEF AnswerInv

\* Steps that leave the network and the callers' tasks alone.
LEMMA AnswerQuiet ==
    ASSUME TypeInv, AnswerInv, \A t \in Callers : task'[t] = task[t], UNCHANGED netVars
    PROVE  AnswerInv'
BY AnswerKept DEF netVars

\* Steps that finish a task with an error and leave the network alone.
LEMMA AnswerFinish ==
    ASSUME TypeInv, AnswerInv, writes' \subseteq writes, UNCHANGED <<peer, overtaken>>,
           NEW t \in Threads, NEW err, err # "ok", NEW tt, NEW ids,
           cl_finish_task(t, err, task[t].out, tt, ids)
    PROVE  AnswerInv'
BY FinishAssigns, AnswerKept

\* Every step keeps the facts about answers.
LEMMA AnswerInvStep ==
    ASSUME TypeInv, ConnInv, CallInv, AnswerInv, [Next]_vars
    PROVE  AnswerInv'
<1> USE ThreadAssumption
<1>0. /\ task \in [Threads -> Task] /\ taskTable \in [TaskIds -> Callers \cup {NoThread}]
      /\ DistinctIds /\ SenderIds /\ nextTask \in 0 .. MaxTask
      /\ writes \in SUBSET WriteReq /\ peer \in SUBSET (TaskIds \X Request)
    BY DEF TypeInv, TypeOK, TaskTypes, CallTypes, ConnInv
<1>1. ASSUME NEW t \in Callers, NEW b \in BOOLEAN, async_post(t, b) PROVE AnswerInv'
    <2>1. /\ task'[t].id = nextTask /\ task'[t].err = "uninit"
          /\ \A u \in Callers : u # t => task'[u] = task[u]
          /\ UNCHANGED <<writes, peer, overtaken>>
        BY <1>0, <1>1 DEF async_post, netVars
    <2>2. /\ \A w \in writes : w.id < nextTask /\ w.id \in Int
          /\ \A p \in peer : p[2].id < nextTask /\ p[2].id \in Int
        BY <1>0 DEF SenderIds, WriteReq, Request, TaskIds
    <2>3. RequestOwner'
        BY <1>0, <2>1, <2>2 DEF AnswerInv, RequestOwner
    <2>4. ZeroIsOwn'
        BY <2>1 DEF AnswerInv, ZeroIsOwn
    <2> QED BY <2>3, <2>4 DEF AnswerInv
<1>2. ASSUME CallStep, ~ \E t \in Callers, b \in BOOLEAN : async_post(t, b) PROVE AnswerInv'
    <2>1. UNCHANGED netVars
        BY <1>2 DEF CallStep, ssn_startup_client, ssn_send, ssn_connect, cl_create_async, CallReturn,
            ssn_shutdown_client, async_close_client, CloseReturn, uninit_client_loop
    <2>2. \A t \in Callers : task'[t] = task[t]
        <3>1. ASSUME NEW err, async_close_client(err) PROVE \A t \in Callers : task'[t] = task[t]
            BY <1>0, <3>1 DEF async_close_client
        <3> QED BY <1>2, <3>1 DEF CallStep, ssn_startup_client, ssn_send, ssn_connect, cl_create_async,
                CallReturn, ssn_shutdown_client, CloseReturn, uninit_client_loop, taskVars
    <2> QED BY <2>1, <2>2, AnswerQuiet
<1>3. ASSUME NEW t \in Threads, async_cb_not_ready(t) PROVE AnswerInv'
    BY <1>3, AnswerFinish DEF async_cb_not_ready, netVars
<1>4. ASSUME NEW t \in Senders, NEW wrote \in BOOLEAN, async_cb_rw(t, wrote) PROVE AnswerInv'
    <2>1. CASE wrote
        <3>1. /\ UNCHANGED <<task, peer, overtaken>> /\ task[t].id \in TaskIds
              /\ \E c : writes' = writes \cup
                            {[thr |-> t, id |-> task[t].id, conn |-> c, sent |-> FALSE]}
            BY <1>4, <2>1 DEF async_cb_rw, AsyncRuns, TypeInv, IdsGiven
        <3>2. \A u \in Callers : task[u].id = task[t].id => u = t
            BY <1>0, <3>1 DEF DistinctIds
        <3>3. \A w \in writes' : w \in writes \/ (w.thr = t /\ w.id = task[t].id)
            BY <3>1
        <3> QED BY <3>1, <3>2, <3>3, AnswerKept
    <2>2. CASE ~wrote
        <3>1. PICK err, tt : err \in {"no_conn", "uv"} /\ cl_finish_task(t, err, task[t].out, tt, {})
            BY <1>4, <2>2 DEF async_cb_rw
        <3>2. UNCHANGED <<writes, peer, overtaken>>
            BY <1>4, <2>2 DEF async_cb_rw
        <3> QED BY <3>1, <3>2, AnswerFinish
    <2> QED BY <2>1, <2>2
<1>5. ASSUME NEW t \in Connectors, NEW result \in ConnectResults, async_cb_connect(t, result)
      PROVE  AnswerInv'
    <2>1. CASE result = "ok"
        BY <1>5, <2>1, AnswerQuiet DEF async_cb_connect
    <2>2. CASE result # "ok"
        <3>1. PICK err, tt : err \in {"exists", "uv"} /\ cl_finish_task(t, err, task[t].out, tt, {})
            BY <1>5, <2>2 DEF async_cb_connect
        <3>2. UNCHANGED <<writes, peer, overtaken>>
            BY <1>5 DEF async_cb_connect, netVars
        <3> QED BY <3>1, <3>2, AnswerFinish
    <2> QED BY <2>1, <2>2
<1>6. CASE async_cb_close
    <2>1. \A t \in Callers : task'[t] = task[t] \/ task'[t] = [task[t] EXCEPT !.err = "shutdown"]
        BY <1>6 DEF async_cb_close
    <2>2. \A t \in Callers : task'[t].id = task[t].id /\ (task'[t].err = "ok" => task'[t] = task[t])
        BY <1>0, <2>1 DEF Task
    <2>3. UNCHANGED <<writes, peer, overtaken>>
        BY <1>6 DEF async_cb_close, netVars
    <2> QED BY <2>2, <2>3, AnswerKept
<1>7. ASSUME NEW w \in writes, write_cb(w) PROVE AnswerInv'
    <2>1. w.thr \in Threads /\ writes' \subseteq writes /\ UNCHANGED <<peer, overtaken>>
        BY <1>0, <1>7 DEF write_cb, WriteReq
    <2>2. CASE cl_finish_task(w.thr, "uv", task[w.thr].out, taskTable, {})
        BY <2>1, <2>2, AnswerFinish
    <2>3. CASE UNCHANGED task
        BY <2>1, <2>3, AnswerKept
    <2> QED BY <1>7, <2>2, <2>3 DEF write_cb, taskVars
<1>8. ASSUME NEW i \in TaskIds, timer_cb(i) PROVE AnswerInv'
    <2>1. \A t \in Callers : task'[t] = task[t] \/ task'[t] = [task[t] EXCEPT !.err = "timeout"]
        BY <1>0, <1>8 DEF timer_cb
    <2>2. \A t \in Callers : task'[t].id = task[t].id /\ (task'[t].err = "ok" => task'[t] = task[t])
        BY <1>0, <2>1 DEF Task
    <2>3. UNCHANGED <<writes, peer, overtaken>>
        BY <1>8 DEF timer_cb, netVars
    <2> QED BY <2>2, <2>3, AnswerKept
<1>9. ASSUME NEW c \in TaskIds, NEW connected \in BOOLEAN, connect_cb(c, connected) PROVE AnswerInv'
    <2>1. UNCHANGED <<writes, peer, overtaken>>
        BY <1>9 DEF connect_cb, netVars
    <2>2. CASE taskTable[c] = NoThread
        BY <1>9, <2>1, <2>2, AnswerKept DEF connect_cb, taskVars
    <2>3. CASE taskTable[c] # NoThread
        <3>1. PICK err, tt :
                /\ err \in {"ok", "uv"}
                /\ cl_finish_task(taskTable[c], err, task[taskTable[c]].out, tt, {})
                /\ err = "ok" => connected
            BY <1>9, <2>3 DEF connect_cb
        <3>2. CASE connected
            <4>1. taskTable[c] \in Connectors
                BY <1>9, <3>2 DEF connect_cb, ConnInv, ConnectTimerSafe
            <4>2. \A u \in Senders : u # taskTable[c]
                BY <4>1
            <4> QED BY <2>1, <3>1, <4>1, <4>2, FinishAssigns, AnswerKept
        <3>3. CASE ~connected
            BY <1>0, <2>1, <2>3, <3>1, <3>3, AnswerFinish
        <3> QED BY <3>2, <3>3
    <2> QED BY <2>2, <2>3
<1>10. ASSUME NEW p \in peer, read_cb_common(p[1], p[2]) PROVE AnswerInv'
    <2> DEFINE r == p[2]
               t == taskTable[r.id]
    <2>1. UNCHANGED <<writes, peer>> /\ overtaken \subseteq overtaken'
        BY <1>10 DEF read_cb_common
    <2>2. CASE t = NoThread
        BY <1>10, <2>1, <2>2, AnswerKept DEF read_cb_common
    <2>3. CASE t # NoThread
        <3>1. PICK tt, ids : cl_finish_task(t, "ok", r, tt, ids)
            BY <1>10, <2>3 DEF read_cb_common
        <3>2. r \in Request /\ r.id \in TaskIds /\ t \in Callers
            BY <1>0, <2>3 DEF Request
        <3>3. t \notin overtaken' => task[t].id = r.id
            BY <2>1, <3>2 DEF CallInv, CallOf, Filed, FrameAlive
        <3>4. t \notin overtaken' => t = r.thr
            BY <3>2, <3>3 DEF AnswerInv, RequestOwner
        <3>5. t \notin overtaken' => r = [thr |-> t, id |-> task[t].id]
            BY <3>2, <3>3, <3>4 DEF Request
        <3> HIDE DEF t, r
        <3> QED BY <2>1, <3>1, <3>2, <3>5, FinishAssigns, AnswerKept
    <2> QED BY <2>2, <2>3
<1>11. ASSUME NEW c \in TaskIds, read_cb_eof(c) PROVE AnswerInv'
    <2>1. \A t \in Callers : task'[t] = task[t] \/ task'[t] = [task[t] EXCEPT !.err = "uv"]
        BY <1>11 DEF read_cb_eof, FinishLost
    <2>2. \A t \in Callers : task'[t].id = task[t].id /\ (task'[t].err = "ok" => task'[t] = task[t])
        BY <1>0, <2>1 DEF Task
    <2>3. UNCHANGED <<writes, peer, overtaken>>
        BY <1>11 DEF read_cb_eof, netVars
    <2> QED BY <2>2, <2>3, AnswerKept
<1>12. ASSUME NEW c \in TaskIds, read_cb_push(c) \/ close_cb(c) PROVE AnswerInv'
    BY <1>12, AnswerQuiet DEF read_cb_push, close_cb, taskVars
<1>13. CASE LoopExit \/ UNCHANGED vars
    BY <1>13, AnswerQuiet DEF LoopExit, vars, taskVars
<1>14. ASSUME NEW w \in writes, Flush(w) PROVE AnswerInv'
    <2>1. /\ UNCHANGED <<task, overtaken>>
          /\ writes' = (writes \ {w}) \cup {[w EXCEPT !.sent = TRUE]}
          /\ peer' = peer \cup {<<w.conn, [thr |-> w.thr, id |-> w.id]>>}
        BY <1>14 DEF Flush, taskVars
    <2>2. [w EXCEPT !.sent = TRUE].thr = w.thr /\ [w EXCEPT !.sent = TRUE].id = w.id
        BY <1>0 DEF WriteReq
    <2>3. \A v \in writes' : v \in writes \/ (v.thr = w.thr /\ v.id = w.id)
        BY <2>1, <2>2
    <2>4. \A p \in peer' : p \in peer \/ (p[2].thr = w.thr /\ p[2].id = w.id)
        BY <2>1
    <2> QED BY <2>1, <2>3, <2>4, AnswerKept
<1>15. CASE CallStep
    BY <1>1, <1>2, <1>15 DEF CallStep
<1>16. CASE LoopStep
    BY <1>3, <1>4, <1>5, <1>6, <1>7, <1>8, <1>9, <1>10, <1>11, <1>12, <1>13, <1>16 DEF LoopStep
<1> QED BY <1>13, <1>14, <1>15, <1>16 DEF Next

\* read_cb finds the task by the id in the package alone, yet a call of ssn_send that ends
\* with success holds the answer to its own request, however late or often the server
\* answers and whatever call the thread made before: unless an answer to that thread was
\* read before the write callback of its request, in which case write_cb starts a timer
\* for, or finishes, a later call of the thread.  Such an answer to one thread does no
\* harm to the others.
THEOREM ResponseMatchesCorrect == Spec => []ResponseMatches
<1>1. Init => AnswerInv
    BY DEF Init, AnswerInv, RequestOwner, ZeroIsOwn
<1>2. (TypeInv /\ ConnInv) /\ CallInv /\ AnswerInv /\ [Next]_vars => AnswerInv'
    BY AnswerInvStep
<1>3. AnswerInv => ResponseMatches
    BY DEF AnswerInv, ZeroIsOwn, ResponseMatches, OwnAnswer
<1> QED BY <1>1, <1>2, <1>3, ConnInvInductive, CallInvInductive, PTL DEF Spec

\* The step completes no call but those that wait, once, with the error assigned, on the
\* threads whose answers overtook no write callback.
CompletesOnce ==
    \A t \in Callers \ overtaken :
        sem'[t] > sem[t] => pc[t] = "waiting" /\ sem[t] = 0 /\ task'[t].err # "uninit"

\* Finishing the task of one call that waits is such a step.
LEMMA FinishOnce ==
    ASSUME TypeInv, NEW t \in Threads, NEW err, err # "uninit", NEW out, NEW tt, NEW ids,
           cl_finish_task(t, err, out, tt, ids),
           t \in Callers \ overtaken => pc[t] = "waiting" /\ sem[t] = 0
    PROVE  CompletesOnce
<1>1. \A u \in Threads : sem[u] \in Nat
    BY DEF TypeInv, TypeOK, TaskTypes
<1>2. \A u \in Threads : u # t => sem'[u] = sem[u]
    BY FinishAssigns
<1>3. task'[t].err = err
    BY FinishAssigns
<1> QED BY <1>1, <1>2, <1>3 DEF CompletesOnce

\* Every step is such a step until the client is shut down.
LEMMA CompletesOnceStep ==
    ASSUME TypeInv, ConnInv, CallInv, running, [Next]_vars
    PROVE  CompletesOnce
<1> USE ThreadAssumption
<1>0. /\ task \in [Threads -> Task] /\ taskTable \in [TaskIds -> Callers \cup {NoThread}]
      /\ sem \in [Threads -> Nat] /\ \A t \in Callers : sem[t] \in Nat
      /\ writes \in SUBSET WriteReq /\ peer \in SUBSET (TaskIds \X Request)
    BY DEF TypeInv, TypeOK, TaskTypes
<1>1. \A t \in Callers \ overtaken : t \in asyncs => pc[t] = "waiting" /\ sem[t] = 0
    BY DEF CallInv, CallOf, Posted
<1>2. \A i \in TaskIds : taskTable[i] \notin overtaken \cup {NoThread} =>
            pc[taskTable[i]] = "waiting" /\ sem[taskTable[i]] = 0
    BY <1>0 DEF CallInv, CallOf, Filed, FrameAlive
<1>3. ASSUME \A t \in Callers : ~(sem'[t] > sem[t]) PROVE CompletesOnce
    BY <1>3 DEF CompletesOnce
<1>4. ASSUME UNCHANGED sem PROVE CompletesOnce
    BY <1>0, <1>3, <1>4
<1>5. CASE CallStep
    <2>1. ASSUME NEW t \in Callers, NEW b, async_post(t, b) PROVE CompletesOnce
        BY <1>0, <1>3, <2>1 DEF async_post
    <2>2. ASSUME NEW t \in Callers, CallReturn(t) PROVE CompletesOnce
        BY <1>0, <1>3, <2>2 DEF CallReturn
    <2>3. ASSUME NEW err, async_close_client(err) PROVE CompletesOnce
        BY <1>0, <1>3, <2>3 DEF async_close_client
    <2>4. CASE CloseReturn
        BY <1>0, <1>3, <2>4 DEF CloseReturn
    <2>5. CASE ssn_startup_client \/ ssn_shutdown_client \/ uninit_client_loop
        BY <1>4, <2>5 DEF ssn_startup_client, ssn_shutdown_client, uninit_client_loop, taskVars
    <2>6. ASSUME NEW t, NEW x, ssn_send(t, x) \/ ssn_connect(t, x) \/ cl_create_async(t)
          PROVE  CompletesOnce
        BY <1>4, <2>6 DEF ssn_send, ssn_connect, cl_create_async, taskVars
    <2> QED BY <1>5, <2>1, <2>2, <2>3, <2>4, <2>5, <2>6 DEF CallStep
<1>6. ASSUME NEW t \in Threads, async_cb_not_ready(t) PROVE CompletesOnce
    BY <1>1, <1>6, FinishOnce DEF async_cb_not_ready, AsyncRuns
<1>7. ASSUME NEW t \in Senders, NEW wrote \in BOOLEAN, async_cb_rw(t, wrote) PROVE CompletesOnce
    <2>1. CASE wrote
        BY <1>4, <1>7, <2>1 DEF async_cb_rw
    <2>2. CASE ~wrote
        <3>1. PICK err, tt : err \in {"no_conn", "uv"} /\ cl_finish_task(t, err, task[t].out, tt, {})
            BY <1>7, <2>2 DEF async_cb_rw
        <3>2. t \in asyncs
            BY <1>7 DEF async_cb_rw, AsyncRuns
        <3> QED BY <1>1, <3>1, <3>2, FinishOnce
    <2> QED BY <2>1, <2>2
<1>8. ASSUME NEW t \in Connectors, NEW result \in ConnectResults, async_cb_connect(t, result)
      PROVE  CompletesOnce
    <2>1. CASE result = "ok"
        BY <1>4, <1>8, <2>1 DEF async_cb_connect
    <2>2. CASE result # "ok"
        <3>1. PICK err, tt : err \in {"exists", "uv"} /\ cl_finish_task(t, err, task[t].out, tt, {})
            BY <1>8, <2>2 DEF async_cb_connect
        <3>2. t \in asyncs
            BY <1>8 DEF async_cb_connect, AsyncRuns
        <3> QED BY <1>1, <3>1, <3>2, FinishOnce
    <2> QED BY <2>1, <2>2
<1>9. CASE async_cb_close
    <2>1. ASSUME NEW t \in Callers \ overtaken, sem'[t] > sem[t]
          PROVE  pc[t] = "waiting" /\ sem[t] = 0 /\ task'[t].err # "uninit"
        <3>1. PICK i \in TaskIds : taskTable[i] = t
            BY <1>0, <1>9, <2>1 DEF async_cb_close
        <3>2. task'[t] = [task[t] EXCEPT !.err = "shutdown"]
            BY <1>9, <3>1 DEF async_cb_close
        <3>3. task'[t].err = "shutdown"
            BY <1>0, <3>2 DEF Task
        <3> QED BY <1>2, <3>1, <3>3
    <2> QED BY <2>1 DEF CompletesOnce
<1>10. ASSUME NEW w \in writes, write_cb(w) PROVE CompletesOnce
    <2>1. /\ w.thr \in Callers
          /\ w.thr \notin overtaken => pc[w.thr] = "waiting" /\ sem[w.thr] = 0
        BY <1>0 DEF WriteReq, CallInv, CallOf, Writing
    <2>2. CASE cl_finish_task(w.thr, "uv", task[w.thr].out, taskTable, {})
        BY <2>1, <2>2, FinishOnce
    <2> QED BY <1>4, <1>10, <2>2 DEF write_cb, taskVars
<1>11. ASSUME NEW i \in TaskIds, timer_cb(i) PROVE CompletesOnce
    <2> DEFINE t == taskTable[i]
    <2>1. CASE t = NoThread
        BY <1>4, <1>11, <2>1 DEF timer_cb
    <2>2. CASE t # NoThread
        <3>1. /\ task' = [task EXCEPT ![t] = [task[t] EXCEPT !.err = "timeout"]]
              /\ sem' = [sem EXCEPT ![t] = sem[t] + 1]
            BY <1>11, <2>2 DEF timer_cb
        <3>2. t \in Callers /\ (t \notin overtaken => pc[t] = "waiting" /\ sem[t] = 0)
            BY <1>0, <1>2, <2>2
        <3> HIDE DEF t
        <3>3. task'[t].err = "timeout"
            BY <1>0, <3>1, <3>2 DEF Task
        <3>4. \A u \in Callers : u # t => sem'[u] = sem[u]
            BY <1>0, <3>1
        <3> QED BY <1>0, <3>2, <3>3, <3>4 DEF CompletesOnce
    <2> QED BY <2>1, <2>2
<1>12. ASSUME NEW c \in TaskIds, NEW connected \in BOOLEAN, connect_cb(c, connected)
       PROVE  CompletesOnce
    <2>1. CASE taskTable[c] = NoThread
        BY <1>4, <1>12, <2>1 DEF connect_cb, taskVars
    <2>2. CASE taskTable[c] # NoThread
        <3>1. PICK err, tt : err \in {"ok", "uv"} /\
                cl_finish_task(taskTable[c], err, task[taskTable[c]].out, tt, {})
            BY <1>12, <2>2 DEF connect_cb
        <3>2. taskTable[c] \in Callers
            BY <1>0, <2>2
        <3> QED BY <1>2, <2>2, <3>1, <3>2, FinishOnce
    <2> QED BY <2>1, <2>2
<1>13. ASSUME NEW p \in peer, read_cb_common(p[1], p[2]) PROVE CompletesOnce
    <2> DEFINE i == p[2].id
    <2>1. i \in TaskIds
        BY <1>0 DEF Request
    <2>2. CASE taskTable[i] = NoThread
        BY <1>4, <1>13, <2>2 DEF read_cb_common
    <2>3. CASE taskTable[i] # NoThread
        <3>1. PICK tt, ids : cl_finish_task(taskTable[i], "ok", p[2], tt, ids)
            BY <1>13, <2>3 DEF read_cb_common
        <3>2. taskTable[i] \in Callers
            BY <1>0, <2>1, <2>3
        <3> HIDE DEF i
        <3> QED BY <1>2, <2>1, <2>3, <3>1, <3>2, FinishOnce
    <2> QED BY <2>2, <2>3
<1>14. ASSUME NEW c \in TaskIds, read_cb_push(c) \/ read_cb_eof(c) \/ close_cb(c) PROVE CompletesOnce
    BY <1>4, <1>14 DEF read_cb_push, read_cb_eof, FinishLost, close_cb, taskVars
<1>15. CASE LoopExit \/ (\E w \in writes : Flush(w)) \/ UNCHANGED vars
    BY <1>4, <1>15 DEF LoopExit, Flush, vars, taskVars
<1>16. CASE LoopStep
    BY <1>6, <1>7, <1>8, <1>9, <1>10, <1>11, <1>12, <1>13, <1>14, <1>15, <1>16 DEF LoopStep
<1> QED BY <1>5, <1>15, <1>16 DEF Next

\* Answer, timeout, failed write, failed connect and shutdown race for every call; until the
\* client is shut down at most one of them posts its semaphore, while the call waits and with
\* the error field assigned, on every thread none of whose answers overtook a write callback.
THEOREM CompletedOnceCorrect == Spec => CompletedOnce
<1>1. (TypeInv /\ ConnInv) /\ CallInv /\ [Next]_vars
        => [running => \A t \in Callers \ overtaken :
                sem'[t] > sem[t] => pc[t] = "waiting" /\ sem[t] = 0 /\ task'[t].err # "uninit"]_vars
    BY CompletesOnceStep DEF CompletesOnce
<1> QED BY <1>1, ConnInvInductive, CallInvInductive, PTL DEF Spec, CompletedOnce
=============================================================================
