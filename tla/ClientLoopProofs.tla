-------------------------- MODULE ClientLoopProofs --------------------------
(***************************************************************************)
(* Proofs about ClientLoop, for all sets of threads and addresses, all     *)
(* bounds and all environments.                                            *)
(***************************************************************************)
EXTENDS ClientLoop, TLAPS

\* A timer of the table runs, so that stopping it leaves a natural number.
TimersRun == \A i \in timerTable : armed[i] > 0

\* A task that was posted, or whose write is outstanding, has an id.
IdsGiven ==
    /\ \A t \in asyncs : task[t].id \in TaskIds
    /\ \A w \in writes : task[w.thr].id \in TaskIds

TypeInv == TypeOK /\ TimersRun /\ IdsGiven

\* The step gives no task a new id.
IdsKept == \A t \in Threads : task'[t].id = task[t].id

USE DEF Threads, Callers
-----------------------------------------------------------------------------
(* Types.                                                                  *)

\* The generator never hands out zero, and its counter stays in range.
LEMMA ConnCounterType ==
    ASSUME NEW k \in 0 .. MaxConnId
    PROVE  /\ ConnIdOf(k) \in ConnIds
           /\ ConnCounterAfter(k, MaxConnId) \in 0 .. MaxConnId
BY BoundAssumption DEF ConnIdOf, ConnCounterAfter, INVALID_CONNID, ConnIds

\* What a step leaves alone keeps its type.
LEMMA UnchangedTypes ==
    ASSUME TypeInv
    PROVE  /\ UNCHANGED loopVars => LoopTypes'
           /\ UNCHANGED callVars => CallTypes'
           /\ UNCHANGED taskVars => TaskTypes' /\ TimersRun'
           /\ UNCHANGED connVars => ConnTypes'
           /\ UNCHANGED netVars => (writes \in SUBSET WriteReq)'
                                   /\ (peer \in SUBSET (TaskIds \X Request))'
                                   /\ (overtaken \in SUBSET Senders)'
           /\ UNCHANGED overtaken => (overtaken \in SUBSET Senders)'
           /\ UNCHANGED appVars => (appUp \in SUBSET ConnIds)' /\ (contract \in BOOLEAN)'
           /\ UNCHANGED asyncs => (asyncs \in SUBSET Threads)'
           /\ UNCHANGED writes => (writes \in SUBSET WriteReq)'
           /\ UNCHANGED peer => (peer \in SUBSET (TaskIds \X Request))'
           /\ UNCHANGED appUp => (appUp \in SUBSET ConnIds)'
           /\ UNCHANGED crashed => (crashed \in BOOLEAN)'
           /\ UNCHANGED task => IdsKept
           /\ UNCHANGED taskVars => IdsKept
           /\ IdsKept /\ UNCHANGED asyncs /\ UNCHANGED writes => IdsGiven'
           /\ IdsKept /\ UNCHANGED asyncs /\ UNCHANGED netVars => IdsGiven'
<1>1. UNCHANGED loopVars => LoopTypes'
    BY DEF TypeInv, TypeOK, LoopTypes, loopVars
<1>2. UNCHANGED callVars => CallTypes'
    BY DEF TypeInv, TypeOK, CallTypes, callVars
<1>3. UNCHANGED taskVars => TaskTypes' /\ TimersRun'
    BY DEF TypeInv, TypeOK, TaskTypes, TimersRun, taskVars
<1>4. UNCHANGED connVars => ConnTypes'
    BY DEF TypeInv, TypeOK, ConnTypes, connVars
<1>5. IdsKept /\ UNCHANGED asyncs /\ (UNCHANGED writes \/ UNCHANGED netVars) => IdsGiven'
    BY DEF TypeInv, TypeOK, IdsGiven, IdsKept, WriteReq, netVars
<1>6. (UNCHANGED task => IdsKept) /\ (UNCHANGED taskVars => IdsKept)
    BY DEF IdsKept, taskVars
<1> QED BY <1>1, <1>2, <1>3, <1>4, <1>5, <1>6 DEF TypeInv, TypeOK, netVars, appVars

\* A step that posts nothing keeps IdsGiven if it writes only for posted tasks.
LEMMA IdsGivenStep ==
    ASSUME TypeInv, IdsKept, asyncs' \in SUBSET asyncs,
           \A w \in writes' : w.thr \in asyncs \/ \E v \in writes : v.thr = w.thr
    PROVE  IdsGiven'
BY DEF TypeInv, TypeOK, IdsGiven, IdsKept, WriteReq

\* Assigning the error, or error and answer, of a task object leaves a task object.
LEMMA TaskFieldTypes ==
    ASSUME NEW x \in Task, NEW err \in Errors, NEW out \in Request \cup {NoRequest}
    PROVE  /\ [x EXCEPT !.err = err] \in Task
           /\ [x EXCEPT !.err = err, !.out = out] \in Task
           /\ x.out \in Request \cup {NoRequest} /\ x.id \in TaskIds \cup {NoTask}
BY DEF Task

\* _cl_finish_task keeps the tables in shape.
LEMMA FinishType ==
    ASSUME TypeInv, NEW t \in Threads, NEW err \in Errors,
           NEW out \in Request \cup {NoRequest},
           NEW tt \in [TaskIds -> Callers \cup {NoThread}], NEW ids \in SUBSET TaskIds,
           cl_finish_task(t, err, out, tt, ids)
    PROVE  TaskTypes' /\ TimersRun' /\ IdsKept
<1> DEFINE i == task[t].id
<1>0. /\ task \in [Threads -> Task] /\ sem \in [Threads -> Nat]
      /\ timerTable \in SUBSET TaskIds /\ armed \in [TaskIds -> Nat]
      /\ \A j \in timerTable : armed[j] > 0
    BY DEF TypeInv, TypeOK, TaskTypes, TimersRun
<1>1. task' \in [Threads -> Task]
    <2>1. [task[t] EXCEPT !.err = err, !.out = out] \in Task
        BY <1>0, TaskFieldTypes
    <2> QED BY <1>0, <2>1 DEF cl_finish_task
<1>2. sem' \in [Threads -> Nat]
    BY <1>0 DEF cl_finish_task
<1>3. taskTable' \in [TaskIds -> Callers \cup {NoThread}]
    BY DEF cl_finish_task
<1>4. timerTable' = timerTable \ (ids \cup {i})
      /\ armed' = [j \in TaskIds |-> IF j \in timerTable \cap (ids \cup {i})
                                     THEN armed[j] - 1 ELSE armed[j]]
    BY DEF cl_finish_task, CancelTimers
<1>5. timerTable' \in SUBSET TaskIds
    BY <1>0, <1>4
<1>6. armed' \in [TaskIds -> Nat]
    BY <1>0, <1>4
<1>7. TimersRun'
    BY <1>0, <1>4 DEF TimersRun
<1>8. IdsKept
    BY <1>0 DEF IdsKept, cl_finish_task, Task
<1> QED BY <1>1, <1>2, <1>3, <1>5, <1>6, <1>7, <1>8 DEF TaskTypes

\* Every step keeps the types.
LEMMA TypeInvStep == TypeInv /\ [Next]_vars => TypeInv'
<1> SUFFICES ASSUME TypeInv, [Next]_vars PROVE TypeInv'
    OBVIOUS
<1> USE BoundAssumption, ThreadAssumption, UnchangedTypes DEF TypeInv
<1>1. CASE ssn_startup_client
    <2>1. LoopTypes'
        BY <1>1 DEF TypeOK, LoopTypes, ssn_startup_client
    <2>2. IdsGiven'
        BY <1>1, IdsGivenStep DEF ssn_startup_client, netVars
    <2> QED BY <1>1, <2>1, <2>2 DEF TypeOK, ssn_startup_client
<1>2. ASSUME NEW t \in Senders, NEW k \in ConnIds, ssn_send(t, k) PROVE TypeInv'
    <2>1. CallTypes'
        BY <1>2 DEF TypeOK, CallTypes, ssn_send
    <2> QED BY <1>2, <2>1 DEF TypeOK, ssn_send
<1>3. ASSUME NEW t \in Connectors, NEW ip \in Ips, ssn_connect(t, ip) PROVE TypeInv'
    <2>1. CallTypes'
        BY <1>3 DEF TypeOK, CallTypes, ssn_connect
    <2> QED BY <1>3, <2>1 DEF TypeOK, ssn_connect
<1>4. ASSUME NEW t \in Senders \cup Connectors, cl_create_async(t) PROVE TypeInv'
    <2>1. CallTypes'
        BY <1>4 DEF TypeOK, CallTypes, cl_create_async, LeaveCall
    <2> QED BY <1>4, <2>1 DEF TypeOK, cl_create_async
<1>5. ASSUME NEW t \in Senders \cup Connectors, NEW b \in BOOLEAN, async_post(t, b)
      PROVE  TypeInv'
    <2>1. CallTypes'
        BY <1>5 DEF TypeOK, CallTypes, async_post, ApplyTaskId
    <2>2. [id |-> nextTask, timeout |-> b, err |-> "uninit", out |-> NoRequest] \in Task
        BY <1>5 DEF TypeOK, CallTypes, async_post, Task, Errors, TaskIds
    <2>3. TaskTypes' /\ TimersRun'
        BY <1>5, <2>2 DEF TypeOK, TaskTypes, TimersRun, async_post
    <2>4. IdsGiven'
        <3>1. task'[t].id = nextTask /\ nextTask \in TaskIds
            BY <1>5 DEF TypeOK, TaskTypes, CallTypes, async_post, TaskIds
        <3>2. \A u \in Threads \ {t} : task'[u] = task[u]
            BY <1>5 DEF TypeOK, TaskTypes, async_post
        <3>3. asyncs' = asyncs \cup {t} /\ writes' = writes
            BY <1>5 DEF async_post, netVars
        <3> QED BY <3>1, <3>2, <3>3 DEF TypeOK, IdsGiven, WriteReq
    <2> QED BY <1>5, <2>1, <2>3, <2>4 DEF TypeOK, async_post
<1>6. ASSUME NEW t \in Senders \cup Connectors, CallReturn(t) PROVE TypeInv'
    <2>1. CallTypes'
        BY <1>6 DEF TypeOK, CallTypes, CallReturn, LeaveCall
    <2>2. TaskTypes' /\ TimersRun'
        BY <1>6 DEF TypeOK, TaskTypes, TimersRun, CallReturn
    <2> QED BY <1>6, <2>1, <2>2 DEF TypeOK, CallReturn
<1>7. CASE ssn_shutdown_client
    <2>1. CallTypes'
        BY <1>7 DEF TypeOK, CallTypes, ssn_shutdown_client
    <2> QED BY <1>7, <2>1 DEF TypeOK, ssn_shutdown_client
<1>8. ASSUME NEW err \in {"ok", "uninit"}, async_close_client(err) PROVE TypeInv'
    <2>1. CallTypes'
        BY <1>8 DEF TypeOK, CallTypes, async_close_client
    <2>2. [id |-> 0, timeout |-> FALSE, err |-> err, out |-> NoRequest] \in Task
        BY DEF Task, Errors, TaskIds
    <2>3. TaskTypes' /\ TimersRun'
        BY <1>8, <2>2 DEF TypeOK, TaskTypes, TimersRun, async_close_client
    <2>4. IdsGiven'
        BY <1>8, <2>2 DEF TypeOK, TaskTypes, IdsGiven, WriteReq, async_close_client, netVars, TaskIds
    <2> QED BY <1>8, <2>1, <2>3, <2>4 DEF TypeOK, async_close_client
<1>9. CASE CloseReturn
    <2>1. CallTypes' /\ LoopTypes'
        BY <1>9 DEF TypeOK, CallTypes, LoopTypes, CloseReturn
    <2>2. TaskTypes' /\ TimersRun'
        BY <1>9 DEF TypeOK, TaskTypes, TimersRun, CloseReturn
    <2> QED BY <1>9, <2>1, <2>2 DEF TypeOK, CloseReturn
<1>10. CASE uninit_client_loop
    <2>1. CallTypes' /\ LoopTypes'
        BY <1>10 DEF TypeOK, CallTypes, LoopTypes, uninit_client_loop
    <2> QED BY <1>10, <2>1 DEF TypeOK, uninit_client_loop
<1>11. CASE LoopExit
    <2>1. LoopTypes'
        BY <1>11 DEF TypeOK, LoopTypes, LoopExit
    <2> QED BY <1>11, <2>1 DEF TypeOK, LoopExit
<1>12. CASE UNCHANGED vars
    BY <1>12 DEF TypeOK, vars
<1>13. ASSUME NEW t \in Threads, async_cb_not_ready(t) PROVE TypeInv'
    <2>1. cl_finish_task(t, "not_ready", task[t].out, taskTable, {})
        BY <1>13 DEF async_cb_not_ready
    <2>2. "not_ready" \in Errors /\ task[t].out \in Request \cup {NoRequest}
          /\ taskTable \in [TaskIds -> Callers \cup {NoThread}]
        BY DEF TypeOK, TaskTypes, Task, Errors
    <2>3. TaskTypes' /\ TimersRun' /\ IdsKept
        BY <2>1, <2>2, FinishType
    <2>4. IdsGiven'
        BY <1>13, <2>3, IdsGivenStep DEF async_cb_not_ready, AsyncRuns, netVars
    <2> QED BY <1>13, <2>3, <2>4 DEF TypeOK, async_cb_not_ready, AsyncRuns
<1>14. ASSUME NEW t \in Senders, NEW wrote \in BOOLEAN, async_cb_rw(t, wrote) PROVE TypeInv'
    <2> DEFINE tt == [taskTable EXCEPT ![task[t].id] = t]
    <2>1. tt \in [TaskIds -> Callers \cup {NoThread}]
        BY DEF TypeOK, TaskTypes
    <2>2. CASE wrote
        <3>1. task[t].id \in TaskIds /\ connTable[sendTo[t]] \in TaskIds
            BY <1>14, <2>2 DEF TypeOK, CallTypes, ConnTypes, IdsGiven, async_cb_rw, AsyncRuns
        <3>2. TaskTypes' /\ TimersRun'
            BY <1>14, <2>1, <2>2 DEF TypeOK, TaskTypes, TimersRun, async_cb_rw
        <3>3. writes' \in SUBSET WriteReq
            <4>1. [thr |-> t, id |-> task[t].id, conn |-> connTable[sendTo[t]], sent |-> FALSE]
                  \in WriteReq
                BY <3>1 DEF WriteReq
            <4> QED BY <1>14, <2>2, <4>1 DEF TypeOK, async_cb_rw
        <3>4. IdsGiven'
            BY <1>14, <2>2, IdsGivenStep DEF async_cb_rw, AsyncRuns
        <3> QED BY <1>14, <3>2, <3>3, <3>4 DEF TypeOK, async_cb_rw, AsyncRuns
    <2>3. CASE ~wrote
        <3>1. PICK err \in {"no_conn", "uv"} : cl_finish_task(t, err, task[t].out, tt, {})
            BY <1>14, <2>3 DEF async_cb_rw
        <3>2. err \in Errors /\ task[t].out \in Request \cup {NoRequest}
            BY DEF TypeOK, TaskTypes, Task, Errors
        <3>3. TaskTypes' /\ TimersRun' /\ IdsKept
            BY <2>1, <3>1, <3>2, FinishType
        <3>4. IdsGiven'
            BY <1>14, <2>3, <3>3, IdsGivenStep DEF async_cb_rw, AsyncRuns
        <3> QED BY <1>14, <2>3, <3>3, <3>4 DEF TypeOK, async_cb_rw, AsyncRuns
    <2> QED BY <2>2, <2>3
<1>15. ASSUME NEW t \in Connectors, NEW result \in ConnectResults, async_cb_connect(t, result)
       PROVE  TypeInv'
    <2> DEFINE tt == [taskTable EXCEPT ![task[t].id] = t]
    <2>1. tt \in [TaskIds -> Callers \cup {NoThread}]
        BY DEF TypeOK, TaskTypes
    <2>2. ConnTypes'
        <3>1. /\ UNCHANGED <<connTable, nextConn, cid>>
              /\ connTo[t] \in Ips \cup {NoIp}
            BY <1>15 DEF TypeOK, CallTypes, async_cb_connect
        <3>2. st' \in [TaskIds -> {"none", "connecting", "open", "closing", "freed"}]
            BY <1>15 DEF TypeOK, ConnTypes, async_cb_connect
        <3>3. connIp' \in [TaskIds -> Ips \cup {NoIp}]
            BY <1>15, <3>1 DEF TypeOK, ConnTypes, async_cb_connect
        <3>4. creq' \in [TaskIds -> BOOLEAN]
            BY <1>15 DEF TypeOK, ConnTypes, async_cb_connect
        <3> QED BY <3>1, <3>2, <3>3, <3>4 DEF TypeOK, ConnTypes
    <2>3. CASE result = "ok"
        <3>1. task[t].id \in TaskIds
            BY <1>15 DEF IdsGiven, async_cb_connect, AsyncRuns
        <3>2. task[t].timeout => StartTimer(task[t].id)
            BY <1>15, <2>3 DEF async_cb_connect
        <3>3. ~task[t].timeout => UNCHANGED <<timerTable, armed>>
            BY <1>15, <2>3 DEF async_cb_connect
        <3>4. /\ taskTable' \in [TaskIds -> Callers \cup {NoThread}]
              /\ UNCHANGED <<task, sem>>
            BY <1>15, <2>1, <2>3 DEF async_cb_connect
        <3>5. TaskTypes' /\ TimersRun'
            BY <3>1, <3>2, <3>3, <3>4 DEF TypeOK, TaskTypes, TimersRun, StartTimer
        <3>6. IdsGiven'
            BY <1>15, <3>4, IdsGivenStep DEF async_cb_connect, AsyncRuns, netVars
        <3> QED BY <1>15, <2>2, <3>5, <3>6 DEF TypeOK, async_cb_connect, AsyncRuns
    <2>4. CASE result # "ok"
        <3>1. PICK err \in {"exists", "uv"} : cl_finish_task(t, err, task[t].out, tt, {})
            BY <1>15, <2>4 DEF async_cb_connect
        <3>2. err \in Errors /\ task[t].out \in Request \cup {NoRequest}
            BY DEF TypeOK, TaskTypes, Task, Errors
        <3>3. TaskTypes' /\ TimersRun' /\ IdsKept
            BY <2>1, <3>1, <3>2, FinishType
        <3>4. IdsGiven'
            BY <1>15, <3>3, IdsGivenStep DEF async_cb_connect, AsyncRuns, netVars
        <3> QED BY <1>15, <2>2, <3>3, <3>4 DEF TypeOK, async_cb_connect, AsyncRuns
    <2> QED BY <2>3, <2>4
<1>16. CASE async_cb_close
    <2>1. task' \in [Threads -> Task]
        <3>1. \A t \in Threads : [task[t] EXCEPT !.err = "shutdown"] \in Task
            BY TaskFieldTypes DEF TypeOK, TaskTypes, Errors
        <3> QED BY <1>16, <3>1 DEF TypeOK, TaskTypes, async_cb_close
    <2>2. TaskTypes' /\ TimersRun'
        <3>1. armed' \in [TaskIds -> Nat] /\ timerTable' = {}
            BY <1>16 DEF TypeOK, TaskTypes, TimersRun, async_cb_close
        <3>2. sem' \in [Threads -> Nat]
            BY <1>16 DEF TypeOK, TaskTypes, async_cb_close
        <3>3. taskTable' \in [TaskIds -> Callers \cup {NoThread}]
            BY <1>16 DEF async_cb_close
        <3> QED BY <2>1, <3>1, <3>2, <3>3 DEF TaskTypes, TimersRun
    <2>3. ConnTypes' /\ LoopTypes'
        BY <1>16 DEF TypeOK, ConnTypes, LoopTypes, async_cb_close
    <2>4. IdsGiven'
        <3>1. IdsKept
            BY <1>16 DEF TypeOK, TaskTypes, Task, async_cb_close, IdsKept
        <3> QED BY <1>16, <3>1, IdsGivenStep DEF async_cb_close, AsyncRuns, netVars
    <2> QED BY <1>16, <2>2, <2>3, <2>4 DEF TypeOK, async_cb_close, AsyncRuns
<1>17. ASSUME NEW w \in writes, write_cb(w) PROVE TypeInv'
    <2>1. w.thr \in Threads
        BY DEF TypeOK, WriteReq
    <2>2. task[w.thr] \in Task /\ taskTable \in [TaskIds -> Callers \cup {NoThread}]
        BY <2>1 DEF TypeOK, TaskTypes
    <2>3. /\ task[w.thr].id \in TaskIds
          /\ "uv" \in Errors /\ task[w.thr].out \in Request \cup {NoRequest}
        BY <2>2 DEF Task, Errors, IdsGiven
    <2>4. CASE w.sent /\ UNCHANGED <<task, sem, taskTable, crashed>>
               /\ IF task[w.thr].timeout THEN StartTimer(task[w.thr].id)
                                         ELSE UNCHANGED <<timerTable, armed>>
        <3>1. TaskTypes' /\ TimersRun'
            BY <2>4, <2>3 DEF TypeOK, TaskTypes, TimersRun, StartTimer
        <3>2. IdsGiven'
            BY <1>17, <2>4, IdsGivenStep DEF write_cb
        <3> QED BY <1>17, <2>4, <3>1, <3>2 DEF TypeOK, write_cb
    <2>5. CASE cl_finish_task(w.thr, "uv", task[w.thr].out, taskTable, {}) /\ UNCHANGED crashed
        <3>1. TaskTypes' /\ TimersRun' /\ IdsKept
            BY <2>1, <2>2, <2>3, <2>5, FinishType
        <3>2. IdsGiven'
            BY <1>17, <3>1, IdsGivenStep DEF write_cb
        <3> QED BY <1>17, <2>5, <3>1, <3>2 DEF TypeOK, write_cb
    <2>6. CASE crashed' = TRUE /\ UNCHANGED taskVars
        <3>1. IdsGiven'
            BY <1>17, <2>6, IdsGivenStep DEF write_cb
        <3> QED BY <1>17, <2>6, <3>1 DEF TypeOK, write_cb
    <2> QED BY <1>17, <2>4, <2>5, <2>6 DEF write_cb
<1>18. ASSUME NEW i \in TaskIds, timer_cb(i) PROVE TypeInv'
    <2> DEFINE t == taskTable[i]
    <2>1. t \in Callers \cup {NoThread}
        BY DEF TypeOK, TaskTypes
    <2>2. task' \in [Threads -> Task] /\ sem' \in [Threads -> Nat] /\ IdsKept
        <3>1. CASE t = NoThread
            BY <1>18, <3>1 DEF TypeOK, TaskTypes, timer_cb
        <3>2. CASE t # NoThread
            <4>1. [task[t] EXCEPT !.err = "timeout"] \in Task
                BY <2>1, <3>2, TaskFieldTypes DEF TypeOK, TaskTypes, Errors
            <4>2. /\ task' = [task EXCEPT ![t] = [task[t] EXCEPT !.err = "timeout"]]
                  /\ sem' = [sem EXCEPT ![t] = sem[t] + 1]
                BY <1>18, <3>2 DEF timer_cb
            <4>3. /\ t \in Threads /\ task \in [Threads -> Task] /\ sem \in [Threads -> Nat]
                BY <2>1, <3>2 DEF TypeOK, TaskTypes
            <4>4. IdsKept
                BY <4>2, <4>3 DEF IdsKept, Task
            <4> HIDE DEF t
            <4> QED BY <4>1, <4>2, <4>3, <4>4
        <3> QED BY <3>1, <3>2
    <2>3. TaskTypes' /\ TimersRun'
        <3> DEFINE done == IF t = NoThread THEN {i} ELSE {i, task[t].id}
        <3>1. /\ timerTable' = timerTable \ done /\ armed[i] > 0 /\ i \in done
              /\ armed' = [j \in TaskIds |-> IF j = i \/ j \in timerTable \cap done
                                             THEN armed[j] - 1 ELSE armed[j]]
              /\ taskTable' = [j \in TaskIds |-> IF j \in done THEN NoThread ELSE taskTable[j]]
            BY <1>18 DEF timer_cb
        <3> HIDE DEF t, done
        <3> QED BY <2>2, <3>1 DEF TypeOK, TaskTypes, TimersRun
    <2>4. ConnTypes'
        BY <1>18 DEF TypeOK, ConnTypes, timer_cb
    <2> QED BY <1>18, <2>2, <2>3, <2>4 DEF TypeOK, timer_cb
<1>19. ASSUME NEW c \in TaskIds, NEW connected \in BOOLEAN, connect_cb(c, connected) PROVE TypeInv'
    <2> DEFINE t == taskTable[c]
               tt == [taskTable EXCEPT ![c] = NoThread]
    <2>1. CASE t = NoThread
        <3>1. ConnTypes'
            BY <1>19, <2>1 DEF TypeOK, ConnTypes, connect_cb
        <3> QED BY <1>19, <2>1, <3>1 DEF TypeOK, connect_cb
    <2>2. CASE t # NoThread
        <3>1. PICK err \in {"ok", "uv"} : cl_finish_task(t, err, task[t].out, tt, {})
            BY <1>19, <2>2 DEF connect_cb
        <3>2. t \in Threads
            BY <2>2 DEF TypeOK, TaskTypes
        <3>3. /\ err \in Errors /\ task[t].out \in Request \cup {NoRequest}
              /\ tt \in [TaskIds -> Callers \cup {NoThread}]
            BY <3>2 DEF TypeOK, TaskTypes, Task, Errors
        <3>4. TaskTypes' /\ TimersRun' /\ IdsKept
            <4> HIDE DEF t, tt
            <4> QED BY <3>1, <3>2, <3>3, FinishType
        <3>5. /\ ConnIdOf(nextConn) \in ConnIds
              /\ ConnCounterAfter(nextConn, MaxConnId) \in 0 .. MaxConnId
            BY ConnCounterType DEF TypeOK, ConnTypes
        <3>6. CASE connected
            <4>1. ConnTypes'
                <5>1. /\ nextConn' = ConnCounterAfter(nextConn, MaxConnId)
                      /\ cid' = [cid EXCEPT ![c] = ConnIdOf(nextConn)]
                      /\ connTable' = cl_conn_add(ConnIdOf(nextConn), c)
                      /\ st' = [st EXCEPT ![c] = "open"]
                      /\ creq' = [creq EXCEPT ![c] = FALSE]
                      /\ UNCHANGED connIp
                    BY <1>19, <2>2, <3>6 DEF connect_cb
                <5>2. ConnIdOf(nextConn) \in 0 .. MaxConnId
                    BY <3>5 DEF ConnIds
                <5>3. connTable' \in [ConnIds -> TaskIds \cup {NoConn}]
                    BY <3>5, <5>1 DEF TypeOK, ConnTypes, cl_conn_add
                <5> QED BY <3>5, <5>1, <5>2, <5>3 DEF TypeOK, ConnTypes
            <4>2. (appUp \in SUBSET ConnIds)' /\ (contract \in BOOLEAN)'
                BY <1>19, <2>2, <3>5, <3>6 DEF TypeOK, connect_cb, Callback
            <4> QED BY <1>19, <3>4, <4>1, <4>2 DEF TypeOK, connect_cb
        <3>7. CASE ~connected
            <4>1. ConnTypes'
                BY <1>19, <2>2, <3>7 DEF TypeOK, ConnTypes, connect_cb
            <4> QED BY <1>19, <2>2, <3>4, <3>7, <4>1 DEF TypeOK, connect_cb
        <3> QED BY <3>6, <3>7
    <2> QED BY <2>1, <2>2
<1>20. ASSUME NEW p \in peer, read_cb_common(p[1], p[2]) PROVE TypeInv'
    <2> DEFINE i == p[2].id
               t == taskTable[i]
               tt == [taskTable EXCEPT ![i] = NoThread]
    <2>1. p[1] \in TaskIds /\ p[2] \in Request /\ i \in TaskIds
        BY DEF TypeOK, Request
    <2>0. (overtaken \in SUBSET Senders)'
        BY <1>20 DEF TypeOK, WriteReq, read_cb_common
    <2>2. CASE t = NoThread
        <3>1. CancelTimers({i}) /\ UNCHANGED <<task, sem, taskTable>>
            BY <1>20, <2>2 DEF read_cb_common
        <3>2. TaskTypes' /\ TimersRun'
            <4>1. timerTable' \in SUBSET TaskIds /\ TimersRun'
                BY <2>1, <3>1 DEF TypeOK, TaskTypes, TimersRun, CancelTimers
            <4>2. armed' \in [TaskIds -> Nat]
                BY <2>1, <3>1 DEF TypeOK, TaskTypes, TimersRun, CancelTimers
            <4> QED BY <3>1, <4>1, <4>2 DEF TypeOK, TaskTypes
        <3> QED BY <1>20, <2>0, <3>1, <3>2 DEF TypeOK, read_cb_common
    <2>3. CASE t # NoThread
        <3>1. cl_finish_task(t, "ok", p[2], tt, {i})
            BY <1>20, <2>3 DEF read_cb_common
        <3>2. /\ t \in Threads /\ "ok" \in Errors
              /\ tt \in [TaskIds -> Callers \cup {NoThread}]
            BY <2>1, <2>3 DEF TypeOK, TaskTypes, Errors
        <3>3. TaskTypes' /\ TimersRun' /\ IdsKept
            <4> HIDE DEF t, tt
            <4> QED BY <2>1, <3>1, <3>2, FinishType
        <3> QED BY <1>20, <2>0, <3>3 DEF TypeOK, read_cb_common
    <2> QED BY <2>2, <2>3
<1>21. ASSUME NEW c \in TaskIds, read_cb_push(c) PROVE TypeInv'
    BY <1>21 DEF TypeOK, read_cb_push, Callback
<1>22. ASSUME NEW c \in TaskIds, read_cb_eof(c) PROVE TypeInv'
    <2>1. task' \in [Threads -> Task]
        <3>1. \A t \in Threads : [task[t] EXCEPT !.err = "uv"] \in Task
            BY TaskFieldTypes DEF TypeOK, TaskTypes, Errors
        <3> QED BY <1>22, <3>1 DEF TypeOK, TaskTypes, read_cb_eof, FinishLost
    <2>2. TaskTypes' /\ TimersRun'
        BY <1>22, <2>1 DEF TypeOK, TaskTypes, TimersRun, read_cb_eof, FinishLost
    <2>3. ConnTypes'
        BY <1>22 DEF TypeOK, ConnTypes, read_cb_eof, cl_conn_del
    <2>4. crashed' \in BOOLEAN
        BY <1>22 DEF read_cb_eof, FinishLost
    <2>6. IdsKept
        <3>1. \A t \in Threads : [task[t] EXCEPT !.err = "uv"].id = task[t].id
            BY DEF TypeOK, TaskTypes, Task
        <3> QED BY <1>22, <3>1 DEF read_cb_eof, FinishLost, IdsKept
    <2>5. (appUp \in SUBSET ConnIds)' /\ (contract \in BOOLEAN)'
        BY <1>22 DEF TypeOK, read_cb_eof, Callback
    <2> QED BY <1>22, <2>2, <2>3, <2>4, <2>5, <2>6 DEF TypeOK, read_cb_eof, netVars
<1>23. ASSUME NEW c \in TaskIds, close_cb(c) PROVE TypeInv'
    <2>1. ConnTypes'
        BY <1>23 DEF TypeOK, ConnTypes, close_cb, cl_conn_del
    <2>2. (appUp \in SUBSET ConnIds)' /\ (contract \in BOOLEAN)'
        BY <1>23 DEF TypeOK, close_cb, Callback, appVars
    <2> QED BY <1>23, <2>1, <2>2 DEF TypeOK, close_cb
<1>24. ASSUME NEW w \in writes, Flush(w) PROVE TypeInv'
    <2>1. /\ [w EXCEPT !.sent = TRUE] \in WriteReq
          /\ <<w.conn, [thr |-> w.thr, id |-> w.id]>> \in TaskIds \X Request
        BY DEF TypeOK, WriteReq, Request
    <2>2. IdsGiven'
        <3>1. [w EXCEPT !.sent = TRUE].thr = w.thr
            BY DEF TypeOK, WriteReq
        <3> QED BY <1>24, <3>1, IdsGivenStep DEF Flush, taskVars
    <2> QED BY <1>24, <2>1, <2>2 DEF TypeOK, Flush
<1> QED
    BY <1>1, <1>2, <1>3, <1>4, <1>5, <1>6, <1>7, <1>8, <1>9, <1>10, <1>11, <1>12, <1>13,
       <1>14, <1>15, <1>16, <1>17, <1>18, <1>19, <1>20, <1>21, <1>22, <1>23, <1>24
    DEF Next, CallStep, LoopStep

\* The types hold before ssn_startup_client.
LEMMA InitTypeInv == Init => TypeInv
<1> SUFFICES ASSUME Init PROVE TypeInv
    OBVIOUS
<1>1. LoopTypes
    <2>1. inited = FALSE /\ running = FALSE /\ loop = "none" /\ starts = 0
        BY DEF Init
    <2>2. 0 \in 0 .. MaxStart
        BY BoundAssumption
    <2> QED BY <2>1, <2>2 DEF LoopTypes
<1>2. CallTypes
    BY BoundAssumption DEF Init, CallTypes, ConnIds
<1>3. TaskTypes /\ TimersRun
    <2>1. [id |-> NoTask, timeout |-> FALSE, err |-> "uninit", out |-> NoRequest] \in Task
        BY DEF Task, Errors
    <2> QED BY <2>1 DEF Init, TaskTypes, TimersRun
<1>4. ConnTypes
    BY BoundAssumption DEF Init, ConnTypes, INVALID_CONNID
<1> QED BY <1>1, <1>2, <1>3, <1>4 DEF Init, TypeInv, TypeOK, IdsGiven

\* Every behaviour of the client keeps the types; in particular no callback ever stops
\* a timer that does not run (_cl_finish_task, connect_cb, read_cb, timer_cb and
\* _client_shutdown all look the timer up first).
THEOREM TypeCorrect == Spec => []TypeOK
<1>1. TypeInv => TypeOK
    BY DEF TypeInv
<1> QED BY <1>1, InitTypeInv, TypeInvStep, PTL DEF Spec
-----------------------------------------------------------------------------
(* The connection table and the CONNECT timers, in every environment.      *)

\* No two calls have the same task id, and all ids were handed out.
DistinctIds ==
    /\ \A t, u \in Callers : task[t].id \in TaskIds /\ task[t].id = task[u].id => t = u
    /\ \A t \in Callers : task[t].id < nextTask

\* An id that was not handed out has no connection and no timer.
Fresh == \A i \in TaskIds : i >= nextTask => st[i] = "none" /\ armed[i] = 0

\* The id of an ssn_send never names a connection, and requests on the wire carry
\* ids of ssn_send.
SenderIds ==
    /\ \A t \in Senders : task[t].id \in TaskIds => st[task[t].id] = "none"
    /\ \A w \in writes : w.id < nextTask /\ \A t \in Connectors : task[t].id # w.id
    /\ \A p \in peer : p[2].id < nextTask /\ \A t \in Connectors : task[t].id # p[2].id

\* A posted CONNECT waits, has a timeout and has not touched anything yet.
PendingConnect ==
    \A t \in asyncs \cap Connectors :
        /\ pc[t] = "waiting" /\ sem[t] = 0 /\ task[t].timeout
        /\ st[task[t].id] = "none" /\ armed[task[t].id] = 0

\* A CONNECT of the task table waits and was not completed.
ConnectorTable ==
    \A c \in TaskIds : LET t == taskTable[c] IN
        t \in Connectors => /\ pc[t] = "waiting" /\ task[t].id = c
                            /\ sem[t] = 0 /\ t \notin asyncs

\* A connect request belongs to a handle that connects or is being closed.
ConnectRequests == \A c \in TaskIds : creq[c] => st[c] \in {"connecting", "closing"}

\* A CLOSE task is posted only to a running loop.
ClosePosted ==
    /\ pc[Main] = "admitted" => running /\ inited
    /\ Main \in asyncs => running /\ inited /\ pc[Main] = "waiting" /\ sem[Main] = 0

ConnInv ==
    /\ DistinctIds /\ Fresh /\ SenderIds /\ PendingConnect /\ ConnectorTable
    /\ ConnectRequests /\ ClosePosted
    /\ ConnTableSafe /\ ConnectTimerSafe

\* What _cl_finish_task of the task of thread t does, point by point.
LEMMA FinishEffect ==
    ASSUME TypeInv, NEW t \in Threads, NEW err \in Errors,
           NEW out \in Request \cup {NoRequest},
           NEW tt \in [TaskIds -> Callers \cup {NoThread}], NEW ids \in SUBSET TaskIds,
           cl_finish_task(t, err, out, tt, ids)
    PROVE  /\ \A u \in Threads : /\ task'[u].id = task[u].id
                                 /\ task'[u].timeout = task[u].timeout
                                 /\ u # t => sem'[u] = sem[u]
           /\ \A i \in TaskIds :
                taskTable'[i] = IF i = task[t].id THEN NoThread ELSE tt[i]
           /\ timerTable' = timerTable \ (ids \cup {task[t].id})
           /\ \A i \in TaskIds :
                armed'[i] = IF i \in timerTable /\ (i \in ids \/ i = task[t].id)
                            THEN armed[i] - 1 ELSE armed[i]
<1>1. \A u \in Threads : /\ task'[u].id = task[u].id /\ task'[u].timeout = task[u].timeout
                         /\ u # t => sem'[u] = sem[u]
    BY DEF TypeInv, TypeOK, TaskTypes, Task, cl_finish_task
<1>2. \A i \in TaskIds : taskTable'[i] = IF i = task[t].id THEN NoThread ELSE tt[i]
    BY DEF cl_finish_task
<1>3. /\ timerTable' = timerTable \ (ids \cup {task[t].id})
      /\ \A i \in TaskIds :
            armed'[i] = IF i \in timerTable /\ (i \in ids \/ i = task[t].id)
                        THEN armed[i] - 1 ELSE armed[i]
    BY DEF cl_finish_task, CancelTimers
<1> QED BY <1>1, <1>2, <1>3

\* Steps of the callers that post nothing: only pc and sem change.
LEMMA ConnInvCaller ==
    ASSUME TypeInv, ConnInv,
           UNCHANGED <<task, nextTask, st, armed, writes, peer, timerTable, taskTable, creq,
                       connTable, cid>>,
           asyncs' \in SUBSET asyncs,
           \A t \in Connectors : t \in asyncs \/ (\E c \in TaskIds : taskTable[c] = t)
                                 => pc'[t] = pc[t] /\ sem'[t] = sem[t],
           ClosePosted'
    PROVE  ConnInv'
<1>1. DistinctIds' /\ Fresh' /\ SenderIds'
    BY DEF ConnInv, DistinctIds, Fresh, SenderIds
<1>2. PendingConnect' /\ ConnectorTable'
    BY DEF ConnInv, PendingConnect, ConnectorTable
<1>3. ConnectRequests' /\ ConnTableSafe' /\ ConnectTimerSafe'
    BY DEF ConnInv, ConnectRequests, ConnTableSafe, ConnectTimerSafe
<1> QED BY <1>1, <1>2, <1>3 DEF ConnInv

\* Steps that concern only a call of ssn_send: they change the tables only at ids that
\* were handed out and belong neither to a connection nor to a connector.
LEMMA ConnInvSender ==
    ASSUME TypeInv, ConnInv,
           UNCHANGED <<nextTask, pc, st, creq, connTable, cid, running, inited>>,
           asyncs' \in SUBSET asyncs,
           \A t \in Threads : task'[t].id = task[t].id /\ task'[t].timeout = task[t].timeout,
           \A t \in Connectors \cup {Main} : sem'[t] = sem[t],
           \A i \in TaskIds :
                \/ /\ taskTable'[i] = taskTable[i] /\ armed'[i] = armed[i]
                   /\ i \in timerTable' <=> i \in timerTable
                \/ /\ st[i] = "none" /\ i < nextTask /\ taskTable'[i] \notin Connectors
                   /\ \A t \in Connectors : task[t].id # i,
           \A w \in writes' : w.id < nextTask /\ \A t \in Connectors : task[t].id # w.id,
           \A p \in peer' : p[2].id < nextTask /\ \A t \in Connectors : task[t].id # p[2].id
    PROVE  ConnInv'
<1>1. DistinctIds'
    BY DEF ConnInv, DistinctIds
<1>2. Fresh'
    BY DEF ConnInv, Fresh, TypeInv, TypeOK, CallTypes, TaskIds
<1>3. SenderIds'
    BY DEF ConnInv, SenderIds
<1>4. PendingConnect'
    BY DEF ConnInv, PendingConnect, TypeInv, IdsGiven
<1>5. ConnectorTable'
    BY DEF ConnInv, ConnectorTable
<1>6. ConnectRequests' /\ ConnTableSafe'
    BY DEF ConnInv, ConnectRequests, ConnTableSafe
<1>7. ClosePosted'
    BY DEF ConnInv, ClosePosted
<1>8. ConnectTimerSafe'
    BY DEF ConnInv, ConnectTimerSafe
<1> QED BY <1>1, <1>2, <1>3, <1>4, <1>5, <1>6, <1>7, <1>8 DEF ConnInv

\* Every step keeps the facts about connections.
LEMMA ConnInvStep == TypeInv /\ ConnInv /\ TypeInv' /\ [Next]_vars => ConnInv'
<1> SUFFICES ASSUME TypeInv, ConnInv, TypeInv', [Next]_vars PROVE ConnInv'
    OBVIOUS
<1> USE BoundAssumption, ThreadAssumption
<1>0. /\ \A t \in asyncs \cap Connectors : pc[t] = "waiting" /\ sem[t] = 0
      /\ \A c \in TaskIds : taskTable[c] \in Connectors
            => pc[taskTable[c]] = "waiting" /\ sem[taskTable[c]] = 0
      /\ ClosePosted
    BY DEF ConnInv, PendingConnect, ConnectorTable
<1>1. CASE ssn_startup_client
    BY <1>0, <1>1, ConnInvCaller DEF ssn_startup_client, callVars, taskVars, connVars, netVars,
        ClosePosted
<1>2. ASSUME NEW t \in Senders, NEW k \in ConnIds, ssn_send(t, k) PROVE ConnInv'
    BY <1>0, <1>2, ConnInvCaller DEF ssn_send, At, TypeInv, TypeOK, CallTypes, loopVars, taskVars,
        connVars, netVars, ClosePosted
<1>3. ASSUME NEW t \in Connectors, NEW ip \in Ips, ssn_connect(t, ip) PROVE ConnInv'
    BY <1>0, <1>3, ConnInvCaller DEF ssn_connect, At, TypeInv, TypeOK, CallTypes, loopVars, taskVars,
        connVars, netVars, ClosePosted
<1>4. ASSUME NEW t \in Senders \cup Connectors, cl_create_async(t) PROVE ConnInv'
    BY <1>0, <1>4, ConnInvCaller DEF cl_create_async, LeaveCall, At, TypeInv, TypeOK, CallTypes,
        loopVars, taskVars, connVars, netVars, ClosePosted
<1>6. ASSUME NEW t \in Senders \cup Connectors, CallReturn(t) PROVE ConnInv'
    BY <1>0, <1>6, ConnInvCaller DEF CallReturn, LeaveCall, At, TypeInv, TypeOK, CallTypes, TaskTypes,
        loopVars, connVars, netVars, ClosePosted
<1>7. CASE ssn_shutdown_client
    BY <1>0, <1>7, ConnInvCaller DEF ssn_shutdown_client, At, TypeInv, TypeOK, CallTypes, loopVars,
        taskVars, connVars, netVars, ClosePosted
<1>9. CASE CloseReturn
    BY <1>0, <1>9, ConnInvCaller DEF CloseReturn, At, TypeInv, TypeOK, CallTypes, TaskTypes,
        connVars, netVars, ClosePosted
<1>10. CASE uninit_client_loop
    BY <1>0, <1>10, ConnInvCaller DEF uninit_client_loop, At, TypeInv, TypeOK, CallTypes,
        taskVars, connVars, netVars, ClosePosted
<1>11. CASE LoopExit
    BY <1>0, <1>11, ConnInvCaller DEF LoopExit, callVars, taskVars, connVars, netVars, ClosePosted
<1>12. CASE UNCHANGED vars
    BY <1>0, <1>12, ConnInvCaller DEF vars, loopVars, callVars, taskVars, connVars, netVars, ClosePosted
<1>21. ASSUME NEW c \in TaskIds, read_cb_push(c) PROVE ConnInv'
    BY <1>0, <1>21, ConnInvCaller DEF read_cb_push, loopVars, callVars, taskVars, connVars, netVars,
        ClosePosted
<1>14. ASSUME NEW t \in Senders, NEW wrote \in BOOLEAN, async_cb_rw(t, wrote) PROVE ConnInv'
    <2> DEFINE i == task[t].id
               tt == [taskTable EXCEPT ![i] = t]
    <2>1. /\ t \in asyncs /\ asyncs' \in SUBSET asyncs
          /\ UNCHANGED <<nextTask, pc, st, creq, connTable, cid, running, inited, peer>>
        BY <1>14 DEF async_cb_rw, AsyncRuns, callVars, loopVars, connVars
    <2>2. /\ i \in TaskIds /\ st[i] = "none" /\ i < nextTask /\ t \notin Connectors
          /\ \A u \in Connectors : task[u].id # i
        BY <2>1 DEF TypeInv, IdsGiven, ConnInv, SenderIds, DistinctIds
    <2>3. tt \in [TaskIds -> Callers \cup {NoThread}]
        BY DEF TypeInv, TypeOK, TaskTypes
    <2>4. CASE wrote
        <3>1. /\ taskTable' = tt /\ UNCHANGED <<task, sem, timerTable, armed>>
              /\ \A w \in writes' : w \in writes \/ w.id = i
            BY <1>14, <2>4 DEF async_cb_rw
        <3>2. \A w \in writes' : w.id < nextTask /\ \A u \in Connectors : task[u].id # w.id
            BY <2>2, <3>1 DEF ConnInv, SenderIds
        <3>3. \A j \in TaskIds \ {i} : taskTable'[j] = taskTable[j]
            BY <3>1 DEF TypeInv, TypeOK, TaskTypes
        <3>4. taskTable'[i] = t
            BY <2>2, <3>1 DEF TypeInv, TypeOK, TaskTypes
        <3> HIDE DEF i
        <3> QED BY <2>1, <2>2, <3>1, <3>2, <3>3, <3>4, ConnInvSender DEF ConnInv, SenderIds
    <2>5. CASE ~wrote
        <3>1. PICK err \in {"no_conn", "uv"} : cl_finish_task(t, err, task[t].out, tt, {})
            BY <1>14, <2>5 DEF async_cb_rw
        <3>2. err \in Errors /\ task[t].out \in Request \cup {NoRequest} /\ writes' = writes
            BY <1>14, <2>5 DEF TypeInv, TypeOK, TaskTypes, Task, Errors, async_cb_rw
        <3>3. /\ \A u \in Threads : /\ task'[u].id = task[u].id /\ task'[u].timeout = task[u].timeout
                                    /\ u # t => sem'[u] = sem[u]
              /\ \A j \in TaskIds : taskTable'[j] = IF j = task[t].id THEN NoThread ELSE tt[j]
              /\ timerTable' = timerTable \ {task[t].id}
              /\ \A j \in TaskIds : armed'[j] = IF j \in timerTable /\ j = task[t].id
                                                THEN armed[j] - 1 ELSE armed[j]
            <4> HIDE DEF tt
            <4> QED BY <2>3, <3>1, <3>2, FinishEffect
        <3>4. \A j \in TaskIds \ {i} : taskTable'[j] = taskTable[j]
            BY <3>3 DEF TypeInv, TypeOK, TaskTypes
        <3> QED BY <2>1, <2>2, <3>2, <3>3, <3>4, ConnInvSender DEF ConnInv, SenderIds
    <2> QED BY <2>4, <2>5
<1>17. ASSUME NEW w \in writes, write_cb(w) PROVE ConnInv'
    <2> DEFINE t == w.thr
               i == task[t].id
    <2>1. /\ writes' \in SUBSET writes
          /\ UNCHANGED <<nextTask, pc, st, creq, connTable, cid, running, inited, peer, asyncs>>
        BY <1>17 DEF write_cb, callVars, loopVars, connVars
    <2>2. /\ t \in Senders /\ t \notin Connectors \cup {Main}
          /\ i \in TaskIds /\ st[i] = "none" /\ i < nextTask
          /\ \A u \in Connectors : task[u].id # i
        BY DEF TypeInv, TypeOK, WriteReq, IdsGiven, ConnInv, SenderIds, DistinctIds
    <2>3. CASE w.sent /\ UNCHANGED <<task, sem, taskTable, crashed>>
               /\ IF task[w.thr].timeout THEN StartTimer(task[w.thr].id)
                                         ELSE UNCHANGED <<timerTable, armed>>
        <3>1. \A j \in TaskIds \ {i} : armed'[j] = armed[j] /\ (j \in timerTable' <=> j \in timerTable)
            BY <2>3 DEF StartTimer, TypeInv, TypeOK, TaskTypes
        <3>2. taskTable'[i] = taskTable[i] /\ (taskTable[i] \in Connectors => FALSE)
            BY <2>2, <2>3 DEF ConnInv, ConnectorTable
        <3> QED BY <2>1, <2>2, <2>3, <3>1, <3>2, ConnInvSender DEF ConnInv, SenderIds
    <2>4. CASE cl_finish_task(w.thr, "uv", task[w.thr].out, taskTable, {})
        <3>1. /\ "uv" \in Errors /\ task[t].out \in Request \cup {NoRequest} /\ t \in Threads
              /\ taskTable \in [TaskIds -> Callers \cup {NoThread}]
            BY <2>2 DEF TypeInv, TypeOK, TaskTypes, Task, Errors
        <3>2. /\ \A u \in Threads : /\ task'[u].id = task[u].id /\ task'[u].timeout = task[u].timeout
                                    /\ u # t => sem'[u] = sem[u]
              /\ \A j \in TaskIds : taskTable'[j] = IF j = task[t].id THEN NoThread ELSE taskTable[j]
              /\ timerTable' = timerTable \ {task[t].id}
              /\ \A j \in TaskIds : armed'[j] = IF j \in timerTable /\ j = task[t].id
                                                THEN armed[j] - 1 ELSE armed[j]
            BY <2>4, <3>1, FinishEffect
        <3> QED BY <2>1, <2>2, <3>2, ConnInvSender DEF ConnInv, SenderIds
    <2>5. CASE UNCHANGED taskVars
        BY <2>1, <2>5, ConnInvSender DEF taskVars, ConnInv, SenderIds
    <2> QED BY <1>17, <2>3, <2>4, <2>5 DEF write_cb
<1>20. ASSUME NEW p \in peer, read_cb_common(p[1], p[2]) PROVE ConnInv'
    <2> DEFINE i == p[2].id
               t == taskTable[i]
               tt == [taskTable EXCEPT ![i] = NoThread]
    <2>1. UNCHANGED <<nextTask, pc, st, creq, connTable, cid, running, inited, peer, writes, asyncs>>
        BY <1>20 DEF read_cb_common, callVars, loopVars, connVars, netVars
    <2>2. /\ i \in TaskIds /\ i < nextTask /\ p[2] \in Request
          /\ \A u \in Connectors : task[u].id # i
        BY DEF TypeInv, TypeOK, Request, ConnInv, SenderIds
    <2>3. /\ t \notin Connectors /\ st[i] # "connecting"
          /\ st[i] # "none" => t = NoThread /\ i \notin timerTable
          /\ st[i] \in {"none", "connecting", "open", "closing", "freed"}
        BY <2>2 DEF ConnInv, ConnectorTable, ConnectTimerSafe, TypeInv, TypeOK, ConnTypes
    <2>4. CASE t = NoThread
        <3>1. CancelTimers({i}) /\ UNCHANGED <<task, sem, taskTable>>
            BY <1>20, <2>4 DEF read_cb_common
        <3>2. \A j \in TaskIds : j # i \/ j \notin timerTable
                    => armed'[j] = armed[j] /\ (j \in timerTable' <=> j \in timerTable)
            BY <3>1 DEF CancelTimers
        <3> HIDE DEF i
        <3> QED BY <2>1, <2>2, <2>3, <3>1, <3>2, ConnInvSender DEF ConnInv, SenderIds
    <2>5. CASE t # NoThread
        <3>1. cl_finish_task(t, "ok", p[2], tt, {i})
            BY <1>20, <2>5 DEF read_cb_common
        <3>2. /\ t \in Senders /\ t \notin Connectors \cup {Main} /\ t \in Threads /\ "ok" \in Errors
              /\ tt \in [TaskIds -> Callers \cup {NoThread}]
            BY <2>2, <2>3, <2>5 DEF TypeInv, TypeOK, TaskTypes, Errors
        <3>3. /\ \A u \in Threads : /\ task'[u].id = task[u].id /\ task'[u].timeout = task[u].timeout
                                    /\ u # t => sem'[u] = sem[u]
              /\ \A j \in TaskIds : taskTable'[j] = IF j = task[t].id THEN NoThread ELSE tt[j]
              /\ timerTable' = timerTable \ {i, task[t].id}
              /\ \A j \in TaskIds : armed'[j] = IF j \in timerTable /\ (j = i \/ j = task[t].id)
                                                THEN armed[j] - 1 ELSE armed[j]
            <4> HIDE DEF t, tt, i
            <4> QED BY <2>2, <3>1, <3>2, FinishEffect
        <3>4. task[t].id \in TaskIds => /\ st[task[t].id] = "none" /\ task[t].id < nextTask
                                        /\ \A u \in Connectors : task[u].id # task[t].id
            BY <3>2 DEF ConnInv, SenderIds, DistinctIds
        <3>5. \A j \in TaskIds : \/ taskTable'[j] = taskTable[j]
                                 \/ taskTable'[j] = NoThread /\ (j = i \/ j = task[t].id)
            BY <3>3 DEF TypeInv, TypeOK, TaskTypes
        <3>6. st[i] = "none"
            BY <2>3, <2>5
        <3> HIDE DEF t, i
        <3> QED BY <2>1, <2>2, <3>2, <3>3, <3>4, <3>5, <3>6, ConnInvSender DEF ConnInv, SenderIds
    <2> QED BY <2>4, <2>5
<1>24. ASSUME NEW w \in writes, Flush(w) PROVE ConnInv'
    <2>1. /\ UNCHANGED <<nextTask, pc, st, creq, connTable, cid, running, inited, asyncs>>
          /\ UNCHANGED <<task, sem, taskTable, timerTable, armed>>
        BY <1>24 DEF Flush, callVars, loopVars, connVars, taskVars
    <2>2. /\ \A v \in writes' : v \in writes \/ v.id = w.id
          /\ \A p \in peer' : p \in peer \/ p[2].id = w.id
        BY <1>24 DEF Flush, TypeInv, TypeOK, WriteReq
    <2> QED BY <2>1, <2>2, ConnInvSender DEF ConnInv, SenderIds
<1>5. ASSUME NEW t \in Senders \cup Connectors, NEW b \in BOOLEAN,
             t \in Connectors => b, async_post(t, b)
      PROVE  ConnInv'
    <2>1. /\ task'[t].id = nextTask /\ task'[t].timeout = b
          /\ nextTask \in TaskIds /\ nextTask \in Nat
          /\ sem'[t] = 0 /\ pc'[t] = "waiting"
          /\ t \in Threads /\ t # Main
        BY <1>5 DEF TypeInv, TypeOK, TaskTypes, CallTypes, async_post, TaskIds
    <2>2. \A u \in Threads \ {t} : task'[u] = task[u] /\ sem'[u] = sem[u] /\ pc'[u] = pc[u]
        BY <1>5 DEF TypeInv, TypeOK, TaskTypes, CallTypes, async_post
    <2>3. /\ nextTask' = nextTask + 1 /\ asyncs' = asyncs \cup {t}
          /\ UNCHANGED <<taskTable, timerTable, armed, st, creq, connTable, cid, writes, peer,
                         running, inited>>
        BY <1>5 DEF async_post, ApplyTaskId, connVars, netVars, loopVars
    <2>4. /\ \A u \in Callers : task[u].id < nextTask
          /\ st[nextTask] = "none" /\ armed[nextTask] = 0
          /\ \A c \in TaskIds : taskTable[c] # t \/ t \notin Connectors
        BY <1>5, <2>1 DEF ConnInv, DistinctIds, Fresh, ConnectorTable, async_post, At
    <2>5. \A u \in Callers : task[u].id \in Int
        BY DEF TypeInv, TypeOK, TaskTypes, Task, TaskIds, NoTask
    <2>6. DistinctIds'
        BY <2>1, <2>2, <2>3, <2>4, <2>5 DEF ConnInv, DistinctIds
    <2>7. Fresh'
        BY <2>1, <2>3 DEF ConnInv, Fresh, TaskIds
    <2>8. SenderIds'
        <3>1. \A u \in Senders : task'[u].id \in TaskIds => st'[task'[u].id] = "none"
            BY <2>1, <2>2, <2>3, <2>4 DEF ConnInv, SenderIds
        <3>2. \A w \in writes : w.id \in Int
            BY DEF TypeInv, TypeOK, WriteReq, TaskIds
        <3>3. \A p \in peer : p[2].id \in Int
            BY DEF TypeInv, TypeOK, Request, TaskIds
        <3>4. \A w \in writes : w.id < nextTask + 1 /\ \A u \in Connectors : task'[u].id # w.id
            BY <2>1, <2>2, <3>2 DEF ConnInv, SenderIds
        <3>5. \A p \in peer : p[2].id < nextTask + 1 /\ \A u \in Connectors : task'[u].id # p[2].id
            BY <2>1, <2>2, <3>3 DEF ConnInv, SenderIds
        <3> QED BY <2>3, <3>1, <3>4, <3>5 DEF SenderIds
    <2>9. PendingConnect'
        BY <1>5, <2>1, <2>2, <2>3, <2>4 DEF ConnInv, PendingConnect
    <2>10. ConnectorTable'
        BY <2>1, <2>2, <2>3, <2>4 DEF ConnInv, ConnectorTable
    <2>11. ClosePosted'
        BY <2>1, <2>2, <2>3 DEF ConnInv, ClosePosted
    <2>12. ConnectRequests' /\ ConnTableSafe' /\ ConnectTimerSafe'
        BY <2>3 DEF ConnInv, ConnectRequests, ConnTableSafe, ConnectTimerSafe
    <2> QED BY <2>6, <2>7, <2>8, <2>9, <2>10, <2>11, <2>12 DEF ConnInv
<1>8. ASSUME NEW err \in {"ok", "uninit"}, async_close_client(err) PROVE ConnInv'
    <2>1. /\ sem'[Main] = 0 /\ pc'[Main] = "waiting" /\ pc[Main] = "admitted"
          /\ \A u \in Threads \ {Main} : task'[u] = task[u] /\ sem'[u] = sem[u] /\ pc'[u] = pc[u]
        BY <1>8 DEF TypeInv, TypeOK, TaskTypes, CallTypes, async_close_client, At
    <2>2. /\ asyncs' = asyncs \cup {Main}
          /\ UNCHANGED <<nextTask, taskTable, timerTable, armed, st, creq, connTable, cid, writes,
                         peer, running, inited>>
        BY <1>8 DEF async_close_client, connVars, netVars, loopVars
    <2>3. Main \notin Callers /\ Callers \subseteq Threads \ {Main}
        OBVIOUS
    <2>4. DistinctIds' /\ Fresh' /\ SenderIds'
        BY <2>1, <2>2, <2>3 DEF ConnInv, DistinctIds, Fresh, SenderIds
    <2>5. PendingConnect' /\ ConnectorTable' /\ ClosePosted'
        BY <2>1, <2>2, <2>3 DEF ConnInv, PendingConnect, ConnectorTable, ClosePosted
    <2>6. ConnectRequests' /\ ConnTableSafe' /\ ConnectTimerSafe'
        BY <2>2 DEF ConnInv, ConnectRequests, ConnTableSafe, ConnectTimerSafe
    <2> QED BY <2>4, <2>5, <2>6 DEF ConnInv
<1>13. ASSUME NEW t \in Threads, async_cb_not_ready(t) PROVE ConnInv'
    <2> DEFINE i == task[t].id
    <2>1. /\ t \in asyncs /\ asyncs' = asyncs \ {t} /\ i \in TaskIds
          /\ ~running \/ ~inited
          /\ UNCHANGED <<nextTask, pc, st, creq, connTable, cid, running, inited, writes, peer>>
          /\ cl_finish_task(t, "not_ready", task[t].out, taskTable, {})
        BY <1>13 DEF async_cb_not_ready, AsyncRuns, callVars, loopVars, connVars, netVars, TypeInv, IdsGiven
    <2>2. t \in Callers /\ t # Main
        BY <1>0, <2>1 DEF ClosePosted
    <2>3. /\ "not_ready" \in Errors /\ task[t].out \in Request \cup {NoRequest} /\ t \in Threads
          /\ taskTable \in [TaskIds -> Callers \cup {NoThread}]
        BY DEF TypeInv, TypeOK, TaskTypes, Task, Errors
    <2>4. /\ \A u \in Threads : /\ task'[u].id = task[u].id /\ task'[u].timeout = task[u].timeout
                                /\ u # t => sem'[u] = sem[u]
          /\ \A j \in TaskIds : taskTable'[j] = IF j = i THEN NoThread ELSE taskTable[j]
          /\ timerTable' = timerTable \ {i}
          /\ \A j \in TaskIds : armed'[j] = IF j \in timerTable /\ j = i
                                            THEN armed[j] - 1 ELSE armed[j]
        BY <2>1, <2>3, FinishEffect
    <2>5. i < nextTask
        BY <2>2 DEF ConnInv, DistinctIds
    <2>6. CASE t \in Senders
        <3>1. t \notin Connectors \cup {Main} /\ st[i] = "none" /\ \A u \in Connectors : task[u].id # i
            BY <2>1, <2>6 DEF ConnInv, SenderIds, DistinctIds
        <3> HIDE DEF i
        <3> QED BY <2>1, <2>4, <2>5, <2>6, <3>1, ConnInvSender DEF ConnInv, SenderIds
    <2>7. CASE t \in Connectors
        <3>1. /\ st[i] = "none" /\ armed[i] = 0 /\ i \notin timerTable
              /\ \A c \in TaskIds : taskTable[c] # t
            BY <2>1, <2>7 DEF ConnInv, PendingConnect, ConnectorTable, TypeInv, TimersRun
        <3>2. \A j \in TaskIds : armed'[j] = armed[j] /\ timerTable' = timerTable
            BY <2>4, <3>1
        <3>3. DistinctIds' /\ Fresh' /\ SenderIds'
            BY <2>1, <2>4, <3>2 DEF ConnInv, DistinctIds, Fresh, SenderIds
        <3>4. PendingConnect'
            BY <2>1, <2>4, <3>2 DEF ConnInv, PendingConnect, TypeInv, IdsGiven
        <3>5. ConnectorTable' /\ ClosePosted'
            BY <2>1, <2>2, <2>4, <3>1 DEF ConnInv, ConnectorTable, ClosePosted
        <3>6. ConnectRequests' /\ ConnTableSafe'
            BY <2>1 DEF ConnInv, ConnectRequests, ConnTableSafe
        <3>7. ConnectTimerSafe'
            BY <2>1, <2>4, <3>1, <3>2 DEF ConnInv, ConnectTimerSafe
        <3> QED BY <3>3, <3>4, <3>5, <3>6, <3>7 DEF ConnInv
    <2> QED BY <2>2, <2>6, <2>7
<1>15. ASSUME NEW t \in Connectors, NEW result \in ConnectResults, async_cb_connect(t, result)
       PROVE  ConnInv'
    <2> DEFINE i == task[t].id
               tt == [taskTable EXCEPT ![i] = t]
    <2>1. /\ t \in asyncs /\ asyncs' = asyncs \ {t} /\ i \in TaskIds /\ i < nextTask
          /\ UNCHANGED <<nextTask, pc, connTable, cid, running, inited, writes, peer>>
        BY <1>15 DEF async_cb_connect, AsyncRuns, callVars, loopVars, netVars, TypeInv, IdsGiven,
            ConnInv, DistinctIds
    <2>2. /\ pc[t] = "waiting" /\ sem[t] = 0 /\ task[t].timeout
          /\ st[i] = "none" /\ armed[i] = 0 /\ i \notin timerTable
          /\ \A c \in TaskIds : taskTable[c] # t
        BY <2>1 DEF ConnInv, PendingConnect, ConnectorTable, TypeInv, TimersRun
    <2>3. /\ \A c \in TaskIds : tt[c] = IF c = i THEN t ELSE taskTable[c]
          /\ tt \in [TaskIds -> Callers \cup {NoThread}]
        BY DEF TypeInv, TypeOK, TaskTypes
    <2>4. /\ \A c \in TaskIds \ {i} : st'[c] = st[c] /\ creq'[c] = creq[c]
          /\ st'[i] \in {"none", "connecting", "closing"}
          /\ result = "ok" => st'[i] = "connecting" /\ creq'[i]
          /\ result # "ok" => st'[i] # "connecting" /\ ~creq'[i]
        <3>1. /\ st \in [TaskIds -> {"none", "connecting", "open", "closing", "freed"}]
              /\ creq \in [TaskIds -> BOOLEAN]
            BY DEF TypeInv, TypeOK, ConnTypes
        <3>2. creq' = [creq EXCEPT ![i] = (result = "ok")]
            BY <1>15 DEF async_cb_connect
        <3>3. /\ \A c \in TaskIds \ {i} : creq'[c] = creq[c]
              /\ creq'[i] = (result = "ok")
            BY <2>1, <3>1, <3>2
        <3>4. st' = [st EXCEPT ![i] = CASE result = "ok" -> "connecting"
                                        [] result = "connect_failed" -> "closing"
                                        [] OTHER -> @]
            BY <1>15 DEF async_cb_connect
        <3>5. /\ \A c \in TaskIds \ {i} : st'[c] = st[c]
              /\ st'[i] = CASE result = "ok" -> "connecting"
                             [] result = "connect_failed" -> "closing"
                             [] OTHER -> "none"
            <4> HIDE DEF i
            <4> QED BY <2>1, <2>2, <3>1, <3>4
        <3> HIDE DEF i
        <3> QED BY <3>3, <3>5
    <2>5. \A u \in Callers : u # t /\ task[u].id \in TaskIds => task[u].id # i
        BY <2>1 DEF ConnInv, DistinctIds
    <2>6. ConnTableSafe'
        BY <2>1, <2>2, <2>4 DEF ConnInv, ConnTableSafe, TypeInv, TypeOK, ConnTypes
    <2>7. ConnectRequests'
        BY <2>1, <2>4 DEF ConnInv, ConnectRequests
    <2>8. CASE result = "ok"
        <3>1. taskTable' = tt /\ UNCHANGED <<task, sem>> /\ StartTimer(i)
            BY <1>15, <2>2, <2>8 DEF async_cb_connect
        <3>2. /\ timerTable' = timerTable \cup {i} /\ armed'[i] = 1
              /\ \A c \in TaskIds \ {i} : armed'[c] = armed[c]
            BY <2>1, <2>2, <3>1 DEF StartTimer, TypeInv, TypeOK, TaskTypes
        <3> HIDE DEF tt, i
        <3>3. DistinctIds' /\ ClosePosted'
            BY <2>1, <3>1 DEF ConnInv, DistinctIds, ClosePosted
        <3>4. Fresh'
            BY <2>1, <2>4, <3>2 DEF ConnInv, Fresh, TypeInv, TypeOK, CallTypes, TaskIds
        <3>5. SenderIds'
            BY <2>1, <2>4, <2>5, <3>1 DEF ConnInv, SenderIds
        <3>6. PendingConnect'
            BY <2>1, <2>4, <2>5, <3>1, <3>2 DEF ConnInv, PendingConnect, TypeInv, IdsGiven
        <3>7. ConnectorTable'
            BY <2>1, <2>2, <2>3, <3>1 DEF ConnInv, ConnectorTable, i
        <3>8. ConnectTimerSafe'
            BY <2>1, <2>3, <2>4, <2>8, <3>1, <3>2 DEF ConnInv, ConnectTimerSafe
        <3> QED BY <2>6, <2>7, <3>3, <3>4, <3>5, <3>6, <3>7, <3>8 DEF ConnInv
    <2>9. CASE result # "ok"
        <3>1. PICK err \in {"exists", "uv"} : cl_finish_task(t, err, task[t].out, tt, {})
            BY <1>15, <2>9 DEF async_cb_connect
        <3>2. err \in Errors /\ task[t].out \in Request \cup {NoRequest}
            BY DEF TypeInv, TypeOK, TaskTypes, Task, Errors
        <3>3. /\ \A u \in Threads : /\ task'[u].id = task[u].id /\ task'[u].timeout = task[u].timeout
                                    /\ u # t => sem'[u] = sem[u]
              /\ \A c \in TaskIds : taskTable'[c] = IF c = task[t].id THEN NoThread ELSE tt[c]
              /\ timerTable' = timerTable \ {task[t].id}
              /\ \A c \in TaskIds : armed'[c] = IF c \in timerTable /\ c = task[t].id
                                                THEN armed[c] - 1 ELSE armed[c]
            <4> HIDE DEF tt
            <4> QED BY <2>3, <3>1, <3>2, FinishEffect
        <3>4. /\ timerTable' = timerTable /\ \A c \in TaskIds : armed'[c] = armed[c]
              /\ \A c \in TaskIds \ {i} : taskTable'[c] = taskTable[c]
              /\ taskTable'[i] = NoThread
            BY <2>1, <2>2, <2>3, <3>3
        <3>5. \A u \in Threads : task'[u].id = task[u].id /\ task'[u].timeout = task[u].timeout
                                 /\ (u # t => sem'[u] = sem[u])
            BY <3>3
        <3> HIDE DEF tt, i
        <3>6. DistinctIds' /\ ClosePosted'
            BY <2>1, <3>5 DEF ConnInv, DistinctIds, ClosePosted
        <3>7. Fresh'
            BY <2>1, <2>4, <3>4 DEF ConnInv, Fresh, TypeInv, TypeOK, CallTypes, TaskIds
        <3>8. SenderIds'
            BY <2>1, <2>4, <2>5, <3>5 DEF ConnInv, SenderIds
        <3>9. PendingConnect'
            BY <2>1, <2>4, <2>5, <3>4, <3>5 DEF ConnInv, PendingConnect, TypeInv, IdsGiven
        <3>10. ConnectorTable'
            BY <2>1, <2>2, <3>4, <3>5 DEF ConnInv, ConnectorTable
        <3>11. ConnectTimerSafe'
            BY <2>1, <2>2, <2>4, <2>9, <3>4 DEF ConnInv, ConnectTimerSafe
        <3> QED BY <2>6, <2>7, <3>6, <3>7, <3>8, <3>9, <3>10, <3>11 DEF ConnInv
    <2> QED BY <2>8, <2>9
<1>16. CASE async_cb_close
    <2> DEFINE waiting == {taskTable[i] : i \in TaskIds}
    <2>1. /\ asyncs' = asyncs \ {Main} /\ timerTable' = {}
          /\ UNCHANGED <<nextTask, pc, cid, creq, inited, writes, peer>>
          /\ \A k \in ConnIds : connTable'[k] = NoConn
          /\ \A i \in TaskIds : taskTable'[i] = NoThread
        BY <1>16 DEF async_cb_close, AsyncRuns, callVars, netVars
    <2>2. \A c \in TaskIds :
            /\ st'[c] = IF c \in ClosedAtShutdown /\ st[c] \in {"connecting", "open"}
                        THEN "closing" ELSE st[c]
            /\ armed'[c] = IF c \in timerTable THEN armed[c] - 1 ELSE armed[c]
        BY <1>16 DEF async_cb_close
    <2>3. \A u \in Threads : /\ task'[u].id = task[u].id /\ task'[u].timeout = task[u].timeout
                             /\ u \notin waiting \cup {Main} => sem'[u] = sem[u]
        BY <1>16 DEF async_cb_close, TypeInv, TypeOK, TaskTypes, Task
    <2>4. \A u \in asyncs \cap Connectors : u \notin waiting \cup {Main} /\ task[u].id \in TaskIds
        BY DEF ConnInv, ConnectorTable, TypeInv, IdsGiven
    <2>5. DistinctIds'
        BY <2>1, <2>3 DEF ConnInv, DistinctIds
    <2>6. Fresh'
        BY <2>1, <2>2 DEF ConnInv, Fresh, TypeInv, TimersRun
    <2>7. SenderIds'
        BY <2>1, <2>2, <2>3 DEF ConnInv, SenderIds
    <2>8. PendingConnect'
        BY <2>1, <2>2, <2>3, <2>4 DEF ConnInv, PendingConnect, TypeInv, TimersRun
    <2>9. ConnectorTable' /\ ConnTableSafe'
        BY <2>1 DEF ConnectorTable, ConnTableSafe
    <2>10. ConnectRequests'
        BY <2>1, <2>2 DEF ConnInv, ConnectRequests
    <2>11. ClosePosted'
        BY <1>0, <1>16, <2>1 DEF ClosePosted, async_cb_close, AsyncRuns
    <2>12. ConnectTimerSafe'
        BY <2>1, <2>2 DEF ConnInv, ConnectTimerSafe, ClosedAtShutdown, TypeInv, TypeOK, ConnTypes
    <2> QED BY <2>5, <2>6, <2>7, <2>8, <2>9, <2>10, <2>11, <2>12 DEF ConnInv
<1>18. ASSUME NEW i \in TaskIds, timer_cb(i) PROVE ConnInv'
    <2> DEFINE t == taskTable[i]
               done == IF t = NoThread THEN {i} ELSE {i, task[t].id}
    <2>1. /\ UNCHANGED <<nextTask, pc, creq, connTable, cid, running, inited, asyncs, writes, peer>>
          /\ timerTable' = timerTable \ done /\ armed[i] > 0
        BY <1>18 DEF timer_cb, callVars, loopVars, netVars
    <2>2. \A j \in TaskIds : /\ taskTable'[j] = IF j \in done THEN NoThread ELSE taskTable[j]
                             /\ armed'[j] = IF j = i \/ j \in timerTable \cap done
                                           THEN armed[j] - 1 ELSE armed[j]
                             /\ st'[j] = IF j = i /\ st[i] \in {"connecting", "open"}
                                         THEN "closing" ELSE st[j]
        BY <1>18 DEF timer_cb, TypeInv, TypeOK, TaskTypes, ConnTypes
    <2>3. \A u \in Threads : /\ task'[u].id = task[u].id /\ task'[u].timeout = task[u].timeout
                             /\ u # t => sem'[u] = sem[u]
        BY <1>18 DEF timer_cb, TypeInv, TypeOK, TaskTypes, Task
    <2>4. /\ st[i] \in {"none", "connecting"} /\ i < nextTask
          /\ st[i] = "connecting" => t \in Connectors /\ armed[i] = 1 /\ task[t].id = i
          /\ t \in Connectors => t \notin asyncs /\ task[t].id = i
          /\ t # Main
        <3>1. st[i] \in {"none", "connecting"}
            BY <2>1 DEF ConnInv, ConnectTimerSafe, TypeInv, TypeOK, ConnTypes
        <3>2. i < nextTask
            BY <2>1 DEF ConnInv, Fresh, TypeInv, TypeOK, CallTypes, TaskIds
        <3>3. st[i] = "connecting" => t \in Connectors /\ armed[i] = 1
            BY DEF ConnInv, ConnectTimerSafe
        <3>4. t \in Connectors => t \notin asyncs /\ task[t].id = i
            BY DEF ConnInv, ConnectorTable
        <3>5. t # Main
            BY DEF TypeInv, TypeOK, TaskTypes
        <3> QED BY <3>1, <3>2, <3>3, <3>4, <3>5
    <2>4a. /\ i \in done
           /\ \A j \in TaskIds : j \in done /\ j # i =>
                /\ st[j] = "none" /\ j < nextTask /\ taskTable[j] \notin Connectors
                /\ \A u \in Connectors : task[u].id # j
        <3> SUFFICES ASSUME NEW j \in TaskIds, j \in done, j # i
                     PROVE  /\ st[j] = "none" /\ j < nextTask /\ taskTable[j] \notin Connectors
                            /\ \A u \in Connectors : task[u].id # j
            OBVIOUS
        <3>1. t \in Senders /\ j = task[t].id
            BY <2>4 DEF TypeInv, TypeOK, TaskTypes
        <3>2. /\ st[j] = "none" /\ j < nextTask
              /\ \A u \in Connectors : task[u].id # j
            <4> HIDE DEF t
            <4> QED BY <3>1 DEF ConnInv, SenderIds, DistinctIds
        <3>3. taskTable[j] \notin Connectors
            BY <3>2 DEF ConnInv, ConnectorTable
        <3> QED BY <3>2, <3>3
    <2> HIDE DEF t, done
    <2>5. DistinctIds'
        BY <2>1, <2>3 DEF ConnInv, DistinctIds
    <2>6. Fresh'
        BY <2>1, <2>2, <2>4, <2>4a DEF ConnInv, Fresh, TypeInv, TypeOK, CallTypes, TaskIds
    <2>7. SenderIds'
        BY <2>1, <2>2, <2>3 DEF ConnInv, SenderIds
    <2>8. PendingConnect'
        <3> SUFFICES ASSUME NEW u \in asyncs \cap Connectors
                     PROVE  /\ pc[u] = "waiting" /\ sem'[u] = 0 /\ task'[u].timeout
                            /\ st'[task'[u].id] = "none" /\ armed'[task'[u].id] = 0
            BY <2>1 DEF PendingConnect
        <3>1. /\ pc[u] = "waiting" /\ sem[u] = 0 /\ task[u].timeout /\ task[u].id \in TaskIds
              /\ st[task[u].id] = "none" /\ armed[task[u].id] = 0
            BY DEF ConnInv, PendingConnect, TypeInv, IdsGiven
        <3>2. task[u].id \notin done /\ u # t
            BY <2>1, <2>4, <2>4a, <3>1
        <3> QED BY <2>2, <2>3, <2>4a, <3>1, <3>2
    <2>9. ConnectorTable'
        BY <2>1, <2>2, <2>3, <2>4, <2>4a DEF ConnInv, ConnectorTable
    <2>10. ConnectRequests' /\ ClosePosted'
        BY <2>1, <2>2, <2>3, <2>4, <2>4a DEF ConnInv, ConnectRequests, ClosePosted
    <2>11. ConnTableSafe'
        BY <2>1, <2>2, <2>4, <2>4a DEF ConnInv, ConnTableSafe, TypeInv, TypeOK, ConnTypes
    <2>12. ConnectTimerSafe'
        BY <2>1, <2>2, <2>4, <2>4a DEF ConnInv, ConnectTimerSafe
    <2> QED BY <2>5, <2>6, <2>7, <2>8, <2>9, <2>10, <2>11, <2>12 DEF ConnInv
<1>19. ASSUME NEW c \in TaskIds, NEW connected \in BOOLEAN, connect_cb(c, connected) PROVE ConnInv'
    <2> DEFINE t == taskTable[c]
               tt == [taskTable EXCEPT ![c] = NoThread]
    <2>1. /\ UNCHANGED <<nextTask, pc, running, inited, asyncs, writes, peer>>
          /\ creq[c] /\ ~creq'[c] /\ \A d \in TaskIds \ {c} : creq'[d] = creq[d]
        BY <1>19 DEF connect_cb, callVars, loopVars, netVars, TypeInv, TypeOK, ConnTypes
    <2>2. CASE t = NoThread
        <3>1. UNCHANGED <<task, sem, taskTable, timerTable, armed, connTable, st, cid>>
            BY <1>19, <2>2 DEF connect_cb, taskVars
        <3>2. DistinctIds' /\ Fresh' /\ SenderIds' /\ PendingConnect' /\ ConnectorTable'
              /\ ClosePosted' /\ ConnTableSafe'
            BY <2>1, <3>1 DEF ConnInv, DistinctIds, Fresh, SenderIds, PendingConnect,
                ConnectorTable, ClosePosted, ConnTableSafe
        <3>3. ConnectRequests' /\ ConnectTimerSafe'
            BY <2>1, <2>2, <3>1 DEF ConnInv, ConnectRequests, ConnectTimerSafe
        <3> QED BY <3>2, <3>3 DEF ConnInv
    <2>3. CASE t # NoThread
        <3>1. /\ st[c] = "connecting" /\ t \in Connectors /\ c \in timerTable /\ armed[c] = 1
              /\ task[t].id = c /\ t \notin asyncs /\ c < nextTask
            <4>1. st[c] = "connecting"
                BY <2>1, <2>3 DEF ConnInv, ConnectRequests, ConnectTimerSafe
            <4>2. t \in Connectors /\ c \in timerTable /\ armed[c] = 1
                BY <4>1 DEF ConnInv, ConnectTimerSafe
            <4>3. task[t].id = c /\ t \notin asyncs
                BY <4>2 DEF ConnInv, ConnectorTable
            <4>4. c < nextTask
                BY <4>2, <4>3 DEF ConnInv, DistinctIds
            <4> QED BY <4>1, <4>2, <4>3, <4>4
        <3>2. PICK err \in {"ok", "uv"} : cl_finish_task(t, err, task[t].out, tt, {})
            BY <1>19, <2>3 DEF connect_cb
        <3>3. /\ err \in Errors /\ task[t].out \in Request \cup {NoRequest} /\ t \in Threads
              /\ tt \in [TaskIds -> Callers \cup {NoThread}]
              /\ \A d \in TaskIds \ {c} : tt[d] = taskTable[d]
            BY <3>1 DEF TypeInv, TypeOK, TaskTypes, Task, Errors
        <3>4. /\ \A u \in Threads : /\ task'[u].id = task[u].id /\ task'[u].timeout = task[u].timeout
                                    /\ u # t => sem'[u] = sem[u]
              /\ \A d \in TaskIds : taskTable'[d] = IF d = task[t].id THEN NoThread ELSE tt[d]
              /\ timerTable' = timerTable \ {task[t].id}
              /\ \A d \in TaskIds : armed'[d] = IF d \in timerTable /\ d = task[t].id
                                                THEN armed[d] - 1 ELSE armed[d]
            <4> HIDE DEF t, tt
            <4> QED BY <3>2, <3>3, FinishEffect
        <3>5. /\ taskTable'[c] = NoThread /\ armed'[c] = 0 /\ timerTable' = timerTable \ {c}
              /\ \A d \in TaskIds \ {c} : taskTable'[d] = taskTable[d] /\ armed'[d] = armed[d]
            BY <3>1, <3>3, <3>4
        <3>6. /\ st'[c] \in {"open", "closing"}
              /\ \A d \in TaskIds \ {c} : st'[d] = st[d] /\ cid'[d] = cid[d]
            BY <1>19, <2>3 DEF connect_cb, TypeInv, TypeOK, ConnTypes
        <3>7. \A k \in ConnIds : connTable[k] # c
            BY <3>1 DEF ConnInv, ConnTableSafe, TaskIds, NoConn
        <3>8. ConnTableSafe'
            <4>1. CASE connected
                <5> DEFINE k == ConnIdOf(nextConn)
                <5>1. /\ k \in ConnIds /\ st'[c] = "open" /\ cid'[c] = k
                      /\ connTable' = cl_conn_add(k, c)
                    BY <1>19, <2>3, <4>1, ConnCounterType DEF connect_cb, TypeInv, TypeOK, ConnTypes
                <5>2. \A j \in ConnIds : connTable'[j] = connTable[j] \/ (j = k /\ connTable'[j] = c)
                    <6> HIDE DEF k
                    <6> QED BY <5>1 DEF cl_conn_add, TypeInv, TypeOK, ConnTypes
                <5> HIDE DEF k
                <5> QED BY <3>6, <3>7, <5>1, <5>2
                        DEF ConnInv, ConnTableSafe, TypeInv, TypeOK, ConnTypes
            <4>2. CASE ~connected
                <5>1. connTable' = connTable
                    BY <1>19, <2>3, <4>2 DEF connect_cb
                <5> QED BY <3>6, <3>7, <5>1 DEF ConnInv, ConnTableSafe, TypeInv, TypeOK, ConnTypes
            <4> QED BY <4>1, <4>2
        <3> HIDE DEF tt
        <3>9. DistinctIds' /\ ClosePosted'
            BY <2>1, <3>1, <3>4 DEF ConnInv, DistinctIds, ClosePosted
        <3>10. Fresh'
            BY <2>1, <3>1, <3>5, <3>6 DEF ConnInv, Fresh, TypeInv, TypeOK, CallTypes, TaskIds
        <3>11. SenderIds'
            BY <2>1, <3>1, <3>4, <3>6 DEF ConnInv, SenderIds
        <3>12. PendingConnect'
            BY <2>1, <3>1, <3>4, <3>5, <3>6 DEF ConnInv, PendingConnect, TypeInv, IdsGiven
        <3>13. ConnectorTable'
            BY <2>1, <3>1, <3>4, <3>5 DEF ConnInv, ConnectorTable
        <3>14. ConnectRequests' /\ ConnectTimerSafe'
            BY <2>1, <3>5, <3>6 DEF ConnInv, ConnectRequests, ConnectTimerSafe
        <3> QED BY <3>8, <3>9, <3>10, <3>11, <3>12, <3>13, <3>14 DEF ConnInv
    <2> QED BY <2>2, <2>3
<1>22. ASSUME NEW c \in TaskIds, read_cb_eof(c) PROVE ConnInv'
    <2>1. /\ UNCHANGED <<nextTask, pc, running, inited, asyncs, writes, peer, sem, timerTable, armed,
                         cid, creq>>
          /\ st[c] = "open" /\ st'[c] = "closing" /\ \A d \in TaskIds \ {c} : st'[d] = st[d]
        BY <1>22 DEF read_cb_eof, FinishLost, callVars, loopVars, netVars, TypeInv, TypeOK, ConnTypes
    <2>2. \A u \in Threads : task'[u].id = task[u].id /\ task'[u].timeout = task[u].timeout
        BY <1>22 DEF read_cb_eof, FinishLost, TypeInv, TypeOK, TaskTypes, Task
    <2>3. \A i \in TaskIds : \/ taskTable'[i] = taskTable[i]
                             \/ taskTable'[i] = NoThread /\ taskTable[i] \notin Connectors
        BY <1>22 DEF read_cb_eof, TasksOfConn
    <2>4. \A k \in ConnIds : connTable'[k] = IF k = cid[c] THEN NoConn ELSE connTable[k]
        BY <1>22 DEF read_cb_eof, cl_conn_del
    <2>5. DistinctIds' /\ ClosePosted'
        BY <2>1, <2>2 DEF ConnInv, DistinctIds, ClosePosted
    <2>6. Fresh' /\ SenderIds'
        BY <2>1, <2>2 DEF ConnInv, Fresh, SenderIds
    <2>7. PendingConnect'
        BY <2>1, <2>2 DEF ConnInv, PendingConnect, TypeInv, IdsGiven
    <2>8. ConnectorTable'
        BY <2>1, <2>2, <2>3 DEF ConnInv, ConnectorTable
    <2>9. ConnTableSafe'
        BY <2>1, <2>4 DEF ConnInv, ConnTableSafe, TypeInv, TypeOK, ConnTypes
    <2>10. ConnectRequests' /\ ConnectTimerSafe'
        BY <2>1, <2>3 DEF ConnInv, ConnectRequests, ConnectTimerSafe
    <2> QED BY <2>5, <2>6, <2>7, <2>8, <2>9, <2>10 DEF ConnInv
<1>23. ASSUME NEW c \in TaskIds, close_cb(c) PROVE ConnInv'
    <2>1. /\ UNCHANGED <<nextTask, pc, running, inited, asyncs, writes, peer, task, sem, taskTable,
                         timerTable, armed, cid, creq>>
          /\ st[c] = "closing" /\ ~creq[c]
          /\ st'[c] = "freed" /\ \A d \in TaskIds \ {c} : st'[d] = st[d]
          /\ \A k \in ConnIds : connTable'[k] \in {NoConn, connTable[k]}
        BY <1>23 DEF close_cb, cl_conn_del, callVars, loopVars, taskVars, netVars, TypeInv, TypeOK, ConnTypes
    <2>2. DistinctIds' /\ Fresh' /\ SenderIds' /\ ConnectorTable' /\ ClosePosted'
        BY <2>1 DEF ConnInv, DistinctIds, Fresh, SenderIds, ConnectorTable, ClosePosted
    <2>3. PendingConnect'
        BY <2>1 DEF ConnInv, PendingConnect, TypeInv, IdsGiven
    <2>4. ConnTableSafe'
        BY <2>1 DEF ConnInv, ConnTableSafe, TypeInv, TypeOK, ConnTypes
    <2>5. ConnectRequests' /\ ConnectTimerSafe'
        BY <2>1 DEF ConnInv, ConnectRequests, ConnectTimerSafe
    <2> QED BY <2>2, <2>3, <2>4, <2>5 DEF ConnInv
<1> QED
    BY <1>1, <1>2, <1>3, <1>4, <1>5, <1>6, <1>7, <1>8, <1>9, <1>10, <1>11, <1>12, <1>13,
       <1>14, <1>15, <1>16, <1>17, <1>18, <1>19, <1>20, <1>21, <1>22, <1>23, <1>24
    DEF Next, CallStep, LoopStep

\* The facts about types and connections together are inductive.
LEMMA ConnInvInductive == Spec => [](TypeInv /\ ConnInv)
<1>1. Init => TypeInv
    BY InitTypeInv
<1>2. Init => ConnInv
    <2> SUFFICES ASSUME Init PROVE ConnInv
        OBVIOUS
    <2>1. /\ nextTask = 0 /\ asyncs = {} /\ writes = {} /\ peer = {} /\ timerTable = {}
          /\ \A t \in Threads : task[t].id = NoTask
          /\ \A i \in TaskIds : /\ taskTable[i] = NoThread /\ armed[i] = 0
                                /\ st[i] = "none" /\ creq[i] = FALSE
          /\ \A k \in ConnIds : connTable[k] = NoConn
          /\ pc[Main] = "idle"
        BY DEF Init
    <2>2. DistinctIds /\ Fresh /\ SenderIds
        BY <2>1 DEF DistinctIds, Fresh, SenderIds, NoTask, TaskIds
    <2>3. PendingConnect /\ ConnectorTable /\ ConnectRequests /\ ClosePosted
        BY <2>1, ThreadAssumption DEF PendingConnect, ConnectorTable, ConnectRequests, ClosePosted
    <2>4. ConnTableSafe /\ ConnectTimerSafe
        BY <2>1 DEF ConnTableSafe, ConnectTimerSafe
    <2> QED BY <2>2, <2>3, <2>4 DEF ConnInv
<1>3. TypeInv /\ ConnInv /\ [Next]_vars => (TypeInv /\ ConnInv)'
    BY TypeInvStep, ConnInvStep
<1> QED BY <1>1, <1>2, <1>3, PTL DEF Spec

\* In every environment, and whatever ids the generator hands out again, the table of
\* cl_conn_add, cl_conn_del and cl_conn_find holds only open connections under their
\* own ids: no callback finds a closing or deleted conn_t there.
THEOREM ConnTableCorrect == Spec => []ConnTableSafe
<1>1. TypeInv /\ ConnInv => ConnTableSafe
    BY DEF ConnInv
<1> QED BY <1>1, ConnInvInductive, PTL

\* The conn_t pointer in a CONNECT timer (td->data) is used only while the connection
\* is connecting: timer_cb never closes an established or a deleted connection.
THEOREM ConnectTimerCorrect == Spec => []ConnectTimerSafe
<1>1. TypeInv /\ ConnInv => ConnectTimerSafe
    BY DEF ConnInv
<1> QED BY <1>1, ConnInvInductive, PTL
-----------------------------------------------------------------------------
(* The calls of the threads whose answers overtook no write callback.      *)

\* Entries of the task table for thread t point to the frame of a call that waits.
Filed(t) == \A i \in TaskIds : taskTable[i] = t => FrameAlive(t, i) /\ t \notin asyncs

\* A posted call waits and has no timer.
Posted(t) == t \in asyncs => pc[t] = "waiting" /\ sem[t] = 0 /\ armed[task[t].id] = 0

\* The pointer in a write request of thread t is that of a call that waits, or the loop
\* is shutting down and the thread has posted nothing since.
Writing(t) ==
    \A w \in writes : w.thr = t =>
        /\ t \notin asyncs /\ task[t].id = w.id /\ armed[w.id] = 0
        /\ pc[t] \in {"idle", "checked", "waiting"}
        /\ running => pc[t] = "waiting" /\ sem[t] = 0

OneWrite(t) == \A v, w \in writes : v.thr = t /\ w.thr = t => v = w

\* The call of thread t, as the task table, the asyncs and the write requests see it.
CallOf(t) == Filed(t) /\ Posted(t) /\ Writing(t) /\ OneWrite(t)

\* A loop that is not there has no outstanding write.
NoWritesLeft ==
    /\ ~inited => loop \in {"none", "exit"}
    /\ loop \in {"none", "exit"} => writes = {}

\* A stale write_cb touches only the frame, the timer and the entries of its own thread.
CallInv == NoWritesLeft /\ \A t \in Callers \ overtaken : CallOf(t)

\* The step leaves the call of thread t alone, or takes it out of a table.
Untouched(t) ==
    /\ pc'[t] = pc[t] /\ sem'[t] = sem[t] /\ task'[t].id = task[t].id
    /\ t \in asyncs' => t \in asyncs
    /\ \A i \in TaskIds : taskTable'[i] = t => taskTable[i] = t
    /\ \A w \in writes' : w.thr = t => w \in writes
    /\ task[t].id \in TaskIds /\ armed[task[t].id] = 0 => armed'[task[t].id] = 0

\* A step that leaves all calls alone but those of the threads F, and keeps the facts
\* about these.
LEMMA CallsKept ==
    ASSUME TypeInv, CallInv, NoWritesLeft', overtaken \subseteq overtaken',
           running' => running \/ writes' = {}, NEW F,
           \A t \in Callers \ overtaken' : t \notin F => Untouched(t),
           \A t \in Callers \ overtaken' : t \in F /\ CallOf(t) => CallOf(t)'
    PROVE  CallInv'
<1>1. ASSUME NEW t \in Callers \ overtaken' PROVE CallOf(t)'
    <2>1. CallOf(t)
        BY <1>1 DEF CallInv
    <2>2. CASE t \in F
        BY <2>1, <2>2
    <2>3. CASE t \notin F
        <3>1. Untouched(t)
            BY <2>3
        <3>2. \A w \in writes : w.id \in TaskIds
            BY DEF TypeInv, TypeOK, WriteReq
        <3>3. t \in asyncs => task[t].id \in TaskIds
            BY DEF TypeInv, IdsGiven
        <3>4. Filed(t)'
            BY <2>1, <3>1 DEF CallOf, Filed, Untouched, FrameAlive
        <3>5. Posted(t)'
            BY <2>1, <3>1, <3>3 DEF CallOf, Posted, Untouched
        <3>6. Writing(t)'
            BY <2>1, <3>1, <3>2 DEF CallOf, Writing, Untouched
        <3>7. OneWrite(t)'
            BY <2>1, <3>1 DEF CallOf, OneWrite, Untouched
        <3> QED BY <3>4, <3>5, <3>6, <3>7 DEF CallOf
    <2> QED BY <2>2, <2>3
<1> QED BY <1>1 DEF CallInv

\* The same for no thread.
LEMMA CallsQuiet ==
    ASSUME TypeInv, CallInv, NoWritesLeft', overtaken \subseteq overtaken',
           running' => running \/ writes' = {},
           \A t \in Callers \ overtaken' : Untouched(t)
    PROVE  CallInv'
<1> DEFINE F == {}
<1>1. /\ \A t \in Callers \ overtaken' : t \notin F => Untouched(t)
      /\ \A t \in Callers \ overtaken' : t \in F /\ CallOf(t) => CallOf(t)'
    OBVIOUS
<1> HIDE DEF F
<1> QED BY <1>1, CallsKept

\* The same for one thread.
LEMMA CallsOne ==
    ASSUME TypeInv, CallInv, NoWritesLeft', overtaken \subseteq overtaken',
           running' => running \/ writes' = {}, NEW u,
           \A t \in Callers \ overtaken' : t # u => Untouched(t),
           u \in Callers \ overtaken' /\ CallOf(u) => CallOf(u)'
    PROVE  CallInv'
<1> DEFINE F == {u}
<1>1. /\ \A t \in Callers \ overtaken' : t \notin F => Untouched(t)
      /\ \A t \in Callers \ overtaken' : t \in F /\ CallOf(t) => CallOf(t)'
    OBVIOUS
<1> HIDE DEF F
<1> QED BY <1>1, CallsKept

\* A thread that no table, no async and no write request points to.
LEMMA CallGone ==
    ASSUME NEW t, \A i \in TaskIds : taskTable'[i] # t, t \notin asyncs',
           \A w \in writes' : w.thr # t
    PROVE  CallOf(t)'
BY DEF CallOf, Filed, Posted, Writing, OneWrite

\* A step finishes the task of thread t, found in the task table tt, and no other task.
FinishedOnly(t, tt) ==
    /\ \A u \in Threads : task'[u].id = task[u].id
    /\ \A u \in Threads : u # t => sem'[u] = sem[u]
    /\ \A i \in TaskIds : taskTable'[i] = IF i = task[t].id THEN NoThread ELSE tt[i]
    /\ \A i \in TaskIds : armed[i] = 0 => armed'[i] = 0

\* _cl_finish_task does that.
LEMMA FinishedOnlyLemma ==
    ASSUME TypeInv, NEW t \in Threads, NEW err \in Errors,
           NEW out \in Request \cup {NoRequest},
           NEW tt \in [TaskIds -> Callers \cup {NoThread}], NEW ids \in SUBSET TaskIds,
           cl_finish_task(t, err, out, tt, ids)
    PROVE  FinishedOnly(t, tt)
<1>1. \A i \in timerTable : armed[i] # 0
    BY DEF TypeInv, TypeOK, TaskTypes, TimersRun
<1> QED BY <1>1, FinishEffect DEF FinishedOnly

\* It leaves the other threads alone.
LEMMA OthersUntouched ==
    ASSUME TypeInv, NEW t \in Threads, NEW tt, FinishedOnly(t, tt), UNCHANGED pc,
           asyncs' \in SUBSET asyncs, writes' \in SUBSET writes,
           \A i \in TaskIds : tt[i] \in {taskTable[i], NoThread, t}
    PROVE  \A u \in Callers : u # t => Untouched(u)
<1> USE ThreadAssumption
<1>1. ASSUME NEW u \in Callers, u # t PROVE Untouched(u)
    <2>1. \A i \in TaskIds : taskTable'[i] = u => taskTable[i] = u
        BY <1>1 DEF FinishedOnly
    <2>2. task[u].id \in TaskIds /\ armed[task[u].id] = 0 => armed'[task[u].id] = 0
        BY DEF FinishedOnly
    <2> QED BY <1>1, <2>1, <2>2 DEF FinishedOnly, Untouched
<1> QED BY <1>1

\* A step that finishes the task of thread t and leaves nothing that points to it, if
\* no answer to t has overtaken a write callback.
LEMMA CallsFinish ==
    ASSUME TypeInv, CallInv, NEW t \in Threads, NEW tt, FinishedOnly(t, tt),
           UNCHANGED <<pc, running, inited, loop>>, overtaken \subseteq overtaken',
           asyncs' \in SUBSET asyncs, writes' \in SUBSET writes,
           \A i \in TaskIds : tt[i] \in {taskTable[i], NoThread, t},
           t \in Callers \ overtaken' /\ CallOf(t) =>
                /\ t \notin asyncs' /\ \A w \in writes' : w.thr # t
                /\ \A i \in TaskIds : i # task[t].id => tt[i] # t
    PROVE  CallInv'
<1> USE ThreadAssumption
<1>1. \A u \in Callers : u # t => Untouched(u)
    BY OthersUntouched
<1>2. NoWritesLeft'
    BY DEF CallInv, NoWritesLeft
<1>3. ASSUME t \in Callers \ overtaken', CallOf(t) PROVE CallOf(t)'
    <2>1. \A i \in TaskIds : taskTable'[i] # t
        BY <1>3 DEF FinishedOnly
    <2> QED BY <1>3, <2>1, CallGone
<1> QED BY <1>1, <1>2, <1>3, CallsOne

\* Every step keeps the facts about calls.
LEMMA CallInvStep ==
    ASSUME TypeInv, ConnInv, CallInv, [Next]_vars
    PROVE  CallInv'
<1> USE BoundAssumption, ThreadAssumption
<1>0. /\ NoWritesLeft /\ overtaken \in SUBSET Senders
      /\ pc \in [Threads -> {"idle", "checked", "admitted", "waiting", "join"}]
      /\ task \in [Threads -> Task] /\ sem \in [Threads -> Nat] /\ armed \in [TaskIds -> Nat]
      /\ taskTable \in [TaskIds -> Callers \cup {NoThread}]
      /\ writes \in SUBSET WriteReq /\ peer \in SUBSET (TaskIds \X Request)
    BY DEF CallInv, TypeInv, TypeOK, CallTypes, TaskTypes
<1>1. CASE ssn_startup_client
    <2>1. /\ writes = {} /\ writes' = {} /\ overtaken' = overtaken /\ NoWritesLeft'
        BY <1>0, <1>1 DEF ssn_startup_client, netVars, NoWritesLeft
    <2>2. \A t \in Callers : Untouched(t)
        BY <1>1, <2>1 DEF ssn_startup_client, callVars, taskVars, Untouched
    <2> QED BY <2>1, <2>2, CallsQuiet
<1>2. ASSUME NEW t \in Callers, UNCHANGED <<task, armed, taskTable, asyncs, netVars, loopVars>>,
             pc[t] # "waiting" \/ sem[t] # 0,
             pc'[t] \in {"idle", "checked"} \/ (running /\ pc[t] = "checked"),
             \A u \in Callers : u # t => pc'[u] = pc[u] /\ sem'[u] = sem[u]
      PROVE  CallInv'
    <2>1. NoWritesLeft' /\ UNCHANGED <<running, writes, overtaken>>
        BY <1>0, <1>2 DEF loopVars, netVars, NoWritesLeft
    <2>2. \A u \in Callers : u # t => Untouched(u)
        BY <1>2, <2>1 DEF Untouched
    <2>3. ASSUME CallOf(t) PROVE CallOf(t)'
        <3>1. t \notin asyncs' /\ \A i \in TaskIds : taskTable'[i] # t
            BY <1>2, <2>3 DEF CallOf, Filed, Posted, FrameAlive
        <3>2. Writing(t)'
            BY <1>2, <2>1, <2>3 DEF CallOf, Writing
        <3>3. OneWrite(t)'
            BY <2>1, <2>3 DEF CallOf, OneWrite
        <3> QED BY <3>1, <3>2, <3>3 DEF CallOf, Filed, Posted
    <2> QED BY <2>1, <2>2, <2>3, CallsOne
<1>3. ASSUME NEW t \in Senders, NEW k \in ConnIds, ssn_send(t, k) PROVE CallInv'
    BY <1>0, <1>2, <1>3 DEF ssn_send, At, taskVars
<1>4. ASSUME NEW t \in Connectors, NEW ip \in Ips, ssn_connect(t, ip) PROVE CallInv'
    BY <1>0, <1>2, <1>4 DEF ssn_connect, At, taskVars
<1>5. ASSUME NEW t \in Senders \cup Connectors, cl_create_async(t) PROVE CallInv'
    BY <1>0, <1>2, <1>5 DEF cl_create_async, LeaveCall, At, taskVars
<1>6. ASSUME NEW t \in Senders \cup Connectors, CallReturn(t) PROVE CallInv'
    BY <1>0, <1>2, <1>6 DEF CallReturn, LeaveCall, At
<1>7. ASSUME NEW t \in Senders \cup Connectors, NEW b \in BOOLEAN, async_post(t, b) PROVE CallInv'
    <2>1. /\ task'[t].id = nextTask /\ nextTask \in TaskIds /\ nextTask \in Nat
          /\ sem'[t] = 0 /\ pc'[t] = "waiting" /\ pc[t] = "admitted"
        BY <1>0, <1>7 DEF TypeInv, TypeOK, CallTypes, async_post, TaskIds, At
    <2>2. \A u \in Threads \ {t} : task'[u] = task[u] /\ sem'[u] = sem[u] /\ pc'[u] = pc[u]
        BY <1>0, <1>7 DEF async_post
    <2>3. /\ asyncs' = asyncs \cup {t}
          /\ UNCHANGED <<taskTable, armed, writes, overtaken, running, inited, loop>>
        BY <1>7 DEF async_post, netVars, loopVars
    <2>4. NoWritesLeft' /\ armed[nextTask] = 0
        BY <1>0, <2>1, <2>3 DEF ConnInv, Fresh, NoWritesLeft
    <2>5. \A u \in Callers : u # t => Untouched(u)
        BY <2>2, <2>3 DEF Untouched
    <2>6. ASSUME CallOf(t) PROVE CallOf(t)'
        <3>1. /\ \A i \in TaskIds : taskTable'[i] # t
              /\ \A w \in writes' : w.thr # t
            BY <2>1, <2>3, <2>6 DEF CallOf, Filed, Writing, FrameAlive
        <3>2. Posted(t)'
            BY <2>1, <2>3, <2>4 DEF Posted
        <3> QED BY <3>1, <3>2 DEF CallOf, Filed, Writing, OneWrite
    <2> QED BY <2>3, <2>4, <2>5, <2>6, CallsOne
<1>8. CASE ssn_shutdown_client \/ CloseReturn \/ uninit_client_loop \/ LoopExit
           \/ (\E err \in {"ok", "uninit"} : async_close_client(err))
    <2>2. \A t \in Callers : pc'[t] = pc[t] /\ sem'[t] = sem[t] /\ task'[t] = task[t]
        BY <1>0, <1>8 DEF ssn_shutdown_client, CloseReturn, uninit_client_loop, LoopExit,
            async_close_client, At, callVars, taskVars
    <2>3. /\ UNCHANGED <<taskTable, armed, writes, overtaken>> /\ asyncs' \subseteq asyncs \cup {Main}
          /\ NoWritesLeft' /\ (running' => running)
        BY <1>0, <1>8 DEF ssn_shutdown_client, CloseReturn, uninit_client_loop, LoopExit,
            async_close_client, taskVars, netVars, loopVars, NoWritesLeft
    <2>4. \A t \in Callers : Untouched(t)
        BY <2>2, <2>3 DEF Untouched
    <2> QED BY <2>3, <2>4, CallsQuiet
<1>9. ASSUME UNCHANGED <<pc, sem, armed, asyncs, writes, overtaken, running, inited, loop>>,
             \A t \in Threads : task'[t].id = task[t].id,
             \A i \in TaskIds : taskTable'[i] \in {taskTable[i], NoThread}
      PROVE  CallInv'
    <2>1. \A t \in Callers : Untouched(t)
        BY <1>9 DEF Untouched
    <2>2. NoWritesLeft'
        BY <1>0, <1>9 DEF NoWritesLeft
    <2> QED BY <1>9, <2>1, <2>2, CallsQuiet
<1>10. CASE UNCHANGED vars \/ (\E c \in TaskIds : read_cb_push(c) \/ close_cb(c))
    BY <1>9, <1>10 DEF vars, read_cb_push, close_cb, callVars, loopVars, netVars, taskVars
<1>11. ASSUME NEW c \in TaskIds, read_cb_eof(c) PROVE CallInv'
    <2>1. \A t \in Threads : task'[t].id = task[t].id
        BY <1>0, <1>11 DEF read_cb_eof, FinishLost, Task
    <2> QED BY <1>9, <1>11, <2>1 DEF read_cb_eof, FinishLost, callVars, loopVars, netVars
<1>12. \A t \in Threads : task[t].out \in Request \cup {NoRequest}
    BY <1>0 DEF Task
<1>13. ASSUME NEW t \in Threads, async_cb_not_ready(t) PROVE CallInv'
    <2>1. /\ t \in asyncs /\ asyncs' = asyncs \ {t}
          /\ UNCHANGED <<pc, running, inited, loop, writes, overtaken>>
          /\ cl_finish_task(t, "not_ready", task[t].out, taskTable, {})
        BY <1>13 DEF async_cb_not_ready, AsyncRuns, callVars, loopVars, netVars
    <2>2. FinishedOnly(t, taskTable)
        BY <1>0, <1>12, <2>1, FinishedOnlyLemma DEF Errors
    <2>3. CallOf(t) => /\ t \notin asyncs' /\ \A w \in writes' : w.thr # t
                       /\ \A i \in TaskIds : i # task[t].id => taskTable[i] # t
        BY <2>1 DEF CallOf, Filed, Writing
    <2> QED BY <2>1, <2>2, <2>3, CallsFinish
<1>14. ASSUME NEW t \in Callers, NEW err \in Errors, NEW tt, t \in asyncs, asyncs' = asyncs \ {t},
              tt = [taskTable EXCEPT ![task[t].id] = t],
              UNCHANGED <<pc, running, inited, loop, writes, overtaken>>,
              cl_finish_task(t, err, task[t].out, tt, {})
       PROVE  CallInv'
    <2>1. /\ tt \in [TaskIds -> Callers \cup {NoThread}] /\ t \in Threads
          /\ \A i \in TaskIds : tt[i] = IF i = task[t].id THEN t ELSE taskTable[i]
        BY <1>0, <1>14
    <2>2. FinishedOnly(t, tt)
        BY <1>12, <1>14, <2>1, FinishedOnlyLemma
    <2>3. CallOf(t) => /\ t \notin asyncs' /\ \A w \in writes' : w.thr # t
                       /\ \A i \in TaskIds : i # task[t].id => tt[i] # t
        BY <1>14, <2>1 DEF CallOf, Filed, Writing
    <2>4. asyncs' \in SUBSET asyncs /\ writes' \in SUBSET writes
          /\ \A i \in TaskIds : tt[i] \in {taskTable[i], NoThread, t}
        BY <1>14, <2>1
    <2> QED BY <1>14, <2>1, <2>2, <2>3, <2>4, CallsFinish
<1>15. ASSUME NEW t \in Callers, t \in asyncs, asyncs' = asyncs \ {t},
              taskTable' = [taskTable EXCEPT ![task[t].id] = t],
              UNCHANGED <<pc, task, sem, running, inited, loop, overtaken>>, LoopAlive,
              \A i \in TaskIds : i # task[t].id => armed'[i] = armed[i],
              \/ writes' = writes /\ t \in Connectors
              \/ \E w : /\ writes' = writes \cup {w}
                        /\ w.thr = t /\ w.id = task[t].id /\ UNCHANGED armed
       PROVE  CallInv'
    <2>1. /\ task[t].id \in TaskIds
          /\ \A i \in TaskIds : taskTable'[i] = IF i = task[t].id THEN t ELSE taskTable[i]
        BY <1>0, <1>15 DEF TypeInv, IdsGiven
    <2>2. NoWritesLeft'
        BY <1>0, <1>15 DEF LoopAlive, NoWritesLeft
    <2>3. ASSUME NEW u \in Callers, u # t PROVE Untouched(u)
        <3>1. task[u].id \in TaskIds => task[u].id # task[t].id
            BY <2>1, <2>3 DEF ConnInv, DistinctIds
        <3> QED BY <1>15, <2>1, <2>3, <3>1 DEF Untouched
    <2>4. ASSUME CallOf(t) PROVE CallOf(t)'
        <3>1. /\ pc[t] = "waiting" /\ sem[t] = 0 /\ armed[task[t].id] = 0
              /\ \A i \in TaskIds : taskTable[i] # t
              /\ \A w \in writes : w.thr # t
            BY <1>15, <2>4 DEF CallOf, Filed, Posted, Writing
        <3>2. Filed(t)' /\ Posted(t)'
            BY <1>15, <2>1, <3>1 DEF Filed, Posted, FrameAlive
        <3>3. Writing(t)' /\ OneWrite(t)'
            <4>1. CASE writes' = writes
                BY <3>1, <4>1 DEF Writing, OneWrite
            <4>2. ASSUME NEW w, writes' = writes \cup {w}, w.thr = t, w.id = task[t].id,
                         UNCHANGED armed
                  PROVE  Writing(t)' /\ OneWrite(t)'
                BY <1>15, <3>1, <4>2 DEF Writing, OneWrite
            <4> QED BY <1>15, <4>1, <4>2
        <3> QED BY <3>2, <3>3 DEF CallOf
    <2> QED BY <1>15, <2>2, <2>3, <2>4, CallsOne
<1>16. ASSUME NEW t \in Senders, NEW wrote \in BOOLEAN, async_cb_rw(t, wrote) PROVE CallInv'
    <2>1. /\ t \in asyncs /\ asyncs' = asyncs \ {t} /\ LoopAlive
          /\ UNCHANGED <<pc, running, inited, loop, overtaken>>
        BY <1>16 DEF async_cb_rw, AsyncRuns, callVars, loopVars
    <2>2. CASE wrote
        <3>1. PICK w : /\ w.thr = t /\ w.id = task[t].id /\ writes' = writes \cup {w}
                       /\ taskTable' = [taskTable EXCEPT ![task[t].id] = t]
                       /\ UNCHANGED <<task, sem, armed>>
            BY <1>16, <2>2 DEF async_cb_rw
        <3> QED BY <1>15, <2>1, <3>1
    <2>3. CASE ~wrote
        <3>1. PICK err \in {"no_conn", "uv"} : cl_finish_task(t, err, task[t].out,
                                                   [taskTable EXCEPT ![task[t].id] = t], {})
            BY <1>16, <2>3 DEF async_cb_rw
        <3>2. writes' = writes /\ err \in Errors
            BY <1>16, <2>3 DEF async_cb_rw, Errors
        <3> QED BY <1>14, <2>1, <3>1, <3>2
    <2> QED BY <2>2, <2>3
<1>17. ASSUME NEW t \in Connectors, NEW result \in ConnectResults, async_cb_connect(t, result)
       PROVE  CallInv'
    <2>1. /\ t \in asyncs /\ asyncs' = asyncs \ {t} /\ LoopAlive
          /\ UNCHANGED <<pc, running, inited, loop, writes, overtaken>>
        BY <1>17 DEF async_cb_connect, AsyncRuns, callVars, loopVars, netVars
    <2>2. CASE result = "ok"
        <3>1. /\ taskTable' = [taskTable EXCEPT ![task[t].id] = t] /\ UNCHANGED <<task, sem>>
              /\ StartTimer(task[t].id) \/ UNCHANGED armed
            BY <1>17, <2>2 DEF async_cb_connect
        <3>2. \A i \in TaskIds : i # task[t].id => armed'[i] = armed[i]
            BY <1>0, <3>1 DEF StartTimer
        <3> QED BY <1>15, <2>1, <3>1, <3>2
    <2>3. CASE result # "ok"
        <3>1. PICK err \in {"exists", "uv"} : cl_finish_task(t, err, task[t].out,
                                                   [taskTable EXCEPT ![task[t].id] = t], {})
            BY <1>17, <2>3 DEF async_cb_connect
        <3>2. err \in Errors
            BY DEF Errors
        <3> QED BY <1>14, <2>1, <3>1, <3>2
    <2> QED BY <2>2, <2>3
<1>18. CASE async_cb_close
    <2>1. PICK F : F = {taskTable[i] : i \in TaskIds} \cup {Main}
        OBVIOUS
    <2>2. /\ asyncs' = asyncs \ {Main} /\ running' = FALSE /\ loop' = "stop"
          /\ UNCHANGED <<pc, inited, writes, overtaken>> /\ inited
          /\ \A i \in TaskIds : taskTable'[i] = NoThread
        BY <1>18 DEF async_cb_close, AsyncRuns, callVars, netVars
    <2>3. \A i \in TaskIds : armed[i] = 0 => armed'[i] = 0
        BY <1>18 DEF async_cb_close, TypeInv, TimersRun
    <2>4. \A u \in Threads : task'[u].id = task[u].id /\ (u \notin F => sem'[u] = sem[u])
        BY <1>0, <1>18, <2>1 DEF async_cb_close, Task
    <2>5. NoWritesLeft'
        BY <2>2 DEF NoWritesLeft
    <2>6. \A t \in Callers : t \notin F => Untouched(t)
        BY <2>2, <2>3, <2>4 DEF Untouched
    <2>7. ASSUME NEW t \in Callers, t \in F, CallOf(t) PROVE CallOf(t)'
        <3>1. t \notin asyncs
            BY <2>1, <2>7 DEF CallOf, Filed
        <3>2. Filed(t)' /\ Posted(t)' /\ OneWrite(t)'
            BY <2>2, <2>7, <3>1 DEF CallOf, Filed, Posted, OneWrite
        <3>3. Writing(t)'
            BY <1>0, <2>2, <2>3, <2>4, <2>7 DEF CallOf, Writing, WriteReq
        <3> QED BY <3>2, <3>3 DEF CallOf
    <2> QED BY <2>2, <2>5, <2>6, <2>7, CallsKept
<1>19. ASSUME NEW w \in writes, write_cb(w) PROVE CallInv'
    <2>1. PICK t : t = w.thr
        OBVIOUS
    <2>2. /\ t \in Senders /\ task[t].id \in TaskIds
          /\ writes' = writes \ {w} /\ UNCHANGED <<pc, running, inited, loop, asyncs, overtaken>>
        BY <1>0, <1>19, <2>1 DEF write_cb, callVars, loopVars, WriteReq, TypeInv, IdsGiven
    <2>3. NoWritesLeft'
        BY <1>0, <2>2 DEF NoWritesLeft
    <2>4. CallOf(t) => t \notin asyncs /\ task[t].id = w.id /\ \A v \in writes' : v.thr # t
        BY <2>1, <2>2 DEF CallOf, Writing, OneWrite
    <2>5. CASE UNCHANGED <<task, sem, taskTable>> /\ (StartTimer(task[t].id) \/ UNCHANGED armed)
        <3>1. \A i \in TaskIds : i # task[t].id => armed'[i] = armed[i]
            BY <1>0, <2>5 DEF StartTimer
        <3>2. ASSUME NEW u \in Callers, u # t PROVE Untouched(u)
            <4>1. task[u].id \in TaskIds => task[u].id # task[t].id
                BY <2>2, <3>2 DEF ConnInv, DistinctIds
            <4> QED BY <2>2, <2>5, <3>1, <4>1 DEF Untouched
        <3>3. ASSUME CallOf(t) PROVE CallOf(t)'
            <4>1. Filed(t)'
                BY <2>2, <2>5, <3>3 DEF CallOf, Filed, FrameAlive
            <4> QED BY <2>2, <2>4, <3>3, <4>1 DEF CallOf, Posted, Writing, OneWrite
        <3> QED BY <2>2, <2>3, <3>2, <3>3, CallsOne
    <2>6. CASE cl_finish_task(t, "uv", task[t].out, taskTable, {})
        <3>1. FinishedOnly(t, taskTable)
            BY <1>0, <1>12, <2>2, <2>6, FinishedOnlyLemma DEF Errors
        <3>2. CallOf(t) => \A i \in TaskIds : i # task[t].id => taskTable[i] # t
            BY DEF CallOf, Filed, FrameAlive
        <3> QED BY <2>2, <2>4, <3>1, <3>2, CallsFinish
    <2> QED BY <1>19, <2>1, <2>5, <2>6 DEF write_cb, taskVars
<1>20. ASSUME NEW i \in TaskIds, timer_cb(i) PROVE CallInv'
    <2>1. PICK t : t = taskTable[i]
        OBVIOUS
    <2>2. /\ UNCHANGED <<pc, running, inited, loop, asyncs, writes, overtaken>> /\ armed[i] > 0
          /\ \A j \in TaskIds : armed[j] = 0 => armed'[j] = 0
        BY <1>0, <1>20 DEF timer_cb, callVars, loopVars, netVars, TypeInv, TimersRun
    <2>3. CASE t = NoThread
        <3>1. /\ UNCHANGED <<task, sem>>
              /\ \A j \in TaskIds : taskTable'[j] \in {taskTable[j], NoThread}
            BY <1>20, <2>1, <2>3 DEF timer_cb
        <3>2. \A u \in Callers : Untouched(u)
            BY <2>2, <3>1 DEF Untouched
        <3>3. NoWritesLeft'
            BY <1>0, <2>2 DEF NoWritesLeft
        <3> QED BY <2>2, <3>2, <3>3, CallsQuiet
    <2>4. CASE t # NoThread
        <3>1. PICK tt : tt = [taskTable EXCEPT ![i] = NoThread]
            OBVIOUS
        <3>2. /\ t \in Callers
              /\ \A j \in TaskIds : tt[j] = IF j = i THEN NoThread ELSE taskTable[j]
            BY <1>0, <2>1, <2>4, <3>1
        <3>3. \A u \in Threads : task'[u].id = task[u].id /\ (u # t => sem'[u] = sem[u])
            BY <1>0, <1>20, <2>1, <2>4 DEF timer_cb, Task
        <3>4. \A j \in TaskIds : taskTable'[j] = IF j = task[t].id THEN NoThread ELSE tt[j]
            BY <1>20, <2>1, <2>4, <3>2 DEF timer_cb
        <3>5. FinishedOnly(t, tt)
            BY <2>2, <3>3, <3>4 DEF FinishedOnly
        <3>6. CallOf(t) => /\ task[t].id = i /\ t \notin asyncs
                           /\ \A j \in TaskIds : j # i => taskTable[j] # t
            BY <2>1 DEF CallOf, Filed, FrameAlive
        <3>7. CallOf(t) => \A w \in writes : w.thr # t
            BY <2>2, <3>6 DEF CallOf, Writing
        <3> QED BY <2>2, <3>2, <3>5, <3>6, <3>7, CallsFinish
    <2> QED BY <2>3, <2>4
<1>21. ASSUME NEW c \in TaskIds, NEW connected \in BOOLEAN, connect_cb(c, connected) PROVE CallInv'
    <2>1. UNCHANGED <<pc, running, inited, loop, asyncs, writes, overtaken>> /\ creq[c]
        BY <1>21 DEF connect_cb, callVars, loopVars, netVars
    <2>2. CASE taskTable[c] = NoThread
        BY <1>9, <1>21, <2>1, <2>2 DEF connect_cb, taskVars
    <2>3. CASE taskTable[c] # NoThread
        <3>1. PICK t, tt : t = taskTable[c] /\ tt = [taskTable EXCEPT ![c] = NoThread]
            OBVIOUS
        <3>2. PICK err \in {"ok", "uv"} : cl_finish_task(t, err, task[t].out, tt, {})
            BY <1>21, <2>3, <3>1 DEF connect_cb
        <3>3. t \in Connectors /\ t \in Threads
            BY <2>1, <2>3, <3>1 DEF ConnInv, ConnectRequests, ConnectTimerSafe
        <3>4. /\ err \in Errors /\ tt \in [TaskIds -> Callers \cup {NoThread}]
              /\ \A j \in TaskIds : tt[j] = IF j = c THEN NoThread ELSE taskTable[j]
            BY <1>0, <3>1 DEF Errors
        <3>5. FinishedOnly(t, tt)
            BY <1>12, <3>2, <3>3, <3>4, FinishedOnlyLemma
        <3>6. CallOf(t) => t \notin asyncs /\ \A j \in TaskIds : j # c => taskTable[j] # t
            BY <3>1 DEF CallOf, Filed, FrameAlive
        <3>7. \A w \in writes : w.thr # t
            BY <1>0, <3>3 DEF WriteReq
        <3> QED BY <2>1, <3>3, <3>4, <3>5, <3>6, <3>7, CallsFinish
    <2> QED BY <2>2, <2>3
<1>22. ASSUME NEW p \in peer, read_cb_common(p[1], p[2]) PROVE CallInv'
    <2>1. PICK i, t, tt : i = p[2].id /\ t = taskTable[i] /\ tt = [taskTable EXCEPT ![i] = NoThread]
        OBVIOUS
    <2>2. /\ UNCHANGED <<pc, running, inited, loop, asyncs, writes>>
          /\ i \in TaskIds /\ p[2] \in Request
          /\ overtaken' = overtaken \cup {w.thr : w \in {v \in writes : v.id = i}}
        BY <1>0, <1>22, <2>1 DEF read_cb_common, callVars, loopVars, Request
    <2>3. CASE t = NoThread
        <3>1. CancelTimers({i}) /\ UNCHANGED <<task, sem, taskTable>>
            BY <1>22, <2>1, <2>3 DEF read_cb_common
        <3>2. \A j \in TaskIds : armed[j] = 0 => armed'[j] = 0
            BY <3>1 DEF CancelTimers, TypeInv, TimersRun
        <3>3. \A u \in Callers : Untouched(u)
            BY <2>2, <3>1, <3>2 DEF Untouched
        <3>4. NoWritesLeft'
            BY <1>0, <2>2 DEF NoWritesLeft
        <3> QED BY <2>2, <3>3, <3>4, CallsQuiet
    <2>4. CASE t # NoThread
        <3>1. cl_finish_task(t, "ok", p[2], tt, {i})
            BY <1>22, <2>1, <2>4 DEF read_cb_common
        <3>2. /\ t \in Callers /\ t \in Threads
              /\ "ok" \in Errors /\ tt \in [TaskIds -> Callers \cup {NoThread}]
              /\ \A j \in TaskIds : tt[j] = IF j = i THEN NoThread ELSE taskTable[j]
            BY <1>0, <2>1, <2>2, <2>4 DEF Errors
        <3>3. FinishedOnly(t, tt)
            BY <2>2, <3>1, <3>2, FinishedOnlyLemma
        <3>4. CallOf(t) => /\ task[t].id = i /\ t \notin asyncs
                           /\ \A j \in TaskIds : j # i => taskTable[j] # t
            BY <2>1, <2>2, <3>2 DEF CallOf, Filed, FrameAlive
        <3>5. CallOf(t) /\ t \notin overtaken' => \A w \in writes : w.thr # t
            BY <2>2, <3>4 DEF CallOf, Writing
        <3> QED BY <2>2, <3>2, <3>3, <3>4, <3>5, CallsFinish
    <2> QED BY <2>3, <2>4
<1>23. ASSUME NEW w \in writes, Flush(w) PROVE CallInv'
    <2>1. PICK t, x : t = w.thr /\ x = [w EXCEPT !.sent = TRUE]
        OBVIOUS
    <2>2. /\ UNCHANGED <<pc, task, sem, asyncs, taskTable, armed, overtaken, running, inited, loop>>
          /\ writes' = (writes \ {w}) \cup {x} /\ x.thr = t /\ x.id = w.id
        BY <1>0, <1>23, <2>1 DEF Flush, callVars, taskVars, loopVars, WriteReq
    <2>3. \A u \in Callers : u # t => Untouched(u)
        BY <2>2 DEF Untouched
    <2>4. NoWritesLeft'
        BY <1>0, <2>2 DEF NoWritesLeft
    <2>5. ASSUME CallOf(t) PROVE CallOf(t)'
        <3>1. Filed(t)' /\ Posted(t)'
            BY <2>2, <2>5 DEF CallOf, Filed, Posted, FrameAlive
        <3>2. Writing(t)' /\ OneWrite(t)'
            BY <2>1, <2>2, <2>5 DEF CallOf, Writing, OneWrite
        <3> QED BY <3>1, <3>2 DEF CallOf
    <2> QED BY <2>2, <2>3, <2>4, <2>5, CallsOne
<1> QED
    BY <1>1, <1>3, <1>4, <1>5, <1>6, <1>7, <1>8, <1>10, <1>11, <1>13, <1>16, <1>17, <1>18,
       <1>19, <1>20, <1>21, <1>22, <1>23
    DEF Next, CallStep, LoopStep

\* The facts about calls hold in every state.
LEMMA CallInvInductive == Spec => []CallInv
<1>1. Init => CallInv
    <2> SUFFICES ASSUME Init PROVE CallInv
        OBVIOUS
    <2>1. \A t \in Callers : CallOf(t)
        BY ThreadAssumption DEF Init, CallOf, Filed, Posted, Writing, OneWrite
    <2>2. NoWritesLeft
        BY DEF Init, NoWritesLeft
    <2> QED BY <2>1, <2>2 DEF CallInv
<1>2. CallInv /\ [Next]_vars /\ (TypeInv /\ ConnInv) => CallInv'
    BY CallInvStep
<1> QED BY <1>1, <1>2, ConnInvInductive, PTL DEF Spec

\* The raw task pointers of cl_task_add, cl_task_del and cl_task_del_by_connId point to
\* the frames of calls that still wait: timer_cb, connect_cb, read_cb and
\* _client_shutdown complete every task once, also across shutdowns and restarts of the
\* client.  Answers may overtake write callbacks: the pointers to the threads this has
\* not happened to stay good, because a stale write_cb reaches only the frame, the timer
\* and the table entries of its own thread.
THEOREM TaskTableCorrect == Spec => []TaskTableLive
<1>1. TypeInv /\ CallInv => TaskTableLive
    BY DEF TypeInv, TypeOK, TaskTypes, CallInv, CallOf, Filed, TaskTableLive
<1> QED BY <1>1, CallInvInductive, ConnInvInductive, PTL

\* Until the client is shut down, the task pointer in a uv_write_t (req->data), which
\* write_cb dereferences without asking the task table, is that of a call that waits and
\* was not completed, on every thread none of whose answers overtook a write callback,
\* also while such answers reach other threads.  That read_cb leaves the tasks of a lost
\* connection unfinished is what makes this hold.
THEOREM WriteTaskCorrect == Spec => []WriteTaskLive
<1>1. TypeInv /\ CallInv => WriteTaskLive
    BY DEF TypeInv, TypeOK, WriteReq, CallInv, CallOf, Writing, WriteTaskLive, FrameAlive
<1> QED BY <1>1, CallInvInductive, ConnInvInductive, PTL
=============================================================================
