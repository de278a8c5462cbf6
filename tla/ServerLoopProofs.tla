-------------------------- MODULE ServerLoopProofs --------------------------
(***************************************************************************)
(* Proofs about the server loop, for every number of workers, pushers,     *)
(* connections, connection ids and requests and every limit of the queue.  *)
(***************************************************************************)
EXTENDS ServerLoop, SequenceTheorems, TLAPS

-----------------------------------------------------------------------------
(* The inductive invariant: types.                                         *)

\* A worker has a request exactly while it is in svr_work_cb.
HandsBusy == \A w \in Workers : doing[w] # NoReq <=> wpc[w] # "idle"

\* The request that is pushed again and again has been read.
SpinRead == loop = "spin" => spin \in 1 .. nreq

TypeInv == TypeOK /\ HandsBusy /\ SpinRead
-----------------------------------------------------------------------------
(* The inductive invariant: connections.                                   *)

\* Connections that were not accepted are in no state and have no id.
ConnsFresh ==
    \A c \in Conns : c > accepted => st[c] = "none" /\ connId[c] = INVALID_CONNID

\* As long as ids have not wrapped, the next one is larger than all that were given out,
\* and no two connections have the same.
IdsGrow ==
    accepted < MaxConnId =>
        ConnIdOf(nextConn) <= accepted + 1 /\ \A c \in Conns : connId[c] < ConnIdOf(nextConn)
IdsDistinct ==
    accepted <= MaxConnId =>
        \A c, d \in Conns : connId[c] = connId[d] /\ connId[c] # INVALID_CONNID => c = d

\* A request that was read carries the id of the connection it was read from.
AskerKnown ==
    \A r \in 1 .. nreq : asker[r] \in 1 .. accepted /\ respId[r] = connId[asker[r]]

ConnInv == ConnsFresh /\ TableSafe /\ IdsGrow /\ IdsDistinct /\ AskerKnown
-----------------------------------------------------------------------------
(* The inductive invariant: requests.                                      *)

\* Nothing was done for request r: it is alive, its semaphore was not posted, and no answer
\* was written.
Unanswered(r) ==
    /\ task[r] = "alive" /\ sem[r] = 0 /\ answers[r] = <<>>
    /\ \A x \in writes : x.req # r

\* Worker w waits and the loop has taken up its answer.
TakenUp(w) == wpc[w] = "waiting" /\ w \notin asyncs

\* The request of which several copies may be under way.
Repeated == IF loop = "spin" THEN spin ELSE NoReq

\* A worker whose handle is signalled waits for the loop.
PostedWaits == \A w \in Workers : w \in asyncs => wpc[w] = "waiting"

\* Requests that were not read are nowhere.
ReqsFresh ==
    \A r \in Reqs : r > nreq => sem[r] = 0 /\ answers[r] = <<>> /\ \A x \in writes : x.req # r

\* Those in the queue, those in the hands of a worker that the loop has not taken up, and
\* the repeated one are unanswered.
QueueUnanswered ==
    \A n \in 1 .. Len(waiting) : waiting[n] <= nreq /\ Unanswered(waiting[n])
HandsUnanswered ==
    \A w \in Workers : doing[w] # NoReq =>
        doing[w] <= nreq /\ task[doing[w]] = "alive" /\ (TakenUp(w) \/ Unanswered(doing[w]))
SpinUnanswered == loop = "spin" => Unanswered(spin)

\* All others are in one place only.
QueueDistinct ==
    \A m, n \in 1 .. Len(waiting) : waiting[m] = waiting[n] => m = n \/ waiting[m] = Repeated
HandsDistinct ==
    \A v, w \in Workers :
        doing[v] = doing[w] /\ doing[v] # NoReq => v = w \/ doing[v] = Repeated
HandsApart ==
    \A n \in 1 .. Len(waiting), w \in Workers : waiting[n] = doing[w] => doing[w] = Repeated

\* A posted semaphore and a write of an answer exclude each other, there is one of each at
\* most, and the worker waits for it.
SemHeld ==
    \A r \in Reqs : sem[r] # 0 =>
        /\ sem[r] = 1 /\ \A x \in writes : x.req # r
        /\ \E w \in Workers : doing[w] = r /\ TakenUp(w)
WriteHeld ==
    \A x \in writes : x.req # NoReq =>
        /\ \A y \in writes : y.req = x.req => y = x
        /\ \E w \in Workers : doing[w] = x.req /\ TakenUp(w)

\* Between two runs of the loop, and when the pool is joined, nothing is under way.
Quiet ==
    /\ main = "idle" => loop = "none"
    /\ phase \in {"cleared", "gone"} => waiting = <<>>
    /\ \A w \in ended : doing[w] = NoReq
    /\ phase = "gone" => ended = Workers
    /\ loop \in {"stop", "exit"} => phase = "gone"
    /\ loop = "none" => waiting = <<>> /\ \A w \in Workers : doing[w] = NoReq
    /\ loop \in {"none", "exit"} => writes = {}

ReqInv ==
    /\ PostedWaits /\ ReqsFresh /\ QueueUnanswered /\ HandsUnanswered /\ SpinUnanswered
    /\ QueueDistinct /\ HandsDistinct /\ HandsApart /\ SemHeld /\ WriteHeld
    /\ Quiet /\ AnsweredOnce /\ AnswerToAsker

ServerInv == TypeInv /\ ConnInv /\ ReqInv
-----------------------------------------------------------------------------
(* Types.                                                                  *)

\* The generator yields a connection id and keeps its counter within its width.
LEMMA ConnIdTypes ==
    ASSUME TypeOK
    PROVE  ApplyConnIdForSvr \in ConnIds /\ ConnCounterAfter(nextConn, MaxConnId) \in 0 .. MaxConnId
<1>1. nextConn \in 0 .. MaxConnId /\ MaxConnId \in Nat \ {0}
    BY ServerBounds DEF TypeOK, ConnTypes
<1>2. ConnIdOf(nextConn) \in 1 .. MaxConnId
    BY <1>1 DEF ConnIdOf, INVALID_CONNID
<1>3. \A k \in Nat : k % (MaxConnId + 1) \in 0 .. MaxConnId
    BY <1>1
<1> QED BY <1>1, <1>2, <1>3 DEF ApplyConnIdForSvr, ConnIds, ConnCounterAfter

LEMMA TypeInit == Init => TypeInv
<1> SUFFICES ASSUME Init PROVE TypeInv
    OBVIOUS
<1> USE ServerBounds DEF Init, Pool!Init, INVALID_CONNID, NoConn, NoReq
<1>1. ThreadTypes
    <2>1. inited \in BOOLEAN /\ running \in BOOLEAN /\ crashed \in BOOLEAN
        OBVIOUS
    <2>2. wpc \in [Workers -> {"idle", "handler", "admitted", "waiting"}]
        OBVIOUS
    <2>3. ppc \in [Pushers -> {"idle", "admitted", "waiting"}] /\ psem \in [Pushers -> Nat]
        OBVIOUS
    <2> QED BY <2>1, <2>2, <2>3 DEF ThreadTypes
<1>2. TaskTypes
    BY DEF TaskTypes
<1>3. ConnTypes
    BY DEF ConnTypes
<1>4. Pool!TypeOK
    <2>1. waiting \in Seq(Reqs)
        OBVIOUS
    <2>2. broken \in BOOLEAN
        OBVIOUS
    <2>3. doing \in [Workers -> Reqs \cup {NoReq}]
        OBVIOUS
    <2> QED BY <2>1, <2>2, <2>3 DEF Pool!TypeOK
<1> QED BY <1>1, <1>2, <1>3, <1>4 DEF TypeInv, TypeOK, HandsBusy, SpinRead

\* Steps of the main thread and of the pushers.
LEMMA TypeCallers ==
    ASSUME TypeInv,
           \/ \E listening \in BOOLEAN : ssn_startup_server(listening)
           \/ ssn_shutdown_server \/ MainStep
           \/ \E p \in Pushers : ssn_push(p) \/ async_push(p) \/ PushReturn(p)
    PROVE  TypeInv'
<1> USE ServerThreads, ServerBounds DEF TypeInv, TypeOK, ThreadTypes, HandsBusy,
        SpinRead, mainVars, poolVars, taskVars, pushVars, connVars, netVars
<1>1. ASSUME NEW listening \in BOOLEAN, ssn_startup_server(listening) PROVE TypeInv'
    <2>1. inited' \in BOOLEAN /\ running' \in BOOLEAN /\ crashed' \in BOOLEAN
        BY <1>1 DEF ssn_startup_server
    <2>2. Pool!TypeOK'
        <3>1. waiting' \in Seq(Reqs)
            BY <1>1 DEF ssn_startup_server
        <3>2. broken' \in BOOLEAN
            BY <1>1 DEF ssn_startup_server
        <3> QED BY <1>1, <3>1, <3>2 DEF ssn_startup_server, Pool!TypeOK
    <2>3. TaskTypes' /\ ConnTypes'
        BY <1>1 DEF ssn_startup_server, TaskTypes, ConnTypes
    <2>4. HandsBusy' /\ SpinRead'
        BY <1>1 DEF ssn_startup_server
    <2>5. ThreadTypes'
        BY <1>1, <2>1 DEF ssn_startup_server
    <2> QED BY <2>2, <2>3, <2>4, <2>5
<1>2. CASE ssn_shutdown_server
    BY <1>2 DEF ssn_shutdown_server, TaskTypes, ConnTypes, Pool!TypeOK
<1>3. CASE start_server_loop
    BY <1>3 DEF start_server_loop, TaskTypes, ConnTypes, Pool!TypeOK
<1>4. CASE async_close_server
    BY <1>4 DEF async_close_server, TaskTypes, ConnTypes, Pool!TypeOK
<1>5. CASE uninit_server_loop
    BY <1>5 DEF uninit_server_loop, TaskTypes, ConnTypes, Pool!TypeOK
<1>6. ASSUME NEW zero \in BOOLEAN, CloseReturn(zero) PROVE TypeInv'
    <2>1. running' \in BOOLEAN
        BY <1>6 DEF CloseReturn
    <2>2. closeSem' \in Nat
        BY <1>6 DEF CloseReturn
    <2> QED BY <1>6, <2>1, <2>2 DEF CloseReturn, TaskTypes, ConnTypes, Pool!TypeOK
<1>7. ASSUME NEW p \in Pushers, ssn_push(p) PROVE TypeInv'
    BY <1>7 DEF ssn_push, TaskTypes, ConnTypes, Pool!TypeOK
<1>8. ASSUME NEW p \in Pushers, async_push(p) PROVE TypeInv'
    BY <1>8 DEF async_push, TaskTypes, ConnTypes, Pool!TypeOK
<1>9. ASSUME NEW p \in Pushers, PushReturn(p) PROVE TypeInv'
    BY <1>9 DEF PushReturn, TaskTypes, ConnTypes, Pool!TypeOK
<1> QED BY <1>1, <1>2, <1>3, <1>4, <1>5, <1>6, <1>7, <1>8, <1>9 DEF MainStep

\* Steps of the workers.
LEMMA TypeWorkers ==
    ASSUME TypeInv, NEW w \in Workers, WorkerStep(w)
    PROVE  TypeInv'
<1> USE ServerThreads, ServerBounds DEF TypeInv, TypeOK, ThreadTypes, HandsBusy,
        SpinRead, mainVars, poolVars, taskVars, pushVars, connVars, netVars
<1>1. CASE TakeRequest(w)
    <2>1. Head(waiting) \in Reqs /\ Tail(waiting) \in Seq(Reqs) /\ NoReq \notin Reqs
        BY <1>1 DEF TakeRequest, Pool!Take, Pool!TypeOK, Reqs, NoReq
    <2>2. Pool!TypeOK'
        BY <1>1, <2>1 DEF TakeRequest, Pool!Take, Pool!TypeOK
    <2>3. TaskTypes' /\ ConnTypes'
        BY <1>1 DEF TakeRequest, TaskTypes, ConnTypes
    <2>4. HandsBusy' /\ SpinRead'
        BY <1>1, <2>1 DEF TakeRequest, Pool!Take, Pool!TypeOK
    <2>5. ThreadTypes'
        BY <1>1 DEF TakeRequest
    <2> QED BY <2>2, <2>3, <2>4, <2>5
<1>2. CASE sl_create_async(w)
    <2>1. crashed' \in BOOLEAN
        BY <1>2 DEF sl_create_async
    <2>2. wpc' \in [Workers -> {"idle", "handler", "admitted", "waiting"}]
        BY <1>2 DEF sl_create_async
    <2>3. HandsBusy'
        BY <1>2 DEF sl_create_async
    <2> QED BY <1>2, <2>1, <2>2, <2>3 DEF sl_create_async, TaskTypes, ConnTypes, Pool!TypeOK
<1>3. CASE PostAnswer(w)
    BY <1>3 DEF PostAnswer, TaskTypes, ConnTypes, Pool!TypeOK
<1>4. CASE DeleteTask(w)
    <2>1. doing[w] \in Reqs
        BY <1>4 DEF DeleteTask, Pool!TypeOK
    <2>2. Pool!TypeOK'
        BY <1>4 DEF DeleteTask, Pool!Done, Pool!TypeOK
    <2>3. TaskTypes' /\ ConnTypes'
        BY <1>4, <2>1 DEF DeleteTask, TaskTypes, ConnTypes
    <2>4. HandsBusy' /\ SpinRead'
        BY <1>4, <2>1 DEF DeleteTask, Pool!Done, Pool!TypeOK
    <2>5. ThreadTypes'
        BY <1>4 DEF DeleteTask
    <2> QED BY <2>2, <2>3, <2>4, <2>5
<1>5. CASE LeavePool(w)
    BY <1>5 DEF LeavePool, Pool!End, TaskTypes, ConnTypes, Pool!TypeOK
<1> QED BY <1>1, <1>2, <1>3, <1>4, <1>5 DEF WorkerStep

\* Callbacks of the connections.
LEMMA TypeConns ==
    ASSUME TypeInv,
           \/ \E result \in AcceptResults : listen_cb(result)
           \/ \E c \in Conns : ConnStep(c)
           \/ \E x \in writes : Flush(x) \/ write_cb(x)
    PROVE  TypeInv'
<1> USE ServerThreads, ServerBounds DEF TypeInv, TypeOK, ThreadTypes, HandsBusy,
        SpinRead, mainVars, poolVars, taskVars, pushVars, connVars, netVars
<1>1. ASSUME NEW result \in AcceptResults, listen_cb(result) PROVE TypeInv'
    <2>1. /\ accepted + 1 \in Conns /\ ApplyConnIdForSvr \in ConnIds
          /\ ConnCounterAfter(nextConn, MaxConnId) \in 0 .. MaxConnId
        BY <1>1, ConnIdTypes DEF listen_cb, ConnTypes, Conns
    <2>2. crashed' \in BOOLEAN
        BY <1>1 DEF listen_cb
    <2>3. accepted' \in 0 .. MaxConn
        BY <1>1 DEF listen_cb, ConnTypes
    <2>4. nextConn' \in 0 .. MaxConnId
        BY <1>1, <2>1 DEF listen_cb, ConnTypes
    <2>5. st' \in [Conns -> {"none", "open", "closing", "dangling", "freed"}]
        BY <1>1, <2>1 DEF listen_cb, ConnTypes
    <2>6. connTable' \in [ConnIds -> Conns \cup {NoConn}]
        BY <1>1, <2>1 DEF listen_cb, ConnTypes
    <2>7. connId' \in [Conns -> ConnIds \cup {INVALID_CONNID}]
        BY <1>1, <2>1 DEF listen_cb, ConnTypes
    <2> QED BY <1>1, <2>2, <2>3, <2>4, <2>5, <2>6, <2>7
            DEF listen_cb, TaskTypes, ConnTypes, Pool!TypeOK
<1>2. ASSUME NEW c \in Conns, read_cb_request(c) PROVE TypeInv'
    <2>1. nreq + 1 \in Reqs /\ nreq' = nreq + 1 /\ Reqs \subseteq Nat /\ nreq \in Nat
        BY <1>2 DEF read_cb_request, TaskTypes, Reqs
    <2>2. Pool!TypeOK'
        <3>1. CASE Pool!Push(nreq + 1)
            BY <2>1, <3>1 DEF Pool!Push, Pool!TypeOK
        <3>2. CASE UNCHANGED poolVars
            BY <3>2 DEF Pool!TypeOK
        <3> QED BY <1>2, <3>1, <3>2 DEF read_cb_request
    <2>3. TaskTypes'
        BY <1>2, <2>1 DEF read_cb_request, TaskTypes, ConnTypes, Reqs
    <2>4. ConnTypes'
        BY <1>2 DEF read_cb_request, ConnTypes
    <2>5. HandsBusy' /\ SpinRead'
        BY <1>2, <2>1 DEF read_cb_request, Pool!Push
    <2>6. ThreadTypes'
        BY <1>2, <2>1 DEF read_cb_request
    <2> QED BY <2>2, <2>3, <2>4, <2>5, <2>6
<1>3. ASSUME NEW c \in Conns, read_cb_eof(c) PROVE TypeInv'
    BY <1>3 DEF read_cb_eof, sl_conn_del, TaskTypes, ConnTypes, Pool!TypeOK
<1>4. ASSUME NEW c \in Conns, close_cb(c) PROVE TypeInv'
    BY <1>4 DEF close_cb, sl_conn_del, TaskTypes, ConnTypes, Pool!TypeOK
<1>5. ASSUME NEW c \in Conns, close_cb_dangling(c) PROVE TypeInv'
    <2>1. crashed' \in BOOLEAN
        BY <1>5 DEF close_cb_dangling
    <2> QED BY <1>5, <2>1 DEF close_cb_dangling, sl_conn_del, TaskTypes, ConnTypes, Pool!TypeOK
<1>6. ASSUME NEW x \in writes, Flush(x) PROVE TypeInv'
    <2>1. x \in WriteReq /\ [x EXCEPT !.sent = TRUE] \in WriteReq
        BY DEF ConnTypes, WriteReq
    <2>2. writes' \subseteq WriteReq
        BY <1>6, <2>1 DEF Flush, ConnTypes
    <2> QED BY <1>6, <2>2 DEF Flush, TaskTypes, ConnTypes, Pool!TypeOK
<1>7. ASSUME NEW x \in writes, write_cb(x) PROVE TypeInv'
    <2>1. x \in WriteReq /\ x.req \in Reqs \cup {NoReq}
        BY DEF ConnTypes, WriteReq
    <2>2. sem' \in [Reqs -> Nat]
        BY <1>7, <2>1 DEF write_cb, sl_finish_task, TaskTypes
    <2> QED BY <1>7, <2>2 DEF write_cb, TaskTypes, ConnTypes, Pool!TypeOK
<1> QED BY <1>1, <1>2, <1>3, <1>4, <1>5, <1>6, <1>7 DEF ConnStep

\* async_cb, and what the loop thread does in its two waits.
LEMMA TypeAsyncs ==
    ASSUME TypeInv, PostedWaits,
           AsyncStep \/ PushAgain \/ CancelPool \/ ShutdownDone \/ LoopExit
    PROVE  TypeInv'
<1> USE ServerThreads, ServerBounds DEF TypeInv, TypeOK, ThreadTypes, HandsBusy,
        SpinRead, mainVars, poolVars, taskVars, pushVars, connVars, netVars
<1>1. \A w \in Workers : w \in asyncs => doing[w] \in Reqs
    BY DEF PostedWaits, Pool!TypeOK
<1>2. ASSUME NEW t \in Workers \cup Pushers \cup {Main}, async_cb_not_ready(t) PROVE TypeInv'
    <2>1. asyncs' \subseteq asyncs /\ t \in asyncs
        BY <1>2 DEF async_cb_not_ready, AsyncRuns
    <2>2. sem' \in [Reqs -> Nat] /\ psem' \in [Pushers -> Nat] /\ closeSem' \in Nat
        BY <1>1, <1>2, <2>1 DEF async_cb_not_ready, sl_finish_task, TaskTypes
    <2> QED BY <1>2, <2>1, <2>2 DEF async_cb_not_ready, TaskTypes, ConnTypes, Pool!TypeOK
<1>3. ASSUME NEW w \in Workers, NEW written \in BOOLEAN, async_cb_resp(w, written)
      PROVE  TypeInv'
    <2> DEFINE c == sl_conn_find(respId[doing[w]])
    <2>1. asyncs' \subseteq asyncs /\ w \in asyncs /\ doing[w] \in Reqs
        BY <1>1, <1>3 DEF async_cb_resp, AsyncRuns
    <2>2. c \in Conns \cup {NoConn}
        BY DEF sl_conn_find, ConnTypes
    <2>3. sem' \in [Reqs -> Nat]
        BY <1>3, <2>1 DEF async_cb_resp, sl_finish_task, TaskTypes
    <2>4. writes' \subseteq WriteReq
        <3>1. c # NoConn =>
                  [req |-> doing[w], push |-> 0, conn |-> c, sent |-> FALSE] \in WriteReq
            BY <2>1, <2>2 DEF WriteReq
        <3> QED BY <1>3, <3>1 DEF async_cb_resp, ConnTypes
    <2>5. answers' \in [Reqs -> Seq(Conns)]
        <3>1. c # NoConn => Append(answers[doing[w]], c) \in Seq(Conns)
            BY <2>1, <2>2 DEF ConnTypes
        <3> QED BY <1>3, <2>1, <3>1 DEF async_cb_resp, ConnTypes
    <2> QED BY <1>3, <2>1, <2>3, <2>4, <2>5
            DEF async_cb_resp, TaskTypes, ConnTypes, Pool!TypeOK
<1>4. ASSUME NEW p \in Pushers, NEW reached \in SUBSET Conns, async_cb_push(p, reached)
      PROVE  TypeInv'
    <2>1. asyncs' \subseteq asyncs
        BY <1>4 DEF async_cb_push, AsyncRuns
    <2>2. writes' \subseteq WriteReq
        <3>1. \A c \in reached :
                  [req |-> NoReq, push |-> npush, conn |-> c, sent |-> FALSE] \in WriteReq
            BY DEF WriteReq
        <3> QED BY <1>4, <3>1 DEF async_cb_push, ConnTypes
    <2> QED BY <1>4, <2>1, <2>2 DEF async_cb_push, TaskTypes, ConnTypes, Pool!TypeOK
<1>5. CASE async_cb_close
    <2>1. asyncs' \subseteq asyncs /\ running' \in BOOLEAN
        BY <1>5 DEF async_cb_close, AsyncRuns
    <2> QED BY <1>5, <2>1 DEF async_cb_close, Pool!Stop, TaskTypes, ConnTypes, Pool!TypeOK
<1>6. CASE PushAgain
    <2>1. spin \in Reqs
        BY <1>6 DEF PushAgain, TaskTypes, Reqs
    <2> QED BY <1>6, <2>1 DEF PushAgain, Pool!Push, TaskTypes, ConnTypes, Pool!TypeOK
<1>7. CASE CancelPool
    <2>1. broken' \in BOOLEAN /\ crashed' \in BOOLEAN
        BY <1>7 DEF CancelPool, Pool!Clear
    <2>2. waiting' \in Seq(Reqs)
        BY <1>7 DEF CancelPool, Pool!Clear
    <2> QED BY <1>7, <2>1, <2>2 DEF CancelPool, Pool!Clear, TaskTypes, ConnTypes, Pool!TypeOK
<1>8. CASE ShutdownDone
    BY <1>8 DEF ShutdownDone, ClosedAtShutdown, Pool!Joined, TaskTypes, ConnTypes, Pool!TypeOK
<1>9. CASE LoopExit
    BY <1>9 DEF LoopExit, TaskTypes, ConnTypes, Pool!TypeOK
<1> QED BY <1>2, <1>3, <1>4, <1>5, <1>6, <1>7, <1>8, <1>9 DEF AsyncStep

\* Every step keeps the types.
LEMMA TypeStep == TypeInv /\ PostedWaits /\ [Next]_vars => TypeInv'
<1>1. ASSUME TypeInv, UNCHANGED vars PROVE TypeInv'
    BY <1>1 DEF TypeInv, TypeOK, ThreadTypes, HandsBusy, SpinRead, TaskTypes, ConnTypes,
        Pool!TypeOK, vars, mainVars, poolVars, taskVars, pushVars, connVars, netVars
<1> QED BY <1>1, TypeCallers, TypeWorkers, TypeConns, TypeAsyncs DEF Next
-----------------------------------------------------------------------------
(* Connections.                                                            *)

LEMMA ConnInit == Init => ConnInv
    BY ServerBounds DEF Init, ConnInv, ConnsFresh, TableSafe, IdsGrow, IdsDistinct, AskerKnown,
        INVALID_CONNID, NoConn, ConnIdOf, Conns, ConnIds, Reqs

\* A connection is accepted.
LEMMA ConnListen ==
    ASSUME TypeInv, ConnInv, NEW result \in AcceptResults, listen_cb(result)
    PROVE  ConnInv'
<1> DEFINE c == accepted + 1
           i == ApplyConnIdForSvr
<1>1. /\ c \in Conns /\ accepted' = c /\ accepted \in Nat /\ MaxConnId \in Nat \ {0}
      /\ c = accepted + 1 /\ i \in ConnIds /\ i = ConnIdOf(nextConn) /\ i \in Nat \ {0}
      /\ UNCHANGED <<nreq, asker, respId>>
    BY ServerBounds, ConnIdTypes
        DEF listen_cb, taskVars, TypeInv, TypeOK, ConnTypes, Conns, ConnIds, ApplyConnIdForSvr
<1>2. /\ connTable \in [ConnIds -> Conns \cup {NoConn}]
      /\ st \in [Conns -> {"none", "open", "closing", "dangling", "freed"}]
      /\ connId \in [Conns -> ConnIds \cup {INVALID_CONNID}]
      /\ Conns \subseteq Nat \ {0} /\ ConnIds \subseteq Nat \ {0}
    BY DEF TypeInv, TypeOK, ConnTypes, Conns, ConnIds
<1>3. st[c] = "none" /\ connId[c] = INVALID_CONNID /\ \A k \in ConnIds : connTable[k] # c
    <2>1. st[c] = "none" /\ connId[c] = INVALID_CONNID
        BY <1>1 DEF ConnInv, ConnsFresh
    <2>2. c # NoConn
        BY <1>1, <1>2 DEF NoConn
    <2> QED BY <2>1, <2>2 DEF ConnInv, TableSafe
<1>4. \A d \in Conns : d # c => st'[d] = st[d] /\ connId'[d] = connId[d]
    BY <1>1, <1>2 DEF listen_cb
<1>5. ConnsFresh'
    BY <1>1, <1>2, <1>4 DEF ConnInv, ConnsFresh
<1>6. AskerKnown'
    <2> SUFFICES ASSUME NEW r \in 1 .. nreq
                 PROVE  asker[r] \in 1 .. c /\ respId[r] = connId'[asker[r]]
        BY <1>1 DEF AskerKnown
    <2>1. asker[r] \in 1 .. accepted /\ respId[r] = connId[asker[r]]
        BY DEF ConnInv, AskerKnown
    <2>2. asker[r] \in Conns /\ asker[r] # c /\ asker[r] \in 1 .. c
        BY <1>1, <2>1, ServerBounds DEF Conns
    <2> QED BY <1>4, <2>1, <2>2
<1> HIDE DEF c, i
<1>7. CASE result # "ok"
    <2>1. UNCHANGED <<connTable, connId, nextConn>>
        BY <1>7 DEF listen_cb
    <2>2. TableSafe'
        <3> SUFFICES ASSUME NEW k \in ConnIds, connTable[k] # NoConn
                     PROVE  st'[connTable[k]] = "open" /\ connId'[connTable[k]] = k
            BY <2>1 DEF TableSafe
        <3>10. connTable[k] \in Conns \ {c}
            BY <1>2, <1>3
        <3> QED BY <1>4, <3>10 DEF ConnInv, TableSafe
    <2>3. IdsGrow' /\ IdsDistinct'
        BY <1>1, <2>1 DEF ConnInv, IdsGrow, IdsDistinct
    <2> QED BY <1>5, <1>6, <2>2, <2>3 DEF ConnInv
<1>8. CASE result = "ok"
    <2>1. nextConn' = ConnCounterAfter(nextConn, MaxConnId) /\ st'[c] = "open"
        BY <1>1, <1>2, <1>8 DEF listen_cb
    <2>2. CASE /\ connTable[i] = NoConn
               /\ connTable' = [connTable EXCEPT ![i] = c]
               /\ connId' = [connId EXCEPT ![c] = i]
        <3>1. TableSafe'
            <4> SUFFICES ASSUME NEW k \in ConnIds, connTable'[k] # NoConn
                         PROVE  st'[connTable'[k]] = "open" /\ connId'[connTable'[k]] = k
                BY DEF TableSafe
            <4>1. CASE k = i
                BY <1>1, <1>2, <2>1, <2>2, <4>1
            <4>2. CASE k # i
                <5>1. connTable'[k] = connTable[k] /\ connTable[k] \in Conns \ {c}
                    BY <1>2, <1>3, <2>2, <4>2
                <5> QED BY <1>4, <5>1 DEF ConnInv, TableSafe
            <4> QED BY <4>1, <4>2
        <3>2. IdsDistinct'
            BY <1>1, <1>2, <2>2 DEF ConnInv, IdsDistinct, IdsGrow, INVALID_CONNID
        <3>3. IdsGrow'
            <4> SUFFICES ASSUME c < MaxConnId
                         PROVE  /\ ConnIdOf(nextConn') <= c + 1
                                /\ \A d \in Conns : connId'[d] < ConnIdOf(nextConn')
                BY <1>1 DEF IdsGrow
            <4>1. i <= c /\ \A d \in Conns : connId[d] < i
                BY <1>1 DEF ConnInv, IdsGrow
            <4>2. i + 1 \in 1 .. MaxConnId
                BY <1>1, <4>1
            <4>3. (i + 1) % (MaxConnId + 1) = i + 1
                BY <1>1, <4>2
            <4>4. nextConn' = i + 1 /\ ConnIdOf(nextConn') = i + 1
                <5>1. nextConn' = i + 1
                    BY <1>1, <2>1, <4>3 DEF ConnCounterAfter
                <5> QED BY <1>1, <5>1 DEF ConnIdOf, INVALID_CONNID
            <4>5. \A d \in Conns : connId'[d] < i + 1
                <5> SUFFICES ASSUME NEW d \in Conns PROVE connId'[d] < i + 1
                    OBVIOUS
                <5>1. connId[d] \in Nat /\ connId[d] < i
                    <6>1. connId[d] \in ConnIds \cup {0}
                        BY <1>2 DEF INVALID_CONNID
                    <6>2. connId[d] \in Nat
                        BY <6>1, ServerBounds DEF ConnIds
                    <6>3. connId[d] < i
                        BY <4>1
                    <6> QED BY <6>2, <6>3
                <5>2. connId'[d] = i \/ connId'[d] = connId[d]
                    BY <1>2, <2>2
                <5> QED BY <1>1, <5>1, <5>2
            <4> QED BY <1>1, <4>1, <4>4, <4>5
        <3> QED BY <1>5, <1>6, <3>1, <3>2, <3>3 DEF ConnInv
    <2>3. CASE connTable[i] # NoConn /\ UNCHANGED connTable
        <3>1. TableSafe'
            <4> SUFFICES ASSUME NEW k \in ConnIds, connTable[k] # NoConn
                         PROVE  st'[connTable[k]] = "open" /\ connId'[connTable[k]] = k
                BY <2>3 DEF TableSafe
            <4>10. connTable[k] \in Conns \ {c}
                BY <1>2, <1>3
            <4> QED BY <1>4, <4>10 DEF ConnInv, TableSafe
        <3>2. connTable[i] \in Conns /\ connId[connTable[i]] = i
            BY <1>1, <1>2, <2>3 DEF ConnInv, TableSafe
        <3>3. ~(accepted < MaxConnId)
            <4>1. IdsGrow /\ ~(i < i) /\ i = ConnIdOf(nextConn)
                BY <1>1 DEF ConnInv
            <4> QED BY <3>2, <4>1 DEF IdsGrow
        <3>4. IdsGrow' /\ IdsDistinct'
            BY <1>1, <3>3 DEF IdsGrow, IdsDistinct
        <3> QED BY <1>5, <1>6, <3>1, <3>4 DEF ConnInv
    <2> QED BY <1>8, <2>2, <2>3 DEF listen_cb, c, i
<1> QED BY <1>7, <1>8

\* A connection is closed and taken out of the table, or what an id names is taken out.
LEMMA ConnClose ==
    ASSUME TypeInv, ConnInv, NEW c \in Conns,
           read_cb_eof(c) \/ close_cb(c) \/ close_cb_dangling(c)
    PROVE  ConnInv'
<1>1. /\ connTable \in [ConnIds -> Conns \cup {NoConn}]
      /\ st \in [Conns -> {"none", "open", "closing", "dangling", "freed"}]
      /\ UNCHANGED <<nreq, asker, respId, nextConn, accepted, connId>>
    BY DEF TypeInv, TypeOK, ConnTypes, read_cb_eof, close_cb, close_cb_dangling, taskVars
<1>2. st[c] # "none" /\ \A d \in Conns : d # c => st'[d] = st[d]
    BY <1>1 DEF read_cb_eof, close_cb, close_cb_dangling
<1>3. \A i \in ConnIds : connTable'[i] # NoConn => connTable'[i] = connTable[i]
    BY <1>1 DEF read_cb_eof, close_cb, close_cb_dangling, sl_conn_del
<1>4. ASSUME NEW i \in ConnIds PROVE connTable'[i] # c
    <2>1. c # NoConn
        BY DEF Conns, NoConn
    <2>2. CASE read_cb_eof(c)
        <3>1. CASE i = connId[c]
            BY <1>1, <2>1, <2>2, <3>1 DEF read_cb_eof, sl_conn_del
        <3>2. CASE i # connId[c]
            BY <1>3, <2>1, <3>2 DEF ConnInv, TableSafe
        <3> QED BY <3>1, <3>2
    <2>3. CASE st[c] # "open"
        BY <1>3, <2>1, <2>3 DEF ConnInv, TableSafe
    <2> QED BY <2>2, <2>3 DEF close_cb, close_cb_dangling
<1>5. TableSafe'
    BY <1>1, <1>2, <1>3, <1>4 DEF ConnInv, TableSafe
<1>6. ConnsFresh'
    BY <1>1, <1>2 DEF ConnInv, ConnsFresh
<1> QED BY <1>1, <1>5, <1>6 DEF ConnInv, IdsGrow, IdsDistinct, AskerKnown

\* A request is read.
LEMMA ConnRead ==
    ASSUME TypeInv, ConnInv, NEW c \in Conns, read_cb_request(c)
    PROVE  ConnInv'
<1>1. /\ UNCHANGED <<connTable, nextConn, accepted, st, connId>>
      /\ nreq \in Nat /\ nreq + 1 \in Reqs /\ nreq' = nreq + 1
      /\ asker' = [asker EXCEPT ![nreq + 1] = c]
      /\ respId' = [respId EXCEPT ![nreq + 1] = connId[c]]
    <2>1. nreq \in Nat /\ nreq + 1 \in Reqs
        BY ServerBounds DEF read_cb_request, TypeInv, TypeOK, TaskTypes, Reqs
    <2> QED BY <2>1 DEF read_cb_request, connVars
<1>2. c \in 1 .. accepted
    BY DEF read_cb_request, ConnInv, ConnsFresh, Conns, TypeInv, TypeOK, ConnTypes
<1>3. AskerKnown'
    BY <1>1, <1>2 DEF ConnInv, AskerKnown, TypeInv, TypeOK, TaskTypes, Reqs
<1> QED BY <1>1, <1>3 DEF ConnInv, ConnsFresh, TableSafe, IdsGrow, IdsDistinct

\* Every step keeps the invariant of the connections.
LEMMA ConnStepInv == TypeInv /\ ConnInv /\ [Next]_vars => ConnInv'
<1> SUFFICES ASSUME TypeInv, ConnInv, [Next]_vars PROVE ConnInv'
    OBVIOUS
<1>1. CASE UNCHANGED <<connVars, asker, respId, nreq>>
    BY <1>1 DEF connVars, ConnInv, ConnsFresh, TableSafe, IdsGrow, IdsDistinct, AskerKnown
<1>2. CASE ShutdownDone
    <2>1. /\ UNCHANGED <<nextConn, accepted, connId, asker, respId, nreq>>
          /\ connTable' = [i \in ConnIds |-> NoConn] /\ st' = ClosedAtShutdown
        BY <1>2 DEF ShutdownDone, taskVars
    <2>2. \A c \in Conns : st[c] = "none" => st'[c] = "none"
        BY <2>1 DEF ClosedAtShutdown
    <2> QED BY <2>1, <2>2 DEF ConnInv, ConnsFresh, TableSafe, IdsGrow, IdsDistinct, AskerKnown
<1>3. ASSUME NEW c \in Conns, ConnStep(c) PROVE ConnInv'
    BY <1>3, ConnClose, ConnRead DEF ConnStep
<1>4. ASSUME NEW w \in Workers, WorkerStep(w) PROVE UNCHANGED <<connVars, asker, respId, nreq>>
    BY <1>4 DEF WorkerStep, TakeRequest, sl_create_async, PostAnswer, DeleteTask, LeavePool,
        taskVars
<1>5. CASE \/ \E listening \in BOOLEAN : ssn_startup_server(listening)
           \/ ssn_shutdown_server \/ MainStep
           \/ \E p \in Pushers : ssn_push(p) \/ async_push(p) \/ PushReturn(p)
    BY <1>1, <1>5 DEF MainStep, ssn_startup_server, ssn_shutdown_server, start_server_loop,
        async_close_server, uninit_server_loop, CloseReturn, ssn_push, async_push, PushReturn,
        taskVars
<1>6. CASE \/ \E x \in writes : Flush(x) \/ write_cb(x)
           \/ AsyncStep \/ PushAgain \/ CancelPool \/ LoopExit
    BY <1>1, <1>6 DEF Flush, write_cb, AsyncStep, async_cb_not_ready, async_cb_resp,
        async_cb_push, async_cb_close, PushAgain, CancelPool, LoopExit, taskVars
<1>7. CASE UNCHANGED vars
    BY <1>1, <1>7 DEF vars, taskVars
<1> QED BY <1>1, <1>2, <1>3, <1>4, <1>5, <1>6, <1>7, ConnListen DEF Next
-----------------------------------------------------------------------------
(* Requests.                                                               *)

\* What the types say of the places a request can be in.
LEMMA Places ==
    ASSUME TypeInv
    PROVE  /\ waiting \in Seq(Reqs) /\ Len(waiting) \in Nat
           /\ \A n \in 1 .. Len(waiting) : waiting[n] \in Reqs
           /\ doing \in [Workers -> Reqs \cup {NoReq}] /\ NoReq \notin Reqs
           /\ Reqs \subseteq Nat /\ nreq \in 0 .. MaxReq /\ nreq \in Nat
           /\ task \in [Reqs -> {"none", "alive", "deleted"}] /\ sem \in [Reqs -> Nat]
           /\ answers \in [Reqs -> Seq(Conns)]
           /\ \A x \in writes : x \in WriteReq /\ x.req \in Reqs \cup {NoReq}
<1>1. waiting \in Seq(Reqs) /\ doing \in [Workers -> Reqs \cup {NoReq}]
    BY DEF TypeInv, TypeOK, Pool!TypeOK
<1>2. Len(waiting) \in Nat /\ \A n \in 1 .. Len(waiting) : waiting[n] \in Reqs
    BY <1>1
<1>3. NoReq \notin Reqs /\ Reqs \subseteq Nat
    BY DEF Reqs, NoReq
<1>4. nreq \in 0 .. MaxReq /\ nreq \in Nat
    BY ServerBounds DEF TypeInv, TypeOK, TaskTypes
<1>5. \A x \in writes : x \in WriteReq /\ x.req \in Reqs \cup {NoReq}
    BY DEF TypeInv, TypeOK, ConnTypes, WriteReq
<1> QED BY <1>1, <1>2, <1>3, <1>4, <1>5 DEF TypeInv, TypeOK, TaskTypes, ConnTypes

LEMMA ReqInit == Init => ReqInv
<1> SUFFICES ASSUME Init PROVE ReqInv
    OBVIOUS
<1> USE DEF Init, Pool!Init, NoReq
<1>1. Len(waiting) = 0 /\ \A n \in 1 .. Len(waiting) : FALSE
    OBVIOUS
<1>2. PostedWaits /\ ReqsFresh /\ SpinUnanswered /\ HandsUnanswered
    BY DEF PostedWaits, ReqsFresh, SpinUnanswered, HandsUnanswered
<1>3. QueueUnanswered /\ QueueDistinct /\ HandsApart
    BY <1>1 DEF QueueUnanswered, QueueDistinct, HandsApart
<1>4. HandsDistinct /\ SemHeld /\ WriteHeld
    BY DEF HandsDistinct, SemHeld, WriteHeld
<1>5. Quiet
    BY DEF Quiet
<1>6. AnsweredOnce /\ AnswerToAsker
    <2>1. \A r \in Reqs : answers[r] = <<>>
        OBVIOUS
    <2>2. Len(<<>>) = 0 /\ DOMAIN <<>> = {}
        OBVIOUS
    <2> QED BY <2>1, <2>2 DEF AnsweredOnce, AnswerToAsker
<1> QED BY <1>2, <1>3, <1>4, <1>5, <1>6 DEF ReqInv

\* A step that moves no request keeps what is said of places, if it answers none that is
\* still to be worked on.
LEMMA PlacesKept ==
    ASSUME TypeInv, ReqInv,
           waiting' = waiting \/ waiting' = <<>>,
           UNCHANGED <<doing, nreq, spin>>, loop' = "spin" <=> loop = "spin",
           \A w \in Workers : doing[w] # NoReq => task'[doing[w]] = task[doing[w]],
           \A r \in Reqs : Unanswered(r) => Unanswered(r)',
           \A w \in Workers : TakenUp(w) => TakenUp(w)'
    PROVE  /\ QueueUnanswered' /\ HandsUnanswered' /\ SpinUnanswered'
           /\ QueueDistinct' /\ HandsDistinct' /\ HandsApart'
<1>1. Repeated' = Repeated
    BY DEF Repeated
<1>2. \A n \in 1 .. Len(waiting)' : n \in 1 .. Len(waiting) /\ waiting'[n] = waiting[n]
    <2>1. CASE waiting' = <<>>
        BY <2>1
    <2> QED BY <2>1
<1>3. QueueUnanswered'
    BY <1>2, Places DEF ReqInv, QueueUnanswered
<1>4. HandsUnanswered'
    BY Places DEF ReqInv, HandsUnanswered
<1>5. SpinUnanswered'
    <2>1. loop = "spin" => spin \in Reqs
        BY ServerBounds, Places DEF TypeInv, SpinRead, Reqs
    <2> QED BY <2>1 DEF ReqInv, SpinUnanswered
<1>6. QueueDistinct' /\ HandsDistinct' /\ HandsApart'
    BY <1>1, <1>2 DEF ReqInv, QueueDistinct, HandsDistinct, HandsApart
<1> QED BY <1>3, <1>4, <1>5, <1>6

\* A step that leaves requests, their tasks and their answers alone.
LEMMA ReqKept ==
    ASSUME TypeInv, TypeInv', ReqInv,
           waiting' = waiting \/ waiting' = <<>>,
           UNCHANGED <<doing, nreq, spin, task, sem, asker, answers>>,
           loop' = "spin" <=> loop = "spin",
           \A r \in Reqs : (\A x \in writes : x.req # r) => (\A x \in writes' : x.req # r),
           \A w \in Workers : TakenUp(w) => TakenUp(w)',
           accepted <= accepted',
           PostedWaits', WriteHeld', Quiet'
    PROVE  ReqInv'
<1>1. \A r \in Reqs : Unanswered(r) => Unanswered(r)'
    BY DEF Unanswered
<1>2. /\ QueueUnanswered' /\ HandsUnanswered' /\ SpinUnanswered'
      /\ QueueDistinct' /\ HandsDistinct' /\ HandsApart'
    BY <1>1, PlacesKept
<1>3. ReqsFresh'
    BY DEF ReqInv, ReqsFresh
<1>4. SemHeld'
    BY DEF ReqInv, SemHeld
<1>5. AnsweredOnce'
    BY DEF ReqInv, AnsweredOnce
<1>6. AnswerToAsker'
    <2>1. accepted \in Nat /\ accepted' \in Nat /\ MaxConnId \in Nat
        BY ServerBounds DEF TypeInv, TypeOK, ConnTypes
    <2> QED BY <2>1 DEF ReqInv, AnswerToAsker
<1> QED BY <1>2, <1>3, <1>4, <1>5, <1>6 DEF ReqInv

\* The same for a step that does not touch writes either.
LEMMA ReqWritesKept ==
    ASSUME TypeInv, TypeInv', ReqInv,
           waiting' = waiting \/ waiting' = <<>>,
           UNCHANGED <<doing, nreq, spin, task, sem, asker, answers, writes>>,
           loop' = "spin" <=> loop = "spin",
           \A w \in Workers : TakenUp(w) => TakenUp(w)',
           accepted <= accepted', PostedWaits', Quiet'
    PROVE  ReqInv'
<1>1. WriteHeld'
    BY DEF ReqInv, WriteHeld
<1> QED BY <1>1, ReqKept

\* Steps of the main thread and of the pushers.
LEMMA ReqCallers ==
    ASSUME TypeInv, TypeInv', ReqInv,
           \/ \E listening \in BOOLEAN : ssn_startup_server(listening)
           \/ ssn_shutdown_server \/ MainStep
           \/ \E p \in Pushers : ssn_push(p) \/ async_push(p) \/ PushReturn(p)
    PROVE  ReqInv'
<1> USE DEF mainVars, poolVars, taskVars, pushVars, connVars, netVars
<1>1. accepted \in Nat
    BY ServerBounds DEF TypeInv, TypeOK, ConnTypes
<1>2. ASSUME NEW listening \in BOOLEAN, ssn_startup_server(listening) PROVE ReqInv'
    <2>1. loop = "none" /\ waiting = <<>> /\ writes = {} /\ \A w \in Workers : doing[w] = NoReq
        BY <1>2 DEF ssn_startup_server, ReqInv, Quiet
    <2>2. \A w \in Workers : ~TakenUp(w)
        BY <2>1 DEF TypeInv, HandsBusy, TakenUp
    <2>3. doing' = doing
        BY <1>2, <2>1, Places DEF ssn_startup_server
    <2>4. PostedWaits'
        BY <1>2 DEF ssn_startup_server, PostedWaits
    <2>5. Quiet'
        BY <1>2, <2>1 DEF ssn_startup_server, Quiet
    <2>6. /\ waiting' = <<>> /\ UNCHANGED <<nreq, spin, task, sem, asker, answers, writes, accepted>>
          /\ loop' = "spin" <=> loop = "spin"
        BY <1>2, <2>1 DEF ssn_startup_server
    <2> QED BY <1>1, <2>2, <2>3, <2>4, <2>5, <2>6, ReqWritesKept
<1>3. CASE uninit_server_loop
    <2>1. /\ UNCHANGED <<poolVars, wpc, taskVars, netVars, spin, asyncs, accepted>>
          /\ loop = "exit" /\ loop' = "none" /\ main' = "idle"
        BY <1>3 DEF uninit_server_loop
    <2>2. PostedWaits' /\ \A w \in Workers : TakenUp(w) => TakenUp(w)'
        BY <2>1 DEF ReqInv, PostedWaits, TakenUp
    <2>3. Quiet'
        BY <2>1 DEF ReqInv, Quiet
    <2> QED BY <1>1, <2>1, <2>2, <2>3, ReqWritesKept
<1>4. CASE /\ UNCHANGED <<poolVars, wpc, taskVars, netVars, spin, loop, accepted>>
           /\ asyncs' \cap Workers = asyncs \cap Workers
           /\ main' # "idle" \/ main' = main
    <2>1. UNCHANGED <<poolVars, wpc, taskVars, netVars, spin, loop, accepted>>
        BY <1>4
    <2>2. PostedWaits' /\ \A w \in Workers : TakenUp(w) => TakenUp(w)'
        BY <1>4 DEF ReqInv, PostedWaits, TakenUp
    <2>3. Quiet'
        BY <1>4 DEF ReqInv, Quiet
    <2> QED BY <1>1, <2>1, <2>2, <2>3, ReqWritesKept
<1>5. CASE ssn_shutdown_server \/ start_server_loop \/ async_close_server
           \/ \E zero \in BOOLEAN : CloseReturn(zero)
    BY <1>4, <1>5, ServerThreads DEF ssn_shutdown_server, start_server_loop, async_close_server,
        CloseReturn
<1>6. ASSUME NEW p \in Pushers, ssn_push(p) \/ async_push(p) \/ PushReturn(p) PROVE ReqInv'
    BY <1>4, <1>6, ServerThreads DEF ssn_push, async_push, PushReturn
<1> QED BY <1>2, <1>3, <1>5, <1>6 DEF MainStep

\* Connections come and go, and messages are pushed; the callers of other threads than
\* workers are told that the server is not running.
LEMMA ReqConns ==
    ASSUME TypeInv, TypeInv', ReqInv,
           \/ \E result \in AcceptResults : listen_cb(result)
           \/ \E c \in Conns : read_cb_eof(c) \/ close_cb(c) \/ close_cb_dangling(c)
           \/ \E p \in Pushers, reached \in SUBSET Conns : async_cb_push(p, reached)
           \/ \E t \in Pushers \cup {Main} : async_cb_not_ready(t)
           \/ UNCHANGED vars
    PROVE  ReqInv'
<1> USE DEF mainVars, poolVars, taskVars, pushVars, connVars, netVars
<1>1. accepted \in Nat
    BY ServerBounds DEF TypeInv, TypeOK, ConnTypes
<1>2. /\ UNCHANGED <<poolVars, wpc, nreq, spin, loop, main, task, asker, answers>>
      /\ UNCHANGED sem
      /\ accepted <= accepted'
      /\ asyncs' \cap Workers = asyncs \cap Workers
    BY <1>1, ServerThreads DEF listen_cb, read_cb_eof, close_cb, close_cb_dangling, async_cb_push,
        async_cb_not_ready, AsyncRuns, vars
<1>3. PostedWaits' /\ \A w \in Workers : TakenUp(w) => TakenUp(w)'
    BY <1>2 DEF ReqInv, PostedWaits, TakenUp
<1>4. CASE UNCHANGED writes
    <2>1. Quiet'
        BY <1>2, <1>4 DEF ReqInv, Quiet
    <2> QED BY <1>2, <1>3, <1>4, <2>1, ReqWritesKept
<1>5. ASSUME NEW p \in Pushers, NEW reached \in SUBSET Conns, async_cb_push(p, reached)
      PROVE  ReqInv'
    <2>1. \A x \in writes' : x \in writes \/ x.req = NoReq
        BY <1>5 DEF async_cb_push
    <2>2. writes \subseteq writes' /\ loop \in {"run", "stop"}
        BY <1>5 DEF async_cb_push, AsyncRuns, Looping
    <2>3. \A r \in Reqs : (\A x \in writes : x.req # r) => (\A x \in writes' : x.req # r)
        BY <2>1, Places
    <2>4. WriteHeld'
        BY <1>2, <1>3, <2>1 DEF ReqInv, WriteHeld
    <2>5. Quiet'
        BY <1>2, <2>2 DEF ReqInv, Quiet
    <2> QED BY <1>2, <1>3, <2>3, <2>4, <2>5, ReqKept
<1>6. UNCHANGED writes \/ \E p \in Pushers, reached \in SUBSET Conns : async_cb_push(p, reached)
    BY DEF listen_cb, read_cb_eof, close_cb, close_cb_dangling, async_cb_not_ready, vars
<1> QED BY <1>4, <1>5, <1>6

\* The loop thread shuts the pool down and ends.
LEMMA ReqShutdown ==
    ASSUME TypeInv, TypeInv', ReqInv,
           async_cb_close \/ CancelPool \/ ShutdownDone \/ LoopExit
    PROVE  ReqInv'
<1> USE DEF mainVars, poolVars, taskVars, pushVars, connVars, netVars
<1>1. accepted \in Nat /\ accepted' = accepted
    BY ServerBounds DEF TypeInv, TypeOK, ConnTypes, async_cb_close, CancelPool, ShutdownDone,
        LoopExit
<1>2. /\ UNCHANGED <<doing, wpc, nreq, spin, main, task, sem, asker, answers, writes>>
      /\ loop' # "spin" /\ loop # "spin" /\ loop # "none"
      /\ waiting' = waiting \/ waiting' = <<>>
      /\ asyncs' \cap Workers = asyncs \cap Workers
    BY ServerThreads DEF async_cb_close, CancelPool, ShutdownDone, LoopExit, AsyncRuns,
        Looping, Pool!Stop, Pool!Clear, Pool!Joined
<1>3. PostedWaits' /\ \A w \in Workers : TakenUp(w) => TakenUp(w)'
    BY <1>2 DEF ReqInv, PostedWaits, TakenUp
<1>4. Quiet'
    <2>1. CASE async_cb_close
        BY <1>2, <2>1 DEF async_cb_close, AsyncRuns, Looping, Pool!Stop, ReqInv, Quiet
    <2>2. CASE CancelPool
        BY <1>2, <2>2 DEF CancelPool, Pool!Clear, ReqInv, Quiet
    <2>3. CASE ShutdownDone
        BY <1>2, <2>3 DEF ShutdownDone, Pool!Joined, ReqInv, Quiet
    <2>4. CASE LoopExit
        BY <1>2, <2>4 DEF LoopExit, ReqInv, Quiet
    <2> QED BY <2>1, <2>2, <2>3, <2>4
<1> QED BY <1>1, <1>2, <1>3, <1>4, ReqWritesKept

\* A worker takes a request, posts its answer or leaves the pool.
LEMMA ReqWorkers ==
    ASSUME TypeInv, TypeInv', ReqInv, NEW w \in Workers,
           sl_create_async(w) \/ PostAnswer(w) \/ LeavePool(w)
    PROVE  ReqInv'
<1> USE DEF mainVars, poolVars, taskVars, pushVars, connVars, netVars
<1>1. accepted \in Nat /\ accepted' = accepted
    BY ServerBounds DEF TypeInv, TypeOK, ConnTypes, sl_create_async, PostAnswer, LeavePool
<1>2. /\ UNCHANGED <<waiting, doing, phase, nreq, spin, loop, main, task, sem, asker, answers, writes>>
      /\ wpc \in [Workers -> {"idle", "handler", "admitted", "waiting"}]
    BY DEF sl_create_async, PostAnswer, LeavePool, Pool!End, TypeInv, TypeOK, ThreadTypes
<1>3. PostedWaits' /\ \A v \in Workers : TakenUp(v) => TakenUp(v)'
    BY <1>2 DEF ReqInv, PostedWaits, TakenUp, sl_create_async, PostAnswer, LeavePool
<1>4. Quiet'
    <2>1. CASE UNCHANGED ended
        BY <1>2, <2>1 DEF ReqInv, Quiet
    <2>2. CASE LeavePool(w)
        <3>1. ended' = ended \cup {w} /\ doing[w] = NoReq /\ ended' \subseteq Workers
            BY <2>2 DEF LeavePool, Pool!End, TypeInv, TypeOK, Pool!TypeOK
        <3> QED BY <1>2, <3>1 DEF ReqInv, Quiet
    <2> QED BY <2>1, <2>2 DEF sl_create_async, PostAnswer
<1> QED BY <1>1, <1>2, <1>3, <1>4, ReqWritesKept

LEMMA ReqTake ==
    ASSUME TypeInv, TypeInv', ReqInv, NEW w \in Workers, TakeRequest(w)
    PROVE  ReqInv'
<1> DEFINE q == Head(waiting)
<1>1. /\ UNCHANGED <<ended, phase, loop, spin, main, task, sem, asker, nreq, asyncs, writes,
                     answers, accepted>>
      /\ w \notin ended /\ doing[w] = NoReq /\ waiting # <<>>
      /\ doing' = [doing EXCEPT ![w] = q] /\ waiting' = Tail(waiting)
      /\ wpc' = [wpc EXCEPT ![w] = "handler"]
      /\ wpc \in [Workers -> {"idle", "handler", "admitted", "waiting"}]
    BY DEF TakeRequest, Pool!Take, mainVars, taskVars, connVars, netVars, TypeInv, TypeOK,
        ThreadTypes
<1>2. /\ 1 \in 1 .. Len(waiting) /\ q = waiting[1] /\ q \in Reqs
      /\ \A n \in 1 .. Len(waiting') : n + 1 \in 1 .. Len(waiting) /\ waiting'[n] = waiting[n + 1]
    BY <1>1, Places
<1>3. /\ doing'[w] = q /\ \A v \in Workers : v # w => doing'[v] = doing[v]
    BY <1>1, Places
<1>4. /\ wpc[w] = "idle" /\ ~TakenUp(w)
      /\ \A v \in Workers : v # w => (TakenUp(v)' <=> TakenUp(v))
    BY <1>1 DEF TypeInv, HandsBusy, TakenUp
<1>5. Repeated' = Repeated /\ \A r \in Reqs : Unanswered(r)' <=> Unanswered(r)
    BY <1>1 DEF Repeated, Unanswered
<1> HIDE DEF q
<1>6. PostedWaits'
    BY <1>1, <1>4 DEF ReqInv, PostedWaits
<1>7. ReqsFresh' /\ AnsweredOnce' /\ AnswerToAsker'
    BY <1>1 DEF ReqInv, ReqsFresh, AnsweredOnce, AnswerToAsker
<1>8. QueueUnanswered'
    BY <1>1, <1>2, <1>5, Places DEF ReqInv, QueueUnanswered
<1>9. q <= nreq /\ Unanswered(q)
    BY <1>2 DEF ReqInv, QueueUnanswered
<1>10. HandsUnanswered'
    <2>1. ASSUME NEW v \in Workers, NEW a \in Reqs, doing'[v] = a
          PROVE  a <= nreq /\ task[a] = "alive" /\ (TakenUp(v)' \/ Unanswered(a)')
        <3>1. CASE v = w
            BY <1>2, <1>3, <1>5, <1>9, <2>1, <3>1 DEF Unanswered
        <3>2. CASE v # w
            BY <1>3, <1>4, <1>5, <2>1, <3>2, Places DEF ReqInv, HandsUnanswered
        <3> QED BY <3>1, <3>2
    <2>2. \A v \in Workers : doing'[v] # NoReq => doing'[v] \in Reqs
        BY <1>1, <1>2, <1>3, Places
    <2> QED BY <1>1, <2>1, <2>2 DEF HandsUnanswered, Unanswered
<1>11. SpinUnanswered'
    BY <1>1 DEF ReqInv, SpinUnanswered, Unanswered
<1>12. QueueDistinct'
    <2> SUFFICES ASSUME NEW m \in 1 .. Len(waiting'), NEW n \in 1 .. Len(waiting'),
                        waiting'[m] = waiting'[n]
                 PROVE  m = n \/ waiting'[m] = Repeated
        BY <1>5 DEF QueueDistinct
    <2>1. m + 1 = n + 1 \/ waiting[m + 1] = Repeated
        BY <1>2 DEF ReqInv, QueueDistinct
    <2>2. m \in Nat /\ n \in Nat
        OBVIOUS
    <2> QED BY <1>2, <2>1, <2>2
<1>13. HandsDistinct'
    <2>1. \A v \in Workers : doing[v] = q => q = Repeated
        BY <1>2 DEF ReqInv, HandsApart
    <2> QED BY <1>3, <1>5, <2>1 DEF ReqInv, HandsDistinct
<1>14. HandsApart'
    <2> SUFFICES ASSUME NEW n \in 1 .. Len(waiting'), NEW v \in Workers, waiting'[n] = doing'[v]
                 PROVE  doing'[v] = Repeated
        BY <1>5 DEF HandsApart
    <2>1. CASE v = w
        <3>1. 1 = n + 1 \/ waiting[1] = Repeated
            BY <1>2, <1>3, <2>1 DEF ReqInv, QueueDistinct
        <3> QED BY <1>2, <1>3, <2>1, <3>1
    <2>2. CASE v # w
        BY <1>2, <1>3, <2>2 DEF ReqInv, HandsApart
    <2> QED BY <2>1, <2>2
<1>15. SemHeld'
    <2> SUFFICES ASSUME NEW r \in Reqs, sem[r] # 0
                 PROVE  /\ sem[r] = 1 /\ \A x \in writes : x.req # r
                        /\ \E v \in Workers : doing'[v] = r /\ TakenUp(v)'
        BY <1>1 DEF SemHeld
    <2>1. PICK v \in Workers : doing[v] = r /\ TakenUp(v)
        BY DEF ReqInv, SemHeld
    <2> QED BY <1>3, <1>4, <2>1 DEF ReqInv, SemHeld
<1>16. WriteHeld'
    <2> SUFFICES ASSUME NEW x \in writes, x.req # NoReq
                 PROVE  /\ \A y \in writes : y.req = x.req => y = x
                        /\ \E v \in Workers : doing'[v] = x.req /\ TakenUp(v)'
        BY <1>1 DEF WriteHeld
    <2>1. PICK v \in Workers : doing[v] = x.req /\ TakenUp(v)
        BY DEF ReqInv, WriteHeld
    <2> QED BY <1>3, <1>4, <2>1 DEF ReqInv, WriteHeld
<1>17. Quiet'
    BY <1>1, <1>3 DEF ReqInv, Quiet
<1> QED BY <1>6, <1>7, <1>8, <1>10, <1>11, <1>12, <1>13, <1>14, <1>15, <1>16, <1>17 DEF ReqInv

\* The worker that was answered deletes the task: no other worker has it, and it is not in
\* the queue.
LEMMA ReqDelete ==
    ASSUME TypeInv, TypeInv', ReqInv, NEW w \in Workers, DeleteTask(w)
    PROVE  ReqInv'
<1> DEFINE r == doing[w]
<1>1. /\ UNCHANGED <<waiting, ended, phase, loop, spin, main, asker, nreq, asyncs, writes,
                     answers, accepted>>
      /\ wpc[w] = "waiting" /\ sem[r] > 0 /\ r # NoReq
      /\ doing' = [doing EXCEPT ![w] = NoReq]
      /\ wpc' = [wpc EXCEPT ![w] = "idle"]
      /\ sem' = [sem EXCEPT ![r] = @ - 1] /\ task' = [task EXCEPT ![r] = "deleted"]
      /\ wpc \in [Workers -> {"idle", "handler", "admitted", "waiting"}]
    BY DEF DeleteTask, Pool!Done, mainVars, pushVars, connVars, netVars, TypeInv, TypeOK,
        ThreadTypes
<1>2. r \in Reqs /\ sem[r] # 0
    BY <1>1, Places
<1>3. sem[r] = 1 /\ \A x \in writes : x.req # r
    BY <1>2 DEF ReqInv, SemHeld
<1>4. r # Repeated
    BY <1>1, <1>2 DEF Repeated, ReqInv, SpinUnanswered, Unanswered
<1>5. \A v \in Workers : v # w => doing[v] # r
    BY <1>1, <1>4 DEF ReqInv, HandsDistinct
<1>6. TakenUp(w)
    BY <1>2, <1>5 DEF ReqInv, SemHeld
<1>7. \A n \in 1 .. Len(waiting) : waiting[n] # r
    BY <1>4 DEF ReqInv, HandsApart
<1>8. /\ doing'[w] = NoReq /\ \A v \in Workers : v # w => doing'[v] = doing[v]
      /\ \A v \in Workers : v # w => (TakenUp(v)' <=> TakenUp(v))
    BY <1>1, Places DEF TakenUp
<1>9. /\ sem'[r] = 0 /\ \A q \in Reqs : q # r => sem'[q] = sem[q] /\ task'[q] = task[q]
    BY <1>1, <1>2, <1>3, Places
<1>10. Repeated' = Repeated /\ \A q \in Reqs : Unanswered(q) => Unanswered(q)'
    BY <1>1, <1>2, <1>9 DEF Repeated, Unanswered
<1> HIDE DEF r
<1>11. PostedWaits'
    BY <1>1, <1>6 DEF ReqInv, PostedWaits, TakenUp
<1>12. ReqsFresh'
    BY <1>1, <1>9 DEF ReqInv, ReqsFresh
<1>13. QueueUnanswered'
    BY <1>1, <1>10, Places DEF ReqInv, QueueUnanswered
<1>14. HandsUnanswered'
    <2>1. ASSUME NEW v \in Workers, NEW a \in Reqs, doing'[v] = a
          PROVE  a <= nreq /\ task'[a] = "alive" /\ (TakenUp(v)' \/ Unanswered(a)')
        <3>1. v # w /\ doing[v] = a /\ a # NoReq /\ a # r
            BY <1>5, <1>8, <2>1, Places
        <3>2. a <= nreq /\ task[a] = "alive" /\ (TakenUp(v) \/ Unanswered(a))
            BY <3>1 DEF ReqInv, HandsUnanswered
        <3> QED BY <1>8, <1>9, <1>10, <3>1, <3>2
    <2>2. \A v \in Workers : doing'[v] # NoReq => doing'[v] \in Reqs
        BY <1>8, Places
    <2> QED BY <1>1, <2>1, <2>2 DEF HandsUnanswered, Unanswered
<1>15. SpinUnanswered'
    <2>1. loop = "spin" => spin \in Reqs
        BY ServerBounds, Places DEF TypeInv, SpinRead, Reqs
    <2> QED BY <1>1, <1>10, <2>1 DEF ReqInv, SpinUnanswered
<1>16. QueueDistinct' /\ HandsDistinct' /\ HandsApart'
    <2>1. QueueDistinct'
        BY <1>1, <1>10 DEF ReqInv, QueueDistinct
    <2>2. HandsDistinct'
        BY <1>8, <1>10 DEF ReqInv, HandsDistinct
    <2>3. HandsApart'
        BY <1>1, <1>8, <1>10, Places DEF ReqInv, HandsApart
    <2> QED BY <2>1, <2>2, <2>3
<1>17. SemHeld'
    <2> SUFFICES ASSUME NEW q \in Reqs, sem'[q] # 0
                 PROVE  /\ sem'[q] = 1 /\ \A x \in writes : x.req # q
                        /\ \E v \in Workers : doing'[v] = q /\ TakenUp(v)'
        BY <1>1 DEF SemHeld
    <2>1. q # r /\ sem[q] # 0 /\ sem'[q] = sem[q]
        BY <1>9
    <2>2. PICK v \in Workers : doing[v] = q /\ TakenUp(v)
        BY <2>1 DEF ReqInv, SemHeld
    <2>3. v # w
        BY <2>1, <2>2 DEF r
    <2> QED BY <1>8, <2>1, <2>2, <2>3 DEF ReqInv, SemHeld
<1>18. WriteHeld'
    <2> SUFFICES ASSUME NEW x \in writes, x.req # NoReq
                 PROVE  /\ \A y \in writes : y.req = x.req => y = x
                        /\ \E v \in Workers : doing'[v] = x.req /\ TakenUp(v)'
        BY <1>1 DEF WriteHeld
    <2>1. PICK v \in Workers : doing[v] = x.req /\ TakenUp(v)
        BY DEF ReqInv, WriteHeld
    <2>2. v # w
        BY <1>3, <2>1 DEF r
    <2> QED BY <1>8, <2>1, <2>2 DEF ReqInv, WriteHeld
<1>19. Quiet'
    BY <1>1, <1>8 DEF ReqInv, Quiet
<1>20. AnsweredOnce' /\ AnswerToAsker'
    BY <1>1 DEF ReqInv, AnsweredOnce, AnswerToAsker
<1> QED BY <1>11, <1>12, <1>13, <1>14, <1>15, <1>16, <1>17, <1>18, <1>19, <1>20 DEF ReqInv

\* A request is pushed once more, or read and pushed for the first time.
LEMMA ReqAppend ==
    ASSUME TypeInv, TypeInv', ReqInv, NEW q \in Reqs,
           waiting' = Append(waiting, q), q <= nreq', nreq <= nreq', Unanswered(q)',
           UNCHANGED <<doing, ended, wpc, asyncs, loop, spin, main, phase, sem, writes, answers>>,
           phase = "up", loop \in {"run", "spin"},
           \A r \in Reqs : r # q => task'[r] = task[r] /\ asker'[r] = asker[r],
           \/ q = Repeated /\ UNCHANGED <<task, asker>>
           \/ q > nreq,
           accepted' = accepted
    PROVE  ReqInv'
<1>1. /\ Len(waiting') = Len(waiting) + 1 /\ waiting'[Len(waiting) + 1] = q
      /\ \A n \in 1 .. Len(waiting) : waiting'[n] = waiting[n]
    BY Places
<1>2. /\ nreq' \in Nat /\ nreq \in Nat /\ q \in Nat /\ Len(waiting) \in Nat
      /\ \A r \in Reqs : r \in Nat
    <2>1. nreq' \in Nat
        BY ServerBounds DEF TypeInv, TypeOK, TaskTypes
    <2> QED BY <2>1, Places
<1>3. \A n \in 1 .. Len(waiting') : n \in 1 .. Len(waiting) \/ n = Len(waiting) + 1
    BY <1>1, <1>2
<1>4. Repeated' = Repeated /\ \A w \in Workers : TakenUp(w)' <=> TakenUp(w)
    BY DEF Repeated, TakenUp
<1>5. \A r \in Reqs : Unanswered(r) => Unanswered(r)'
    BY DEF Unanswered
<1>6. /\ \A n \in 1 .. Len(waiting) : waiting[n] = q => q = Repeated
      /\ \A w \in Workers : doing[w] = q => q = Repeated
    <2>1. CASE q > nreq
        <3>1. \A n \in 1 .. Len(waiting) : waiting[n] # q
            BY <1>2, <2>1, Places DEF ReqInv, QueueUnanswered
        <3>2. \A w \in Workers : doing[w] # q
            BY <1>2, <2>1, Places DEF ReqInv, HandsUnanswered
        <3> QED BY <3>1, <3>2
    <2> QED BY <2>1
<1>7. PostedWaits'
    BY DEF ReqInv, PostedWaits
<1>8. ReqsFresh'
    BY <1>2 DEF ReqInv, ReqsFresh
<1>9. QueueUnanswered'
    <2>1. ASSUME NEW n \in 1 .. Len(waiting'), NEW a \in Reqs, waiting'[n] = a
          PROVE  a <= nreq' /\ Unanswered(a)'
        <3>1. CASE n = Len(waiting) + 1
            BY <1>1, <2>1, <3>1
        <3>2. CASE n \in 1 .. Len(waiting)
            <4>1. waiting[n] = a /\ a <= nreq /\ Unanswered(a)
                BY <1>1, <2>1, <3>2 DEF ReqInv, QueueUnanswered
            <4> QED BY <1>2, <1>5, <4>1
        <3> QED BY <1>3, <3>1, <3>2
    <2>2. \A n \in 1 .. Len(waiting') : waiting'[n] \in Reqs
        BY <1>1, <1>3, Places
    <2> QED BY <2>1, <2>2 DEF QueueUnanswered, Unanswered
<1>10. HandsUnanswered'
    <2>1. ASSUME NEW v \in Workers, NEW a \in Reqs, doing'[v] = a
          PROVE  a <= nreq' /\ task'[a] = "alive" /\ (TakenUp(v)' \/ Unanswered(a)')
        <3>1. doing[v] = a /\ a # NoReq
            BY <2>1, Places
        <3>2. a <= nreq /\ task[a] = "alive" /\ (TakenUp(v) \/ Unanswered(a))
            BY <3>1 DEF ReqInv, HandsUnanswered
        <3>3. task'[a] = "alive"
            BY <1>2, <3>2
        <3> QED BY <1>2, <1>4, <1>5, <3>2, <3>3
    <2>2. \A v \in Workers : doing'[v] # NoReq => doing'[v] \in Reqs
        BY Places
    <2> QED BY <2>1, <2>2 DEF HandsUnanswered, Unanswered
<1>11. SpinUnanswered'
    <2>1. loop = "spin" => spin \in Reqs
        BY ServerBounds, Places DEF TypeInv, SpinRead, Reqs
    <2> QED BY <1>5, <2>1 DEF ReqInv, SpinUnanswered
<1>12. QueueDistinct'
    <2> SUFFICES ASSUME NEW m \in 1 .. Len(waiting'), NEW n \in 1 .. Len(waiting'),
                        waiting'[m] = waiting'[n]
                 PROVE  m = n \/ waiting'[m] = Repeated
        BY <1>4 DEF QueueDistinct
    <2>1. CASE m \in 1 .. Len(waiting) /\ n \in 1 .. Len(waiting)
        BY <1>1, <2>1 DEF ReqInv, QueueDistinct
    <2>2. CASE m = Len(waiting) + 1 \/ n = Len(waiting) + 1
        BY <1>1, <1>3, <1>6, <2>2
    <2> QED BY <1>3, <2>1, <2>2
<1>13. HandsDistinct'
    BY <1>4 DEF ReqInv, HandsDistinct
<1>14. HandsApart'
    BY <1>1, <1>3, <1>4, <1>6 DEF ReqInv, HandsApart
<1>15. SemHeld' /\ WriteHeld'
    BY <1>4 DEF ReqInv, SemHeld, WriteHeld
<1>16. Quiet'
    BY DEF ReqInv, Quiet
<1>17. AnsweredOnce' /\ AnswerToAsker'
    <2>1. AnsweredOnce'
        BY DEF ReqInv, AnsweredOnce
    <2>2. answers'[q] = <<>> /\ DOMAIN answers'[q] = {}
        BY DEF Unanswered
    <2>3. AnswerToAsker'
        BY <2>2 DEF ReqInv, AnswerToAsker
    <2> QED BY <2>1, <2>3
<1> QED BY <1>7, <1>8, <1>9, <1>10, <1>11, <1>12, <1>13, <1>14, <1>15, <1>16, <1>17 DEF ReqInv

\* A request is read: nothing was done for it.
LEMMA ReqRead ==
    ASSUME TypeInv, TypeInv', ReqInv, NEW c \in Conns, read_cb_request(c)
    PROVE  ReqInv'
<1> DEFINE q == nreq + 1
<1> USE DEF mainVars, taskVars, pushVars, connVars, netVars
<1>1. /\ UNCHANGED <<main, wpc, sem, asyncs, accepted, writes, answers>>
      /\ task' = [task EXCEPT ![q] = "alive"] /\ asker' = [asker EXCEPT ![q] = c]
      /\ nreq' = q /\ q \in Reqs /\ nreq \in Nat /\ loop \in {"run", "stop"}
      /\ asker \in [Reqs -> Conns \cup {NoConn}]
    <2>1. nreq \in Nat /\ q \in Reqs
        BY ServerBounds DEF read_cb_request, TypeInv, TypeOK, TaskTypes, Reqs
    <2> QED BY <2>1 DEF read_cb_request, Looping, TypeInv, TypeOK, TaskTypes
<1>2. ASSUME NEW a \in Reqs, a = q PROVE Unanswered(a)'
    <2>1. sem[q] = 0 /\ answers[q] = <<>> /\ \A x \in writes : x.req # q
        BY <1>1 DEF ReqInv, ReqsFresh
    <2>2. task'[q] = "alive"
        BY <1>1, Places
    <2> QED BY <1>1, <1>2, <2>1, <2>2 DEF Unanswered
<1>3. \A r \in Reqs : r # q => task'[r] = task[r] /\ asker'[r] = asker[r]
    BY <1>1, Places
<1>4. CASE Pool!Push(q) /\ UNCHANGED <<loop, spin>>
    <2>1. waiting' = Append(waiting, q) /\ phase = "up" /\ UNCHANGED <<doing, ended, phase>>
        BY <1>4 DEF Pool!Push
    <2>2. loop = "run"
        BY <1>1, <2>1 DEF ReqInv, Quiet
    <2>3. q > nreq /\ q <= nreq' /\ nreq <= nreq'
        BY <1>1
    <2>4. ASSUME NEW a \in Reqs, a = q PROVE ReqInv'
        BY <1>1, <1>2, <1>3, <1>4, <2>1, <2>2, <2>3, <2>4, ReqAppend
    <2> QED BY <1>1, <2>4
<1>5. CASE ~Pool!HasRoom /\ loop' = "spin" /\ spin' = q /\ UNCHANGED poolVars
    <2>1. UNCHANGED <<waiting, doing, ended, phase>> /\ waiting # <<>>
        BY <1>5, ServerBounds DEF Pool!HasRoom, poolVars
    <2>2. loop = "run"
        BY <1>1, <2>1 DEF ReqInv, Quiet
    <2>3. Repeated = NoReq /\ \A w \in Workers : TakenUp(w)' <=> TakenUp(w)
        BY <1>1, <2>2 DEF Repeated, TakenUp
    <2>4. \A r \in Reqs : r # q /\ Unanswered(r) => Unanswered(r)'
        BY <1>1, <1>3 DEF Unanswered
    <2>5. PostedWaits' /\ ReqsFresh'
        BY <1>1, Places DEF ReqInv, PostedWaits, ReqsFresh
    <2>6. QueueUnanswered'
        <3>1. \A n \in 1 .. Len(waiting) : /\ waiting[n] \in Reqs /\ waiting[n] # q
                                           /\ waiting[n] <= nreq' /\ Unanswered(waiting[n])
            BY <1>1, Places DEF ReqInv, QueueUnanswered
        <3> QED BY <1>1, <2>1, <2>4, <3>1 DEF QueueUnanswered
    <2>7. HandsUnanswered'
        <3>1. \A w \in Workers : doing[w] # NoReq =>
                  /\ doing[w] \in Reqs /\ doing[w] # q /\ doing[w] <= nreq'
                  /\ task[doing[w]] = "alive" /\ (TakenUp(w) \/ Unanswered(doing[w]))
            BY <1>1, Places DEF ReqInv, HandsUnanswered
        <3> QED BY <1>1, <1>3, <2>1, <2>3, <2>4, <3>1 DEF HandsUnanswered
    <2>8. SpinUnanswered'
        <3>1. \A a \in Reqs : a = q => Unanswered(a)'
            BY <1>2
        <3> QED BY <1>1, <1>5, <3>1 DEF SpinUnanswered, Unanswered
    <2>9. QueueDistinct' /\ HandsDistinct' /\ HandsApart'
        <3>1. QueueDistinct'
            BY <2>1, <2>3, Places DEF ReqInv, QueueDistinct
        <3>2. HandsDistinct'
            BY <2>1, <2>3 DEF ReqInv, HandsDistinct
        <3>3. HandsApart'
            BY <2>1, <2>3, Places DEF ReqInv, HandsApart
        <3> QED BY <3>1, <3>2, <3>3
    <2>10. SemHeld' /\ WriteHeld'
        BY <1>1, <2>1, <2>3 DEF ReqInv, SemHeld, WriteHeld
    <2>11. Quiet'
        BY <1>1, <1>5, <2>1, <2>2 DEF ReqInv, Quiet
    <2>12. AnsweredOnce' /\ AnswerToAsker'
        <3>1. answers[q] = <<>> /\ DOMAIN answers[q] = {}
            BY <1>1 DEF ReqInv, ReqsFresh
        <3> QED BY <1>1, <1>3, <3>1 DEF ReqInv, AnsweredOnce, AnswerToAsker
    <2> QED BY <2>5, <2>6, <2>7, <2>8, <2>9, <2>10, <2>11, <2>12 DEF ReqInv
<1> QED BY <1>4, <1>5 DEF read_cb_request

LEMMA ReqPushAgain ==
    ASSUME TypeInv, TypeInv', ReqInv, PushAgain
    PROVE  ReqInv'
<1>1. /\ UNCHANGED <<main, wpc, taskVars, asyncs, accepted, writes, answers, loop, spin>>
      /\ waiting' = Append(waiting, spin) /\ phase = "up" /\ loop = "spin"
      /\ UNCHANGED <<doing, ended, phase>>
    BY DEF PushAgain, Pool!Push, mainVars, connVars, netVars
<1>2. spin \in Reqs /\ spin <= nreq /\ Repeated = spin
    BY <1>1, ServerBounds, Places DEF TypeInv, SpinRead, Reqs, Repeated
<1>3. UNCHANGED <<task, sem, asker, nreq>>
    BY <1>1 DEF taskVars
<1>4. ASSUME NEW q \in Reqs, q = spin PROVE Unanswered(q)'
    BY <1>1, <1>3, <1>4 DEF ReqInv, SpinUnanswered, Unanswered
<1>5. ASSUME NEW q \in Reqs, q = spin PROVE ReqInv'
    BY <1>1, <1>2, <1>3, <1>4, <1>5, Places, ReqAppend
<1> QED BY <1>2, <1>5

\* The kernel takes the bytes of an answer.
LEMMA ReqFlush ==
    ASSUME TypeInv, TypeInv', ReqInv, NEW x \in writes, Flush(x)
    PROVE  ReqInv'
<1> DEFINE z == [x EXCEPT !.sent = TRUE]
<1>1. /\ UNCHANGED <<poolVars, wpc, taskVars, asyncs, spin, loop, main, accepted, answers>>
      /\ writes' = (writes \ {x}) \cup {z} /\ x.req # NoReq /\ z.req = x.req
    BY Places DEF Flush, WriteReq, mainVars, connVars
<1> HIDE DEF z
<1>2. UNCHANGED <<waiting, doing, ended, phase, nreq, task, sem, asker>>
    BY <1>1 DEF poolVars, taskVars
<1>3. PostedWaits' /\ \A w \in Workers : TakenUp(w)' <=> TakenUp(w)
    BY <1>1 DEF ReqInv, PostedWaits, TakenUp
<1>4. \A r \in Reqs : (\A y \in writes : y.req # r) => (\A y \in writes' : y.req # r)
    BY <1>1
<1>5. WriteHeld'
    <2>1. \A y \in writes : y.req = x.req => y = x
        BY <1>1 DEF ReqInv, WriteHeld
    <2>2. \A y \in writes' : \E a \in writes : a.req = y.req /\ (y = z \/ y = a)
        BY <1>1
    <2>3. ASSUME NEW a \in writes', a.req # NoReq, NEW b \in writes', b.req = a.req PROVE b = a
        <3>1. CASE a.req = x.req
            BY <1>1, <2>1, <2>3, <3>1
        <3>2. CASE a.req # x.req
            BY <1>1, <2>3, <3>2 DEF ReqInv, WriteHeld
        <3> QED BY <3>1, <3>2
    <2>4. ASSUME NEW a \in writes', a.req # NoReq
          PROVE  \E w \in Workers : doing[w] = a.req /\ TakenUp(w)
        BY <2>2, <2>4 DEF ReqInv, WriteHeld
    <2> QED BY <1>2, <1>3, <2>3, <2>4 DEF WriteHeld
<1>6. Quiet'
    <2>1. writes # {}
        OBVIOUS
    <2> QED BY <1>1, <1>2, <2>1 DEF ReqInv, Quiet
<1>7. accepted <= accepted' /\ (loop' = "spin" <=> loop = "spin")
    BY <1>1, ServerBounds DEF TypeInv, TypeOK, ConnTypes
<1> QED BY <1>1, <1>2, <1>3, <1>4, <1>5, <1>6, <1>7, ReqKept

\* A write ends: the worker of its request is told.
LEMMA ReqWritten ==
    ASSUME TypeInv, TypeInv', ReqInv, NEW x \in writes, write_cb(x)
    PROVE  ReqInv'
<1>1. /\ UNCHANGED <<poolVars, wpc, task, asker, nreq, asyncs, spin, loop, main, accepted, answers>>
      /\ writes' = writes \ {x}
    BY DEF write_cb, mainVars, connVars
<1>2. UNCHANGED <<waiting, doing, ended, phase>>
    BY <1>1 DEF poolVars
<1>3. PostedWaits' /\ \A w \in Workers : TakenUp(w)' <=> TakenUp(w)
    BY <1>1 DEF ReqInv, PostedWaits, TakenUp
<1>4. WriteHeld'
    BY <1>1, <1>2, <1>3 DEF ReqInv, WriteHeld
<1>5. Quiet'
    BY <1>1, <1>2 DEF ReqInv, Quiet
<1>6. CASE x.req = NoReq
    <2>1. UNCHANGED sem /\ \A r \in Reqs : (\A y \in writes : y.req # r) => (\A y \in writes' : y.req # r)
        BY <1>1, <1>6 DEF write_cb
    <2>2. accepted <= accepted' /\ (loop' = "spin" <=> loop = "spin")
        BY <1>1, ServerBounds DEF TypeInv, TypeOK, ConnTypes
    <2> QED BY <1>1, <1>2, <1>3, <1>4, <1>5, <2>1, <2>2, ReqKept
<1>7. ASSUME NEW r \in Reqs, x.req = r PROVE ReqInv'
    <2>1. sem[r] = 0
        BY <1>7 DEF ReqInv, SemHeld
    <2>2. sem' = [sem EXCEPT ![r] = 1] /\ sem'[r] = 1 /\ \A q \in Reqs : q # r => sem'[q] = sem[q]
        BY <1>7, <2>1, Places DEF write_cb, sl_finish_task
    <2>3. /\ \A y \in writes' : y.req # r
          /\ \E w \in Workers : doing[w] = r /\ TakenUp(w)
        BY <1>1, <1>7, Places DEF ReqInv, WriteHeld
    <2>4. ~Unanswered(r) /\ \A q \in Reqs : Unanswered(q) => Unanswered(q)'
        BY <1>1, <1>7, <2>2 DEF Unanswered
    <2>5. /\ QueueUnanswered' /\ HandsUnanswered' /\ SpinUnanswered'
          /\ QueueDistinct' /\ HandsDistinct' /\ HandsApart'
        BY <1>1, <1>2, <1>3, <2>4, PlacesKept
    <2>6. SemHeld'
        BY <1>1, <1>2, <1>3, <2>2, <2>3 DEF ReqInv, SemHeld
    <2>7. ReqsFresh'
        BY <1>1, <1>7, <2>2 DEF ReqInv, ReqsFresh
    <2>8. AnsweredOnce' /\ AnswerToAsker'
        BY <1>1 DEF ReqInv, AnsweredOnce, AnswerToAsker
    <2> QED BY <1>3, <1>4, <1>5, <2>5, <2>6, <2>7, <2>8 DEF ReqInv
<1> QED BY <1>6, <1>7, Places

\* The loop takes up the answer of worker w: it posts the semaphore or writes the answer.
\* Nothing was done for the request before, and it is nowhere else.
LEMMA ReqTakenUp ==
    ASSUME TypeInv, TypeInv', ReqInv, NEW w \in Workers, NEW r \in Reqs, doing[w] = r,
           UNCHANGED <<poolVars, wpc, task, asker, nreq, spin, loop, main, accepted>>,
           AsyncRuns(w),
           \/ sl_finish_task(r) /\ UNCHANGED <<writes, answers>>
           \/ \E z : z.req = r /\ writes' = writes \cup {z} /\ UNCHANGED sem,
           \A q \in Reqs : q # r => answers'[q] = answers[q],
           AnsweredOnce', AnswerToAsker'
    PROVE  ReqInv'
<1>1. UNCHANGED <<waiting, doing, ended, phase>> /\ loop \in {"run", "stop"}
    BY DEF poolVars, AsyncRuns, Looping
<1>2. w \in asyncs /\ asyncs' = asyncs \ {w} /\ wpc[w] = "waiting" /\ ~TakenUp(w)
    BY DEF AsyncRuns, ReqInv, PostedWaits, TakenUp
<1>3. r <= nreq /\ Unanswered(r) /\ r # NoReq /\ task[r] = "alive"
    BY <1>2, Places DEF ReqInv, HandsUnanswered
<1>4. Repeated = NoReq /\ Repeated' = Repeated
    BY <1>1 DEF Repeated
<1>5. /\ \A n \in 1 .. Len(waiting) : waiting[n] # r
      /\ \A v \in Workers : v # w => doing[v] # r
    BY <1>3, <1>4 DEF ReqInv, HandsApart, HandsDistinct
<1>6. TakenUp(w)' /\ \A v \in Workers : v # w => (TakenUp(v)' <=> TakenUp(v))
    BY <1>2 DEF TakenUp
<1>7. /\ \A q \in Reqs : q # r => sem'[q] = sem[q]
      /\ \A x \in writes' : x \in writes \/ x.req = r
      /\ writes \subseteq writes'
    BY Places DEF sl_finish_task
<1>8. \A q \in Reqs : q # r /\ Unanswered(q) => Unanswered(q)'
    BY <1>7 DEF Unanswered
<1>9. PostedWaits'
    BY <1>2 DEF ReqInv, PostedWaits
<1>10. ReqsFresh'
    <2> SUFFICES ASSUME NEW q \in Reqs, q > nreq
                 PROVE  sem'[q] = 0 /\ answers'[q] = <<>> /\ \A x \in writes' : x.req # q
        BY DEF ReqsFresh
    <2>1. q # r
        BY <1>3, Places
    <2> QED BY <1>7, <2>1 DEF ReqInv, ReqsFresh
<1>11. QueueUnanswered'
    BY <1>1, <1>5, <1>8, Places DEF ReqInv, QueueUnanswered
<1>12. HandsUnanswered'
    <2>1. ASSUME NEW v \in Workers, doing[v] # NoReq
          PROVE  doing[v] <= nreq /\ task[doing[v]] = "alive"
        BY <2>1 DEF ReqInv, HandsUnanswered
    <2>2. ASSUME NEW v \in Workers, NEW a \in Reqs, doing[v] = a
          PROVE  TakenUp(v)' \/ Unanswered(a)'
        <3>1. CASE v = w
            BY <1>6, <3>1
        <3>2. CASE v # w
            <4>1. a # r /\ a # NoReq /\ (TakenUp(v) \/ Unanswered(a))
                BY <1>5, <2>2, <3>2, Places DEF ReqInv, HandsUnanswered
            <4> QED BY <1>6, <1>8, <3>2, <4>1
        <3> QED BY <3>1, <3>2
    <2>3. \A v \in Workers : doing[v] # NoReq => doing[v] \in Reqs
        BY Places
    <2> QED BY <1>1, <2>1, <2>2, <2>3 DEF HandsUnanswered, Unanswered
<1>13. SpinUnanswered'
    BY <1>1 DEF SpinUnanswered
<1>14. QueueDistinct' /\ HandsDistinct' /\ HandsApart'
    BY <1>1, <1>4 DEF ReqInv, QueueDistinct, HandsDistinct, HandsApart
<1>15. SemHeld'
    <2> SUFFICES ASSUME NEW q \in Reqs, sem'[q] # 0
                 PROVE  /\ sem'[q] = 1 /\ \A x \in writes' : x.req # q
                        /\ \E v \in Workers : doing[v] = q /\ TakenUp(v)'
        BY <1>1 DEF SemHeld
    <2>1. CASE q = r
        <3>1. sem[r] = 0 /\ \A x \in writes : x.req # r
            BY <1>3 DEF Unanswered
        <3>2. sl_finish_task(r) /\ UNCHANGED <<writes, answers>>
            BY <2>1, <3>1
        <3>3. sem'[r] = 1
            BY <3>1, <3>2, Places DEF sl_finish_task
        <3> QED BY <1>6, <2>1, <3>1, <3>2, <3>3
    <2>2. CASE q # r
        <3>1. sem[q] # 0 /\ sem'[q] = sem[q]
            BY <1>7, <2>2
        <3>2. PICK v \in Workers : doing[v] = q /\ TakenUp(v)
            BY <3>1 DEF ReqInv, SemHeld
        <3>3. v # w
            BY <2>2, <3>2
        <3> QED BY <1>6, <1>7, <2>2, <3>1, <3>2, <3>3 DEF ReqInv, SemHeld
    <2> QED BY <2>1, <2>2
<1>16. WriteHeld'
    <2> SUFFICES ASSUME NEW x \in writes', x.req # NoReq
                 PROVE  /\ \A y \in writes' : y.req = x.req => y = x
                        /\ \E v \in Workers : doing[v] = x.req /\ TakenUp(v)'
        BY <1>1 DEF WriteHeld
    <2>1. \A y \in writes : y.req # r
        BY <1>3 DEF Unanswered
    <2>2. CASE x.req = r
        BY <1>6, <2>1, <2>2
    <2>3. CASE x.req # r
        <3>1. x \in writes /\ \A y \in writes' : y.req = x.req => y \in writes
            BY <1>7, <2>3
        <3>2. PICK v \in Workers : doing[v] = x.req /\ TakenUp(v)
            BY <3>1 DEF ReqInv, WriteHeld
        <3>3. v # w
            BY <2>3, <3>2
        <3> QED BY <1>6, <3>1, <3>2, <3>3 DEF ReqInv, WriteHeld
    <2> QED BY <2>2, <2>3
<1>17. Quiet'
    BY <1>1 DEF ReqInv, Quiet
<1> QED BY <1>9, <1>10, <1>11, <1>12, <1>13, <1>14, <1>15, <1>16, <1>17 DEF ReqInv

\* The connection that the table holds under the id of a request is the one it came from.
LEMMA AskerFound ==
    ASSUME TypeInv, ConnInv, accepted <= MaxConnId, NEW r \in 1 .. nreq,
           sl_conn_find(respId[r]) # NoConn
    PROVE  sl_conn_find(respId[r]) = asker[r]
<1>1. respId[r] \in ConnIds /\ connTable[respId[r]] # NoConn
    BY DEF sl_conn_find
<1>2. /\ connTable[respId[r]] \in Conns /\ connId[connTable[respId[r]]] = respId[r]
      /\ sl_conn_find(respId[r]) = connTable[respId[r]]
    BY <1>1 DEF ConnInv, TableSafe, TypeInv, TypeOK, ConnTypes, sl_conn_find
<1>3. asker[r] \in Conns /\ connId[asker[r]] = respId[r]
    BY ServerBounds DEF ConnInv, AskerKnown, TypeInv, TypeOK, ConnTypes, Conns
<1>4. respId[r] # INVALID_CONNID
    BY <1>1 DEF ConnIds, INVALID_CONNID
<1> QED BY <1>2, <1>3, <1>4 DEF ConnInv, IdsDistinct

LEMMA ReqAsyncs ==
    ASSUME TypeInv, TypeInv', ConnInv, ReqInv, NEW w \in Workers,
           async_cb_not_ready(w) \/ \E written \in BOOLEAN : async_cb_resp(w, written)
    PROVE  ReqInv'
<1>1. /\ UNCHANGED <<poolVars, wpc, task, asker, nreq, spin, loop, main, accepted>>
      /\ AsyncRuns(w)
    BY DEF async_cb_not_ready, async_cb_resp, mainVars, connVars
<1>2. PICK r \in Reqs : doing[w] = r
    BY <1>1, Places DEF AsyncRuns, ReqInv, PostedWaits, TypeInv, HandsBusy
<1>3. CASE sl_finish_task(r) /\ UNCHANGED <<writes, answers>>
    <2>1. AnsweredOnce' /\ AnswerToAsker'
        BY <1>1, <1>3 DEF ReqInv, AnsweredOnce, AnswerToAsker
    <2> QED BY <1>1, <1>2, <1>3, <2>1, ReqTakenUp
<1>4. ASSUME NEW c, c = sl_conn_find(respId[r]), c # NoConn,
             writes' = writes \cup {[req |-> r, push |-> 0, conn |-> c, sent |-> FALSE]},
             answers' = [answers EXCEPT ![r] = Append(@, c)], UNCHANGED sem
      PROVE  ReqInv'
    <2>1. r \in 1 .. nreq /\ answers[r] = <<>>
        <3>1. w \in asyncs /\ ~TakenUp(w) /\ r # NoReq
            BY <1>1, Places DEF AsyncRuns, TakenUp
        <3> QED BY <1>2, <3>1, Places DEF ReqInv, HandsUnanswered, Unanswered, Reqs
    <2>2. answers'[r] = <<c>> /\ \A q \in Reqs : q # r => answers'[q] = answers[q]
        <3>1. answers'[r] = Append(<<>>, c)
            BY <1>4, <2>1, Places
        <3>2. Append(<<>>, c) = <<c>>
            OBVIOUS
        <3> QED BY <1>4, <3>1, <3>2, Places
    <2>3. AnsweredOnce'
        <3>1. Len(answers'[r]) <= 1
            <4>1. Len(<<c>>) = 1
                OBVIOUS
            <4> QED BY <2>2, <4>1
        <3>2. \A q \in Reqs : q # r => Len(answers'[q]) <= 1
            BY <2>2 DEF ReqInv, AnsweredOnce
        <3> QED BY <3>1, <3>2 DEF AnsweredOnce
    <2>4. AnswerToAsker'
        <3>1. DOMAIN <<c>> = {1} /\ <<c>>[1] = c
            OBVIOUS
        <3>2. accepted <= MaxConnId => c = asker[r]
            BY <1>4, <2>1, AskerFound
        <3> QED BY <1>1, <2>2, <3>1, <3>2 DEF ReqInv, AnswerToAsker
    <2>5. \E z : z.req = r /\ writes' = writes \cup {z} /\ UNCHANGED sem
        <3>1. [req |-> r, push |-> 0, conn |-> c, sent |-> FALSE].req = r
            OBVIOUS
        <3> QED BY <1>4, <3>1
    <2> QED BY <1>1, <1>2, <2>2, <2>3, <2>4, <2>5, ReqTakenUp
<1>5. CASE async_cb_not_ready(w)
    BY <1>2, <1>3, <1>5, ServerThreads DEF async_cb_not_ready, netVars
<1>6. ASSUME NEW written \in BOOLEAN, async_cb_resp(w, written) PROVE ReqInv'
    BY <1>2, <1>3, <1>4, <1>6 DEF async_cb_resp, netVars
<1> QED BY <1>5, <1>6

\* Every step keeps the invariant of the requests.
LEMMA ReqStepInv == TypeInv /\ TypeInv' /\ ConnInv /\ ReqInv /\ [Next]_vars => ReqInv'
<1> SUFFICES ASSUME TypeInv, TypeInv', ConnInv, ReqInv, [Next]_vars PROVE ReqInv'
    OBVIOUS
<1>1. ASSUME NEW w \in Workers, WorkerStep(w) PROVE ReqInv'
    BY <1>1, ReqTake, ReqWorkers, ReqDelete DEF WorkerStep
<1>2. ASSUME NEW c \in Conns, ConnStep(c) PROVE ReqInv'
    BY <1>2, ReqRead, ReqConns DEF ConnStep
<1>3. CASE AsyncStep
    BY <1>3, ReqAsyncs, ReqConns, ReqShutdown DEF AsyncStep
<1> QED BY <1>1, <1>2, <1>3, ReqCallers, ReqConns, ReqFlush, ReqWritten, ReqPushAgain, ReqShutdown
        DEF Next
-----------------------------------------------------------------------------
(* Theorems.                                                               *)

\* The invariant holds in every state of the specification.
LEMMA ServerInvHolds == Spec => []ServerInv
<1>1. Init => ServerInv
    BY TypeInit, ConnInit, ReqInit DEF ServerInv
<1>2. ServerInv /\ [Next]_vars => ServerInv'
    BY TypeStep, ConnStepInv, ReqStepInv DEF ServerInv, ReqInv
<1> QED BY <1>1, <1>2, PTL DEF Spec

\* Every variable of the server loop keeps its type (TypeOK): the counter of connection ids
\* stays within its width, and queue, hands and handles hold only requests that were read.
THEOREM ServerTypes == Spec => []TypeOK
<1>1. ServerInv => TypeOK
    BY DEF ServerInv, TypeInv
<1> QED BY <1>1, ServerInvHolds, PTL

\* The raw pointers of the connection table are open connections under their own ids
\* (TableSafe), for every number of connections and ids, wrapped or not.
THEOREM ServerTableSafe == Spec => []TableSafe
<1>1. ServerInv => TableSafe
    BY DEF ServerInv, ConnInv
<1> QED BY <1>1, ServerInvHolds, PTL

\* The loop never follows the pointer of a RESP task that its worker has deleted
\* (RespTaskAlive), also while it pushes one task again and again into a full queue and
\* while the server is shut down and started again.
THEOREM ServerTasksAlive == Spec => []RespTaskAlive
<1>1. ServerInv => RespTaskAlive
    <2> SUFFICES ASSUME ServerInv PROVE RespTaskAlive
        OBVIOUS
    <2> USE DEF ServerInv
    <2>1. \A n \in 1 .. Len(waiting) : task[waiting[n]] = "alive"
        BY DEF ReqInv, QueueUnanswered, Unanswered
    <2>2. \A w \in Workers : doing[w] # NoReq => doing[w] \in Reqs /\ task[doing[w]] = "alive"
        BY Places DEF ReqInv, HandsUnanswered
    <2>3. \A w \in asyncs \cap Workers : doing[w] # NoReq
        BY DEF ReqInv, PostedWaits, TypeInv, HandsBusy
    <2>4. \A x \in writes : x.req # NoReq => \E w \in Workers : doing[w] = x.req
        BY DEF ReqInv, WriteHeld
    <2> QED BY <2>1, <2>2, <2>3, <2>4 DEF RespTaskAlive
<1> QED BY <1>1, ServerInvHolds, PTL

\* No request is answered twice (AnsweredOnce), although a full queue makes the loop push
\* the same task many times.
THEOREM ServerAnswersOnce == Spec => []AnsweredOnce
<1>1. ServerInv => AnsweredOnce
    BY DEF ServerInv, ReqInv
<1> QED BY <1>1, ServerInvHolds, PTL

\* Until ids wrap, an answer is written on the connection its request was read from
\* (AnswerToAsker), although the task holds only an id and the connection may have been
\* closed in between.
THEOREM ServerAnswersAsker == Spec => []AnswerToAsker
<1>1. ServerInv => AnswerToAsker
    BY DEF ServerInv, ReqInv
<1> QED BY <1>1, ServerInvHolds, PTL
=============================================================================
