-------------------------- MODULE DiscoveryProofs ---------------------------
(***************************************************************************)
(* Proofs about the discovery and the bridge in it, for every number of    *)
(* servers, workers, strangers and calls and every limit of the queue.     *)
(***************************************************************************)
EXTENDS Discovery, FiniteSetTheorems, SequenceTheorems, TLAPS

\* No two jobs have one address: none in the queue, none in the hands of two workers, and
\* none in both places.
QueueDistinct == \A m, n \in 1 .. Len(waiting) : waiting[m] = waiting[n] => m = n
HandsDistinct ==
    \A v, w \in Workers : doing[v] = doing[w] /\ doing[v] # NoServer => v = w
HandsApart == \A n \in 1 .. Len(waiting), w \in Workers : waiting[n] # doing[w]

\* A job's address is listed and was not refused.
QueueListed == \A n \in 1 .. Len(waiting) : waiting[n] \in reqs /\ waiting[n] \notin refused
HandsListed ==
    \A w \in Workers : doing[w] # NoServer => doing[w] \in reqs /\ doing[w] \notin refused

\* An address that is listed has a job or was refused; a refused one stays listed.
HasJob(s) ==
    \/ \E n \in 1 .. Len(waiting) : waiting[n] = s
    \/ \E w \in Workers : doing[w] = s
ListedHasJob == ~crashed => \A s \in reqs : s \in refused \/ HasJob(s)
RefusedListed == refused \subseteq reqs

\* Only a worker that has an address connects.
ConnectingHasAddress == \A w \in connecting : doing[w] # NoServer

\* The inductive invariant of the bridge.
BridgeInv ==
    /\ BridgeTypes /\ ConnectingHasAddress
    /\ QueueDistinct /\ HandsDistinct /\ HandsApart
    /\ QueueListed /\ HandsListed /\ ListedHasJob /\ RefusedListed
    /\ RefusedBound

\* A full queue of different addresses that were not refused leaves room for few refused
\* ones.
LEMMA FullQueueBound ==
    ASSUME BridgeInv, NEW s \in Servers, s \notin reqs, ~Pool!HasRoom
    PROVE  Cardinality(refused \cup {s}) + MaxQueue + 1 <= Cardinality(Servers)
<1> DEFINE R == refused \cup {s}
           L == Len(waiting)
           F == Servers \ R
<1>1. /\ waiting \in Seq(Servers) /\ L \in Nat /\ L >= MaxQueue + 1
      /\ waiting \in [1 .. L -> Servers]
    BY BridgeAssumption DEF BridgeInv, BridgeTypes, Pool!TypeOK, Pool!HasRoom
<1>2. R \subseteq Servers
    BY DEF BridgeInv, BridgeTypes
<1>3. \A n \in 1 .. L : waiting[n] \in F
    BY <1>1 DEF BridgeInv, QueueListed
<1>4. waiting \in [1 .. L -> F]
    BY <1>1, <1>3
<1>5. waiting \in Injection(1 .. L, F)
    BY <1>4 DEF Injection, IsInjective, BridgeInv, QueueDistinct
<1>6. IsFiniteSet(F) /\ Cardinality(F) = Cardinality(Servers) - Cardinality(Servers \cap R)
    BY BridgeAssumption, FS_Difference
<1>7. Cardinality(1 .. L) <= Cardinality(F)
    BY <1>5, <1>6, FS_Injection
<1>8. L \in Nat /\ L >= MaxQueue + 1
    BY <1>1
<1>9. Servers \cap R = R
    BY <1>2
<1>10. IsFiniteSet(R) /\ Cardinality(R) \in Nat /\ Cardinality(Servers) \in Nat
    BY <1>2, BridgeAssumption, FS_Subset, FS_CardinalityType
<1> HIDE DEF R, F, L
<1>11. Cardinality(1 .. L) = L
    <2>1. 1 \in Int /\ L \in Int /\ ~(1 > L)
        BY <1>8, BridgeAssumption
    <2>2. Cardinality(1 .. L) = L - 1 + 1
        BY <2>1, FS_Interval
    <2> QED BY <2>1, <2>2
<1>12. Cardinality(F) = Cardinality(Servers) - Cardinality(R) /\ L <= Cardinality(F)
    BY <1>6, <1>7, <1>9, <1>11
<1>13. Cardinality(R) + MaxQueue + 1 <= Cardinality(Servers)
    BY <1>8, <1>10, <1>12, BridgeAssumption
<1> QED BY <1>13 DEF R

\* The bridge starts with nothing under way.
LEMMA BridgeInvInit == BridgeInit => BridgeInv
<1> SUFFICES ASSUME BridgeInit PROVE BridgeInv
    OBVIOUS
<1> USE BridgeAssumption DEF BridgeInit, Pool!Init
<1>1. BridgeTypes
    <2>1. waiting \in Seq(Servers)
        OBVIOUS
    <2> QED BY <2>1 DEF BridgeTypes, Pool!TypeOK
<1>2. Len(waiting) = 0
    OBVIOUS
<1>3. ConnectingHasAddress /\ RefusedListed /\ RefusedBound /\ ListedHasJob
    BY DEF ConnectingHasAddress, RefusedListed, RefusedBound, ListedHasJob
<1>4. QueueDistinct /\ HandsApart /\ QueueListed
    BY <1>2 DEF QueueDistinct, HandsApart, QueueListed
<1>5. HandsDistinct /\ HandsListed
    BY DEF HandsDistinct, HandsListed
<1> QED BY <1>1, <1>3, <1>4, <1>5 DEF BridgeInv

\* addsvrconn with a new address.
LEMMA AddStep ==
    ASSUME BridgeInv, NEW s \in Servers, addsvrconn(s), ~crashed
    PROVE  BridgeInv'
<1> USE DEF BridgeInv, HasJob
<1>1. CASE Abort \/ UNCHANGED bridgeVars
    BY <1>1 DEF Abort, bridgeVars, poolVars, BridgeTypes, Pool!TypeOK, ConnectingHasAddress,
        QueueDistinct, HandsDistinct, HandsApart, QueueListed, HandsListed, ListedHasJob,
        RefusedListed, RefusedBound
<1>2. CASE /\ s \notin reqs /\ reqs' = reqs \cup {s} /\ Pool!Push(s) /\ UNCHANGED refused
           /\ UNCHANGED <<connecting, up, mutex, exitBusy, crashed>>
    <2>1. /\ waiting \in Seq(Servers) /\ waiting' = Append(waiting, s) /\ waiting' \in Seq(Servers)
          /\ Len(waiting') = Len(waiting) + 1 /\ Len(waiting) \in Nat
          /\ \A n \in 1 .. Len(waiting) : waiting'[n] = waiting[n]
          /\ waiting'[Len(waiting) + 1] = s
        BY <1>2 DEF BridgeTypes, Pool!TypeOK, Pool!Push
    <2>2. BridgeTypes'
        BY <1>2, <2>1 DEF BridgeTypes, Pool!TypeOK, Pool!Push
    <2>3. UNCHANGED <<doing, connecting, refused, crashed>>
        BY <1>2 DEF Pool!Push
    <2>4. QueueDistinct'
        BY <1>2, <2>1 DEF QueueDistinct, QueueListed
    <2>5. HandsApart'
        BY <1>2, <2>1, <2>3, BridgeAssumption DEF HandsApart, HandsListed
    <2>6. QueueListed' /\ HandsListed' /\ RefusedListed'
        BY <1>2, <2>1, <2>3 DEF QueueListed, HandsListed, RefusedListed
    <2>7. ListedHasJob'
        BY <1>2, <2>1, <2>3 DEF ListedHasJob
    <2> QED BY <2>2, <2>3, <2>4, <2>5, <2>6, <2>7
            DEF ConnectingHasAddress, HandsDistinct, RefusedBound
<1>3. CASE /\ s \notin reqs /\ reqs' = reqs \cup {s} /\ ~Pool!HasRoom
           /\ refused' = refused \cup {s} /\ UNCHANGED poolVars
           /\ UNCHANGED <<connecting, up, mutex, exitBusy, crashed>>
    <2>1. BridgeTypes' /\ UNCHANGED <<waiting, doing, connecting, crashed>>
        BY <1>3 DEF BridgeTypes, Pool!TypeOK, poolVars
    <2>2. QueueListed' /\ HandsListed' /\ RefusedListed' /\ ListedHasJob'
        BY <1>3, <2>1 DEF QueueListed, HandsListed, RefusedListed, ListedHasJob
    <2>3. RefusedBound'
        BY <1>3, FullQueueBound DEF RefusedBound
    <2> QED BY <2>1, <2>2, <2>3
            DEF ConnectingHasAddress, QueueDistinct, HandsDistinct, HandsApart
<1> QED BY <1>1, <1>2, <1>3 DEF addsvrconn, Listed

\* A worker takes the address at the head of the queue.
LEMMA TakeStep ==
    ASSUME BridgeInv, NEW w \in Workers, threadpool_work(w)
    PROVE  BridgeInv'
<1> USE DEF BridgeInv, HasJob
<1>1. /\ waiting \in Seq(Servers) /\ waiting # <<>> /\ waiting' = Tail(waiting)
      /\ doing \in [Workers -> Servers \cup {NoServer}]
      /\ doing[w] = NoServer /\ doing' = [doing EXCEPT ![w] = waiting[1]]
      /\ connecting' = connecting \cup {w} /\ UNCHANGED <<reqs, refused, crashed>>
    BY DEF threadpool_work, Pool!Take, BridgeTypes, Pool!TypeOK
<1>2. /\ waiting' \in Seq(Servers) /\ Len(waiting') = Len(waiting) - 1
      /\ Len(waiting) \in Nat \ {0} /\ waiting[1] \in Servers
      /\ \A n \in 1 .. Len(waiting') : waiting'[n] = waiting[n + 1]
    BY <1>1
<1>3. BridgeTypes'
    BY <1>1, <1>2 DEF threadpool_work, Pool!Take, BridgeTypes, Pool!TypeOK
<1>4. ConnectingHasAddress'
    BY <1>1, <1>2, BridgeAssumption DEF ConnectingHasAddress, BridgeTypes
<1>5. QueueDistinct'
    <2> SUFFICES ASSUME NEW m \in 1 .. Len(waiting'), NEW n \in 1 .. Len(waiting'),
                        waiting'[m] = waiting'[n]
                 PROVE  m = n
        BY DEF QueueDistinct
    <2>1. m + 1 \in 1 .. Len(waiting) /\ n + 1 \in 1 .. Len(waiting)
        BY <1>2
    <2>2. waiting[m + 1] = waiting[n + 1]
        BY <1>2
    <2>3. m + 1 = n + 1
        BY <2>1, <2>2 DEF QueueDistinct
    <2> QED BY <2>3
<1>6. HandsDistinct'
    BY <1>1, <1>2 DEF HandsDistinct, HandsApart
<1>7. HandsApart'
    BY <1>1, <1>2 DEF HandsApart, QueueDistinct
<1>8. QueueListed'
    BY <1>1, <1>2 DEF QueueListed
<1>9. HandsListed'
    BY <1>1, <1>2 DEF HandsListed, QueueListed
<1>10. ListedHasJob'
    <2> SUFFICES ASSUME ~crashed, NEW s \in reqs, s \notin refused PROVE HasJob(s)'
        BY <1>1 DEF ListedHasJob
    <2>1. CASE \E v \in Workers : doing[v] = s
        <3>1. s \in Servers
            BY DEF BridgeTypes
        <3> QED BY <1>1, <2>1, <3>1, BridgeAssumption
    <2>2. ASSUME NEW n \in 1 .. Len(waiting), waiting[n] = s PROVE HasJob(s)'
        <3>1. CASE n = 1
            BY <1>1, <2>2, <3>1
        <3>2. CASE n # 1
            <4>1. n - 1 \in 1 .. Len(waiting') /\ waiting'[n - 1] = s
                BY <1>2, <2>2, <3>2
            <4> QED BY <4>1
        <3> QED BY <3>1, <3>2
    <2> QED BY <2>1, <2>2 DEF ListedHasJob
<1> QED BY <1>1, <1>3, <1>4, <1>5, <1>6, <1>7, <1>8, <1>9, <1>10
        DEF RefusedListed, RefusedBound

\* A worker takes its address off the list.
LEMMA DelStep ==
    ASSUME BridgeInv, NEW w \in Workers, delsvrconn(w)
    PROVE  BridgeInv'
<1> USE DEF BridgeInv, HasJob
<1>1. CASE Abort
    BY <1>1 DEF Abort, poolVars, BridgeTypes, Pool!TypeOK, ConnectingHasAddress,
        QueueDistinct, HandsDistinct, HandsApart, QueueListed, HandsListed, ListedHasJob,
        RefusedListed, RefusedBound
<1>2. CASE reqs' = Unlist(doing[w]) /\ Pool!Done(w)
           /\ UNCHANGED <<connecting, up, mutex, refused, exitBusy, crashed>>
    <2>1. /\ doing \in [Workers -> Servers \cup {NoServer}] /\ doing[w] # NoServer
          /\ doing' = [doing EXCEPT ![w] = NoServer]
          /\ reqs' = reqs \ {doing[w]} /\ UNCHANGED <<waiting, connecting, refused, crashed>>
          /\ w \notin connecting
        BY <1>2 DEF Pool!Done, Unlist, BridgeTypes, Pool!TypeOK, delsvrconn
    <2>2. BridgeTypes'
        BY <1>2, <2>1 DEF Pool!Done, BridgeTypes, Pool!TypeOK
    <2>3. ConnectingHasAddress' /\ QueueDistinct' /\ HandsDistinct'
        BY <2>1 DEF ConnectingHasAddress, QueueDistinct, HandsDistinct, BridgeTypes
    <2>4. HandsApart'
        <3>1. \A n \in 1 .. Len(waiting) : waiting[n] # NoServer
            BY BridgeAssumption DEF BridgeTypes, Pool!TypeOK
        <3> QED BY <2>1, <3>1 DEF HandsApart
    <2>5. QueueListed'
        BY <2>1 DEF QueueListed, HandsApart
    <2>6. HandsListed'
        BY <2>1 DEF HandsListed, HandsDistinct
    <2>7. RefusedListed'
        BY <2>1 DEF RefusedListed, HandsListed
    <2>8. ListedHasJob'
        BY <2>1 DEF ListedHasJob
    <2> QED BY <2>1, <2>2, <2>3, <2>4, <2>5, <2>6, <2>7, <2>8 DEF RefusedBound
<1> QED BY <1>1, <1>2 DEF delsvrconn

\* The steps that touch neither the list nor the jobs, and the end of the pool.
LEMMA OtherSteps ==
    ASSUME BridgeInv, NEW w \in Workers,
           \/ \E connected \in BOOLEAN : ssn_connect(w, connected)
           \/ LeavePool(w)
    PROVE  BridgeInv'
<1> USE DEF BridgeInv, HasJob
<1>1. UNCHANGED <<reqs, waiting, doing, refused, crashed>> /\ connecting' \subseteq connecting
    BY DEF ssn_connect, LeavePool, Pool!End, poolVars
<1>2. BridgeTypes'
    <2>1. CASE LeavePool(w)
        BY <2>1 DEF LeavePool, Pool!End, BridgeTypes, Pool!TypeOK
    <2>2. CASE \E connected \in BOOLEAN : ssn_connect(w, connected)
        <3>1. doing[w] \in Servers
            BY <2>2 DEF ssn_connect, ConnectingHasAddress, BridgeTypes, Pool!TypeOK
        <3> QED BY <2>2, <3>1 DEF ssn_connect, poolVars, BridgeTypes, Pool!TypeOK
    <2> QED BY <2>1, <2>2
<1> QED BY <1>1, <1>2 DEF ConnectingHasAddress, QueueDistinct, HandsDistinct, HandsApart,
        QueueListed, HandsListed, ListedHasJob, RefusedListed, RefusedBound

\* The end of the process: the destructor, the pool, a crash.
LEMMA EndSteps ==
    ASSUME BridgeInv,
           \/ \E listening \in BOOLEAN : DestroyMutex(listening)
           \/ UninitPool \/ ProcessDies \/ \E s \in Servers : ConnectionLost(s)
    PROVE  BridgeInv'
<1> USE DEF BridgeInv, HasJob
<1>1. CASE ~(UninitPool /\ Pool!Clear)
    <2>1. /\ UNCHANGED <<reqs, waiting, doing, connecting, refused>>
          /\ crashed => crashed'
        BY <1>1 DEF DestroyMutex, UninitPool, ProcessDies, ConnectionLost, poolVars,
            Pool!Stop, Pool!Joined
    <2>2. BridgeTypes'
        BY <1>1 DEF DestroyMutex, UninitPool, ProcessDies, ConnectionLost, poolVars,
            Pool!Stop, Pool!Joined, BridgeTypes, Pool!TypeOK
    <2> QED BY <2>1, <2>2 DEF ConnectingHasAddress, QueueDistinct, HandsDistinct, HandsApart,
            QueueListed, HandsListed, ListedHasJob, RefusedListed, RefusedBound
<1>2. CASE UninitPool /\ Pool!Clear
    <2>1. /\ UNCHANGED <<reqs, doing, connecting, refused>> /\ waiting' = <<>>
          /\ waiting # <<>> => crashed'
          /\ crashed' \in BOOLEAN
        BY <1>2 DEF UninitPool, Pool!Clear, Pool!Stop, Pool!Joined, BridgeTypes
    <2>2. Len(waiting') = 0 /\ waiting' \in Seq(Servers)
        BY <2>1
    <2>3. BridgeTypes'
        BY <1>2, <2>1, <2>2 DEF UninitPool, Pool!Clear, BridgeTypes, Pool!TypeOK
    <2>4. ListedHasJob'
        <3> SUFFICES ASSUME ~crashed', NEW s \in reqs, s \notin refused PROVE HasJob(s)'
            BY <2>1 DEF ListedHasJob
        <3>1. waiting' = waiting /\ ~crashed
            BY <2>1, <1>2 DEF UninitPool
        <3> QED BY <2>1, <3>1 DEF ListedHasJob
    <2> QED BY <2>1, <2>2, <2>3, <2>4 DEF ConnectingHasAddress, QueueDistinct, HandsDistinct,
            HandsApart, QueueListed, HandsListed, RefusedListed, RefusedBound
<1> QED BY <1>1, <1>2

\* Every step of the bridge keeps the invariant.
LEMMA BridgeInvStep == BridgeInv /\ [BridgeNext]_bridgeVars => BridgeInv'
<1> SUFFICES ASSUME BridgeInv, [BridgeNext]_bridgeVars PROVE BridgeInv'
    OBVIOUS
<1>1. ASSUME NEW s \in Servers, deliver_addsvr_msg(s) PROVE BridgeInv'
    BY <1>1, AddStep DEF deliver_addsvr_msg
<1>2. ASSUME NEW w \in Workers, WorkerStep(w) PROVE BridgeInv'
    BY <1>2, TakeStep, DelStep, OtherSteps DEF WorkerStep
<1>3. CASE UNCHANGED bridgeVars
    BY <1>3 DEF bridgeVars, poolVars, BridgeInv, HasJob, BridgeTypes, Pool!TypeOK,
        ConnectingHasAddress, QueueDistinct, HandsDistinct, HandsApart, QueueListed,
        HandsListed, ListedHasJob, RefusedListed, RefusedBound
<1> QED BY <1>1, <1>2, <1>3, EndSteps DEF BridgeNext

\* What the discovery does to the bridge is a step of the bridge or nothing.
LEMMA DiscoveryStep == [Next]_vars => [BridgeNext]_bridgeVars
<1> SUFFICES ASSUME [Next]_vars PROVE [BridgeNext]_bridgeVars
    OBVIOUS
<1>1. CASE ClientStep
    <2>1. ASSUME NEW d, cltbc_listen_thread(d) PROVE [BridgeNext]_bridgeVars
        <3>1. d \in Hosts => d \in Servers
            BY DiscoveryAssumption
        <3> QED BY <2>1, <3>1 DEF cltbc_listen_thread, Ours, BridgeNext
    <2>2. ASSUME NEW s \in Servers, ssn_connect_oriented(s) PROVE [BridgeNext]_bridgeVars
        BY <2>2 DEF ssn_connect_oriented, BridgeNext
    <2>3. CASE ClientExit
        <3>1. (role[Client] = "on") \in BOOLEAN
            OBVIOUS
        <3>2. \E listening \in BOOLEAN : DestroyMutex(listening)
            BY <2>3, <3>1 DEF ClientExit
        <3> QED BY <3>2 DEF BridgeNext
    <2>4. CASE clt_model_stop_failed
        BY <2>4 DEF clt_model_stop_failed, BridgeNext
    <2>5. CASE UNCHANGED bridgeVars
        BY <2>5
    <2> QED BY <1>1, <2>1, <2>2, <2>3, <2>4, <2>5 DEF ClientStep, clt_model_start,
            client_startup_boardcast, clt_model_stop, JoinClient, cltbc_listen_exit, Noise
<1>2. CASE BridgeStep
    BY <1>2 DEF BridgeStep, BridgeNext
<1>3. ASSUME NEW s \in Hosts, ServerStep(s) PROVE UNCHANGED bridgeVars
    BY <1>3 DEF ServerStep, svr_model_start, UndoStart, svr_model_stop, svr_model_stop_failed,
        wakeup, JoinBroadcaster, JoinListener, svrbc_listen_exit, oriented_feedback, boardcast_top,
        boardcast_send, sleep
<1>4. CASE UNCHANGED vars
    BY <1>4 DEF vars
<1> QED BY <1>1, <1>2, <1>3, <1>4 DEF Next

\* The invariant of the bridge holds throughout the discovery.
LEMMA BridgeInvHolds == Spec => []BridgeInv
<1>1. Init => BridgeInv
    BY BridgeInvInit DEF Init
<1>2. BridgeInv /\ [Next]_vars => BridgeInv'
    BY BridgeInvStep, DiscoveryStep
<1> QED BY <1>1, <1>2, PTL DEF Spec

\* Within the discovery no server is ever worked on twice at a time, whatever is announced,
\* lost or ended when: addsvrconn, the workers and delsvrconn together exclude it.
THEOREM OneJobPerServerCorrect == Spec => []OneJobPerServer
<1>1. BridgeInv => OneJobPerServer
    <2> SUFFICES ASSUME BridgeInv PROVE OneJobPerServer
        OBVIOUS
    <2>1. DOMAIN waiting = 1 .. Len(waiting)
        BY DEF BridgeInv, BridgeTypes, Pool!TypeOK
    <2> QED BY <2>1, BridgeAssumption DEF OneJobPerServer, Queued, AtIt, BridgeInv, QueueDistinct,
            HandsDistinct, HandsApart
<1> QED BY <1>1, BridgeInvHolds, PTL

\* addsvrconn and delsvrconn keep the list of addresses exact: an address is listed exactly
\* while it has a job, or for ever once the full queue has refused its job.
THEOREM ListedWhileAtWorkCorrect == Spec => []ListedWhileAtWork
<1>1. BridgeInv => ListedWhileAtWork
    <2> SUFFICES ASSUME BridgeInv PROVE ListedWhileAtWork
        OBVIOUS
    <2>1. DOMAIN waiting = 1 .. Len(waiting)
        BY DEF BridgeInv, BridgeTypes, Pool!TypeOK
    <2>2. ASSUME NEW s \in Servers PROVE HasJob(s) <=> Queued(s) # {} \/ AtIt(s) # {}
        BY <2>1 DEF HasJob, Queued, AtIt
    <2>3. ASSUME NEW s \in Servers, HasJob(s) PROVE s \in reqs
        BY <2>3, BridgeAssumption DEF HasJob, BridgeInv, QueueListed, HandsListed
    <2> QED BY <2>2, <2>3 DEF ListedWhileAtWork, BridgeInv, ListedHasJob, RefusedListed
<1> QED BY <1>1, BridgeInvHolds, PTL

\* At most as many servers are refused for ever as the network has beyond the length of the
\* queue: the full queue holds MaxQueue + 1 different addresses that were not refused.
THEOREM RefusedBoundCorrect == Spec => []RefusedBound
<1>1. BridgeInv => RefusedBound
    BY DEF BridgeInv
<1> QED BY <1>1, BridgeInvHolds, PTL
-----------------------------------------------------------------------------
(* The roles: which threads a process has while its main thread is where.  *)

\* Every variable of the roles has its type, and a main thread is only where the calls of
\* its role take it.
RoleTypes ==
    /\ role \in [Hosts \cup {Client} -> {"off", "on", "failed"}]
    /\ main \in [Hosts \cup {Client} ->
                    {"idle", "announce", "join", "undo", "wake", "join_bc", "join_ls", "stuck",
                     "gone"}]
    /\ \A s \in Hosts : main[s] \in {"idle", "undo", "wake", "join_bc", "join_ls", "stuck"}
    /\ main[Client] \in {"idle", "announce", "join", "stuck", "gone"}
    /\ calls \in 0 .. MaxCall
CltTypes ==
    /\ clt \in {"none", "run", "left"} /\ cltExit \in BOOLEAN
    /\ cltBox \subseteq Hosts \cup Strangers
LsTypes ==
    /\ ls \in [Hosts -> {"none", "run", "left"}] /\ lsExit \in [Hosts -> BOOLEAN]
    /\ svrBox \subseteq Hosts
BcTypes ==
    /\ bc \in [Hosts -> {"none", "top", "send", "tired", "asleep", "left"}]
    /\ bcExit \in [Hosts -> BOOLEAN] /\ late \in [Hosts -> 0 .. 2]

DiscoveryTypes == RoleTypes /\ CltTypes /\ LsTypes /\ BcTypes

\* The broadcasting thread has not left.
Awake == {"top", "send", "tired", "asleep"}

\* The threads and the tokens of server s, for each place of its main thread.
ServerShape(s) ==
    /\ main[s] = "idle" =>
        /\ ~bcExit[s] /\ ~lsExit[s]
        /\ IF role[s] = "on" THEN bc[s] \in Awake /\ ls[s] = "run"
                             ELSE bc[s] = "none" /\ ls[s] = "none"
    /\ main[s] = "undo" =>
        /\ role[s] = "failed" /\ ~bcExit[s] /\ ~lsExit[s]
        /\ \/ bc[s] \in Awake /\ ls[s] = "none"
           \/ bc[s] = "none" /\ ls[s] = "run"
    /\ main[s] \in {"wake", "join_bc"} =>
        /\ role[s] # "on" /\ ~lsExit[s] /\ ls[s] \in {"none", "run"}
        /\ IF bcExit[s] THEN bc[s] \in Awake ELSE bc[s] = "left"
    /\ main[s] = "join_ls" =>
        /\ role[s] # "on" /\ ~bcExit[s] /\ bc[s] = "none"
        /\ ls[s] = IF lsExit[s] THEN "run" ELSE "left"

\* A thread that may still send has not sent since it was told to exit.
LateShape(s) ==
    /\ late[s] <= 1
    /\ bc[s] = "send" \/ (bc[s] \in Awake /\ ~bcExit[s]) => late[s] = 0

\* The listening thread of the client and its token.
ClientShape ==
    /\ main[Client] \in {"idle", "gone"} =>
        ~cltExit /\ clt = IF role[Client] = "on" THEN "run" ELSE "none"
    /\ main[Client] = "announce" => role[Client] = "on" /\ clt = "run" /\ ~cltExit
    /\ main[Client] = "join" =>
        role[Client] = "on" /\ clt = IF cltExit THEN "run" ELSE "left"

\* A bridge that was destroyed while nothing was under way stays idle.
ExitShape ==
    /\ mutex = "destroyed" <=> main[Client] = "gone"
    /\ mutex = "destroyed" /\ ~exitBusy =>
        /\ waiting = <<>> /\ clt = "none"
        /\ \A w \in Workers : doing[w] = NoServer

\* The inductive invariant of the roles, next to BridgeInv.
RolesInv ==
    /\ DiscoveryTypes /\ ClientShape
    /\ \A s \in Hosts : ServerShape(s) /\ LateShape(s)

ExitInv == RolesInv /\ BridgeInv /\ ExitShape /\ CleanExit

\* The step changes the threads of no server but s.
OnlyServer(s) ==
    /\ \A h \in (Hosts \cup {Client}) \ {s} : main'[h] = main[h] /\ role'[h] = role[h]
    /\ \A x \in Hosts \ {s} : /\ bc'[x] = bc[x] /\ bcExit'[x] = bcExit[x] /\ late'[x] = late[x]
                            /\ ls'[x] = ls[x] /\ lsExit'[x] = lsExit[x]

\* What a step leaves alone keeps its type.
LEMMA KeptTypes ==
    ASSUME DiscoveryTypes
    PROVE  /\ UNCHANGED mainVars => RoleTypes'
           /\ UNCHANGED cltVars => CltTypes'
           /\ UNCHANGED lsVars => LsTypes'
           /\ UNCHANGED bcVars => BcTypes'
BY DEF DiscoveryTypes, RoleTypes, CltTypes, LsTypes, BcTypes, mainVars, cltVars, lsVars, bcVars

\* A server whose threads, tokens and main thread a step leaves alone.
LEMMA ServerKept ==
    ASSUME NEW s \in Hosts, ServerShape(s), LateShape(s),
           main'[s] = main[s], role'[s] = role[s], bc'[s] = bc[s], bcExit'[s] = bcExit[s],
           ls'[s] = ls[s], lsExit'[s] = lsExit[s], late'[s] = late[s]
    PROVE  ServerShape(s)' /\ LateShape(s)'
BY DEF ServerShape, LateShape

\* The servers keep their shape when a step changes only the client.
LEMMA ServersKept ==
    ASSUME RolesInv, UNCHANGED <<ls, lsExit, bcVars>>,
           \A s \in Hosts : main'[s] = main[s] /\ role'[s] = role[s]
    PROVE  \A s \in Hosts : ServerShape(s)' /\ LateShape(s)'
BY ServerKept DEF RolesInv, bcVars

\* Every step of the client keeps the invariant of the roles.
LEMMA ClientRoles == RolesInv /\ ClientStep => RolesInv'
<1> SUFFICES ASSUME RolesInv, ClientStep PROVE RolesInv'
    OBVIOUS
<1>0. /\ DiscoveryTypes /\ RoleTypes /\ CltTypes /\ Client \notin Hosts
      /\ Client \in Hosts \cup {Client} /\ ClientShape /\ Hosts \subseteq Servers
    BY DiscoveryAssumption DEF RolesInv, DiscoveryTypes
<1>1. ASSUME NEW ok \in BOOLEAN, clt_model_start(ok) PROVE RolesInv'
    <2>1. RoleTypes'
        BY <1>0, <1>1, DiscoveryAssumption DEF clt_model_start, Call, RoleTypes
    <2>2. CltTypes'
        BY <1>0, <1>1 DEF clt_model_start, CltTypes, cltVars
    <2>3. ClientShape'
        <3>1. CASE ok
            BY <1>0, <1>1, <3>1 DEF clt_model_start, RoleTypes, ClientShape
        <3>2. CASE ~ok
            BY <1>0, <1>1, <3>2 DEF clt_model_start, Call, RoleTypes, ClientShape, cltVars
        <3> QED BY <3>1, <3>2
    <2>4. \A s \in Hosts : main'[s] = main[s] /\ role'[s] = role[s]
        BY <1>0, <1>1 DEF clt_model_start, RoleTypes
    <2> QED BY <1>0, <1>1, <2>1, <2>2, <2>3, <2>4, KeptTypes, ServersKept
            DEF clt_model_start, RolesInv, DiscoveryTypes, lsVars
<1>2. ASSUME NEW reached \in SUBSET Hosts, client_startup_boardcast(reached) PROVE RolesInv'
    <2>1. RoleTypes' /\ UNCHANGED <<role, cltVars, ls, lsExit, bcVars>>
        BY <1>0, <1>2 DEF client_startup_boardcast, RoleTypes
    <2>2. LsTypes'
        BY <1>0, <1>2 DEF client_startup_boardcast, DiscoveryTypes, LsTypes
    <2>3. ClientShape'
        BY <1>0, <1>2 DEF client_startup_boardcast, RoleTypes, ClientShape, cltVars
    <2>4. \A s \in Hosts : main'[s] = main[s]
        BY <1>0, <1>2 DEF client_startup_boardcast, RoleTypes
    <2> QED BY <1>0, <2>1, <2>2, <2>3, <2>4, KeptTypes, ServersKept DEF RolesInv, DiscoveryTypes
<1>3. CASE clt_model_stop
    <2>1. RoleTypes' /\ CltTypes' /\ UNCHANGED <<role, lsVars, bcVars>>
        BY <1>0, <1>3, DiscoveryAssumption DEF clt_model_stop, Call, RoleTypes, CltTypes
    <2>2. ClientShape'
        BY <1>0, <1>3 DEF clt_model_stop, Call, RoleTypes, ClientShape
    <2>3. \A s \in Hosts : main'[s] = main[s]
        BY <1>0, <1>3 DEF clt_model_stop, RoleTypes
    <2> QED BY <1>0, <2>1, <2>2, <2>3, KeptTypes, ServersKept DEF RolesInv, DiscoveryTypes, lsVars
<1>4. CASE clt_model_stop_failed
    <2>1. RoleTypes' /\ UNCHANGED <<cltVars, lsVars, bcVars>>
        BY <1>0, <1>4, DiscoveryAssumption DEF clt_model_stop_failed, Call, RoleTypes
    <2>2. ClientShape'
        BY <1>0, <1>4, <2>1 DEF clt_model_stop_failed, Call, RoleTypes, ClientShape, cltVars
    <2>3. \A s \in Hosts : main'[s] = main[s] /\ role'[s] = role[s]
        BY <1>0, <1>4 DEF clt_model_stop_failed, RoleTypes
    <2> QED BY <1>0, <2>1, <2>2, <2>3, KeptTypes, ServersKept DEF RolesInv, DiscoveryTypes, lsVars
<1>5. CASE JoinClient
    <2>1. RoleTypes' /\ CltTypes' /\ UNCHANGED <<lsVars, bcVars>>
        BY <1>0, <1>5 DEF JoinClient, RoleTypes, CltTypes
    <2>2. ClientShape'
        BY <1>0, <1>5 DEF JoinClient, RoleTypes, ClientShape
    <2>3. \A s \in Hosts : main'[s] = main[s] /\ role'[s] = role[s]
        BY <1>0, <1>5 DEF JoinClient, RoleTypes
    <2> QED BY <1>0, <2>1, <2>2, <2>3, KeptTypes, ServersKept DEF RolesInv, DiscoveryTypes, lsVars
<1>6. CASE UNCHANGED <<mainVars, lsVars, bcVars>> /\ CltTypes' /\ ClientShape'
    BY <1>0, <1>6, KeptTypes, ServersKept DEF RolesInv, DiscoveryTypes, lsVars, mainVars
<1>7. CASE cltbc_listen_exit
    <2>1. CltTypes' /\ UNCHANGED <<mainVars, lsVars, bcVars>>
        BY <1>0, <1>7 DEF cltbc_listen_exit, CltTypes
    <2>2. ClientShape'
        BY <1>0, <1>7 DEF cltbc_listen_exit, ClientShape, RoleTypes, mainVars
    <2> QED BY <1>6, <2>1, <2>2
<1>8. ASSUME UNCHANGED <<mainVars, clt, cltExit, lsVars, bcVars>>,
             cltBox' \subseteq cltBox \cup Strangers
      PROVE  RolesInv'
    <2>1. CltTypes' /\ ClientShape'
        BY <1>0, <1>8 DEF CltTypes, ClientShape, mainVars
    <2> QED BY <1>6, <1>8, <2>1
<1>9. CASE ClientExit
    <2>1. RoleTypes' /\ UNCHANGED <<role, cltVars, lsVars, bcVars>>
        BY <1>0, <1>9 DEF ClientExit, RoleTypes
    <2>2. ClientShape'
        BY <1>0, <1>9 DEF ClientExit, RoleTypes, ClientShape, cltVars
    <2>3. \A s \in Hosts : main'[s] = main[s]
        BY <1>0, <1>9 DEF ClientExit, RoleTypes
    <2> QED BY <1>0, <2>1, <2>2, <2>3, KeptTypes, ServersKept DEF RolesInv, DiscoveryTypes, lsVars
<1>10. ASSUME NEW d \in cltBox, cltbc_listen_thread(d) PROVE RolesInv'
    BY <1>8, <1>10 DEF cltbc_listen_thread
<1>11. ASSUME NEW s \in Servers, ssn_connect_oriented(s) PROVE RolesInv'
    BY <1>8, <1>11 DEF ssn_connect_oriented, cltVars
<1>12. ASSUME NEW d \in Strangers, Noise(d) PROVE RolesInv'
    BY <1>8, <1>12 DEF Noise, ToClient
<1> QED BY <1>1, <1>2, <1>3, <1>4, <1>5, <1>7, <1>9, <1>10, <1>11, <1>12 DEF ClientStep

\* The client and the other servers keep their shape when a step changes only server s.
LEMMA OneServer ==
    ASSUME RolesInv, NEW s \in Hosts, DiscoveryTypes', UNCHANGED <<clt, cltExit>>,
           OnlyServer(s),
           ServerShape(s)', LateShape(s)'
    PROVE  RolesInv'
<1>1. Client # s
    BY DiscoveryAssumption
<1>2. ClientShape'
    BY <1>1 DEF RolesInv, ClientShape, OnlyServer
<1>3. \A x \in Hosts \ {s} : ServerShape(x)' /\ LateShape(x)'
    BY ServerKept DEF RolesInv, OnlyServer
<1> QED BY <1>2, <1>3 DEF RolesInv

\* Every step of a server keeps the invariant of the roles.
LEMMA ServerRoles == \A s \in Hosts : RolesInv /\ ServerStep(s) => RolesInv'
<1> SUFFICES ASSUME NEW s \in Hosts, RolesInv, ServerStep(s) PROVE RolesInv'
    OBVIOUS
<1>0. /\ DiscoveryTypes /\ s # Client /\ s \in Hosts \cup {Client}
      /\ ServerShape(s) /\ LateShape(s)
    BY DiscoveryAssumption DEF RolesInv
<1> USE DEF DiscoveryTypes, RoleTypes, CltTypes, LsTypes, BcTypes, mainVars, cltVars, lsVars, bcVars
<1>1. ASSUME NEW listens \in BOOLEAN, NEW broadcasts \in BOOLEAN, svr_model_start(s, listens, broadcasts) PROVE RolesInv'
    <2>1. DiscoveryTypes' /\ UNCHANGED <<clt, cltExit>>
        BY <1>0, <1>1, DiscoveryAssumption DEF svr_model_start, Call
    <2>2. OnlyServer(s)
        BY <1>0, <1>1 DEF OnlyServer, svr_model_start, Call
    <2>3. ServerShape(s)'
        BY <1>0, <1>1 DEF svr_model_start, Call, ServerShape, Awake
    <2>4. LateShape(s)'
        BY <1>0, <1>1 DEF svr_model_start, Call, ServerShape, LateShape, Awake
    <2> QED BY <2>1, <2>2, <2>3, <2>4, OneServer
<1>2. ASSUME UndoStart(s) PROVE RolesInv'
    <2>1. DiscoveryTypes' /\ UNCHANGED <<clt, cltExit>>
        BY <1>0, <1>2, DiscoveryAssumption DEF UndoStart
    <2>2. OnlyServer(s)
        BY <1>0, <1>2 DEF OnlyServer, UndoStart
    <2>3. ServerShape(s)'
        BY <1>0, <1>2 DEF UndoStart, ServerShape, Awake
    <2>4. LateShape(s)'
        BY <1>0, <1>2 DEF UndoStart, ServerShape, LateShape, Awake
    <2> QED BY <2>1, <2>2, <2>3, <2>4, OneServer
<1>3. ASSUME svr_model_stop(s) PROVE RolesInv'
    <2>1. DiscoveryTypes' /\ UNCHANGED <<clt, cltExit>>
        BY <1>0, <1>3, DiscoveryAssumption DEF svr_model_stop, Call
    <2>2. OnlyServer(s)
        BY <1>0, <1>3 DEF OnlyServer, svr_model_stop, Call
    <2>3. ServerShape(s)'
        BY <1>0, <1>3 DEF svr_model_stop, Call, ServerShape, Awake
    <2>4. LateShape(s)'
        BY <1>0, <1>3 DEF svr_model_stop, Call, ServerShape, LateShape, Awake
    <2> QED BY <2>1, <2>2, <2>3, <2>4, OneServer
<1>4. ASSUME svr_model_stop_failed(s) PROVE RolesInv'
    <2>1. DiscoveryTypes' /\ UNCHANGED <<clt, cltExit>>
        BY <1>0, <1>4, DiscoveryAssumption DEF svr_model_stop_failed, Call
    <2>2. OnlyServer(s)
        BY <1>0, <1>4 DEF OnlyServer, svr_model_stop_failed, Call
    <2>3. ServerShape(s)'
        BY <1>0, <1>4 DEF svr_model_stop_failed, Call, ServerShape, Awake
    <2>4. LateShape(s)'
        BY <1>0, <1>4 DEF svr_model_stop_failed, Call, ServerShape, LateShape, Awake
    <2> QED BY <2>1, <2>2, <2>3, <2>4, OneServer
<1>5. ASSUME wakeup(s) PROVE RolesInv'
    <2>1. DiscoveryTypes' /\ UNCHANGED <<clt, cltExit>>
        BY <1>0, <1>5, DiscoveryAssumption DEF wakeup
    <2>2. OnlyServer(s)
        BY <1>0, <1>5 DEF OnlyServer, wakeup
    <2>3. ServerShape(s)'
        BY <1>0, <1>5 DEF wakeup, ServerShape, Awake
    <2>4. LateShape(s)'
        BY <1>0, <1>5 DEF wakeup, ServerShape, LateShape, Awake
    <2> QED BY <2>1, <2>2, <2>3, <2>4, OneServer
<1>6. ASSUME JoinBroadcaster(s) PROVE RolesInv'
    <2>1. DiscoveryTypes' /\ UNCHANGED <<clt, cltExit>>
        BY <1>0, <1>6, DiscoveryAssumption DEF JoinBroadcaster
    <2>2. OnlyServer(s)
        BY <1>0, <1>6 DEF OnlyServer, JoinBroadcaster
    <2>3. ServerShape(s)'
        BY <1>0, <1>6 DEF JoinBroadcaster, ServerShape, Awake
    <2>4. LateShape(s)'
        BY <1>0, <1>6 DEF JoinBroadcaster, ServerShape, LateShape, Awake
    <2> QED BY <2>1, <2>2, <2>3, <2>4, OneServer
<1>7. ASSUME JoinListener(s) PROVE RolesInv'
    <2>1. DiscoveryTypes' /\ UNCHANGED <<clt, cltExit>>
        BY <1>0, <1>7, DiscoveryAssumption DEF JoinListener
    <2>2. OnlyServer(s)
        BY <1>0, <1>7 DEF OnlyServer, JoinListener
    <2>3. ServerShape(s)'
        BY <1>0, <1>7 DEF JoinListener, ServerShape, Awake
    <2>4. LateShape(s)'
        BY <1>0, <1>7 DEF JoinListener, ServerShape, LateShape, Awake
    <2> QED BY <2>1, <2>2, <2>3, <2>4, OneServer
<1>8. ASSUME svrbc_listen_exit(s) PROVE RolesInv'
    <2>1. DiscoveryTypes' /\ UNCHANGED <<clt, cltExit>>
        BY <1>0, <1>8, DiscoveryAssumption DEF svrbc_listen_exit
    <2>2. OnlyServer(s)
        BY <1>0, <1>8 DEF OnlyServer, svrbc_listen_exit
    <2>3. ServerShape(s)'
        BY <1>0, <1>8 DEF svrbc_listen_exit, ServerShape, Awake
    <2>4. LateShape(s)'
        BY <1>0, <1>8 DEF svrbc_listen_exit, ServerShape, LateShape, Awake
    <2> QED BY <2>1, <2>2, <2>3, <2>4, OneServer
<1>9. ASSUME boardcast_top(s) PROVE RolesInv'
    <2>1. DiscoveryTypes' /\ UNCHANGED <<clt, cltExit>>
        BY <1>0, <1>9, DiscoveryAssumption DEF boardcast_top
    <2>2. OnlyServer(s)
        BY <1>0, <1>9 DEF OnlyServer, boardcast_top
    <2>3. ServerShape(s)'
        BY <1>0, <1>9 DEF boardcast_top, ServerShape, Awake
    <2>4. LateShape(s)'
        BY <1>0, <1>9 DEF boardcast_top, ServerShape, LateShape, Awake
    <2> QED BY <2>1, <2>2, <2>3, <2>4, OneServer
<1>10. ASSUME sleep(s) PROVE RolesInv'
    <2>1. DiscoveryTypes' /\ UNCHANGED <<clt, cltExit>>
        BY <1>0, <1>10, DiscoveryAssumption DEF sleep
    <2>2. OnlyServer(s)
        BY <1>0, <1>10 DEF OnlyServer, sleep
    <2>3. ServerShape(s)'
        BY <1>0, <1>10 DEF sleep, ServerShape, Awake
    <2>4. LateShape(s)'
        BY <1>0, <1>10 DEF sleep, ServerShape, LateShape, Awake
    <2> QED BY <2>1, <2>2, <2>3, <2>4, OneServer
<1>11. ASSUME NEW lost \in BOOLEAN, oriented_feedback(s, lost) PROVE RolesInv'
    <2>1. DiscoveryTypes' /\ UNCHANGED <<clt, cltExit>>
        BY <1>0, <1>11, DiscoveryAssumption DEF oriented_feedback, ToClient
    <2>2. OnlyServer(s)
        BY <1>0, <1>11 DEF OnlyServer, oriented_feedback, ToClient
    <2>3. ServerShape(s)'
        BY <1>0, <1>11 DEF oriented_feedback, ToClient, ServerShape, Awake
    <2>4. LateShape(s)'
        BY <1>0, <1>11 DEF oriented_feedback, ToClient, ServerShape, LateShape, Awake
    <2> QED BY <2>1, <2>2, <2>3, <2>4, OneServer
<1>12. ASSUME NEW lost \in BOOLEAN, boardcast_send(s, lost) PROVE RolesInv'
    <2>1. DiscoveryTypes' /\ UNCHANGED <<clt, cltExit>>
        BY <1>0, <1>12, DiscoveryAssumption DEF boardcast_send, ToClient
    <2>2. OnlyServer(s)
        BY <1>0, <1>12 DEF OnlyServer, boardcast_send, ToClient
    <2>3. ServerShape(s)'
        BY <1>0, <1>12 DEF boardcast_send, ToClient, ServerShape, Awake
    <2>4. LateShape(s)'
        BY <1>0, <1>12 DEF boardcast_send, ToClient, ServerShape, LateShape, Awake
    <2> QED BY <2>1, <2>2, <2>3, <2>4, OneServer
<1> QED BY <1>1, <1>2, <1>3, <1>4, <1>5, <1>6, <1>7, <1>8, <1>9, <1>10, <1>11, <1>12 DEF ServerStep

\* Every step keeps the invariant of the roles.
LEMMA RolesInvStep == RolesInv /\ [Next]_vars => RolesInv'
<1> SUFFICES ASSUME RolesInv, UNCHANGED Others PROVE RolesInv'
    BY ClientRoles, ServerRoles DEF Next, BridgeStep, vars, Others
<1>1. DiscoveryTypes /\ ClientShape
    BY DEF RolesInv
<1>2. ClientShape'
    BY <1>1 DEF ClientShape, Others, mainVars, cltVars
<1>3. \A s \in Hosts : main'[s] = main[s] /\ role'[s] = role[s]
    BY DEF Others, mainVars
<1> QED BY <1>1, <1>2, <1>3, KeptTypes, ServersKept DEF RolesInv, DiscoveryTypes, Others, lsVars

\* Nothing runs at first.
LEMMA RolesInvInit == Init => RolesInv
<1> SUFFICES ASSUME Init PROVE RolesInv
    OBVIOUS
<1>1. DiscoveryTypes
    <2>1. RoleTypes
        BY DiscoveryAssumption DEF Init, RoleTypes
    <2>2. CltTypes
        <3>1. clt = "none" /\ cltExit = FALSE /\ cltBox = {}
            BY DEF Init
        <3> QED BY <3>1 DEF CltTypes
    <2>3. LsTypes /\ BcTypes
        BY DEF Init, LsTypes, BcTypes
    <2> QED BY <2>1, <2>2, <2>3 DEF DiscoveryTypes
<1>2. ClientShape
    BY DEF Init, ClientShape
<1>3. \A s \in Hosts : ServerShape(s) /\ LateShape(s)
    BY DEF Init, ServerShape, LateShape, Awake
<1> QED BY <1>1, <1>2, <1>3 DEF RolesInv

\* The invariant of the roles holds throughout.
LEMMA RolesInvHolds == Spec => []RolesInv
BY RolesInvInit, RolesInvStep, PTL DEF Spec

\* Every variable of the discovery keeps its type; in particular deliver_addsvr_msg is given
\* only addresses of servers, whatever arrives at the client's port.
THEOREM DiscoveryTypeCorrect == Spec => []TypeOK
<1>1. RolesInv /\ BridgeInv => TypeOK
    BY DEF RolesInv, BridgeInv, DiscoveryTypes, RoleTypes, CltTypes, LsTypes, BcTypes, TypeOK
<1> QED BY <1>1, RolesInvHolds, BridgeInvHolds, PTL

\* After every ssn_set_boardcast_model of a server, also one that failed half way, both of its
\* threads run or none is left behind (svr_model_start, svr_model_stop and the undoing).
THEOREM RolesWholeCorrect == Spec => []RolesWhole
<1>1. RolesInv => RolesWhole
    BY DEF RolesInv, ServerShape, Awake, RolesWhole
<1> QED BY <1>1, RolesInvHolds, PTL

\* A server that was told to stop broadcasts at most once more, also when sleeper::wakeup
\* comes while the thread is about to sleep and is lost.
THEOREM AtMostOneMoreCorrect == Spec => []AtMostOneMore
<1>1. RolesInv => AtMostOneMore
    BY DEF RolesInv, LateShape, AtMostOneMore
<1> QED BY <1>1, RolesInvHolds, PTL
-----------------------------------------------------------------------------
(* The end of the process.                                                 *)

\* Steps that neither end the process nor give the bridge work.
LEMMA ExitKept ==
    ASSUME ExitInv, UNCHANGED <<mutex, exitBusy, waiting, doing, crashed>>,
           role'[Client] = role[Client] \/ ~crashed,
           main'[Client] = "gone" <=> main[Client] = "gone",
           main[Client] = "gone" => clt' = clt
    PROVE  ExitShape' /\ CleanExit'
BY DEF ExitInv, ExitShape, CleanExit

\* A step of the bridge that is not under destruction.
LEMMA ExitAlive ==
    ASSUME ExitInv, mutex = "alive", mutex' = "alive", ~crashed',
           main'[Client] = main[Client]
    PROVE  ExitShape' /\ CleanExit'
BY DEF ExitInv, ExitShape, CleanExit

\* addsvrconn with the bridge destroyed: something was under way when main returned.
LEMMA ExitDeliver ==
    ASSUME ExitInv, NEW s, deliver_addsvr_msg(s), UNCHANGED <<main, clt>>,
           mutex = "destroyed" => exitBusy
    PROVE  ExitShape' /\ CleanExit'
<1>1. CASE Abort
    <2>1. /\ UNCHANGED <<mutex, exitBusy, waiting, doing, main, clt>>
          /\ mutex = "destroyed"
        BY <1>1 DEF Abort, poolVars
    <2> QED BY <2>1 DEF ExitInv, ExitShape, CleanExit
<1>2. CASE mutex = "alive" /\ mutex' = mutex /\ crashed' = crashed
    BY <1>2, ExitAlive DEF deliver_addsvr_msg
<1> QED BY <1>1, <1>2 DEF deliver_addsvr_msg, addsvrconn, bridgeVars

\* Every step keeps the facts about the end of the process.
LEMMA ExitStep == ExitInv /\ [Next]_vars => ExitShape' /\ CleanExit'
<1> SUFFICES ASSUME ExitInv, [Next]_vars PROVE ExitShape' /\ CleanExit'
    OBVIOUS
<1>0. /\ RolesInv /\ DiscoveryTypes /\ RoleTypes /\ ClientShape /\ ExitShape /\ CleanExit
      /\ Client \notin Hosts /\ Client \in Hosts \cup {Client}
      /\ mutex \in {"alive", "destroyed"}
    BY DiscoveryAssumption DEF ExitInv, RolesInv, DiscoveryTypes, BridgeInv, BridgeTypes
<1>1. UNCHANGED bridgeVars => UNCHANGED <<mutex, exitBusy, waiting, doing, crashed>>
    BY DEF bridgeVars, poolVars
<1>2. ASSUME NEW s \in Hosts, ServerStep(s) PROVE ExitShape' /\ CleanExit'
    <2>1. UNCHANGED <<clt, bridgeVars>> /\ role'[Client] = role[Client] /\ main'[Client] = main[Client]
        BY <1>0, <1>2 DEF ServerStep, svr_model_start, UndoStart, svr_model_stop,
            svr_model_stop_failed, wakeup, JoinBroadcaster, JoinListener, svrbc_listen_exit,
            oriented_feedback, boardcast_top, boardcast_send, sleep, RoleTypes, mainVars, cltVars
    <2> QED BY <1>1, <2>1, ExitKept
<1>3. CASE ClientStep
    <2>1. ASSUME NEW ok \in BOOLEAN, clt_model_start(ok) PROVE ExitShape' /\ CleanExit'
        <3>1. /\ UNCHANGED bridgeVars /\ ~crashed /\ main[Client] = "idle"
              /\ main'[Client] # "gone"
            BY <1>0, <2>1 DEF clt_model_start, Call, RoleTypes
        <3> QED BY <1>1, <3>1, ExitKept
    <2>2. ASSUME NEW reached, client_startup_boardcast(reached) PROVE ExitShape' /\ CleanExit'
        <3>1. /\ UNCHANGED bridgeVars /\ ~crashed /\ main[Client] = "announce"
              /\ main'[Client] # "gone"
            BY <1>0, <2>2 DEF client_startup_boardcast, RoleTypes
        <3> QED BY <1>1, <3>1, ExitKept
    <2>3. CASE clt_model_stop
        <3>1. /\ UNCHANGED bridgeVars /\ ~crashed /\ main[Client] = "idle"
              /\ main'[Client] # "gone"
            BY <1>0, <2>3 DEF clt_model_stop, Call, RoleTypes
        <3> QED BY <1>1, <3>1, ExitKept
    <2>4. CASE clt_model_stop_failed
        <3>1. /\ ~crashed /\ main[Client] = "idle" /\ role[Client] = "failed"
              /\ main'[Client] # "gone" /\ UNCHANGED clt
            BY <1>0, <2>4 DEF clt_model_stop_failed, Call, RoleTypes, cltVars
        <3>2. CASE UNCHANGED bridgeVars
            BY <1>1, <3>1, <3>2, ExitKept
        <3>3. CASE ProcessDies /\ UNCHANGED <<role, main>>
            <4>1. UNCHANGED mutex
                BY <3>3 DEF ProcessDies
            <4> QED BY <1>0, <3>1, <3>3, <4>1 DEF ExitShape, CleanExit
        <3> QED BY <2>4, <3>2, <3>3 DEF clt_model_stop_failed
    <2>5. CASE JoinClient
        <3>1. /\ UNCHANGED bridgeVars /\ ~crashed /\ main[Client] = "join"
              /\ main'[Client] # "gone"
            BY <1>0, <2>5 DEF JoinClient, RoleTypes
        <3> QED BY <1>1, <3>1, ExitKept
    <2>6. CASE cltbc_listen_exit
        <3>1. UNCHANGED <<bridgeVars, main>> /\ ~crashed /\ cltExit
            BY <2>6 DEF cltbc_listen_exit, mainVars
        <3>2. main[Client] # "gone"
            BY <1>0, <3>1 DEF ClientShape
        <3> QED BY <1>1, <3>1, <3>2, ExitKept
    <2>7. ASSUME NEW d \in cltBox, cltbc_listen_thread(d) PROVE ExitShape' /\ CleanExit'
        <3>1. UNCHANGED <<mainVars, clt>> /\ ~crashed /\ clt = "run"
            BY <2>7 DEF cltbc_listen_thread
        <3>2. CASE UNCHANGED bridgeVars
            BY <1>1, <3>1, <3>2, ExitKept DEF mainVars
        <3>3. CASE deliver_addsvr_msg(d)
            <4>1. mutex = "destroyed" => exitBusy
                BY <1>0, <3>1 DEF ExitShape
            <4> QED BY <3>1, <3>3, <4>1, ExitDeliver DEF mainVars
        <3> QED BY <2>7, <3>2, <3>3 DEF cltbc_listen_thread
    <2>8. ASSUME NEW s \in Servers, ssn_connect_oriented(s) PROVE ExitShape' /\ CleanExit'
        <3>1. UNCHANGED <<mainVars, clt>> /\ main[Client] = "idle" /\ deliver_addsvr_msg(s)
            BY <2>8 DEF ssn_connect_oriented, cltVars
        <3>2. mutex # "destroyed"
            BY <1>0, <3>1 DEF ExitShape
        <3> QED BY <3>1, <3>2, ExitDeliver DEF mainVars
    <2>9. CASE ClientExit
        <3>1. /\ ~crashed /\ UNCHANGED <<crashed, waiting, doing, clt>> /\ main[Client] = "idle"
              /\ mutex' = "destroyed" /\ main'[Client] = "gone"
            BY <1>0, <2>9 DEF ClientExit, DestroyMutex, poolVars, cltVars, RoleTypes
        <3>2. ~exitBusy' => /\ role[Client] # "on" /\ waiting = <<>>
                            /\ \A w \in Workers : doing[w] = NoServer
            BY <2>9 DEF ClientExit, DestroyMutex
        <3>3. role[Client] # "on" => clt = "none"
            BY <1>0, <3>1 DEF ClientShape
        <3> QED BY <3>1, <3>2, <3>3 DEF ExitShape, CleanExit
    <2>10. ASSUME NEW d, Noise(d) PROVE ExitShape' /\ CleanExit'
        BY <1>1, <2>10, ExitKept DEF Noise, mainVars
    <2> QED BY <1>3, <2>1, <2>2, <2>3, <2>4, <2>5, <2>6, <2>7, <2>8, <2>9, <2>10 DEF ClientStep
<1>4. CASE BridgeStep
    <2>0. UNCHANGED <<main, role, clt>>
        BY <1>4 DEF BridgeStep, Others, mainVars, cltVars
    <2>1. ASSUME UNCHANGED <<mutex, exitBusy, waiting, doing, crashed>> PROVE ExitShape' /\ CleanExit'
        BY <2>0, <2>1, ExitKept
    <2>2. ASSUME UNCHANGED <<mutex, exitBusy>>, mutex = "destroyed" => exitBusy,
                 mutex = "destroyed" \/ ~crashed'
          PROVE  ExitShape' /\ CleanExit'
        BY <1>0, <2>0, <2>2 DEF ExitShape, CleanExit
    <2>3. ASSUME NEW w \in Workers, WorkerStep(w) PROVE ExitShape' /\ CleanExit'
        <3>1. CASE threadpool_work(w)
            <4>1. UNCHANGED <<mutex, exitBusy, crashed>> /\ ~crashed /\ waiting # <<>>
                BY <3>1 DEF threadpool_work, Pool!Take
            <4> QED BY <1>0, <2>2, <4>1 DEF ExitShape
        <3>2. CASE delsvrconn(w)
            <4>1. /\ UNCHANGED <<mutex, exitBusy>> /\ doing[w] # NoServer /\ ~crashed
                  /\ mutex = "destroyed" \/ crashed' = crashed
                BY <3>2 DEF delsvrconn, Abort
            <4> QED BY <1>0, <2>2, <4>1 DEF ExitShape
        <3>3. CASE LeavePool(w)
            BY <2>1, <3>3 DEF LeavePool, Pool!End
        <3>4. ASSUME NEW connected, ssn_connect(w, connected) PROVE ExitShape' /\ CleanExit'
            BY <2>1, <3>4 DEF ssn_connect, poolVars
        <3> QED BY <2>3, <3>1, <3>2, <3>3, <3>4 DEF WorkerStep
    <2>4. ASSUME NEW s \in Servers, ConnectionLost(s) PROVE ExitShape' /\ CleanExit'
        BY <2>1, <2>4 DEF ConnectionLost, poolVars
    <2>5. CASE UninitPool
        <3>1. mutex = "destroyed" /\ ~crashed /\ UNCHANGED <<mutex, exitBusy, doing>>
            BY <2>5 DEF UninitPool, Pool!Stop, Pool!Clear, Pool!Joined
        <3>2. CASE exitBusy
            BY <2>2, <3>1, <3>2
        <3>3. CASE ~exitBusy
            <4>1. waiting = <<>>
                BY <1>0, <3>1, <3>3 DEF ExitShape
            <4>2. UNCHANGED waiting /\ ~crashed'
                <5>1. CASE Pool!Clear
                    <6>1. crashed' = (waiting # <<>>) /\ waiting' = <<>>
                        BY <2>5, <5>1 DEF UninitPool, Pool!Stop, Pool!Clear, Pool!Joined
                    <6> QED BY <4>1, <6>1
                <5>2. CASE ~Pool!Clear
                    BY <2>5, <3>1, <5>2 DEF UninitPool, Pool!Stop, Pool!Joined
                <5> QED BY <5>1, <5>2
            <4> QED BY <1>0, <2>0, <3>1, <4>2 DEF ExitShape, CleanExit
        <3> QED BY <3>2, <3>3
    <2> QED BY <1>4, <2>3, <2>4, <2>5 DEF BridgeStep
<1>5. CASE UNCHANGED vars
    BY <1>1, <1>5, ExitKept DEF vars, mainVars, cltVars
<1> QED BY <1>2, <1>3, <1>4, <1>5 DEF Next

\* If main returns while the client does not listen and the bridge is idle, ~HostChangeReq
\* harms nobody although it destroys the mutex before it joins the workers; the process dies
\* otherwise only in clt_model_stop after a failed start.
THEOREM CleanExitCorrect == Spec => []CleanExit
<1>1. Init => ExitShape /\ CleanExit
    BY DEF Init, BridgeInit, Pool!Init, ExitShape, CleanExit
<1>2. ExitShape /\ CleanExit /\ RolesInv /\ BridgeInv /\ [Next]_vars => (ExitShape /\ CleanExit)'
    BY ExitStep DEF ExitInv
<1> QED BY <1>1, <1>2, RolesInvHolds, BridgeInvHolds, PTL DEF Spec
=============================================================================
