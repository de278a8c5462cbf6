-------------------------- MODULE ThreadPoolProofs --------------------------
(***************************************************************************)
(* Proofs about ThreadPool, for every number of workers, every limit of    *)
(* the queue and every number of jobs.                                     *)
(***************************************************************************)
EXTENDS ThreadPool, FiniteSetTheorems, SequenceTheorems, TLAPS

\* The workers between uv_sem_trywait and uv_sem_post.
Holders == {w \in Workers : pc[w] = "token"}

\* No token of exit_sem is lost: those that _threadpool_cancel_all posted are in the
\* semaphore or held by a worker that will post them again.
TokensKept == exit_sem + Cardinality(Holders) = posted

\* The owner goes on only after thread_num posts.
PostedAll == owner \in {"clear", "join", "gone"} => posted = Cardinality(Workers)

\* Every step keeps the types.
LEMMA TypeStep == TypeOK /\ [Next]_vars => TypeOK'
<1> SUFFICES ASSUME TypeOK, [Next]_vars PROVE TypeOK'
    OBVIOUS
<1> USE PoolAssumption
<1>1. ASSUME NEW w \in Workers, WorkerStep(w) \/ SpuriousWakeup(w) PROVE TypeOK'
    <2>1. CASE StayInLoop(w)
        BY <2>1 DEF TypeOK, StayInLoop, Goto
    <2>2. CASE LeaveLoop(w)
        BY <2>2 DEF TypeOK, LeaveLoop, Goto
    <2>3. CASE Repost(w)
        BY <2>3 DEF TypeOK, Repost, Goto
    <2>4. CASE Pop(w)
        BY <2>4 DEF TypeOK, Pop, easy_queue_pop, Goto
    <2>5. CASE Wait(w) \/ Resume(w) \/ Finish(w) \/ SpuriousWakeup(w)
        BY <2>5 DEF TypeOK, Wait, Resume, Finish, SpuriousWakeup, Goto
    <2> QED BY <1>1, <2>1, <2>2, <2>3, <2>4, <2>5 DEF WorkerStep
<1>2. CASE threadpool_push_work
    <2>1. pushed + 1 \in Jobs /\ pushed' \in 0 .. MaxPush
        BY <1>2 DEF TypeOK, threadpool_push_work, Jobs
    <2> QED BY <1>2, <2>1 DEF TypeOK, threadpool_push_work, easy_queue_push, Broadcast
<1>3. CASE threadpool_uninit \/ PostExit \/ PostsDone \/ FreePool
    BY <1>3 DEF TypeOK, threadpool_uninit, PostExit, PostsDone, FreePool
<1>4. CASE CancelAll
    BY <1>4 DEF TypeOK, CancelAll, easy_queue_clear, Broadcast
<1>5. CASE UNCHANGED vars
    BY <1>5 DEF TypeOK, vars
<1> QED BY <1>1, <1>2, <1>3, <1>4, <1>5 DEF Next, OwnerStep

\* The types hold when threadpool_init returns.
LEMMA InitTypes == Init => TypeOK
<1> SUFFICES ASSUME Init PROVE TypeOK
    OBVIOUS
<1>1. queue \in Seq(Jobs) /\ started \in Seq(Jobs)
    BY DEF Init
<1>2. pushed \in 0 .. MaxPush /\ exit_sem \in Nat /\ posted \in Nat
    BY PoolAssumption DEF Init
<1>3. /\ pc \in [Workers -> {"top", "token", "exited", "lock", "wait", "woken", "work"}]
      /\ owner \in {"up", "post", "clear", "join", "gone"}
    BY DEF Init
<1>4. crashed \in BOOLEAN /\ element \in [Workers -> Jobs \cup {0}]
    BY DEF Init
<1> QED BY <1>1, <1>2, <1>3, <1>4 DEF TypeOK

\* Types hold in every state; exit_sem never drops below zero.
THEOREM PoolTypes == Spec => []TypeOK
<1> QED BY InitTypes, TypeStep, PTL DEF Spec

\* A worker that takes or returns a token changes the number of holders by one.
LEMMA HoldersStep ==
    ASSUME TypeOK, NEW w \in Workers
    PROVE  /\ Cardinality(Holders) \in Nat
           /\ pc[w] # "token" => Cardinality(Holders \cup {w}) = Cardinality(Holders) + 1
           /\ pc[w] = "token" => Cardinality(Holders \ {w}) = Cardinality(Holders) - 1
<1>1. IsFiniteSet(Holders)
    BY PoolAssumption, FS_Subset DEF Holders
<1> QED BY <1>1, FS_CardinalityType, FS_AddElement, FS_RemoveElement DEF Holders

\* A step in which the same workers hold tokens keeps their number.
LEMMA TokensStep == TypeOK /\ TokensKept /\ PostedAll /\ [Next]_vars => TokensKept' /\ PostedAll'
<1> SUFFICES ASSUME TypeOK, TokensKept, PostedAll, [Next]_vars PROVE TokensKept' /\ PostedAll'
    OBVIOUS
<1> USE PoolAssumption
<1>0. Cardinality(Holders) \in Nat /\ Cardinality(Workers) \in Nat
    BY FS_Subset, FS_CardinalityType DEF Holders
<1>1. ASSUME NEW w \in Workers, LeaveLoop(w) PROVE TokensKept' /\ PostedAll'
    <2>1. Holders' = Holders \cup {w} /\ pc[w] # "token"
        BY <1>1 DEF LeaveLoop, At, Goto, TypeOK, Holders
    <2>2. exit_sem' = exit_sem - 1 /\ UNCHANGED <<posted, owner>>
        BY <1>1 DEF LeaveLoop
    <2>3. Cardinality(Holders)' = Cardinality(Holders) + 1
        BY <2>1, HoldersStep
    <2>4. TokensKept'
        BY <1>0, <2>2, <2>3 DEF TokensKept, TypeOK
    <2> QED BY <2>2, <2>4 DEF PostedAll
<1>2. ASSUME NEW w \in Workers, Repost(w) PROVE TokensKept' /\ PostedAll'
    <2>1. Holders' = Holders \ {w} /\ pc[w] = "token"
        BY <1>2 DEF Repost, At, Goto, TypeOK, Holders
    <2>2. exit_sem' = exit_sem + 1 /\ UNCHANGED <<posted, owner>>
        BY <1>2 DEF Repost
    <2>3. Cardinality(Holders)' = Cardinality(Holders) - 1
        BY <2>1, HoldersStep
    <2>4. TokensKept'
        BY <1>0, <2>2, <2>3 DEF TokensKept, TypeOK
    <2> QED BY <2>2, <2>4 DEF PostedAll
<1>3. ASSUME NEW w \in Workers,
             StayInLoop(w) \/ Pop(w) \/ Wait(w) \/ Resume(w) \/ Finish(w) \/ SpuriousWakeup(w)
      PROVE  TokensKept' /\ PostedAll'
    <2>1. UNCHANGED <<Holders, exit_sem, posted, owner>>
        BY <1>3 DEF StayInLoop, Pop, easy_queue_pop, Wait, Resume, Finish, SpuriousWakeup, At, Goto, TypeOK, Holders
    <2> QED BY <2>1 DEF TokensKept, PostedAll
<1>4. CASE threadpool_push_work
    <2>1. UNCHANGED <<Holders, exit_sem, posted, owner>>
        BY <1>4 DEF threadpool_push_work, easy_queue_push, Broadcast, TypeOK, Holders
    <2> QED BY <2>1 DEF TokensKept, PostedAll
<1>5. CASE threadpool_uninit \/ PostsDone \/ FreePool \/ UNCHANGED vars
    <2>1. UNCHANGED <<Holders, exit_sem, posted>>
        BY <1>5 DEF threadpool_uninit, PostsDone, FreePool, vars, Holders
    <2>2. PostedAll'
        BY <1>5 DEF threadpool_uninit, PostsDone, FreePool, vars, PostedAll, AllPosted
    <2> QED BY <2>1, <2>2 DEF TokensKept
<1>6. CASE PostExit
    <2>1. Holders' = Holders
        BY <1>6 DEF PostExit, Holders
    <2>2. Cardinality(Holders)' = Cardinality(Holders)
        BY <2>1
    <2>3. TokensKept'
        <3>1. exit_sem' = exit_sem + 1 /\ posted' = posted + 1 /\ exit_sem \in Nat /\ posted \in Nat
            BY <1>6 DEF PostExit, TypeOK
        <3>2. exit_sem + Cardinality(Holders) = posted
            BY DEF TokensKept
        <3>3. exit_sem' + Cardinality(Holders)' = posted'
            BY <1>0, <2>2, <3>1, <3>2
        <3> QED BY <3>3 DEF TokensKept
    <2> QED BY <1>6, <2>3 DEF PostExit, PostedAll
<1>7. CASE CancelAll
    <2>1. UNCHANGED <<Holders, exit_sem, posted>>
        BY <1>7 DEF CancelAll, easy_queue_clear, Broadcast, TypeOK, Holders
    <2> QED BY <1>7, <2>1 DEF CancelAll, easy_queue_clear, TokensKept, PostedAll
<1> QED BY <1>1, <1>2, <1>3, <1>4, <1>5, <1>6, <1>7 DEF Next, WorkerStep, OwnerStep

\* For any number of workers, uv_sem_trywait at threadpool.c:60 succeeds once all tokens
\* are posted: thread_num posts suffice although workers borrow tokens for a moment.
THEOREM ExitSeenCorrect == Spec => []ExitSeen
<1>1. Init => TypeOK /\ TokensKept /\ PostedAll
    <2>1. ASSUME Init PROVE Holders = {}
        BY <2>1 DEF Init, Holders
    <2>2. ASSUME Init PROVE Cardinality(Holders) = 0
        BY <2>1, <2>2, FS_EmptySet
    <2>3. ASSUME Init PROVE exit_sem = 0 /\ posted = 0 /\ owner = "up"
        BY <2>3 DEF Init
    <2>4. Init => TokensKept /\ PostedAll
        BY <2>2, <2>3 DEF TokensKept, PostedAll
    <2> QED BY <2>4, InitTypes
<1>2. TypeOK /\ TokensKept /\ PostedAll => ExitSeen
    <2> SUFFICES ASSUME TypeOK, TokensKept, PostedAll,
                        owner \in {"clear", "join", "gone"}, NEW w \in Workers, pc[w] = "top"
                 PROVE  exit_sem > 0
        BY DEF ExitSeen
    <2>1. Holders \subseteq Workers \ {w}
        BY DEF Holders
    <2>2. /\ IsFiniteSet(Workers \ {w})
          /\ Cardinality(Workers \ {w}) = Cardinality(Workers) - 1
          /\ Cardinality(Workers) \in Nat
        BY PoolAssumption, FS_RemoveElement, FS_CardinalityType
    <2>3. Cardinality(Holders) <= Cardinality(Workers \ {w}) /\ Cardinality(Holders) \in Nat
        BY <2>1, <2>2, FS_Subset, FS_CardinalityType
    <2> QED BY <2>2, <2>3 DEF TokensKept, PostedAll, TypeOK
<1>3. TypeOK /\ TokensKept /\ PostedAll /\ [Next]_vars => (TypeOK /\ TokensKept /\ PostedAll)'
    BY TypeStep, TokensStep
<1> QED BY <1>1, <1>2, <1>3, PTL DEF Spec

\* For any number of workers, no worker sleeps in uv_cond_wait while a job is queued:
\* the test of the queue and the wait are one critical section, and every push wakes all.
THEOREM NoMissedJobCorrect == Spec => []NoMissedJob
<1>1. Init => NoMissedJob
    BY DEF Init, NoMissedJob
<1>2. TypeOK /\ NoMissedJob /\ [Next]_vars => NoMissedJob'
    <2> SUFFICES ASSUME TypeOK, NoMissedJob, [Next]_vars PROVE NoMissedJob'
        OBVIOUS
    <2>1. ASSUME NEW w \in Workers, WorkerStep(w) \/ SpuriousWakeup(w) PROVE NoMissedJob'
        <3>1. CASE Pop(w)
            BY <3>1 DEF Pop, easy_queue_pop, At, Goto, NoMissedJob, TypeOK
        <3>2. CASE ~Pop(w)
            BY <2>1, <3>2 DEF WorkerStep, StayInLoop, LeaveLoop, Repost, Wait, Resume, Finish,
                SpuriousWakeup, At, Goto, NoMissedJob, TypeOK
        <3> QED BY <3>1, <3>2
    <2>2. CASE threadpool_push_work \/ CancelAll
        BY <2>2 DEF threadpool_push_work, easy_queue_push, CancelAll, easy_queue_clear, Broadcast, NoMissedJob
    <2>3. CASE threadpool_uninit \/ PostExit \/ PostsDone \/ FreePool \/ UNCHANGED vars
        BY <2>3 DEF threadpool_uninit, PostExit, PostsDone, FreePool, vars, NoMissedJob
    <2> QED BY <2>1, <2>2, <2>3 DEF Next, OwnerStep
<1> QED BY <1>1, <1>2, PoolTypes, PTL DEF Spec

\* Moving the head of one sequence to the end of another keeps their concatenation.
LEMMA MoveHead ==
    ASSUME NEW S, NEW s \in Seq(S), NEW q \in Seq(S), q # <<>>
    PROVE  Append(s, Head(q)) \o Tail(q) = s \o q
<1>1. Head(q) \in S /\ Tail(q) \in Seq(S) /\ q = <<Head(q)>> \o Tail(q)
    BY HeadTailProperties
<1>2. Append(s, Head(q)) = s \o <<Head(q)>>
    BY <1>1, AppendIsConcat
<1>3. <<Head(q)>> \in Seq(S)
    BY <1>1
<1>4. (s \o <<Head(q)>>) \o Tail(q) = s \o (<<Head(q)>> \o Tail(q))
    BY <1>1, <1>3, ConcatAssociative
<1> QED BY <1>1, <1>2, <1>4

\* The queue of threadpool.c is first in, first out, and its limit is exceeded by one job
\* at most: for any number of workers and pushes no accepted job is lost, repeated or
\* overtaken.
THEOREM PoolOrder == Spec => [](StartedInOrder /\ QueueBound)
<1> USE PoolAssumption
<1>1. Init => StartedInOrder /\ QueueBound
    BY DEF Init, StartedInOrder, QueueBound
<1>2. TypeOK /\ StartedInOrder /\ QueueBound /\ [Next]_vars => (StartedInOrder /\ QueueBound)'
    <2> SUFFICES ASSUME TypeOK, StartedInOrder, QueueBound, [Next]_vars
                 PROVE  StartedInOrder' /\ QueueBound'
        OBVIOUS
    <2>1. ASSUME NEW w \in Workers, Pop(w) PROVE StartedInOrder' /\ QueueBound'
        <3>1. PICK job \in Jobs : easy_queue_pop(job) /\ started' = Append(started, job)
            BY <2>1 DEF Pop
        <3>2. started' \o queue' = started \o queue
            BY <3>1, MoveHead DEF easy_queue_pop, TypeOK
        <3>3. UNCHANGED <<pushed, crashed>>
            BY <2>1 DEF Pop
        <3>4. Len(queue') = Len(queue) - 1
            BY <3>1 DEF easy_queue_pop, TypeOK
        <3> QED BY <3>2, <3>3, <3>4 DEF StartedInOrder, QueueBound, TypeOK
    <2>2. CASE threadpool_push_work
        <3>1. queue' = Append(queue, pushed + 1) /\ UNCHANGED <<started, crashed>> /\ pushed' = pushed + 1
            BY <2>2 DEF threadpool_push_work, easy_queue_push
        <3>2. StartedInOrder'
            <4> SUFFICES ASSUME ~crashed PROVE started \o queue' = [i \in 1 .. pushed' |-> i]
                BY <3>1 DEF StartedInOrder
            <4>1. started \o queue' = Append(started \o queue, pushed + 1)
                BY <3>1 DEF TypeOK
            <4>2. started \o queue = [i \in 1 .. pushed |-> i] /\ pushed \in Nat
                BY DEF StartedInOrder, TypeOK
            <4>3. Append([i \in 1 .. pushed |-> i], pushed + 1) = [i \in 1 .. (pushed + 1) |-> i]
                BY <4>2
            <4> QED BY <3>1, <4>1, <4>2, <4>3
        <3>3. QueueBound'
            BY <2>2, <3>1 DEF threadpool_push_work, HasRoom, QueueBound, TypeOK
        <3> QED BY <3>2, <3>3
    <2>3. CASE CancelAll
        <3>1. queue' = <<>> /\ crashed' = (queue # <<>>) /\ ~crashed /\ UNCHANGED <<pushed, started>>
            BY <2>3 DEF CancelAll, easy_queue_clear
        <3>2. QueueBound'
            BY <3>1 DEF QueueBound
        <3>3. ASSUME ~crashed' PROVE queue' = queue
            BY <3>1, <3>3
        <3> QED BY <3>1, <3>2, <3>3 DEF StartedInOrder
    <2>4. CASE UNCHANGED <<queue, pushed, started, crashed>>
        BY <2>4 DEF StartedInOrder, QueueBound
    <2> QED BY <2>1, <2>2, <2>3, <2>4 DEF Next, OwnerStep, WorkerStep, StayInLoop, LeaveLoop,
            Repost, Wait, Resume, Finish, SpuriousWakeup, threadpool_uninit, PostExit, PostsDone,
            FreePool, vars
<1> QED BY <1>1, <1>2, PoolTypes, PTL DEF Spec

\* A worker has a job exactly while it is in element.proc.
AtWork == \A w \in Workers : pc[w] = "work" <=> element[w] # 0

\* Tokens exist only once the shutdown began.
TokensBegun == owner = "up" => exit_sem = 0 /\ \A w \in Workers : pc[w] # "token"

\* No step makes a token while the pool is up.
LEMMA TokensBegunStep == TypeOK /\ TokensBegun /\ [Next]_vars => TokensBegun'
<1> SUFFICES ASSUME TypeOK, TokensBegun, [Next]_vars PROVE TokensBegun'
    OBVIOUS
<1>1. ASSUME NEW w \in Workers, WorkerStep(w) \/ SpuriousWakeup(w) PROVE TokensBegun'
    BY <1>1 DEF WorkerStep, StayInLoop, LeaveLoop, Repost, Pop, Wait, Resume, Finish,
        SpuriousWakeup, At, Goto, TokensBegun, TypeOK
<1>2. CASE threadpool_push_work
    BY <1>2 DEF threadpool_push_work, Broadcast, TokensBegun, TypeOK
<1>3. CASE threadpool_uninit \/ OwnerStep
    BY <1>3 DEF threadpool_uninit, OwnerStep, PostExit, PostsDone, CancelAll, FreePool,
        TokensBegun
<1>4. CASE UNCHANGED vars
    BY <1>4 DEF vars, TokensBegun
<1> QED BY <1>1, <1>2, <1>3, <1>4 DEF Next

\* The detailed pool implements the abstract one for every number of workers: what the
\* server loop and the bridge rely on is what threadpool.c does.
THEOREM PoolImplemented == Spec => ImplementsPool
<1> USE PoolAssumption
<1>1. Init => Pool!Init /\ AtWork /\ TokensBegun
    BY DEF Init, Pool!Init, AtWork, TokensBegun
<1>2. TypeOK /\ AtWork /\ [Next]_vars => AtWork'
    <2> SUFFICES ASSUME TypeOK, AtWork, [Next]_vars PROVE AtWork'
        OBVIOUS
    <2>1. ASSUME NEW w \in Workers, WorkerStep(w) \/ SpuriousWakeup(w) PROVE AtWork'
        <3>1. CASE Pop(w)
            BY <3>1 DEF Pop, Goto, At, AtWork, TypeOK, Jobs
        <3>2. CASE Finish(w)
            BY <3>2 DEF Finish, Goto, At, AtWork, TypeOK
        <3> QED BY <2>1, <3>1, <3>2 DEF WorkerStep, StayInLoop, LeaveLoop, Repost, Wait, Resume,
                SpuriousWakeup, At, Goto, AtWork, TypeOK
    <2>2. CASE threadpool_push_work \/ CancelAll
        BY <2>2 DEF threadpool_push_work, CancelAll, Broadcast, AtWork, TypeOK
    <2>3. CASE UNCHANGED <<pc, element>>
        BY <2>3 DEF AtWork
    <2> QED BY <2>1, <2>2, <2>3 DEF Next, OwnerStep, threadpool_uninit, PostExit, PostsDone, FreePool, vars
<1>3. TypeOK /\ AtWork /\ TokensBegun /\ [Next]_vars => [Pool!Next]_(Pool!poolVars)
    <2> SUFFICES ASSUME TypeOK, AtWork, TokensBegun, [Next]_vars PROVE [Pool!Next]_(Pool!poolVars)
        OBVIOUS
    <2>1. ASSUME NEW w \in Workers, WorkerStep(w) \/ SpuriousWakeup(w)
          PROVE  [Pool!Next]_(Pool!poolVars)
        <3>1. CASE Pop(w)
            <4>1. /\ ~crashed /\ pc[w] = "lock" /\ element[w] = 0 /\ queue # <<>>
                  /\ queue' = Tail(queue) /\ element' = [element EXCEPT ![w] = Head(queue)]
                  /\ pc' = [pc EXCEPT ![w] = "work"] /\ UNCHANGED <<owner, crashed>>
                BY <3>1 DEF Pop, easy_queue_pop, At, Goto, AtWork
            <4>2. UNCHANGED {v \in Workers : pc[v] = "exited"}
                BY <4>1 DEF TypeOK
            <4>3. Pool!Take(w)
                BY <4>1, <4>2 DEF Pool!Take
            <4> QED BY <4>3 DEF Pool!Next
        <3>2. CASE Finish(w)
            <4>1. /\ ~crashed /\ pc[w] = "work" /\ element[w] # 0
                  /\ element' = [element EXCEPT ![w] = 0]
                  /\ pc' = [pc EXCEPT ![w] = "top"] /\ UNCHANGED <<queue, owner, crashed>>
                BY <3>2 DEF Finish, At, Goto, AtWork
            <4>2. UNCHANGED {v \in Workers : pc[v] = "exited"}
                BY <4>1 DEF TypeOK
            <4>3. Pool!Done(w)
                BY <4>1, <4>2 DEF Pool!Done
            <4> QED BY <4>3 DEF Pool!Next
        <3>3. CASE Repost(w)
            <4>1. /\ ~crashed /\ pc[w] = "token" /\ element[w] = 0
                  /\ pc' = [pc EXCEPT ![w] = "exited"]
                  /\ UNCHANGED <<queue, element, owner, crashed>>
                BY <3>3 DEF Repost, At, Goto, AtWork
            <4>2. {v \in Workers : pc[v] = "exited"}' = {v \in Workers : pc[v] = "exited"} \cup {w}
                BY <4>1 DEF TypeOK
            <4>3. owner # "up"
                BY <4>1 DEF TokensBegun
            <4>4. Pool!End(w)
                BY <4>1, <4>2, <4>3 DEF Pool!End, TypeOK
            <4> QED BY <4>4 DEF Pool!Next
        <3>4. CASE ~Pop(w) /\ ~Finish(w) /\ ~Repost(w)
            <4>1. UNCHANGED <<queue, element, owner, crashed, {v \in Workers : pc[v] = "exited"}>>
                BY <2>1, <3>4 DEF WorkerStep, StayInLoop, LeaveLoop, Wait, Resume,
                    SpuriousWakeup, At, Goto, TypeOK
            <4> QED BY <4>1 DEF Pool!poolVars
        <3> QED BY <3>1, <3>2, <3>3, <3>4
    <2>2. CASE threadpool_push_work
        <3>1. UNCHANGED {v \in Workers : pc[v] = "exited"}
            BY <2>2 DEF threadpool_push_work, Broadcast, TypeOK
        <3>2. pushed + 1 \in Jobs
            BY <2>2 DEF threadpool_push_work, Jobs, TypeOK
        <3>3. Pool!Push(pushed + 1)
            BY <2>2, <3>1 DEF threadpool_push_work, easy_queue_push, HasRoom, Pool!Push, Pool!HasRoom
        <3> QED BY <3>2, <3>3 DEF Pool!Next
    <2>3. CASE threadpool_uninit
        <3>1. Pool!Stop
            BY <2>3 DEF threadpool_uninit, Pool!Stop
        <3> QED BY <3>1 DEF Pool!Next
    <2>4. CASE PostExit \/ PostsDone \/ UNCHANGED vars
        BY <2>4 DEF PostExit, PostsDone, vars, Pool!poolVars
    <2>5. CASE CancelAll
        <3>1. UNCHANGED {v \in Workers : pc[v] = "exited"}
            BY <2>5 DEF CancelAll, Broadcast, TypeOK
        <3>2. Pool!Clear
            BY <2>5, <3>1 DEF CancelAll, easy_queue_clear, Pool!Clear
        <3> QED BY <3>2 DEF Pool!Next
    <2>6. CASE FreePool
        <3>1. {v \in Workers : pc[v] = "exited"} = Workers
            BY <2>6 DEF FreePool, Joined
        <3>2. Pool!Joined
            BY <2>6, <3>1 DEF FreePool, Pool!Joined
        <3> QED BY <3>2 DEF Pool!Next
    <2> QED BY <2>1, <2>2, <2>3, <2>4, <2>5, <2>6 DEF Next, OwnerStep
<1> QED BY <1>1, <1>2, <1>3, TokensBegunStep, PoolTypes, PTL DEF Spec, ImplementsPool, Pool!Spec
=============================================================================
