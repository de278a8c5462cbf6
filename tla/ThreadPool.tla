----------------------------- MODULE ThreadPool -----------------------------
(***************************************************************************)
(* The thread pool of third/threadpool/threadpool.c on the queue of        *)
(* third/queue/Gqueue.c.  The server hands every request to such a pool,   *)
(* and the bridge every address it discovers.                              *)
(*                                                                         *)
(* What happens between uv_mutex_lock and uv_mutex_unlock is one action;   *)
(* the operations on exit_sem are outside the mutex and are actions of     *)
(* their own.  Both users pass NULL as after_proc.  The thread that owns   *)
(* the pool is the one that destroys it, and it pushes nothing after that. *)
(***************************************************************************)
EXTENDS Naturals, Sequences, FiniteSets

CONSTANTS
    Workers,    \* the threads of the pool
    MaxQueue,   \* 64 in the code: a longer queue refuses work
    MaxPush     \* bound: how many jobs are pushed

ASSUME PoolAssumption ==
    /\ IsFiniteSet(Workers)
    /\ MaxQueue \in Nat
    /\ MaxPush \in Nat

Jobs == 1 .. MaxPush

VARIABLES
    queue,      \* tp->queue: numbers of the jobs, in the order they were pushed
    pushed,     \* number of jobs accepted so far
    started,    \* jobs in the order in which workers popped them
    pc,         \* where each worker is
    element,    \* the job whose proc each worker is in, or 0
    exit_sem,   \* tp->exit_sem
    posted,     \* posts of _threadpool_cancel_all
    owner,      \* the owner: "up", "post", "clear", "join", "gone"
    crashed     \* a NULL pointer was called

vars == <<queue, pushed, started, pc, element, exit_sem, posted, owner, crashed>>

\* threadpool_init: every worker starts at the top of its loop.
Init ==
    /\ queue = <<>> /\ pushed = 0 /\ started = <<>>
    /\ pc = [w \in Workers |-> "top"] /\ element = [w \in Workers |-> 0]
    /\ exit_sem = 0 /\ posted = 0
    /\ owner = "up" /\ crashed = FALSE

\* Worker w is at this point.
At(w, point) == ~crashed /\ pc[w] = point

\* Worker w goes on to this point.
Goto(w, point) == pc' = [pc EXCEPT ![w] = point]

\* Fault: uv_cond_signal instead of uv_cond_broadcast.
Fault_Broadcast_Signal ==
    \/ pc' = pc /\ \A w \in Workers : pc[w] # "wait"
    \/ \E w \in Workers : pc[w] = "wait" /\ Goto(w, "woken")

\* Fault: nobody is woken.
Fault_Broadcast_Dropped == UNCHANGED pc

\* uv_cond_broadcast: every worker in uv_cond_wait wakes up.
Broadcast == pc' = [w \in Workers |-> IF pc[w] = "wait" THEN "woken" ELSE pc[w]]
-----------------------------------------------------------------------------
(* The queue.                                                              *)

\* easy_queue_push at the tail.
easy_queue_push(job) == queue' = Append(queue, job)

\* Fault: the job at the tail is taken.
Fault_easy_queue_pop(job) ==
    /\ queue # <<>> /\ job = queue[Len(queue)]
    /\ queue' = SubSeq(queue, 1, Len(queue) - 1)

\* easy_queue_pop of a queue that is not empty takes the job at the head.
easy_queue_pop(job) == queue # <<>> /\ job = Head(queue) /\ queue' = Tail(queue)

\* easy_queue_clear with queue_free_func: the after_proc of every job that is left is
\* called, and that is NULL.
easy_queue_clear == queue' = <<>> /\ crashed' = (queue # <<>>)
-----------------------------------------------------------------------------
(* thread_func.                                                            *)

\* uv_sem_trywait fails: the worker goes for the mutex.
StayInLoop(w) ==
    /\ At(w, "top") /\ exit_sem = 0
    /\ Goto(w, "lock")
    /\ UNCHANGED <<queue, pushed, started, element, exit_sem, posted, owner, crashed>>

\* Fault: the result of uv_sem_trywait is not looked at.
Fault_LeaveLoop(w) ==
    /\ At(w, "top")
    /\ exit_sem' = exit_sem - 1
    /\ Goto(w, "token")
    /\ UNCHANGED <<queue, pushed, started, element, posted, owner, crashed>>

\* uv_sem_trywait takes a token of exit_sem ...
LeaveLoop(w) ==
    /\ At(w, "top") /\ exit_sem > 0
    /\ exit_sem' = exit_sem - 1
    /\ Goto(w, "token")
    /\ UNCHANGED <<queue, pushed, started, element, posted, owner, crashed>>

\* ... and uv_sem_post passes it on; the thread ends.
Repost(w) ==
    /\ At(w, "token")
    /\ exit_sem' = exit_sem + 1
    /\ Goto(w, "exited")
    /\ UNCHANGED <<queue, pushed, started, element, posted, owner, crashed>>

\* The worker pops a job under the mutex, unlocks it and calls proc.
Pop(w) ==
    /\ At(w, "lock")
    /\ \E job \in Jobs :
        /\ easy_queue_pop(job)
        /\ started' = Append(started, job)
        /\ element' = [element EXCEPT ![w] = job]
    /\ Goto(w, "work")
    /\ UNCHANGED <<pushed, exit_sem, posted, owner, crashed>>

\* The queue is empty: uv_cond_wait releases the mutex and sleeps in one step.
Wait(w) ==
    /\ At(w, "lock") /\ queue = <<>>
    /\ Goto(w, "wait")
    /\ UNCHANGED <<queue, pushed, started, element, exit_sem, posted, owner, crashed>>

\* uv_cond_wait may return although nobody called uv_cond_broadcast.
SpuriousWakeup(w) ==
    /\ At(w, "wait")
    /\ Goto(w, "woken")
    /\ UNCHANGED <<queue, pushed, started, element, exit_sem, posted, owner, crashed>>

\* uv_cond_wait returns with the mutex, which is released; continue.
Resume(w) ==
    /\ At(w, "woken")
    /\ Goto(w, "top")
    /\ UNCHANGED <<queue, pushed, started, element, exit_sem, posted, owner, crashed>>

\* element.proc has returned.
Finish(w) ==
    /\ At(w, "work")
    /\ Goto(w, "top")
    /\ element' = [element EXCEPT ![w] = 0]
    /\ UNCHANGED <<queue, pushed, started, exit_sem, posted, owner, crashed>>
-----------------------------------------------------------------------------
(* The owner.                                                              *)

\* easy_queue_size(tp->queue) > 64 is false.
HasRoom == ~(Len(queue) > MaxQueue)

\* threadpool_push_work; without room it returns -1 and changes nothing.
threadpool_push_work ==
    /\ ~crashed /\ owner = "up" /\ pushed < MaxPush
    /\ HasRoom
    /\ pushed' = pushed + 1
    /\ easy_queue_push(pushed + 1)
    /\ Broadcast
    /\ UNCHANGED <<started, element, exit_sem, posted, owner, crashed>>

\* threadpool_uninit is called.
threadpool_uninit ==
    /\ ~crashed /\ owner = "up"
    /\ owner' = "post"
    /\ UNCHANGED <<queue, pushed, started, element, pc, exit_sem, posted, crashed>>

\* Fault: a single token is posted and left to the chain of reposts.
Fault_AllPosted == posted = 1

\* The loop of posts in _threadpool_cancel_all has run thread_num times.
AllPosted == posted = Cardinality(Workers)

PostExit ==
    /\ ~crashed /\ owner = "post" /\ ~AllPosted
    /\ exit_sem' = exit_sem + 1
    /\ posted' = posted + 1
    /\ UNCHANGED <<queue, pushed, started, element, pc, owner, crashed>>

\* After the last post the owner goes for the mutex.
PostsDone ==
    /\ ~crashed /\ owner = "post" /\ AllPosted
    /\ owner' = "clear"
    /\ UNCHANGED <<queue, pushed, started, element, pc, exit_sem, posted, crashed>>

\* uv_cond_broadcast and easy_queue_clear under the mutex.
CancelAll ==
    /\ ~crashed /\ owner = "clear"
    /\ Broadcast
    /\ easy_queue_clear
    /\ owner' = "join"
    /\ UNCHANGED <<pushed, started, element, exit_sem, posted>>

\* Fault: the join stops at the first thread that has ended.
Fault_Joined == \E w \in Workers : pc[w] = "exited"

\* uv_thread_join has returned for every worker.
Joined == \A w \in Workers : pc[w] = "exited"

\* The end of threadpool_uninit: mutex, condition, semaphore and pool are freed.
FreePool ==
    /\ ~crashed /\ owner = "join" /\ Joined
    /\ owner' = "gone"
    /\ UNCHANGED <<queue, pushed, started, element, pc, exit_sem, posted, crashed>>

WorkerStep(w) ==
    StayInLoop(w) \/ LeaveLoop(w) \/ Repost(w) \/ Pop(w) \/ Wait(w) \/ Resume(w) \/ Finish(w)

OwnerStep == PostExit \/ PostsDone \/ CancelAll \/ FreePool

Next ==
    \/ \E w \in Workers : WorkerStep(w) \/ SpuriousWakeup(w)
    \/ threadpool_push_work
    \/ threadpool_uninit
    \/ OwnerStep

Spec == Init /\ [][Next]_vars

\* Threads that can go on do, jobs return, and the owner ends what it began.
FairSpec == Spec /\ (\A w \in Workers : WF_vars(WorkerStep(w))) /\ WF_vars(OwnerStep)
-----------------------------------------------------------------------------
(* Properties.                                                             *)

\* Every variable has its type; in particular exit_sem is never taken below zero.
TypeOK ==
    /\ queue \in Seq(Jobs) /\ pushed \in 0 .. MaxPush /\ started \in Seq(Jobs)
    /\ pc \in [Workers -> {"top", "token", "exited", "lock", "wait", "woken", "work"}]
    /\ element \in [Workers -> Jobs \cup {0}]
    /\ exit_sem \in Nat /\ posted \in Nat
    /\ owner \in {"up", "post", "clear", "join", "gone"} /\ crashed \in BOOLEAN

\* Jobs are started in the order in which threadpool_push_work accepted them, each
\* once and by one worker, and none is lost: what is not started is in the queue.
StartedInOrder ==
    ~crashed => started \o queue = [i \in 1 .. pushed |-> i]

\* The test "> 64" lets the queue hold one job more than the number says, never two.
QueueBound == Len(queue) <= MaxQueue + 1

\* A worker in uv_cond_wait never misses a job: it sleeps only while the queue is empty.
NoMissedJob == \A w \in Workers : pc[w] = "wait" => queue = <<>>

\* When all tokens are posted, uv_sem_trywait never fails again: the tokens that other
\* workers hold between trywait and post leave one for every worker that looks.  Only
\* workers that are at the mutex or asleep need the broadcast.
ExitSeen ==
    owner \in {"clear", "join", "gone"} =>
        \A w \in Workers : pc[w] = "top" => exit_sem > 0

\* Every accepted job is started, unless the pool is shut down first.
JobsStart ==
    \A n \in 1 .. MaxPush : pushed >= n ~> (Len(started) >= n \/ owner # "up")

\* The comment on the post in thread_func (threadpool.c:62) announces a chain reaction:
\* one token ends every worker.  Then the join, and with it threadpool_uninit, returns.
UninitReturns == (owner = "post") ~> (owner = "gone" \/ crashed)

\* What the mutex, the condition and the tokens amount to: the pool of WorkPool, whose
\* worker is at an item while element.proc runs.
Pool == INSTANCE WorkPool WITH
    Items <- Jobs, NoItem <- 0, waiting <- queue, broken <- crashed,
    doing <- element,
    ended <- {w \in Workers : pc[w] = "exited"},
    phase <- CASE owner \in {"post", "clear"} -> "stopping"
               [] owner = "join" -> "cleared"
               [] OTHER -> owner

\* ThreadPool implements WorkPool: a worker leaves only after the shutdown began and never
\* with an item in its hands, items leave the queue in order and only into a worker's
\* hands or by the clearing, and threadpool_uninit returns after the last worker.
ImplementsPool == Pool!Spec
=============================================================================
