------------------------------ MODULE WorkPool ------------------------------
(***************************************************************************)
(* What the users of third/threadpool rely on: a bounded queue of items    *)
(* that workers take in order, one item each, and a shutdown that empties  *)
(* the queue and waits for the workers.  ThreadPool implements it with its *)
(* mutex, condition variable and exit semaphore.  The server loop and the  *)
(* bridge are modelled on top of it.                                       *)
(***************************************************************************)
EXTENDS Naturals, Sequences

CONSTANTS
    Workers,    \* the threads of the pool
    Items,      \* what is pushed
    NoItem,     \* an idle worker
    MaxQueue    \* 64 in the code: a longer queue refuses work

VARIABLES
    waiting,    \* accepted and not taken
    doing,      \* the item each worker is at
    ended,      \* workers that have left thread_func
    phase,      \* "up", "stopping", "cleared", "gone"
    broken      \* the queue was cleared with items in it: after_proc is NULL

poolVars == <<waiting, doing, ended, phase, broken>>

TypeOK ==
    /\ waiting \in Seq(Items)
    /\ doing \in [Workers -> Items \cup {NoItem}]
    /\ ended \subseteq Workers
    /\ phase \in {"up", "stopping", "cleared", "gone"}
    /\ broken \in BOOLEAN

Init ==
    /\ waiting = <<>>
    /\ doing = [w \in Workers |-> NoItem]
    /\ ended = {} /\ phase = "up" /\ broken = FALSE

\* Fault: the queue is one place shorter.
Fault_HasRoom == Len(waiting) < MaxQueue

\* easy_queue_size(tp->queue) > 64 is false.
HasRoom == ~(Len(waiting) > MaxQueue)

\* threadpool_push_work that is not refused.
Push(i) ==
    /\ ~broken /\ phase = "up" /\ HasRoom
    /\ waiting' = Append(waiting, i)
    /\ UNCHANGED <<doing, ended, phase, broken>>

\* A worker takes the item at the head; it may still do so during a shutdown.
Take(w) ==
    /\ ~broken /\ w \notin ended /\ doing[w] = NoItem /\ waiting # <<>>
    /\ doing' = [doing EXCEPT ![w] = Head(waiting)]
    /\ waiting' = Tail(waiting)
    /\ UNCHANGED <<ended, phase, broken>>

\* The work on the item returns.
Done(w) ==
    /\ ~broken /\ doing[w] # NoItem
    /\ doing' = [doing EXCEPT ![w] = NoItem]
    /\ UNCHANGED <<waiting, ended, phase, broken>>

\* threadpool_uninit is called.
Stop ==
    /\ ~broken /\ phase = "up"
    /\ phase' = "stopping"
    /\ UNCHANGED <<waiting, doing, ended, broken>>

\* The queue is emptied; an item in it means a call through NULL.
Clear ==
    /\ ~broken /\ phase = "stopping"
    /\ phase' = "cleared" /\ waiting' = <<>> /\ broken' = (waiting # <<>>)
    /\ UNCHANGED <<doing, ended>>

\* A worker that is at no item leaves.
End(w) ==
    /\ ~broken /\ phase # "up" /\ w \notin ended /\ doing[w] = NoItem
    /\ ended' = ended \cup {w}
    /\ UNCHANGED <<waiting, doing, phase, broken>>

\* All workers have left and threadpool_uninit returns.
Joined ==
    /\ ~broken /\ phase = "cleared" /\ ended = Workers
    /\ phase' = "gone"
    /\ UNCHANGED <<waiting, doing, ended, broken>>

Next ==
    \/ \E i \in Items : Push(i)
    \/ \E w \in Workers : Take(w) \/ Done(w) \/ End(w)
    \/ Stop \/ Clear \/ Joined

Spec == Init /\ [][Next]_poolVars
=============================================================================
