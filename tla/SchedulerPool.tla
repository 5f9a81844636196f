---------------------------- MODULE SchedulerPool ----------------------------
(***************************************************************************)
(* A scheduler is a pool of callbacks: what of its queue, its loop and its *)
(* fibers stands for the line, the hand and the running callbacks of       *)
(* CallbackPool.  No history variable is used.                             *)
(***************************************************************************)
EXTENDS Scheduler

\* The callbacks of a queue; fibers wait in the same queue, in between.
LineOf(q) == {[cb |-> e.cb, thread |-> e.thread] : e \in {e \in ToSet(q) : e.cb # Null}}

AheadIn(q) ==
    {p \in Cbs \X Cbs : \E i, j \in DOMAIN q : i < j /\ q[i].cb = p[1] /\ q[j].cb = p[2]}

\* A callback is in hand from the scan of the queue, in ft, to the switch, in the
\* fiber that is to run it.
HandOf(s) ==
    IF pc[s] = "picked" /\ HasCb(s) THEN ft[s].cb
    ELSE IF pc[s] = "swap" /\ branch[s] = "cb" THEN m_cb[cb_fiber[s]] ELSE Null

\* It runs from the first switch to its fiber until it returns or throws.
Begun(f) == m_state[f] \in {"EXEC", "READY", "HOLD"}

PoolWaiting == [s \in Threads |-> LineOf(m_fibers[s])]
PoolAhead == [s \in Threads |-> AheadIn(m_fibers[s])]
PoolHand == [s \in Threads |-> HandOf(s)]
PoolRunning == {c \in Cbs : \E f \in CbFibers : m_cb[f] = c /\ Begun(f)}

Pool == INSTANCE CallbackPool WITH
    Schedulers <- Threads, waiting <- PoolWaiting, ahead <- PoolAhead,
    hand <- PoolHand, running <- PoolRunning

\* The scheduler implements the pool: callbacks begin in the order in which they
\* were scheduled, those for other threads passed over, each once, whatever the
\* fibers in the same queue do, how often callbacks yield, hold and are woken, and
\* which fibers are used again for them (scheduler.h:32-97, scheduler.cc:99-190).
ImplementsPool == Pool!Spec
=============================================================================
