---------------------------- MODULE CallbackPool ----------------------------
(***************************************************************************)
(* What a caller of Scheduler::scheduler(cb, thread) may rely on, without  *)
(* fibers, stacks and loops: callbacks wait in line at a scheduler, the    *)
(* scheduler takes the first one its thread may run, runs it once, and     *)
(* forgets what still waits when it is destroyed.  The line is the set of  *)
(* those who wait and who of them is ahead of whom.                        *)
(***************************************************************************)
CONSTANTS
    Schedulers,     \* a scheduler has the name of its thread
    Cbs,
    Pins,           \* the threads callers ask for
    AnyThread,
    Null

VARIABLES
    waiting,        \* per scheduler, the callbacks in line and the thread asked for
    ahead,          \* per scheduler, the pairs <<c, d>> with c ahead of d in line
    hand,           \* per scheduler, the callback it has taken and not yet begun
    running         \* the callbacks that have begun and not ended

vars == <<waiting, ahead, hand, running>>

Waiting(s) == {e.cb : e \in waiting[s]}

Init ==
    /\ waiting = [s \in Schedulers |-> {}]
    /\ ahead = [s \in Schedulers |-> {}]
    /\ hand = [s \in Schedulers |-> Null]
    /\ running = {}

Submit(s, c, thr) ==
    /\ \A x \in Schedulers : c \notin Waiting(x) /\ hand[x] # c
    /\ c \notin running
    /\ waiting' = [waiting EXCEPT ![s] = @ \cup {[cb |-> c, thread |-> thr]}]
    /\ ahead' = [ahead EXCEPT ![s] = @ \cup (Waiting(s) \X {c})]
    /\ UNCHANGED <<hand, running>>

MayRun(s, e) == e.thread \in {AnyThread, s}

\* Those who asked for another thread are passed over.
Take(s) ==
    /\ hand[s] = Null
    /\ \E e \in waiting[s] :
          /\ MayRun(s, e)
          /\ \A d \in waiting[s] : <<d.cb, e.cb>> \in ahead[s] => ~MayRun(s, d)
          /\ hand' = [hand EXCEPT ![s] = e.cb]
          /\ waiting' = [waiting EXCEPT ![s] = @ \ {e}]
          /\ ahead' = [ahead EXCEPT ![s] = {p \in @ : p[1] # e.cb /\ p[2] # e.cb}]
    /\ UNCHANGED running

Begin(s) ==
    /\ hand[s] # Null
    /\ running' = running \cup {hand[s]}
    /\ hand' = [hand EXCEPT ![s] = Null]
    /\ UNCHANGED <<waiting, ahead>>

End(c) ==
    /\ c \in running
    /\ running' = running \ {c}
    /\ UNCHANGED <<waiting, ahead, hand>>

\* The scheduler is destroyed.
Discard(s) ==
    /\ hand[s] = Null
    /\ waiting' = [waiting EXCEPT ![s] = {}]
    /\ ahead' = [ahead EXCEPT ![s] = {}]
    /\ UNCHANGED <<hand, running>>

Next ==
    \/ \E s \in Schedulers :
          \/ \E c \in Cbs, thr \in Pins : Submit(s, c, thr)
          \/ Take(s) \/ Begin(s) \/ Discard(s)
    \/ \E c \in Cbs : End(c)

Spec == Init /\ [][Next]_vars
=============================================================================
