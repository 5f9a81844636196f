---------------------------- MODULE MCScheduler ----------------------------
(* Small instances of Scheduler for TLC.                                   *)
EXTENDS SchedulerPool

CONSTANTS t1, t2, f1, f2, c1, c2

OneThread == {t1}
TwoThreads == {t1, t2}
NoFiber == {}
OneFiber == {f1}
OneCb == {c1}
TwoCbs == {c1, c2}

Anyone == {AnyThread}
\* A pin to the scheduler's own thread and one to a thread that has none.
AnyoneOrT2 == {AnyThread, t2}

\* new Scheduler(): the defaults of scheduler.h:21, the only configuration the
\* built test uses.
CallerOnly == {<<1, TRUE>>}
\* The smallest configurations with and without the caller, with and without
\* worker threads.
AllConfigs == {<<1, TRUE>>, <<2, TRUE>>, <<1, FALSE>>}
=============================================================================
