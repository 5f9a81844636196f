----------------------------- MODULE Scheduler -----------------------------
(***************************************************************************)
(* wb_server/scheduler.h and scheduler.cc, over the fibers of Fiber.tla.   *)
(*                                                                         *)
(* Thread s constructs at most one scheduler, also called s.  Its loop,    *)
(* Scheduler::run, executes on the root fiber of s, inside start(); the    *)
(* actions below follow its program counter pc[s].  Everything under       *)
(* m_mutex is one action, so are the two halves of a context switch:       *)
(* marking the fiber, and swapcontext.  Any thread may call scheduler() at *)
(* any time: the actions Schedule* are those callers.                      *)
(***************************************************************************)
EXTENDS Fiber, FiniteSets, SequencesExt

CONSTANTS
    AnyThread,      \* thread = -1: the entry is for whoever comes first
    Pins,           \* the thread arguments callers pass: any thread ids, or AnyThread
    Configs,        \* the <<threads, use_caller>> the constructor is called with
    MaxWakes,       \* bound: calls scheduler(fiber)
    MaxYields,      \* bound: calls YieldToReady
    MaxStarts,      \* bound: calls start() per scheduler
    StaleWakes,     \* may a caller schedule a fiber that will not hold for it?
    HandOff         \* may any thread give a fiber to another scheduler?

ASSUME SchedulerAssumption ==
    /\ AnyThread \notin Threads
    /\ Configs \subseteq Nat \X BOOLEAN
    /\ {MaxWakes, MaxYields, MaxStarts} \subseteq Nat
    /\ {StaleWakes, HandOff} \subseteq BOOLEAN

VARIABLES
    pc,                     \* what thread s is doing with its scheduler
    m_fibers,               \* the queue
    m_stoping, m_auto_stop,
    m_active,               \* m_active_thread_count
    m_idle,                 \* m_idle_thread_count
    m_thread_count,
    hasRoot,                \* m_root_fiber is set (use_caller)
    ft,                     \* run's local ft
    cb_fiber,               \* run's local cb_fiber
    branch,                 \* the branch of run's loop that swapped in
    crash,                  \* why the process died, "none" while it lives
    \* history, read by guards of callers, bounds and properties only
    home,                   \* the scheduler each fiber was last given to
    submitted,              \* per scheduler, the callbacks in calling order
    early,                  \* per scheduler, the callbacks queued when start() began
    began,                  \* per scheduler, the callbacks in the order they were entered
    ended,                  \* callbacks that returned or threw
    wakes, yields, starts   \* counters behind the bounds

queueVars == <<m_fibers, home, submitted, wakes>>
flagVars == <<m_stoping, m_auto_stop, m_thread_count, hasRoot, starts, early>>
countVars == <<m_active, m_idle>>
loopVars == <<ft, cb_fiber, branch>>
taskVars == <<began, ended, yields>>
schedVars == <<pc, crash, queueVars, flagVars, countVars, loopVars, taskVars>>
vars == <<fiberVars, schedVars>>

Entry == [fiber : TaskFibers \cup {Null}, cb : Cbs \cup {Null},
          thread : Pins \cup {AnyThread}]
NoEntry == [fiber |-> Null, cb |-> Null, thread |-> AnyThread]
FiberEntry(f, thr) == [fiber |-> f, cb |-> Null, thread |-> thr]
CbEntry(c, thr) == [fiber |-> Null, cb |-> c, thread |-> thr]

LoopPcs == {"prologue", "fetch", "picked", "swap", "task", "yielding", "ending",
            "after", "requeue", "settle", "sethold", "back"}
Pcs == {"absent", "out", "gone"} \cup LoopPcs

QueueTypeOK ==
    /\ m_fibers \in [Threads -> Seq(Entry)]
    /\ home \in [TaskFibers -> Threads \cup {Null}]
    /\ submitted \in [Threads -> Seq(Cbs)]
    /\ wakes \in Nat

FlagTypeOK ==
    /\ m_stoping \in [Threads -> BOOLEAN]
    /\ m_auto_stop \in [Threads -> BOOLEAN]
    /\ m_thread_count \in [Threads -> Nat]
    /\ hasRoot \in [Threads -> BOOLEAN]
    /\ starts \in [Threads -> Nat]
    /\ early \in [Threads -> SUBSET Cbs]

LoopTypeOK ==
    /\ pc \in [Threads -> Pcs]
    /\ crash \in {"none", "vector", "never_reach", "corrupt", "assert", "not_stopped"}
    /\ m_active \in [Threads -> Nat]
    /\ m_idle \in [Threads -> Nat]
    /\ ft \in [Threads -> Entry]
    /\ cb_fiber \in [Threads -> CbFibers \cup {Null}]
    /\ branch \in [Threads -> {"none", "fiber", "cb", "idle"}]

TaskTypeOK ==
    /\ began \in [Threads -> Seq(Cbs)]
    /\ ended \in SUBSET Cbs
    /\ yields \in Nat

TypeOK == FiberTypeOK /\ QueueTypeOK /\ FlagTypeOK /\ LoopTypeOK /\ TaskTypeOK

Init ==
    /\ FiberInit
    /\ pc = [s \in Threads |-> "absent"]
    /\ m_fibers = [s \in Threads |-> <<>>]
    /\ m_stoping = [s \in Threads |-> TRUE]
    /\ m_auto_stop = [s \in Threads |-> FALSE]
    /\ m_active = [s \in Threads |-> 0]
    /\ m_idle = [s \in Threads |-> 0]
    /\ m_thread_count = [s \in Threads |-> 0]
    /\ hasRoot = [s \in Threads |-> FALSE]
    /\ ft = [s \in Threads |-> NoEntry]
    /\ cb_fiber = [s \in Threads |-> Null]
    /\ branch = [s \in Threads |-> "none"]
    /\ crash = "none"
    /\ home = [f \in TaskFibers |-> Null]
    /\ submitted = [s \in Threads |-> <<>>]
    /\ early = [s \in Threads |-> {}]
    /\ began = [s \in Threads |-> <<>>]
    /\ ended = {}
    /\ wakes = 0 /\ yields = 0
    /\ starts = [s \in Threads |-> 0]

\* The process is alive; an assertion that fails, or a fault, ends it.
Up == crash = "none"
Die(why) == Up /\ crash' = why

Goto(s, from, to) == Up /\ pc[s] = from /\ pc' = [pc EXCEPT ![s] = to]

Alive(s) == pc[s] \notin {"absent", "gone"}
QueuedFibers(s) == {e.fiber : e \in ToSet(m_fibers[s])}
Queued(f) == \E s \in Threads : f \in QueuedFibers(s)
Submitted(c) == \E s \in Threads : c \in ToSet(submitted[s])

\* The thread runs code of the program on fiber f.
Running(s, f) == pc[s] = "task" /\ cpu[s] = f /\ f \in TaskFibers

\* GetThis(): the thread_local t_scheduler of thread t, set by the constructor
\* and again by set_this(), cleared by the destructor.
GetThis(t) == IF Alive(t) /\ hasRoot[t] THEN t ELSE Null

-----------------------------------------------------------------------------
(* Construction, start(), stop() and destruction, by the thread's own code. *)

\* Scheduler(threads, use_caller).  The assertion threads > 0 is the caller's.
Construct(s, threads, use_caller) ==
    /\ Goto(s, "absent", "out")
    /\ threads > 0
    /\ hasRoot' = [hasRoot EXCEPT ![s] = use_caller]
    /\ m_thread_count' =
           [m_thread_count EXCEPT ![s] = IF use_caller THEN threads - 1 ELSE threads]
    /\ \/ /\ use_caller
          /\ m_state' = [m_state EXCEPT ![Main(s)] = "EXEC", ![Root(s)] = "INIT"]
          /\ t_fiber' = [t_fiber EXCEPT ![s] = Main(s)]
       \/ /\ ~use_caller
          /\ UNCHANGED <<m_state, t_fiber>>
    /\ UNCHANGED <<m_cb, m_ctx, cpu, crash, queueVars, m_stoping, m_auto_stop,
                   starts, early, countVars, loopVars, taskVars>>

\* The callbacks of the queue that thread s may run.
QueuedFor(s) ==
    {e.cb : e \in {x \in ToSet(m_fibers[s]) : x.thread \in {AnyThread, s}}} \ {Null}

\* start() on a scheduler that is already started: returns under the lock.
StartAgain(s) ==
    /\ Up /\ pc[s] = "out"
    /\ starts[s] < MaxStarts
    /\ ~m_stoping[s]
    /\ starts' = [starts EXCEPT ![s] = @ + 1]
    /\ UNCHANGED <<fiberVars, pc, crash, queueVars, m_stoping, m_auto_stop,
                   m_thread_count, hasRoot, early, countVars, loopVars, taskVars>>

BeginStart(s) ==
    /\ starts[s] < MaxStarts
    /\ m_stoping[s]
    /\ starts' = [starts EXCEPT ![s] = @ + 1]
    /\ m_stoping' = [m_stoping EXCEPT ![s] = FALSE]
    /\ early' = [early EXCEPT ![s] = QueuedFor(s)]
    /\ UNCHANGED <<queueVars, m_auto_stop, m_thread_count, hasRoot, countVars,
                   loopVars, taskVars>>

\* start() enters the root fiber for the first time.
Start(s) ==
    /\ Goto(s, "out", "prologue")
    /\ BeginStart(s)
    /\ m_thread_count[s] = 0 /\ hasRoot[s]
    /\ m_ctx[Root(s)].at = "entry"
    /\ Call(s, Root(s))
    /\ UNCHANGED <<m_cb, crash>>

\* start() with worker threads to make: m_threads is empty and m_threads[0] is
\* dereferenced.
StartWorkers(s) ==
    /\ pc[s] = "out"
    /\ BeginStart(s)
    /\ m_thread_count[s] > 0
    /\ Die("vector")
    /\ UNCHANGED <<fiberVars, pc>>

\* start() after the root fiber ended: call() resumes it behind its last
\* swapcontext, at the assertion "never reach" of CallMainFunc.
Restart(s) ==
    /\ pc[s] = "out"
    /\ BeginStart(s)
    /\ m_thread_count[s] = 0 /\ hasRoot[s]
    /\ m_ctx[Root(s)].at = "end"
    /\ Die("never_reach")
    /\ UNCHANGED <<fiberVars, pc>>

\* stop(), called on thread t outside any scheduler code.  The early return and
\* the full path set the same flags; only the full path asserts whose thread
\* this is, and callers that fail that assertion are left out.
EarlyReturn(s) ==
    /\ hasRoot[s] /\ m_thread_count[s] = 0
    /\ m_state[Root(s)] \in {"TERM", "INIT"}
    /\ m_fibers[s] = <<>> /\ m_active[s] = 0

Stop(s, t) ==
    /\ Up /\ Alive(s)
    /\ pc[t] \in {"absent", "out"} \/ Running(t, cpu[t])
    /\ EarlyReturn(s) \/ (hasRoot[s] <=> GetThis(t) = s)
    /\ m_auto_stop' = [m_auto_stop EXCEPT ![s] = TRUE]
    /\ m_stoping' = [m_stoping EXCEPT ![s] = TRUE]
    /\ UNCHANGED <<fiberVars, pc, crash, queueVars, m_thread_count, hasRoot,
                   starts, early, countVars, loopVars, taskVars>>

\* ~Scheduler(): the queue dies with the object.
Destroy(s) ==
    /\ Goto(s, "out", "gone")
    /\ m_stoping[s]
    /\ m_fibers' = [m_fibers EXCEPT ![s] = <<>>]
    /\ UNCHANGED <<fiberVars, crash, home, submitted, wakes, flagVars, countVars,
                   loopVars, taskVars>>

\* ~Scheduler() asserts m_stoping: no start() without a stop() after it.
DestroyAborts(s) ==
    /\ pc[s] = "out"
    /\ ~m_stoping[s]
    /\ Die("not_stopped")
    /\ UNCHANGED <<fiberVars, pc, queueVars, flagVars, countVars, loopVars, taskVars>>

-----------------------------------------------------------------------------
(* scheduler(fc, thread): any thread, at any time, under m_mutex.           *)

\* May a caller schedule f on s?  With StaleWakes = FALSE callers keep to the
\* protocol of a wake-up: f is unfinished, not already queued, not about to be
\* requeued, and (see MayLeave) f answers a pending wake-up with YeidToHold.  A
\* callback's fiber is known to others only while it executes or holds.
\* With HandOff = FALSE a fiber goes to another scheduler only by code of the
\* thread it was at, which is not inside a switch of that fiber while it calls.
AtRest(t, f) ==
    /\ t \in Threads
    /\ pc[t] \in {"out", "gone"} \/ (Running(t, cpu[t]) /\ cpu[t] # f)

MayWake(s, f) ==
    /\ m_state[f] # "none"
    /\ \/ StaleWakes
       \/ /\ ~Queued(f)
          /\ m_state[f] \in {"HOLD", "EXEC"} \cup IF f \in UserFibers THEN {"INIT"} ELSE {}
    /\ HandOff \/ home[f] \in {Null, s} \/ AtRest(home[f], f)

\* A running fiber with a wake-up pending may only hold.
MayLeave(f) == StaleWakes \/ ~Queued(f)

ScheduleFiber(s, f, thr) ==
    /\ Up /\ Alive(s)
    /\ wakes < MaxWakes
    /\ MayWake(s, f)
    /\ m_fibers' = [m_fibers EXCEPT ![s] = Append(@, FiberEntry(f, thr))]
    /\ home' = [home EXCEPT ![f] = s]
    /\ wakes' = wakes + 1
    /\ UNCHANGED <<fiberVars, pc, crash, submitted, flagVars, countVars, loopVars, taskVars>>

\* Mutant: push_front instead of push_back.
BugScheduleCbFront(s, c, thr) ==
    /\ Up /\ Alive(s)
    /\ ~Submitted(c)
    /\ m_fibers' = [m_fibers EXCEPT ![s] = <<CbEntry(c, thr)>> \o @]
    /\ submitted' = [submitted EXCEPT ![s] = Append(@, c)]
    /\ UNCHANGED <<fiberVars, pc, crash, home, wakes, flagVars, countVars, loopVars, taskVars>>

ScheduleCb(s, c, thr) ==
    /\ Up /\ Alive(s)
    /\ ~Submitted(c)
    /\ m_fibers' = [m_fibers EXCEPT ![s] = Append(@, CbEntry(c, thr))]
    /\ submitted' = [submitted EXCEPT ![s] = Append(@, c)]
    /\ UNCHANGED <<fiberVars, pc, crash, home, wakes, flagVars, countVars, loopVars, taskVars>>

-----------------------------------------------------------------------------
(* Scheduler::run, on the root fiber of thread s.                          *)

\* set_this() and the construction of idle_fiber; ft and cb_fiber start empty.
Prologue(s) ==
    /\ Goto(s, "prologue", "fetch")
    /\ NewFiber(Idle(s), "body")
    /\ UNCHANGED <<t_fiber, cpu, crash, queueVars, flagVars, countVars, loopVars, taskVars>>

\* Mutant: the scan forgets that -1 stands for any thread.
BugRunnablePinnedOnly(s, e) ==
    /\ e.thread = s
    /\ e.fiber # Null => m_state[e.fiber] # "EXEC"

\* An entry the scan does not step over.
Runnable(s, e) ==
    /\ e.thread \in {AnyThread, s}
    /\ e.fiber # Null => m_state[e.fiber] # "EXEC"

\* Mutant: ft = *it without the erase.
BugFetchKeepsEntry(s) ==
    /\ Goto(s, "fetch", "picked")
    /\ \E i \in DOMAIN m_fibers[s] :
         /\ Runnable(s, m_fibers[s][i])
         /\ \A j \in 1..(i - 1) : ~Runnable(s, m_fibers[s][j])
         /\ ft' = [ft EXCEPT ![s] = m_fibers[s][i]]
    /\ UNCHANGED <<fiberVars, crash, queueVars, flagVars, countVars, cb_fiber, branch, taskVars>>

\* The scan of the queue under m_mutex: the first runnable entry leaves it.
Fetch(s) ==
    /\ Goto(s, "fetch", "picked")
    /\ \E i \in DOMAIN m_fibers[s] :
         /\ Runnable(s, m_fibers[s][i])
         /\ \A j \in 1..(i - 1) : ~Runnable(s, m_fibers[s][j])
         /\ ft' = [ft EXCEPT ![s] = m_fibers[s][i]]
         /\ m_fibers' = [m_fibers EXCEPT ![s] = RemoveAt(@, i)]
    /\ UNCHANGED <<fiberVars, crash, home, submitted, wakes, flagVars, countVars,
                   cb_fiber, branch, taskVars>>

FetchNothing(s) ==
    /\ Goto(s, "fetch", "picked")
    /\ \A i \in DOMAIN m_fibers[s] : ~Runnable(s, m_fibers[s][i])
    /\ ft' = [ft EXCEPT ![s] = NoEntry]
    /\ UNCHANGED <<fiberVars, crash, queueVars, flagVars, countVars, cb_fiber,
                   branch, taskVars>>

HasFiber(s) == ft[s].fiber # Null /\ ~Finished(ft[s].fiber)
HasCb(s) == ~HasFiber(s) /\ ft[s].cb # Null

\* Mutant: the branch forgets ++m_active_thread_count.
BugDispatchCbUncounted(s) ==
    /\ Goto(s, "picked", "swap")
    /\ HasCb(s)
    /\ cb_fiber[s] = Null
    /\ NewFiber(CbFiber(ft[s].cb), ft[s].cb)
    /\ cb_fiber' = [cb_fiber EXCEPT ![s] = CbFiber(ft[s].cb)]
    /\ home' = [home EXCEPT ![CbFiber(ft[s].cb)] = s]
    /\ ft' = [ft EXCEPT ![s] = NoEntry]
    /\ branch' = [branch EXCEPT ![s] = "cb"]
    /\ UNCHANGED <<t_fiber, cpu, crash, m_fibers, submitted, wakes, flagVars,
                   countVars, taskVars>>

\* if (ft.fiber && its state is neither TERM nor EXCEPT)
DispatchFiber(s) ==
    /\ Goto(s, "picked", "swap")
    /\ HasFiber(s)
    /\ branch' = [branch EXCEPT ![s] = "fiber"]
    /\ m_active' = [m_active EXCEPT ![s] = @ + 1]
    /\ UNCHANGED <<fiberVars, crash, queueVars, flagVars, m_idle, ft, cb_fiber, taskVars>>

\* else if (ft.cb), with or without a cb_fiber to reuse
DispatchCb(s) ==
    /\ Goto(s, "picked", "swap")
    /\ HasCb(s)
    /\ \/ /\ cb_fiber[s] # Null
          /\ ResetFiber(cb_fiber[s], ft[s].cb)
          /\ UNCHANGED <<cb_fiber, home>>
       \/ /\ cb_fiber[s] = Null
          /\ NewFiber(CbFiber(ft[s].cb), ft[s].cb)
          /\ cb_fiber' = [cb_fiber EXCEPT ![s] = CbFiber(ft[s].cb)]
          /\ home' = [home EXCEPT ![CbFiber(ft[s].cb)] = s]
    /\ ft' = [ft EXCEPT ![s] = NoEntry]
    /\ branch' = [branch EXCEPT ![s] = "cb"]
    /\ m_active' = [m_active EXCEPT ![s] = @ + 1]
    /\ UNCHANGED <<t_fiber, cpu, crash, m_fibers, submitted, wakes, flagVars,
                   m_idle, taskVars>>

\* The loop is about to reset the callback fiber: for the next callback, or
\* because the last one ended.  Fiber::reset asserts that it is not under way.
ResetDue(s) == (pc[s] = "picked" /\ HasCb(s)) \/ (pc[s] = "settle" /\ branch[s] = "cb")

ResetAborts(s) ==
    /\ ResetDue(s)
    /\ cb_fiber[s] # Null /\ ~Resettable(cb_fiber[s])
    /\ Die("assert")
    /\ UNCHANGED <<fiberVars, pc, queueVars, flagVars, countVars, loopVars, taskVars>>

\* else: nothing to run, or an entry for a fiber that has finished.
DispatchIdle(s) ==
    /\ Goto(s, "picked", "swap")
    /\ ~HasFiber(s) /\ ~HasCb(s)
    /\ m_state[Idle(s)] # "TERM"
    /\ branch' = [branch EXCEPT ![s] = "idle"]
    /\ m_idle' = [m_idle EXCEPT ![s] = @ + 1]
    /\ UNCHANGED <<fiberVars, crash, queueVars, flagVars, m_active, ft, cb_fiber, taskVars>>

\* The idle fiber has ended: run() returns to CallMainFunc, dropping its locals.
Break(s) ==
    /\ Goto(s, "picked", "back")
    /\ ~HasFiber(s) /\ ~HasCb(s)
    /\ m_state[Idle(s)] = "TERM"
    /\ CbReturns(s)
    /\ ft' = [ft EXCEPT ![s] = NoEntry]
    /\ cb_fiber' = [cb_fiber EXCEPT ![s] = Null]
    /\ branch' = [branch EXCEPT ![s] = "none"]
    /\ UNCHANGED <<crash, queueVars, flagVars, countVars, taskVars>>

\* CallMainFunc's back(): start() returns on the thread's own stack.
BackToStart(s) ==
    /\ Goto(s, "back", "out")
    /\ Back(s, cpu[s])
    /\ UNCHANGED <<m_state, m_cb, crash, queueVars, flagVars, countVars, loopVars, taskVars>>

\* The fiber the current branch of the loop swaps to.
Target(s) ==
    IF branch[s] = "fiber" THEN ft[s].fiber
    ELSE IF branch[s] = "cb" THEN cb_fiber[s] ELSE Idle(s)

\* swap_in() of that fiber, onto a fresh stack or behind its last yield.
SwapInTarget(s) ==
    /\ Goto(s, "swap", "task")
    /\ m_ctx[Target(s)].at \in {"entry", "yield"}
    /\ SwapIn(s, Target(s))
    /\ began' = IF m_ctx[Target(s)].at = "entry" /\ m_cb[Target(s)] \in Cbs
                THEN [began EXCEPT ![s] = Append(@, m_cb[Target(s)])] ELSE began
    /\ UNCHANGED <<m_cb, crash, queueVars, flagVars, countVars, loopVars, ended, yields>>

\* swap_in() that cannot work: the fiber is executing elsewhere (asserted), has
\* ended ("never reach"), or has not been switched out of yet, so that the
\* context loaded is out of date (undefined; one outcome stands for all).
SwapInAborts(s) ==
    /\ pc[s] = "swap"
    /\ \/ m_state[Target(s)] = "EXEC" /\ Die("assert")
       \/ /\ m_state[Target(s)] # "EXEC"
          /\ \/ m_ctx[Target(s)].at = "end" /\ Die("never_reach")
             \/ m_ctx[Target(s)].at = "running" /\ Die("corrupt")
    /\ UNCHANGED <<fiberVars, pc, queueVars, flagVars, countVars, loopVars, taskVars>>

-----------------------------------------------------------------------------
(* What the code on a fiber does with the thread.                          *)

\* Fiber::YieldToReady and YeidToHold, up to the switch.
YieldToReady(s) ==
    /\ Goto(s, "task", "yielding")
    /\ Running(s, cpu[s])
    /\ m_cb[cpu[s]] # Null
    /\ MayLeave(cpu[s])
    /\ yields < MaxYields
    /\ MarkCurrent(s, "READY")
    /\ yields' = yields + 1
    /\ UNCHANGED <<crash, queueVars, flagVars, countVars, loopVars, began, ended>>

YeidToHold(s) ==
    /\ Goto(s, "task", "yielding")
    /\ Running(s, cpu[s])
    /\ m_cb[cpu[s]] # Null
    /\ MarkCurrent(s, "HOLD")
    /\ UNCHANGED <<crash, queueVars, flagVars, countVars, loopVars, taskVars>>

\* Mutant: idle() yields for ever, as in the lines commented out in it.
BugIdleYields(s) ==
    /\ Goto(s, "task", "yielding")
    /\ cpu[s] = Idle(s)
    /\ MarkCurrent(s, "HOLD")
    /\ UNCHANGED <<crash, queueVars, flagVars, countVars, loopVars, taskVars>>

\* The function returns: a task's, or Scheduler::idle, which does nothing else.
FnReturns(s) ==
    /\ Goto(s, "task", "ending")
    /\ cpu[s] = Idle(s) \/ MayLeave(cpu[s])
    /\ CbReturns(s)
    /\ ended' = ended \cup ({m_cb[cpu[s]]} \cap Cbs)
    /\ UNCHANGED <<crash, queueVars, flagVars, countVars, loopVars, began, yields>>

FnThrows(s) ==
    /\ Goto(s, "task", "ending")
    /\ Running(s, cpu[s])
    /\ MayLeave(cpu[s])
    /\ CbThrows(s)
    /\ ended' = ended \cup ({m_cb[cpu[s]]} \cap Cbs)
    /\ UNCHANGED <<crash, queueVars, flagVars, countVars, loopVars, began, yields>>

\* The switch back: cur->swap_out() of the yields, raw_ptr->swap_out() of MainFunc.
Leave(s) ==
    /\ \/ Goto(s, "yielding", "after") /\ SwapOut(s, t_fiber[s], "yield")
       \/ Goto(s, "ending", "after") /\ SwapOut(s, cpu[s], "end")
    /\ UNCHANGED <<m_state, m_cb, crash, queueVars, flagVars, countVars, loopVars, taskVars>>

-----------------------------------------------------------------------------
(* Back in the loop.                                                       *)

\* Mutant: the loop does not look for TERM and EXCEPT.
BugVerdictNoEnd(f) == IF m_state[f] = "READY" THEN "requeue" ELSE "sethold"

\* What the loop will do about the state it reads.
Verdict(f) ==
    IF m_state[f] = "READY" THEN "requeue"
    ELSE IF Finished(f) THEN "settle" ELSE "sethold"

After(s) ==
    /\ Goto(s, "after", Verdict(Target(s)))
    /\ \/ /\ branch[s] = "idle"
          /\ m_idle' = [m_idle EXCEPT ![s] = @ - 1]
          /\ UNCHANGED m_active
       \/ /\ branch[s] # "idle"
          /\ m_active' = [m_active EXCEPT ![s] = @ - 1]
          /\ UNCHANGED m_idle
    /\ UNCHANGED <<fiberVars, crash, queueVars, flagVars, loopVars, taskVars>>

\* Mutant: cb_fiber is kept although its callback is not finished.
BugNextRoundKeeps(s, keepCbFiber) ==
    /\ ft' = [ft EXCEPT ![s] = NoEntry]
    /\ branch' = [branch EXCEPT ![s] = "none"]
    /\ UNCHANGED cb_fiber

\* ft.reset(); the callback branch also lets go of a fiber it cannot reuse.
NextRound(s, keepCbFiber) ==
    /\ ft' = [ft EXCEPT ![s] = NoEntry]
    /\ branch' = [branch EXCEPT ![s] = "none"]
    /\ cb_fiber' = IF branch[s] = "cb" /\ ~keepCbFiber
                   THEN [cb_fiber EXCEPT ![s] = Null] ELSE cb_fiber

\* Mutant: a READY fiber is not put back in the queue.
BugRequeueForgets(s) ==
    /\ Goto(s, "requeue", "fetch")
    /\ NextRound(s, FALSE)
    /\ UNCHANGED <<fiberVars, crash, queueVars, flagVars, countVars, taskVars>>

\* READY: scheduler(fiber) puts it at the end of the queue.
Requeue(s) ==
    /\ Goto(s, "requeue", "fetch")
    /\ m_fibers' = [m_fibers EXCEPT ![s] = Append(@, FiberEntry(Target(s), AnyThread))]
    /\ NextRound(s, FALSE)
    /\ UNCHANGED <<fiberVars, crash, home, submitted, wakes, flagVars, countVars, taskVars>>

\* Mutant: the fiber of a finished callback is not reset.
BugSettleNoReset(s) ==
    /\ Goto(s, "settle", "fetch")
    /\ NextRound(s, TRUE)
    /\ UNCHANGED <<fiberVars, crash, queueVars, flagVars, countVars, taskVars>>

\* TERM or EXCEPT: a callback's fiber is reset for the next callback.
Settle(s) ==
    /\ Goto(s, "settle", "fetch")
    /\ \/ /\ branch[s] = "cb"
          /\ ResetFiber(cb_fiber[s], Null)
          /\ UNCHANGED <<t_fiber, cpu>>
       \/ /\ branch[s] # "cb"
          /\ UNCHANGED fiberVars
    /\ NextRound(s, TRUE)
    /\ UNCHANGED <<crash, queueVars, flagVars, countVars, taskVars>>

\* Anything else, EXEC included, is overwritten with HOLD.
SetHold(s) ==
    /\ Goto(s, "sethold", "fetch")
    /\ m_state' = [m_state EXCEPT ![Target(s)] = "HOLD"]
    /\ NextRound(s, FALSE)
    /\ UNCHANGED <<m_cb, m_ctx, t_fiber, cpu, crash, queueVars, flagVars, countVars, taskVars>>

-----------------------------------------------------------------------------

Life(s) ==
    \/ \E cfg \in Configs : Construct(s, cfg[1], cfg[2])
    \/ StartAgain(s) \/ Start(s) \/ StartWorkers(s) \/ Restart(s)
    \/ \E t \in Threads : Stop(s, t)
    \/ Destroy(s) \/ DestroyAborts(s)

Callers(s) ==
    \E thr \in Pins :
        \/ \E f \in TaskFibers : ScheduleFiber(s, f, thr)
        \/ \E c \in Cbs : ScheduleCb(s, c, thr)

Loop(s) ==
    \/ Prologue(s) \/ Fetch(s) \/ FetchNothing(s)
    \/ DispatchFiber(s) \/ DispatchCb(s) \/ ResetAborts(s)
    \/ DispatchIdle(s) \/ Break(s) \/ BackToStart(s)
    \/ SwapInTarget(s) \/ SwapInAborts(s)
    \/ Leave(s) \/ After(s) \/ Requeue(s) \/ Settle(s) \/ SetHold(s)

Task(s) == YieldToReady(s) \/ YeidToHold(s) \/ FnReturns(s) \/ FnThrows(s)

\* The process is dead, or no scheduler is inside start(): the program may end.
Terminated ==
    /\ ~Up \/ \A s \in Threads : pc[s] \notin LoopPcs
    /\ UNCHANGED vars

Next ==
    \/ \E s \in Threads : Life(s) \/ Callers(s) \/ Loop(s) \/ Task(s)
    \/ Terminated

Spec == Init /\ [][Next]_vars

\* The operating system runs every thread, and the code of every fiber goes on.
Fairness == \A s \in Threads : WF_vars(Loop(s)) /\ WF_vars(Task(s))
FairSpec == Spec /\ Fairness

-----------------------------------------------------------------------------
(* Properties.                                                             *)

\* The thread executes on the stack the loop's position calls for, and
\* Fiber::GetThis() answers the fiber that is executing.  swap_in, swap_out,
\* call and back only name fiber objects; which stack a thread lands on is
\* whatever was saved in them (fiber.cc:101-144).
StackOf(s) ==
    IF pc[s] \in {"absent", "out", "gone"} THEN Main(s)
    ELSE IF pc[s] \in {"task", "yielding", "ending"} THEN Target(s) ELSE Root(s)

OnItsStack ==
    \A s \in Threads :
        /\ cpu[s] = StackOf(s)
        /\ Alive(s) /\ hasRoot[s] => t_fiber[s] = cpu[s]

\* What the loop relies on between its steps: a scheduler that loops has a root
\* fiber, a branch that swaps in has something to swap to, and the two counters
\* count exactly the swap_in under way (scheduler.cc:135-187).
InSwap == {"swap", "task", "yielding", "ending", "after"}

LoopShape ==
    \A s \in Threads :
        /\ pc[s] \in LoopPcs => hasRoot[s]
        /\ pc[s] \in InSwap \cup {"requeue", "settle", "sethold"} =>
               /\ branch[s] # "none"
               /\ branch[s] = "fiber" => ft[s].fiber # Null
               /\ branch[s] = "cb" => cb_fiber[s] # Null
        /\ m_active[s] = IF pc[s] \in InSwap /\ branch[s] # "idle" THEN 1 ELSE 0
        /\ m_idle[s] = IF pc[s] \in InSwap /\ branch[s] = "idle" THEN 1 ELSE 0

\* Every saved context resumes the stack of the fiber it is stored in.
OwnContexts == \A f \in Fibers : m_ctx[f].stack = f

\* The idle fiber never yields, so it is never put in the queue.
IdleNeverReady ==
    \A s \in Threads :
        /\ m_state[Idle(s)] # "READY"
        /\ pc[s] = "requeue" => branch[s] # "idle"

\* The inductive invariant behind TypeOK and OnItsStack.
IInv == TypeOK /\ OwnContexts /\ OnItsStack /\ LoopShape /\ IdleNeverReady

\* A fiber that is executing is marked EXEC (fiber.h:25-26), so that no loop
\* takes it from a queue, and no two threads execute on one stack.
ExecutingIsExec ==
    \A s \in Threads :
        /\ pc[s] = "task" => m_state[cpu[s]] = "EXEC"
        /\ \A t \in Threads \ {s} : cpu[s] # cpu[t]

\* A fiber that yielded to READY will run again, once: from the moment it is
\* marked (fiber.cc:160) it is in a queue or in the hands of a loop, exactly once,
\* until it executes (scheduler.cc:142-143).
Carried(f) ==
    {s \in Threads : pc[s] \in {"picked", "swap"} /\ ft[s].fiber = f}
    \cup {s \in Threads : pc[s] \in {"yielding", "after", "requeue"} /\ Target(s) = f}

\* The positions of all queues.
Slots == UNION {{s} \X DOMAIN m_fibers[s] : s \in Threads}
EntryAt(p) == m_fibers[p[1]][p[2]]
Entries(f) == {p \in Slots : EntryAt(p).fiber = f}

ReadyExactlyOnce ==
    \A f \in TaskFibers :
        m_state[f] = "READY" /\ (home[f] # Null => pc[home[f]] # "gone")
            => Cardinality(Entries(f)) + Cardinality(Carried(f)) = 1

\* A callback handed to a scheduler is, until it ends, in exactly one place: the
\* queue, the loop's ft, or the m_cb of the fiber that runs it.  It is neither
\* lost nor run twice (scheduler.cc:127-128, 149-156, 166).
Places(c) ==
    {p \in Slots : EntryAt(p).cb = c}
    \cup {s \in Threads : ft[s].cb = c}
    \cup {f \in CbFibers : m_cb[f] = c /\ m_state[f] # "EXCEPT"}

CallbackConserved ==
    \A s \in Threads : \A c \in ToSet(submitted[s]) :
        pc[s] # "gone" => Cardinality(Places(c)) = IF c \in ended THEN 0 ELSE 1

\* The fiber the loop keeps for the next callback is free when a callback is
\* put on it: reset to INIT with no function, in no queue (scheduler.cc:150-166).
CbFiberIsFree ==
    \A s \in Threads :
        pc[s] \in {"fetch", "picked"} /\ cb_fiber[s] # Null
            => /\ m_state[cb_fiber[s]] = "INIT" /\ m_cb[cb_fiber[s]] = Null
               /\ ~Queued(cb_fiber[s])

\* stopping() never answers yes while a fiber or callback is inside swap_in
\* (scheduler.cc:138-140, 157-159, 196-200).
Stopping(s) == /\ m_auto_stop[s] /\ m_stoping[s]
               /\ m_fibers[s] = <<>> /\ m_active[s] = 0

StoppingMeansNobodyRuns ==
    \A s \in Threads :
        Stopping(s) /\ pc[s] \in {"task", "yielding", "ending"} => cpu[s] = Idle(s)

\* When start() has run its loop, every callback that was queued for this thread
\* before start() has been entered (tests/test_scheduler.cc:15-16).
StartDrains ==
    \A s \in Threads : Up /\ m_state[Root(s)] = "TERM" => early[s] \subseteq ToSet(began[s])

\* The assertions of fiber.cc and scheduler.cc about a fiber's state hold and no
\* context is loaded that is not a saved one.  The process dies of three calls
\* only: start() with worker threads to make (scheduler.cc:56), a second start()
\* after stop() (fiber.cc:225), and the destruction of a scheduler whose start()
\* has returned and that nobody stopped (scheduler.cc:33).
AbortsExplained ==
    /\ crash \in {"none", "vector", "never_reach", "not_stopped"}
    /\ crash = "vector" => \E s \in Threads : m_thread_count[s] > 0 /\ starts[s] > 0
    /\ crash = "never_reach" =>
           \E s \in Threads : starts[s] > 1 /\ m_auto_stop[s] /\ pc[s] = "out"
    /\ crash = "not_stopped" =>
           \E s \in Threads : m_state[Root(s)] = "TERM" /\ ~m_stoping[s] /\ pc[s] = "out"

\* The loop never takes back the end of a fiber the program built: TERM and
\* EXCEPT are final for it (scheduler.cc:144-146 against fiber.cc:185-193).
EndIsFinal ==
    [][\A f \in UserFibers : Finished(f) => m_state'[f] = m_state[f]]_vars

\* start() returns: the loop leaves by its idle branch once the tasks stop
\* yielding and the callers stop scheduling, whatever stays in the queue.
StartReturns == \A s \in Threads : pc[s] = "fetch" ~> (pc[s] = "out" \/ crash # "none")

\* Every callback queued for this thread before start() does begin.
EarlyBegins == \A s \in Threads : \A c \in Cbs :
    c \in early[s] ~> (c \in ToSet(began[s]) \/ crash # "none")

=============================================================================
