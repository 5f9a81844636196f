------------------------------- MODULE Fiber -------------------------------
(***************************************************************************)
(* wb_server/fiber.cc: stackful coroutines over ucontext.                  *)
(*                                                                         *)
(* A fiber object holds a state, a callback and a saved machine context.   *)
(* The code never looks at a saved context, so what matters is which stack *)
(* it would resume and where on that stack: a context is a record          *)
(* [stack, at].  A thread that loads a context continues on the stack the  *)
(* context was saved from, which need not be the stack of the fiber object *)
(* that stores it.                                                         *)
(*                                                                         *)
(* This module has the objects and the operations of Fiber as actions of a *)
(* thread t; Scheduler.tla is the program that calls them.                 *)
(***************************************************************************)
EXTENDS Naturals, Sequences

CONSTANTS
    Threads,        \* operating system threads
    UserFibers,     \* fibers the program builds itself: new Fiber(cb)
    Cbs,            \* plain callbacks handed to a scheduler
    Null            \* a null pointer, an empty std::function

\* The fiber that stands for a thread's own stack (private constructor).
Main(t) == <<"main", t>>

\* m_root_fiber of the scheduler of thread t, built with use_caller = true.
Root(t) == <<"root", t>>

\* idle_fiber, a local of Scheduler::run on thread t.
Idle(t) == <<"idle", t>>

\* The fiber Scheduler::run builds to run callback c when it has none to reuse.
CbFiber(c) == <<"cb", c>>

CbFibers == {CbFiber(c) : c \in Cbs}
ThreadFibers == UNION {{Main(t), Root(t), Idle(t)} : t \in Threads}
Fibers == UserFibers \cup CbFibers \cup ThreadFibers

\* Fibers that run code of the program (and so may yield, finish or throw).
TaskFibers == UserFibers \cup CbFibers

\* "none": the object has not been constructed yet.
State == {"none", "INIT", "HOLD", "EXEC", "TERM", "READY", "EXCEPT"}

\* m_cb: a callback of Cbs, the fixed body of any other fiber, or empty.
Bodies == Cbs \cup {"body", Null}

\* Where a saved context resumes: a fresh stack made by makecontext, behind the
\* swapcontext of a yield, behind the last swapcontext of MainFunc or
\* CallMainFunc, in the loop of Scheduler::run, or in Scheduler::start.
\* "running": the stack is in use; the bytes left in m_ctx are out of date.
Points == {"entry", "yield", "end", "loop", "start", "running"}
Contexts == [stack : Fibers, at : Points]

ASSUME FiberAssumption ==
    /\ UserFibers \cap CbFibers = {}
    /\ TaskFibers \cap ThreadFibers = {}
    /\ Null \notin Fibers \cup Cbs \cup Threads
    /\ "body" \notin Cbs

VARIABLES
    m_state,    \* Fiber::m_state
    m_cb,       \* Fiber::m_cb
    m_ctx,      \* Fiber::m_ctx
    t_fiber,    \* fiber.cc's thread_local t_fiber: what GetThis() answers
    cpu         \* the fiber on whose stack each thread is really executing

fiberVars == <<m_state, m_cb, m_ctx, t_fiber, cpu>>

FiberTypeOK ==
    /\ m_state \in [Fibers -> State]
    /\ m_cb \in [Fibers -> Bodies]
    /\ m_ctx \in [Fibers -> Contexts]
    /\ t_fiber \in [Threads -> Fibers \cup {Null}]
    /\ cpu \in [Threads -> Fibers]

EntryContext(f) == [stack |-> f, at |-> "entry"]

FiberInit ==
    /\ m_state = [f \in Fibers |-> IF f \in UserFibers THEN "INIT" ELSE "none"]
    /\ m_cb = [f \in Fibers |-> IF f \in CbFibers THEN Null ELSE "body"]
    /\ m_ctx = [f \in Fibers |-> EntryContext(f)]
    /\ t_fiber = [t \in Threads |-> Null]
    /\ cpu = [t \in Threads |-> Main(t)]

-----------------------------------------------------------------------------
(* Construction and reuse.  None of them touches the running thread.       *)

\* Fiber::Fiber(cb): what the constructor makes of object f.
NewFiber(f, body) ==
    /\ m_state' = [m_state EXCEPT ![f] = "INIT"]
    /\ m_cb' = [m_cb EXCEPT ![f] = body]
    /\ m_ctx' = [m_ctx EXCEPT ![f] = EntryContext(f)]

\* The assertion of Fiber::reset (and of the destructor).
Resettable(f) == m_state[f] \in {"TERM", "EXCEPT", "INIT"}

\* Fiber::reset(cb): the same stack, a new callback.
ResetFiber(f, body) ==
    /\ Resettable(f)
    /\ NewFiber(f, body)

Finished(f) == m_state[f] \in {"TERM", "EXCEPT"}

-----------------------------------------------------------------------------
(* Switching.  swapcontext(&save->m_ctx, &load->m_ctx) on thread t stores  *)
(* the stack t runs on in object save and continues on the one in load.    *)

SwapContext(t, save, at, load) ==
    /\ m_ctx' = [m_ctx EXCEPT
                    ![save] = [stack |-> cpu[t], at |-> at],
                    ![load] = [stack |-> m_ctx[load].stack, at |-> "running"]]
    /\ cpu' = [cpu EXCEPT ![t] = m_ctx[load].stack]

\* Fiber::call(): from the thread's own fiber into f; no assertion on m_state.
Call(t, f) ==
    /\ t_fiber' = [t_fiber EXCEPT ![t] = f]
    /\ m_state' = [m_state EXCEPT ![f] = "EXEC"]
    /\ SwapContext(t, Main(t), "start", f)

\* Fiber::back(): from f to the thread's own fiber (t_thread_fiber).
Back(t, f) ==
    /\ t_fiber' = [t_fiber EXCEPT ![t] = Main(t)]
    /\ SwapContext(t, f, "end", Main(t))

\* Mutant: t_scheduler_fiber is not thread_local, so that GetMainFiber() answers
\* one root fiber to all threads.
BugSwapInOneRoot(t, f) ==
    /\ m_state[f] # "EXEC"
    /\ t_fiber' = [t_fiber EXCEPT ![t] = f]
    /\ m_state' = [m_state EXCEPT ![f] = "EXEC"]
    /\ SwapContext(t, Root(CHOOSE u \in Threads : TRUE), "loop", f)

\* Fiber::swap_in(): into f, the caller's context going to
\* Scheduler::GetMainFiber(), which is the root fiber of t's scheduler.
SwapIn(t, f) ==
    /\ m_state[f] # "EXEC"
    /\ t_fiber' = [t_fiber EXCEPT ![t] = f]
    /\ m_state' = [m_state EXCEPT ![f] = "EXEC"]
    /\ SwapContext(t, Root(t), "loop", f)

\* Mutant: swap_out() forgets SetThis().
BugSwapOutKeepsThis(t, f, at) ==
    UNCHANGED t_fiber /\ SwapContext(t, f, at, Root(t))

\* Fiber::swap_out(): from f back to Scheduler::GetMainFiber().
SwapOut(t, f, at) ==
    /\ t_fiber' = [t_fiber EXCEPT ![t] = Root(t)]
    /\ SwapContext(t, f, at, Root(t))

\* The first half of YieldToReady and YeidToHold: mark the current fiber, the
\* one GetThis() answers.  The switch is the second half (SwapOut).
MarkCurrent(t, state) ==
    /\ m_state' = [m_state EXCEPT ![t_fiber[t]] = state]
    /\ UNCHANGED <<m_cb, m_ctx, t_fiber, cpu>>

\* MainFunc and CallMainFunc when m_cb() returns.
CbReturns(t) ==
    /\ m_cb[cpu[t]] # Null
    /\ m_cb' = [m_cb EXCEPT ![cpu[t]] = Null]
    /\ m_state' = [m_state EXCEPT ![cpu[t]] = "TERM"]
    /\ UNCHANGED <<m_ctx, t_fiber, cpu>>

\* MainFunc when m_cb() throws; calling an empty m_cb throws too
\* (std::bad_function_call).  m_cb is left as it is.
CbThrows(t) ==
    /\ m_state' = [m_state EXCEPT ![cpu[t]] = "EXCEPT"]
    /\ UNCHANGED <<m_cb, m_ctx, t_fiber, cpu>>

=============================================================================
